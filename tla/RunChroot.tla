------------------------------ MODULE RunChroot -----------------------------
(***************************************************************************)
(* _alpm_run_chroot: a hook or scriptlet runs as a child; the parent polls *)
(* two sockets, writes the targets of the hook to one and reads what the   *)
(* child says from the other, both through small buffers.                  *)
(*                                                                         *)
(* Text is a sequence of numbers, with Newline among them.                 *)
(***************************************************************************)
EXTENDS Integers, Sequences, FiniteSets, SequencesExt

CONSTANTS
    WriteLimit,   \* PIPE_BUF, the size of the buffer to the child
    ReadLimit,    \* room in the buffer from the child (LINE_MAX - 2)
    Outputs       \* what a child may say

Newline == 0

ASSUME RunChrootBounds ==
    WriteLimit \in Nat \ {0} /\ ReadLimit \in Nat \ {0} /\ Outputs \subseteq Seq(Nat)

VARIABLES
    proc,    \* "none", "running", "exited", or "done" with the result rc
    rc,      \* what _alpm_run_chroot returns
    feed,    \* the targets not yet copied to obuf, the first perhaps in part
    obuf,    \* bytes on their way to the child
    stdin,   \* "open", "closed", or "fed": closed after the last target
    got,     \* what the child was sent
    says,    \* what the child says
    unread,  \* the part of it the parent has not read
    ibuf,    \* bytes read but not logged
    stdout,  \* whether the parent still reads
    log      \* the lines given to _alpm_chroot_process_output, one after the other

cvars == <<proc, rc, feed, obuf, stdin, got, says, unread, ibuf, stdout, log>>

NoChild ==
    /\ proc = "none" /\ rc = 0 /\ feed = <<>> /\ obuf = <<>> /\ stdin = "closed"
    /\ got = <<>> /\ says = <<>> /\ unread = <<>> /\ ibuf = <<>> /\ stdout = FALSE
    /\ log = <<>>

\* The child is started; targets is <<>> for a hook without NeedsTargets.
Fork(targets, fed) ==
    /\ proc' = "running" /\ rc' = 0
    /\ feed' = targets /\ obuf' = <<>> /\ stdin' = IF fed THEN "open" ELSE "closed"
    /\ got' = <<>> /\ says' \in Outputs /\ unread' = says'
    /\ ibuf' = <<>> /\ stdout' = TRUE /\ log' = <<>>

\* Without a change to the root directory nothing is run and 0 is returned;
\* without sockets or a process 1 is returned.
NotForked ==
    /\ proc' = "done" /\ rc' \in {0, 1}
    /\ UNCHANGED <<feed, obuf, stdin, got, says, unread, ibuf, stdout, log>>

_alpm_run_chroot(targets, fed) == Fork(targets, fed) \/ NotForked

-----------------------------------------------------------------------------
(* To the child                                                            *)

\* _alpm_hook_feed_targets: whole targets while they fit with their newline,
\* then as much of the next one as does.
feed_targets[r \in Nat, pos \in Seq(Seq(Nat))] ==
    IF pos = <<>> \/ r = 0 THEN [text |-> <<>>, pos |-> pos]
    ELSE LET first == Head(pos)
         IN IF Len(first) + 1 <= r
            THEN LET rest == feed_targets[r - (Len(first) + 1), Tail(pos)]
                 IN [text |-> Append(first, Newline) \o rest.text, pos |-> rest.pos]
            ELSE [text |-> SubSeq(first, 1, r),
                  pos |-> <<SubSeq(first, r + 1, Len(first))>> \o Tail(pos)]

_alpm_hook_feed_targets == feed_targets[WriteLimit, feed]

\* The buffer is filled when it is empty; any part of it is sent, or nothing if
\* the socket is full; nothing more is sent to a child that is gone.
_alpm_chroot_write_to_child ==
    /\ proc \in {"running", "exited"} /\ stdin = "open"
    /\ LET more == IF obuf = <<>> THEN _alpm_hook_feed_targets
                   ELSE [text |-> obuf, pos |-> feed]
       IN IF more.text = <<>>
          THEN stdin' = "fed" /\ UNCHANGED <<feed, obuf, got>>
          ELSE /\ feed' = more.pos
               /\ \/ \E n \in 0..Len(more.text) :
                       /\ proc = "running"
                       /\ got' = got \o SubSeq(more.text, 1, n)
                       /\ obuf' = SubSeq(more.text, n + 1, Len(more.text))
                       /\ UNCHANGED stdin
                  \/ /\ proc = "exited" /\ stdin' = "closed" /\ obuf' = more.text
                     /\ UNCHANGED got
    /\ UNCHANGED <<proc, rc, says, unread, ibuf, stdout, log>>

-----------------------------------------------------------------------------
(* From the child                                                          *)

Lines_FirstOnly(buf) ==
    LET ends == {i \in DOMAIN buf : buf[i] = Newline}
        n == IF ends = {} THEN 0 ELSE CHOOSE i \in ends : \A j \in ends : i <= j
    IN [lines |-> SubSeq(buf, 1, n), left |-> SubSeq(buf, n + 1, Len(buf))]

\* The lines that are complete, up to the last newline, and what follows them.
Lines(buf) ==
    LET n == CHOOSE n \in 0..Len(buf) :
               /\ n > 0 => buf[n] = Newline
               /\ \A i \in (n + 1)..Len(buf) : buf[i] # Newline
    IN [lines |-> SubSeq(buf, 1, n), left |-> SubSeq(buf, n + 1, Len(buf))]

\* A line that fills the buffer is logged as if it ended there.  At the end of
\* the output what is left is logged but stays in the buffer.
_alpm_chroot_read_from_child ==
    /\ proc \in {"running", "exited"} /\ stdout
    /\ LET space == ReadLimit - Len(ibuf)
       IN \/ \E n \in 1..space :
               /\ n <= Len(unread)
               /\ LET buf == ibuf \o SubSeq(unread, 1, n)
                      split == Lines(buf)
                      full == split.lines = <<>> /\ n = space
                  IN /\ log' = log \o (IF full THEN Append(buf, Newline) ELSE split.lines)
                     /\ ibuf' = IF full THEN <<>> ELSE split.left
               /\ unread' = SubSeq(unread, n + 1, Len(unread))
               /\ UNCHANGED stdout
          \/ /\ proc = "exited" /\ unread = <<>>
             /\ log' = IF ibuf = <<>> THEN log ELSE log \o Append(ibuf, Newline)
             /\ stdout' = FALSE
             /\ UNCHANGED <<ibuf, unread>>
    /\ UNCHANGED <<proc, rc, feed, obuf, stdin, got, says>>

-----------------------------------------------------------------------------

\* The child ends when it likes, whether or not it has read its input.
ChildExits ==
    /\ proc = "running" /\ proc' = "exited"
    /\ UNCHANGED <<rc, feed, obuf, stdin, got, says, unread, ibuf, stdout, log>>

\* Nothing is left to poll: the rest of the buffer is logged, and the child's
\* exit status decides.
waitpid ==
    /\ proc = "exited" /\ stdin # "open" /\ ~stdout
    /\ proc' = "done" /\ rc' \in {0, 1}
    /\ log' = IF ibuf = <<>> THEN log ELSE log \o Append(ibuf, Newline)
    /\ UNCHANGED <<feed, obuf, stdin, got, says, unread, ibuf, stdout>>

ChildNext ==
    \/ _alpm_chroot_write_to_child \/ _alpm_chroot_read_from_child
    \/ ChildExits \/ waitpid

-----------------------------------------------------------------------------
(* Correctness                                                             *)

\* The place of j among the numbers of S.
Place(j, S) == Cardinality({i \in S : i <= j})

\* The text t is s with newlines added: what is kept of it is s.
WithNewlines(s, t) ==
    \E kept \in SUBSET DOMAIN t :
        /\ Cardinality(kept) = Len(s)
        /\ \A j \in DOMAIN t :
             IF j \in kept THEN t[j] = s[Place(j, kept)] ELSE t[j] = Newline

\* What a child says in lines that end is logged completely, once and in order,
\* however reads split it, with newlines added where a line is longer than the
\* buffer (_alpm_chroot_read_from_child).  The last line is excepted if it does
\* not end: it is logged twice.
OutputLoggedOnce ==
    proc = "done" /\ (says = <<>> \/ Last(says) = Newline) => WithNewlines(says, log)
=============================================================================
