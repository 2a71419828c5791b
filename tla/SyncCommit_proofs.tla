-------------------------- MODULE SyncCommit_proofs --------------------------
(***************************************************************************)
(* Theorems about SyncCommit and the modules it is built from: Download,   *)
(* SyncLoad, Hooks and RunChroot, for any number of files, mirrors,        *)
(* attempts, directories and hooks, and any output of a hook.              *)
(***************************************************************************)
EXTENDS SyncCommit, TLAPS, FiniteSetTheorems, SequenceTheorems

-----------------------------------------------------------------------------
(* Sets of sets, and of numbers                                            *)

\* Of some subsets of a finite set, one contains no other.
LEMMA SmallestSet ==
    ASSUME NEW S, IsFiniteSet(S), NEW T \in SUBSET SUBSET S, T # {}
    PROVE  \E x \in T : \A y \in T : y \subseteq x => y = x
<1>1. T \subseteq FiniteSubsetsOf(S)
  BY FS_Subset DEF FiniteSubsetsOf
<1>2. IsWellFoundedOn(StrictSubsetOrdering(S), FiniteSubsetsOf(S))
  BY FS_StrictSubsetOrderingWellFounded
<1>3. \E x \in T : \A y \in T : ~(<<y, x>> \in StrictSubsetOrdering(S))
  BY <1>1, <1>2, WFMin, Zenon
<1>4. QED  BY <1>1, <1>3 DEF StrictSubsetOrdering, FiniteSubsetsOf

\* Of some numbers up to a bound, one is the smallest and one is the largest.
LEMMA SmallestNumber ==
    ASSUME NEW n \in Nat, NEW S \in SUBSET (1..n), S # {}
    PROVE  \E m \in S : \A i \in S : m <= i
<1> DEFINE N == 1..n
           T == {1..i : i \in S}
<1>1. T \in SUBSET SUBSET N /\ T # {}
  <2>1. \A i \in S : 1..i \subseteq N
    OBVIOUS
  <2>2. QED  BY <2>1
<1>2. IsFiniteSet(N)
  BY FS_Interval
<1>3. PICK x \in T : \A y \in T : y \subseteq x => y = x
  <2> HIDE DEF T, N
  <2>1. QED  BY <1>1, <1>2, SmallestSet
<1>4. PICK m \in S : x = 1..m
  OBVIOUS
<1>5. ASSUME NEW i \in S, i < m PROVE FALSE
  <2>1. 1..i \in T /\ 1..i \subseteq 1..m /\ m \in 1..m /\ m \notin 1..i
    BY <1>5
  <2>2. QED  BY <1>3, <1>4, <2>1
<1>6. QED  BY <1>5

LEMMA LargestNumber ==
    ASSUME NEW n \in Nat, NEW S \in SUBSET (1..n), S # {}
    PROVE  \E m \in S : \A i \in S : m >= i
<1> DEFINE N == 1..n
           T == {i..n : i \in S}
<1>1. T \in SUBSET SUBSET N /\ T # {}
  <2>1. \A i \in S : i..n \subseteq N
    OBVIOUS
  <2>2. QED  BY <2>1
<1>2. IsFiniteSet(N)
  BY FS_Interval
<1>3. PICK x \in T : \A y \in T : y \subseteq x => y = x
  <2> HIDE DEF T, N
  <2>1. QED  BY <1>1, <1>2, SmallestSet
<1>4. PICK m \in S : x = m..n
  OBVIOUS
<1>5. ASSUME NEW i \in S, i > m PROVE FALSE
  <2>1. i..n \in T /\ i..n \subseteq m..n /\ m \in m..n /\ m \notin i..n
    BY <1>5
  <2>2. QED  BY <1>3, <1>4, <2>1
<1>6. QED  BY <1>5

-----------------------------------------------------------------------------
(* Downloads                                                               *)

Chunks == Seq({0, 1, 2})

\* What the mirrors and settings are, and what is in the files.
SettingsInv == mirror \in [Servers -> [Items -> 0..2]] /\ opts \in Opts
DestInv == dest \in [Payloads -> (Chunks \ {<<>>}) \cup {NoFile}]
PartInv == part \in [Payloads -> Chunks \cup {NoFile}]

Idling == [st : {"idle"}]
Loading == [st : {"active"}, server : Servers, servers : Seq(Servers), initial : Nat,
            since : Nat, resume : BOOLEAN, unlink : BOOLEAN, optional : BOOLEAN]

\* The file of a transfer is open, and holds at least what was there before the
\* transfer, which is nothing if the transfer may not resume.
OpenFile(handle, content) ==
    handle.st = "active" =>
        /\ content \in Chunks /\ handle.initial <= Len(content)
        /\ ~handle.resume => handle.initial = 0

LoadInv ==
    /\ load \in [Payloads -> Idling \cup Loading]
    /\ \A p \in Payloads : OpenFile(load[p], part[p])

LEMMA NoFileIsNone == NoFile \notin Chunks
<1>1. 0..2 = {0, 1, 2}
  OBVIOUS
<1>2. QED  BY <1>1, DownloadBounds DEF Chunks

LEMMA UsableServers ==
    ASSUME NEW errs, NEW servers \in Seq(Servers)
    PROVE  Usable(errs, servers) \in Seq(Servers)
<1> DEFINE good == {i \in DOMAIN servers : ~should_skip_server(errs, servers[i])}
           m == CHOOSE i \in good : \A j \in good : i <= j
<1>1. Usable(errs, servers) = IF good = {} THEN <<>> ELSE SubSeq(servers, m, Len(servers))
  BY DEF Usable
<1>2. CASE good = {}
  BY <1>1, <1>2
<1>3. CASE good # {}
  <2>1. good \in SUBSET (1..Len(servers)) /\ Len(servers) \in Nat
    OBVIOUS
  <2>2. \E i \in good : \A j \in good : i <= j
    <3> HIDE DEF good
    <3>1. QED  BY <1>3, <2>1, SmallestNumber
  <2>3. m \in 1..Len(servers)
    BY <2>1, <2>2
  <2>4. \A i \in m..Len(servers) : servers[i] \in Servers
    BY <2>3
  <2>5. QED
    <3> HIDE DEF good, m
    <3>1. QED  BY <1>1, <1>3, <2>3, <2>4, SubSeqProperties
<1>4. QED  BY <1>2, <1>3

LEMMA TruncatedChunks ==
    ASSUME NEW c \in Chunks, NEW n \in Nat, n <= Len(c)
    PROVE  /\ SubSeq(c, 1, n) \in Chunks /\ Len(SubSeq(c, 1, n)) = n
           /\ \A i \in 1..n : SubSeq(c, 1, n)[i] = c[i]
<1>1. \A i \in 1..n : c[i] \in {0, 1, 2}
  BY DEF Chunks
<1>2. QED  BY <1>1, SubSeqProperties DEF Chunks

\* One transfer changes to h and its file to c.
LEMMA OneTransfer ==
    ASSUME LoadInv, PartInv, NEW p \in Payloads, NEW h \in Idling \cup Loading,
           NEW c \in Chunks \cup {NoFile}, OpenFile(h, c),
           load' = [load EXCEPT ![p] = h], part' = [part EXCEPT ![p] = c]
    PROVE  LoadInv' /\ PartInv'
<1>1. PartInv'
  BY DEF PartInv
<1>2. load' \in [Payloads -> Idling \cup Loading]
  BY DEF LoadInv
<1>3. ASSUME NEW q \in Payloads PROVE OpenFile(load'[q], part'[q])
  <2>1. CASE q = p
    BY <2>1 DEF LoadInv, PartInv
  <2>2. CASE q # p
    BY <2>2 DEF LoadInv, PartInv
  <2>3. QED  BY <2>1, <2>2
<1>4. QED  BY <1>1, <1>2, <1>3 DEF LoadInv

IdleHandle == [st |-> "idle"]

LEMMA IdleIsIdle == IdleHandle \in Idling /\ \A c : OpenFile(IdleHandle, c)
BY DEF IdleHandle, Idling, OpenFile

LEMMA GiveUpInv ==
    ASSUME LoadInv, PartInv, NEW p \in Payloads, NEW content \in Chunks,
           NEW unlink, GiveUp(p, content, unlink)
    PROVE  LoadInv' /\ PartInv'
<1> DEFINE c == IF unlink THEN NoFile ELSE content
<1>1. load' = [load EXCEPT ![p] = IdleHandle] /\ part' = [part EXCEPT ![p] = c]
  BY DEF GiveUp, Ended, SetFile, IdleHandle
<1>2. c \in Chunks \cup {NoFile}
  OBVIOUS
<1> HIDE DEF c
<1>3. QED  BY <1>1, <1>2, IdleIsIdle, OneTransfer

LEMMA RetryInv ==
    ASSUME LoadInv, PartInv, NEW p \in Payloads, load[p] \in Loading,
           NEW content \in Chunks, load[p].initial <= Len(content), NEW errs,
           curl_retry_next_server(p, content, errs)
    PROVE  LoadInv' /\ PartInv'
<1> DEFINE servers == Usable(errs, load[p].servers)
           left == IF load[p].resume THEN content ELSE <<>>
           h == [load[p] EXCEPT !.server = Head(servers), !.servers = Tail(servers),
                    !.initial = IF load[p].resume THEN Len(left) ELSE load[p].initial]
<1>1. servers \in Seq(Servers) /\ servers # <<>>
  <2>1. load[p].servers \in Seq(Servers)
    BY DEF Loading
  <2>2. QED  BY <2>1, UsableServers DEF curl_retry_next_server
<1>2. left \in Chunks
  BY DEF Chunks
<1>3. load' = [load EXCEPT ![p] = h] /\ part' = [part EXCEPT ![p] = left]
  BY DEF curl_retry_next_server, SetFile, LoadInv
<1>4. ~load[p].resume => load[p].initial = 0
  BY DEF LoadInv, OpenFile, Loading
<1>5. h \in Loading
  <2>1. Head(servers) \in Servers /\ Tail(servers) \in Seq(Servers)
    BY <1>1
  <2>2. Len(left) \in Nat
    BY <1>2 DEF Chunks
  <2> HIDE DEF servers, left
  <2>3. QED  BY <2>1, <2>2 DEF Loading
<1>6. OpenFile(h, left)
  <2>1. Len(left) \in Nat
    BY <1>2 DEF Chunks
  <2>2. h.initial = (IF load[p].resume THEN Len(left) ELSE 0) /\ h.resume = load[p].resume
    BY <1>4 DEF Loading
  <2> HIDE DEF left, h
  <2>3. QED  BY <1>2, <2>1, <2>2 DEF OpenFile
<1> HIDE DEF left, h
<1>7. QED  BY <1>2, <1>3, <1>5, <1>6, OneTransfer

LEMMA RetryOrGiveUpInv ==
    ASSUME LoadInv, PartInv, NEW p \in Payloads, load[p] \in Loading,
           NEW content \in Chunks, load[p].initial <= Len(content), NEW unlink,
           RetryOrGiveUp(p, content, unlink)
    PROVE  LoadInv' /\ PartInv'
<1>1. CASE \E errs : curl_retry_next_server(p, content, errs)
  BY <1>1, RetryInv
<1>2. CASE GiveUp(p, content, unlink)
  BY <1>2, GiveUpInv
<1>3. QED  BY <1>1, <1>2 DEF RetryOrGiveUp

\* A transfer that has just been opened.
LEMMA OpenedInv ==
    ASSUME SettingsInv, DestInv, PartInv, NEW p \in Payloads, NEW server \in Servers,
           NEW rest \in Seq(Servers), NEW resume \in BOOLEAN, NEW unlink \in BOOLEAN,
           NEW optional \in BOOLEAN
    PROVE  LET h == Opened(p, server, rest, resume, unlink, optional)
           IN /\ h \in Loading /\ OpenPart(p, resume) \in Chunks
              /\ OpenFile(h, OpenPart(p, resume))
              /\ ~resume => OpenPart(p, resume) = <<>>
<1> DEFINE h == Opened(p, server, rest, resume, unlink, optional)
<1>1. Resumes(p, resume) => resume /\ part[p] \in Chunks
  BY DEF Resumes, Present, PartInv
<1>2. OpenPart(p, resume) \in Chunks
  BY <1>1 DEF OpenPart, Chunks
<1>3. ~resume => OpenPart(p, resume) = <<>>
  BY <1>1 DEF OpenPart
<1>4. h.initial \in Nat /\ h.initial = Len(OpenPart(p, resume)) /\ h.resume = resume
  BY <1>1 DEF Opened, OpenPart, Chunks
<1>5. h.since \in Nat
  <2>1. TimeCondition(p) => dest[p] \in Chunks \ {<<>>}
    BY DEF TimeCondition, Present, DestInv
  <2>2. TimeCondition(p) => Last(dest[p]) \in Nat
    BY <2>1 DEF Last, Chunks
  <2>3. QED  BY <2>2 DEF Opened
<1>6. h \in Loading
  <2>1. h.initial \in Nat /\ h.since \in Nat
    BY <1>4, <1>5
  <2>2. QED  BY <2>1 DEF Opened, Loading
<1>7. OpenFile(h, OpenPart(p, resume))
  <2>1. ~resume => h.initial = 0
    BY <1>3, <1>4
  <2> HIDE DEF h
  <2>2. QED  BY <1>2, <1>4, <2>1 DEF OpenFile
<1>8. QED  BY <1>2, <1>3, <1>6, <1>7

LEMMA FollowedInv ==
    ASSUME SettingsInv, DestInv, LoadInv, PartInv, NEW p \in Payloads, load[p] \in Loading,
           NEW c \in Chunks \cup {NoFile},
           FollowedBySignature(p, [part EXCEPT ![p] = c])
    PROVE  LoadInv' /\ PartInv'
<1> DEFINE newpart == [part EXCEPT ![p] = c]
           sig == <<p[1], "sig">>
           h == Opened(sig, load[p].server, <<>>, FALSE, load[p].unlink, opts.optional)
<1>1. CASE load' = Ended(p) /\ part' = newpart
  BY <1>1, IdleIsIdle, OneTransfer DEF Ended, IdleHandle
<1>2. CASE /\ WantsSignature(p)
           /\ load' = [Ended(p) EXCEPT ![sig] = h]
           /\ part' = SetFile(newpart, sig, <<>>)
  <2>1. sig \in Payloads /\ sig # p
    BY <1>2 DEF WantsSignature, Payloads
  <2>2. h \in Loading /\ OpenFile(h, <<>>) /\ <<>> \in Chunks
    <3>1. /\ load[p].server \in Servers /\ load[p].unlink \in BOOLEAN
          /\ opts.optional \in BOOLEAN /\ <<>> \in Seq(Servers)
      BY DEF Loading, SettingsInv, Opts
    <3> HIDE DEF sig
    <3>2. h \in Loading /\ OpenPart(sig, FALSE) \in Chunks /\ OpenFile(h, OpenPart(sig, FALSE))
          /\ OpenPart(sig, FALSE) = <<>>
      BY <2>1, <3>1, OpenedInv
    <3>3. QED  BY <3>2
  <2> HIDE DEF h, sig
  <2>3. /\ load' = [[load EXCEPT ![p] = IdleHandle] EXCEPT ![sig] = h]
        /\ part' = [[part EXCEPT ![p] = c] EXCEPT ![sig] = <<>>]
    BY <1>2 DEF Ended, IdleHandle, SetFile
  <2>4. PartInv'
    BY <2>2, <2>3 DEF PartInv
  <2>5. load' \in [Payloads -> Idling \cup Loading]
    BY <2>2, <2>3, IdleIsIdle DEF LoadInv
  <2>6. ASSUME NEW q \in Payloads PROVE OpenFile(load'[q], part'[q])
    <3>1. CASE q = p
      <4>1. load'[q] = IdleHandle
        BY <2>1, <2>3, <3>1 DEF LoadInv
      <4>2. QED  BY <4>1, IdleIsIdle
    <3>2. CASE q = sig
      <4>1. load'[q] = h /\ part'[q] = <<>>
        BY <2>1, <2>3, <3>2 DEF LoadInv, PartInv
      <4>2. QED  BY <2>2, <4>1
    <3>3. CASE q # p /\ q # sig
      <4>1. load'[q] = load[q] /\ part'[q] = part[q]
        BY <2>3, <3>3 DEF LoadInv, PartInv
      <4>2. QED  BY <4>1 DEF LoadInv
    <3>4. QED  BY <3>1, <3>2, <3>3
  <2>7. QED  BY <2>4, <2>5, <2>6 DEF LoadInv
<1>3. QED  BY <1>1, <1>2 DEF FollowedBySignature

DataInv == SettingsInv /\ DestInv /\ PartInv /\ LoadInv

\* A transfer under way has its file open, and a mirror with some version.
LEMMA RunningTransfer ==
    ASSUME DataInv, NEW p \in Payloads, Running(p)
    PROVE  /\ load[p] \in Loading /\ part[p] \in Chunks
           /\ load[p].initial \in Nat /\ load[p].initial <= Len(part[p])
           /\ Version(p) \in 0..2
<1>1. load[p].st = "active" /\ load[p] \in Idling \cup Loading /\ OpenFile(load[p], part[p])
  BY DEF DataInv, LoadInv, Running, Active
<1>2. load[p] \in Loading
  BY <1>1 DEF Idling
<1>3. load[p].server \in Servers /\ load[p].initial \in Nat /\ p[1] \in Items
  BY <1>2 DEF Loading, Payloads
<1>4. Version(p) \in 0..2
  BY <1>3 DEF Version, DataInv, SettingsInv
<1>5. QED  BY <1>1, <1>2, <1>3, <1>4 DEF OpenFile

LEMMA AddPayloadInv ==
    ASSUME DataInv, curl_add_payload PROVE DataInv'
<1>1. UNCHANGED <<mirror, opts, dest>>
  BY DEF curl_add_payload, settings
<1>2. CASE UNCHANGED <<part, load>>
  BY <1>1, <1>2 DEF DataInv, SettingsInv, DestInv, PartInv, LoadInv
<1>3. ASSUME NEW i, NEW p, p = <<i, "file">>, NEW servers,
             servers = Usable(errors, opts.servers[i]), servers # <<>>,
             load' = [load EXCEPT ![p] = Opened(p, Head(servers), Tail(servers),
                                                allow_resume, unlink_on_fail, FALSE)],
             part' = [part EXCEPT ![p] = OpenPart(p, allow_resume)]
      PROVE  DataInv'
  <2> DEFINE h == Opened(p, Head(servers), Tail(servers), allow_resume, unlink_on_fail, FALSE)
  <2>1. CASE p \notin Payloads
    <3> HIDE DEF h
    <3>1. load' = load /\ part' = part
      BY <1>3, <2>1 DEF DataInv, LoadInv, PartInv
    <3>2. QED  BY <1>2, <3>1
  <2>2. CASE p \in Payloads
    <3>1. opts.servers[i] \in Seq(Servers)
      BY <1>3, <2>2 DEF DataInv, SettingsInv, Opts, Payloads
    <3>2. servers \in Seq(Servers)
      BY <1>3, <3>1, UsableServers
    <3>3. Head(servers) \in Servers /\ Tail(servers) \in Seq(Servers)
      BY <1>3, <3>2
    <3>4. allow_resume \in BOOLEAN /\ unlink_on_fail \in BOOLEAN
      BY DEF allow_resume, unlink_on_fail
    <3>5. h \in Loading /\ OpenPart(p, allow_resume) \in Chunks /\ OpenFile(h, OpenPart(p, allow_resume))
      BY <2>2, <3>3, <3>4, OpenedInv DEF DataInv
    <3>6. load' = [load EXCEPT ![p] = h]
      BY <1>3
    <3> HIDE DEF h
    <3>7. LoadInv' /\ PartInv'
      BY <1>3, <2>2, <3>5, <3>6, OneTransfer DEF DataInv
    <3>8. QED  BY <1>1, <3>7 DEF DataInv, SettingsInv, DestInv
  <2>3. QED  BY <2>1, <2>2
<1>4. QED  BY <1>2, <1>3 DEF curl_add_payload, SetFile

LEMMA PayloadInv ==
    ASSUME DataInv, NEW p \in Payloads,
           \/ Receive(p) \/ ReceivePage(p) \/ HttpError(p) \/ ResolveError(p)
           \/ TransferError(p) \/ Abort(p) \/ Complete(p) \/ NotModified(p) \/ Truncation(p)
    PROVE  DataInv'
<1>0. /\ load[p] \in Loading /\ part[p] \in Chunks
      /\ load[p].initial \in Nat /\ load[p].initial <= Len(part[p])
      /\ Version(p) \in 0..2 /\ NoFile \notin Chunks
  BY RunningTransfer, NoFileIsNone DEF Receive, ReceivePage, HttpError, ResolveError,
     TransferError, Abort, Complete, NotModified, Truncation
<1>1. SettingsInv /\ SettingsInv'
  BY DEF DataInv, SettingsInv, Receive, ReceivePage, HttpError, ResolveError, TransferError,
     Abort, Complete, NotModified, Truncation, settings
<1>2. CASE Receive(p) \/ ReceivePage(p)
  <2>0. PICK v \in 0..2 : part' = [part EXCEPT ![p] = Append(part[p], v)]
    <3>1. CASE Receive(p)
      BY <1>0, <3>1 DEF Receive, SetFile
    <3>2. CASE ReceivePage(p)
      BY <3>2 DEF ReceivePage, SetFile
    <3>3. QED  BY <1>2, <3>1, <3>2
  <2>1. dest' = dest /\ load' = load
    BY <1>2 DEF Receive, ReceivePage, transfers
  <2>2. Append(part[p], v) \in Chunks /\ Len(part[p]) <= Len(Append(part[p], v))
    <3>1. v \in {0, 1, 2}
      OBVIOUS
    <3>2. QED  BY <1>0, <3>1 DEF Chunks
  <2>3. OpenFile(load[p], Append(part[p], v))
    <3>1. OpenFile(load[p], part[p]) /\ Len(part[p]) \in Nat /\ Len(Append(part[p], v)) \in Nat
      BY <1>0, <2>2 DEF DataInv, LoadInv, Chunks
    <3> DEFINE c == Append(part[p], v)
    <3> HIDE DEF c
    <3>2. QED  BY <1>0, <2>2, <3>1 DEF OpenFile, c
  <2>4. load' = [load EXCEPT ![p] = load[p]]
    BY <2>1 DEF DataInv, LoadInv
  <2>5. LoadInv' /\ PartInv'
    <3> DEFINE c == Append(part[p], v)
    <3>1. c \in Chunks \cup {NoFile} /\ OpenFile(load[p], c) /\ part' = [part EXCEPT ![p] = c]
      BY <2>0, <2>2, <2>3
    <3> HIDE DEF c
    <3>2. QED  BY <1>0, <2>4, <3>1, OneTransfer DEF DataInv
  <2>6. QED  BY <1>1, <2>1, <2>5 DEF DataInv, DestInv
<1>3. CASE HttpError(p) \/ ResolveError(p) \/ TransferError(p) \/ Abort(p)
  <2>1. dest' = dest
    BY <1>3 DEF HttpError, ResolveError, TransferError, Abort
  <2>2. LoadInv' /\ PartInv'
    <3>1. CASE HttpError(p)
      <4> DEFINE c == Truncated(p, part[p])
      <4>1. c \in Chunks /\ Len(c) = load[p].initial
        BY <1>0, TruncatedChunks DEF Truncated
      <4>2. RetryOrGiveUp(p, c, TRUE)
        BY <3>1 DEF HttpError
      <4> HIDE DEF c
      <4>3. load[p].initial <= Len(c)
        BY <1>0, <4>1
      <4>4. QED  BY <1>0, <4>1, <4>2, <4>3, RetryOrGiveUpInv DEF DataInv
    <3>2. CASE ResolveError(p)
      BY <1>0, <3>2, RetryOrGiveUpInv DEF DataInv, ResolveError
    <3>3. CASE TransferError(p)
      BY <1>0, <3>3, RetryOrGiveUpInv DEF DataInv, TransferError
    <3>4. CASE Abort(p)
      BY <1>0, <3>4, GiveUpInv DEF DataInv, Abort
    <3>5. QED  BY <1>3, <3>1, <3>2, <3>3, <3>4
  <2>3. QED  BY <1>1, <2>1, <2>2 DEF DataInv, DestInv
<1>4. CASE Complete(p)
  <2>1. /\ FollowedBySignature(p, [part EXCEPT ![p] = NoFile])
        /\ dest' = [dest EXCEPT ![p] = part[p]] /\ Len(part[p]) = Size(p)
    BY <1>4 DEF Complete, SetFile
  <2>2. part[p] # <<>>
    BY <1>0, <2>1 DEF Size, Chunks
  <2>3. DestInv'
    BY <1>0, <2>1, <2>2 DEF DataInv, DestInv
  <2>4. LoadInv' /\ PartInv'
    BY <1>0, <2>1, FollowedInv DEF DataInv
  <2>5. QED  BY <1>1, <2>3, <2>4 DEF DataInv
<1>5. CASE NotModified(p)
  <2>1. FollowedBySignature(p, [part EXCEPT ![p] = NoFile]) /\ dest' = dest
    BY <1>5 DEF NotModified, SetFile
  <2>2. LoadInv' /\ PartInv'
    BY <1>0, <2>1, FollowedInv DEF DataInv
  <2>3. QED  BY <1>1, <2>1, <2>2 DEF DataInv, DestInv
<1>6. CASE Truncation(p)
  <2> DEFINE c == IF load[p].unlink THEN NoFile ELSE part[p]
  <2>1. FollowedBySignature(p, [part EXCEPT ![p] = c]) /\ dest' = dest
    BY <1>6 DEF Truncation, SetFile
  <2>2. c \in Chunks \cup {NoFile}
    BY <1>0
  <2> HIDE DEF c
  <2>3. LoadInv' /\ PartInv'
    BY <1>0, <2>1, <2>2, FollowedInv DEF DataInv
  <2>4. QED  BY <1>1, <2>1, <2>3 DEF DataInv, DestInv
<1>7. QED  BY <1>2, <1>3, <1>4, <1>5, <1>6

LEMMA TransferInv ==
    ASSUME DataInv, Transfer PROVE DataInv'
<1>1. CASE curl_add_payload
  BY <1>1, AddPayloadInv
<1>2. CASE MultiError
  BY <1>2 DEF MultiError, settings, disk, DataInv, SettingsInv, DestInv, PartInv, LoadInv
<1>3. QED  BY <1>1, <1>2, PayloadInv DEF Transfer

-----------------------------------------------------------------------------
(* The callers                                                             *)

\* The file and the signature that were checked.
Checked(f) ==
    /\ dest[File(f)] = Built(1)
    /\ SigWanted /\ ~opts.optional => HasSignature(f)

\* What a database that was found valid looks like.
Valid(f) ==
    SigWanted /\ ~opts.optional =>
        Present(dest[Sig(f)]) /\ dest[File(f)] = Built(dest[Sig(f)][1])

Verified(f) ==
    /\ status[f] = "valid" => Valid(f)
    /\ cache[f] # NoFile => status[f] = "valid" /\ cache[f] = dest[File(f)] /\ Loads(f)

Unread == \A f \in Items : status[f] = "unknown" /\ cache[f] = NoFile

CallerInv ==
    /\ at \in {"load", "loaded", "downloaded"} => \A f \in Items : Checked(f)
    /\ status \in [Items -> {"unknown", "valid", "invalid", "missing"}]
    /\ cache \in [Items -> Chunks \cup {NoFile}]
    /\ at = "start" \/ opts.kind = "packages" => Unread
    /\ opts.kind = "databases" => ~opts.embedded
    /\ at = "ready" => opts.kind = "databases"
    /\ at = "ready" /\ ~GoesOn => \A f \in Items : Verified(f)

SyncInv == DataInv /\ CallerInv

LEMMA InitSyncInv == SyncLoadInit => SyncInv
<1> SUFFICES ASSUME SyncLoadInit PROVE SyncInv
  OBVIOUS
<1>1. SettingsInv /\ (opts.kind = "databases" => ~opts.embedded)
  BY SettingsAssumption DEF SyncLoadInit, SettingsInv
<1>2. DestInv /\ PartInv
  BY DEF SyncLoadInit, DownloadInit, DestInv, PartInv
<1>3. LoadInv
  <2>1. load = [p \in Payloads |-> IdleHandle]
    BY DEF SyncLoadInit, DownloadInit, Idle, IdleHandle
  <2>2. QED  BY <2>1, IdleIsIdle DEF LoadInv
<1>4. CallerInv
  BY <1>1 DEF SyncLoadInit, CallerInv, Unread
<1>5. QED  BY <1>1, <1>2, <1>3, <1>4 DEF SyncInv, DataInv

\* Nothing that the invariants are about changes, but where the caller is.
LEMMA OnlyAt ==
    ASSUME SyncInv, UNCHANGED <<settings, disk, load, status, cache>>,
           at' \in {"load", "loaded", "downloaded"} => \A f \in Items : Checked(f),
           at' = "start" => Unread, at' # "ready"
    PROVE  SyncInv'
<1>1. DataInv'
  BY DEF settings, disk, SyncInv, DataInv, SettingsInv, DestInv, PartInv, LoadInv
<1>2. CallerInv'
  BY DEF settings, disk, SyncInv, CallerInv, Checked, SigWanted, HasSignature, Unread
<1>3. QED  BY <1>1, <1>2 DEF SyncInv

\* A download begins.
LEMMA StartDownload ==
    ASSUME SyncInv, UNCHANGED <<settings, disk, status, cache>>, at' = "download", load' = Idle
    PROVE  SyncInv'
<1>1. LoadInv'
  <2>1. load' = [p \in Payloads |-> IdleHandle]
    BY DEF Idle, IdleHandle
  <2>2. QED  BY <2>1, IdleIsIdle DEF LoadInv
<1>2. SettingsInv' /\ DestInv' /\ PartInv'
  BY DEF settings, disk, SyncInv, DataInv, SettingsInv, DestInv, PartInv
<1>3. CallerInv'
  BY DEF settings, SyncInv, CallerInv, Unread
<1>4. QED  BY <1>1, <1>2, <1>3 DEF SyncInv, DataInv

LEMMA TransfersInv ==
    ASSUME SyncInv, Transfers PROVE SyncInv'
<1>1. /\ at = "download" /\ at' = at /\ UNCHANGED <<settings, status, cache>>
  BY DEF Transfers, lvars, Transfer, curl_add_payload, MultiError, Receive, ReceivePage,
     HttpError, ResolveError, TransferError, Abort, Complete, NotModified, Truncation, Running
<1>2. DataInv'
  BY TransferInv DEF SyncInv, Transfers
<1>3. CallerInv'
  BY <1>1 DEF settings, SyncInv, CallerInv, Unread
<1>4. QED  BY <1>2, <1>3 DEF SyncInv

\* A file that passes the checks is the one the database describes.
LEMMA OkIsChecked ==
    ASSUME NEW f \in Items, _alpm_pkg_validate_internal(f) = "ok"
    PROVE  Checked(f)
<1>1. Present(dest[File(f)]) /\ ~ChecksumBad(f)
  BY DEF _alpm_pkg_validate_internal
<1>2. SigWanted => HasSignature(f) \/ opts.optional
  BY <1>1 DEF _alpm_pkg_validate_internal
<1>3. SigWanted /\ HasSignature(f) => Verifies(f, key)
  BY <1>1 DEF _alpm_pkg_validate_internal
<1>4. dest[File(f)] = Built(1)
  BY <1>1, <1>3 DEF ChecksumBad, ChecksumSkipped, Verifies, HasSignature
<1>5. QED  BY <1>2, <1>4 DEF Checked

LEMMA PackagesInv ==
    ASSUME SyncInv,
           download_files \/ Downloaded \/ check_keyring \/ check_validity \/ load_packages
    PROVE  SyncInv'
<1>1. CASE download_files
  <2>1. UNCHANGED <<settings, disk, status, cache>>
    BY <1>1 DEF download_files
  <2>2. CASE at' \in {"keyring", "failed"} /\ load' = load
    BY <2>1, <2>2, OnlyAt
  <2>3. CASE \E items : Download(items)
    BY <2>1, <2>3, StartDownload DEF Download
  <2>4. QED  BY <1>1, <2>2, <2>3 DEF download_files, Fail
<1>2. CASE Downloaded \/ check_keyring
  <2>1. /\ UNCHANGED <<settings, disk, load, status, cache>>
        /\ at' \in {"failed", "keyring", "validity"}
    BY <1>2 DEF Downloaded, check_keyring, transfers, lvars
  <2>2. QED  BY <2>1, OnlyAt
<1>3. CASE check_validity
  <2>1. UNCHANGED <<settings, part, torn, load, status, cache>>
    BY <1>3 DEF check_validity, transfers, lvars
  <2> DEFINE bad == {f \in Items : _alpm_pkg_validate_internal(f) # "ok"}
  <2>2. CASE bad = {} /\ at' \in {"load", "downloaded"} /\ UNCHANGED dest
    <3>1. \A f \in Items : Checked(f)
      BY <2>2, OkIsChecked
    <3>2. QED  BY <2>1, <2>2, <3>1, OnlyAt DEF disk
  <2>3. CASE /\ at' = "failed"
             /\ \E gone : dest' = [p \in Payloads |-> IF p[1] \in gone THEN NoFile ELSE dest[p]]
    <3>1. DestInv'
      BY <2>3 DEF SyncInv, DataInv, DestInv
    <3>2. SettingsInv' /\ PartInv' /\ LoadInv'
      BY <2>1 DEF settings, SyncInv, DataInv, SettingsInv, PartInv, LoadInv
    <3>3. CallerInv'
      BY <2>1, <2>3 DEF settings, SyncInv, CallerInv, Unread
    <3>4. QED  BY <3>1, <3>2, <3>3 DEF SyncInv, DataInv
  <2>4. QED  BY <1>3, <2>2, <2>3 DEF check_validity
<1>4. CASE load_packages
  <2>1. UNCHANGED <<settings, disk, load, status, cache>> /\ at' \in {"loaded", "failed"}
        /\ at = "load"
    BY <1>4 DEF load_packages, transfers, lvars
  <2>2. QED  BY <2>1, OnlyAt DEF SyncInv, CallerInv
<1>5. QED  BY <1>1, <1>2, <1>3, <1>4

\* A database whose status was unknown is valid only if its signature is good.
LEMMA VerdictIsValid ==
    ASSUME opts.kind = "databases" => ~opts.embedded, opts.kind = "databases",
           NEW f \in Items, NEW known,
           sync_db_validate(f, known, "unknown") = "valid"
    PROVE  Valid(f)
<1>1. Present(dest[File(f)]) /\ (SigWanted => _alpm_check_pgp_helper(f, known))
  BY DEF sync_db_validate, Verdict
<1>2. ASSUME SigWanted, ~opts.optional
      PROVE  Present(dest[Sig(f)]) /\ dest[File(f)] = Built(dest[Sig(f)][1])
  BY <1>1, <1>2 DEF _alpm_check_pgp_helper, HasSignature, Verifies
<1>3. QED  BY <1>2 DEF Valid

\* All databases are validated anew, and none of their packages have been read.
LEMMA AllValidated ==
    ASSUME SyncInv, opts.kind = "databases", UNCHANGED <<settings, disk, load>>,
           Validated([f \in Items |-> "unknown"]), cache' = [f \in Items |-> NoFile],
           at' \in {"ready", "failed"}
    PROVE  SyncInv'
<1>1. DataInv'
  BY DEF settings, disk, SyncInv, DataInv, SettingsInv, DestInv, PartInv, LoadInv
<1>2. PICK known : status' = [f \in Items |-> sync_db_validate(f, known, "unknown")]
  BY DEF Validated
<1>3. \A f \in Items : status'[f] = "valid" => Valid(f)
  BY <1>2, VerdictIsValid DEF SyncInv, CallerInv
<1>4. \A f \in Items : Valid(f)' <=> Valid(f)
  BY DEF settings, disk, Valid, SigWanted
<1>5. status' \in [Items -> {"unknown", "valid", "invalid", "missing"}]
  BY <1>2 DEF sync_db_validate, Verdict
<1>6. \A f \in Items : Verified(f)'
  BY <1>3, <1>4 DEF Verified
<1>7. CallerInv'
  BY <1>2, <1>5, <1>6 DEF settings, SyncInv, CallerInv
<1>8. QED  BY <1>1, <1>7 DEF SyncInv

LEMMA DatabasesInv ==
    ASSUME SyncInv,
           \/ alpm_register_syncdb \/ alpm_db_update \/ Updated
           \/ \E f \in Items : _alpm_db_get_pkgcache_hash(f)
    PROVE  SyncInv'
<1>1. CASE alpm_register_syncdb
  <2>1. /\ opts.kind = "databases" /\ at' = "ready" /\ Unread
        /\ UNCHANGED <<settings, disk, load>> /\ cache' = cache
    BY <1>1 DEF alpm_register_syncdb, transfers, SyncInv, CallerInv
  <2>2. \A f \in Items : status[f] = [g \in Items |-> "unknown"][f]
    BY <2>1 DEF Unread
  <2>3. Validated([f \in Items |-> "unknown"])
    BY <1>1, <2>2 DEF alpm_register_syncdb, Validated
  <2>4. cache' = [f \in Items |-> NoFile]
    <3>1. \A f \in Items : cache[f] = NoFile
      BY <2>1 DEF Unread
    <3>2. QED  BY <2>1, <3>1 DEF SyncInv, CallerInv
  <2>5. QED  BY <2>1, <2>3, <2>4, AllValidated
<1>2. CASE alpm_db_update
  <2>1. UNCHANGED <<settings, disk, status, cache>>
    BY <1>2 DEF alpm_db_update
  <2>2. CASE at' = "failed" /\ load' = load
    BY <2>1, <2>2, OnlyAt
  <2>3. CASE \E items : Download(items)
    BY <2>1, <2>3, StartDownload DEF Download
  <2>4. QED  BY <1>2, <2>2, <2>3 DEF alpm_db_update
<1>3. CASE Updated
  <2>1. opts.kind = "databases" /\ UNCHANGED <<settings, disk, load>>
    BY <1>3 DEF Updated, transfers
  <2>2. CASE err
    BY <1>3, <2>1, <2>2, OnlyAt DEF Updated
  <2>3. CASE ~err
    <3>1. /\ cache' = [f \in Items |-> NoFile]
          /\ Validated([f \in Items |-> "unknown"]) /\ at' \in {"ready", "failed"}
      BY <1>3, <2>3 DEF Updated
    <3>2. QED  BY <2>1, <3>1, AllValidated
  <2>4. QED  BY <2>2, <2>3
<1>4. ASSUME NEW f \in Items, _alpm_db_get_pkgcache_hash(f) PROVE SyncInv'
  <2>1. /\ opts.kind = "databases" /\ at = "ready" /\ at' = "ready"
        /\ UNCHANGED <<settings, disk, load>>
        /\ status[f] = "valid" /\ cache[f] = NoFile
    BY <1>4 DEF _alpm_db_get_pkgcache_hash, transfers
  <2>2. DataInv'
    BY <2>1 DEF settings, disk, SyncInv, DataInv, SettingsInv, DestInv, PartInv, LoadInv
  <2>3. \A g \in Items : Valid(g)' <=> Valid(g)
    BY <2>1 DEF settings, disk, Valid, SigWanted
  <2>4. \A g \in Items : dest'[File(g)] = dest[File(g)] /\ (Loads(g)' <=> Loads(g))
    BY <2>1 DEF disk, Loads
  <2>5. CASE Loads(f) /\ cache' = [cache EXCEPT ![f] = dest[File(f)]] /\ status' = status
    <3>1. cache' \in [Items -> Chunks \cup {NoFile}]
      <4>1. dest[File(f)] \in Chunks \cup {NoFile}
        BY DEF SyncInv, DataInv, DestInv, File, Payloads
      <4>2. QED  BY <2>5, <4>1 DEF SyncInv, CallerInv
    <3>2. ASSUME NEW g \in Items, Verified(g) PROVE Verified(g)'
      <4>1. cache'[g] = IF g = f THEN dest[File(f)] ELSE cache[g]
        BY <2>5 DEF SyncInv, CallerInv
      <4>2. QED  BY <2>1, <2>3, <2>4, <2>5, <3>2, <4>1 DEF Verified
    <3>3. QED  BY <2>1, <2>2, <2>5, <3>1, <3>2 DEF settings, SyncInv, CallerInv
  <2>6. CASE status' = [status EXCEPT ![f] = "invalid"] /\ cache' = cache
    <3>1. status' \in [Items -> {"unknown", "valid", "invalid", "missing"}]
      BY <2>6 DEF SyncInv, CallerInv
    <3>2. ASSUME NEW g \in Items, Verified(g) PROVE Verified(g)'
      <4>1. status'[g] = IF g = f THEN "invalid" ELSE status[g]
        BY <2>6 DEF SyncInv, CallerInv
      <4>2. QED  BY <2>1, <2>3, <2>4, <2>6, <3>2, <4>1 DEF Verified
    <3>3. QED  BY <2>1, <2>2, <2>6, <3>1, <3>2 DEF settings, SyncInv, CallerInv
  <2>7. QED  BY <1>4, <2>5, <2>6 DEF _alpm_db_get_pkgcache_hash
<1>5. QED  BY <1>1, <1>2, <1>3, <1>4

LEMMA AgainInv ==
    ASSUME SyncInv, TryAgain \/ Restart PROVE SyncInv'
<1>1. CASE TryAgain
  <2>1. UNCHANGED <<settings, disk, load, status, cache>>
    BY <1>1 DEF TryAgain, transfers, lvars
  <2>2. CASE opts.kind = "packages"
    <3>1. at' = "start"
      BY <1>1, <2>2 DEF TryAgain
    <3>2. QED  BY <2>1, <2>2, <3>1, OnlyAt DEF SyncInv, CallerInv
  <2>3. CASE opts.kind # "packages"
    <3>1. opts.kind = "databases"
      BY <2>3 DEF SyncInv, DataInv, SettingsInv, Opts
    <3>2. at' = "ready" /\ GoesOn
      BY <1>1, <2>3 DEF TryAgain
    <3>3. DataInv'
      BY <2>1 DEF settings, disk, SyncInv, DataInv, SettingsInv, DestInv, PartInv, LoadInv
    <3>4. CallerInv'
      BY <2>1, <3>1, <3>2 DEF settings, SyncInv, CallerInv
    <3>5. QED  BY <3>3, <3>4 DEF SyncInv
  <2>4. QED  BY <2>2, <2>3
<1>2. CASE Restart
  <2>1. /\ UNCHANGED <<settings, dest, part>> /\ load' = [p \in Payloads |-> IdleHandle] /\ at' = "start"
        /\ status' = [f \in Items |-> "unknown"] /\ cache' = [f \in Items |-> NoFile]
    BY <1>2 DEF Restart, Idle, IdleHandle
  <2>2. LoadInv'
    BY <2>1, IdleIsIdle DEF LoadInv
  <2>3. SettingsInv' /\ DestInv' /\ PartInv'
    BY <2>1 DEF settings, SyncInv, DataInv, SettingsInv, DestInv, PartInv
  <2>4. CallerInv'
    BY <2>1 DEF settings, SyncInv, CallerInv, Unread
  <2>5. QED  BY <2>2, <2>3, <2>4 DEF SyncInv, DataInv
<1>3. QED  BY <1>1, <1>2

LEMMA SyncLoadInv ==
    ASSUME SyncInv, SyncLoadNext PROVE SyncInv'
BY TransfersInv, PackagesInv, DatabasesInv, AgainInv DEF SyncLoadNext

\* The hooks leave the rest alone.
LEMMA StartHooksInv ==
    ASSUME SyncInv, StartHooks PROVE SyncInv'
<1>1. /\ mirror' = [s \in Servers |-> [f \in Items |-> 1]]
      /\ opts' = [opts EXCEPT !.sig = FALSE, !.optional = FALSE, !.embedded = FALSE,
                              !.servers = [f \in Items |-> <<>>]]
      /\ dest' = [p \in Payloads |-> NoFile] /\ part' = dest' /\ load' = Idle
      /\ at = "loaded" /\ at' = "hooks" /\ UNCHANGED <<status, cache>>
  BY DEF StartHooks
<1>2. SettingsInv'
  <2>1. mirror' \in [Servers -> [Items -> 0..2]]
    BY <1>1
  <2>2. opts \in Opts /\ [f \in Items |-> <<>>] \in [Items -> Seq(Servers)]
    BY DEF SyncInv, DataInv, SettingsInv
  <2>3. opts' \in Opts
    BY <1>1, <2>2 DEF Opts
  <2>4. QED  BY <2>1, <2>3 DEF SettingsInv
<1>3. DestInv' /\ PartInv'
  BY <1>1 DEF DestInv, PartInv
<1>4. LoadInv'
  BY <1>1, IdleIsIdle DEF LoadInv, Idle, IdleHandle
<1>5. CallerInv'
  <2>1. opts'.kind = opts.kind /\ ~opts'.embedded
    BY <1>1 DEF SyncInv, DataInv, SettingsInv, Opts
  <2>2. opts.kind = "packages" => Unread'
    BY <1>1 DEF SyncInv, CallerInv, Unread
  <2>3. QED  BY <1>1, <2>1, <2>2 DEF SyncInv, CallerInv
<1>6. QED  BY <1>2, <1>3, <1>4, <1>5 DEF SyncInv, DataInv

LEMMA StutterInv ==
    ASSUME SyncInv, UNCHANGED vars PROVE SyncInv'
<1>1. DataInv'
  BY DEF vars, dvars, settings, disk, transfers, SyncInv, DataInv, SettingsInv, DestInv,
     PartInv, LoadInv
<1>2. CallerInv'
  BY DEF vars, dvars, lvars, settings, disk, SyncInv, CallerInv, Checked, Valid, SigWanted,
     HasSignature, Unread, Verified, Loads
<1>3. QED  BY <1>1, <1>2 DEF SyncInv

LEMMA SyncInvHolds == SyncCommitSpec => []SyncInv
<1>1. SyncCommitInit => SyncInv
  BY InitSyncInv DEF SyncCommitInit
<1>2. SyncInv /\ [SyncCommitNext]_svars => SyncInv'
  BY SyncLoadInv, StartHooksInv, StutterInv DEF SyncCommitNext, svars
<1>3. QED  BY <1>1, <1>2, PTL DEF SyncCommitSpec

-----------------------------------------------------------------------------
(* Error pages                                                             *)

Resumable(p) == allow_resume /\ p[2] = "file"

\* A page lies in what was there before the transfer, of a file that is torn, or
\* is what the transfer brings.  Here h is the handle of payload p, c its .part
\* file, d its file, and t whether it is torn.
PagesIn(p, h, c, d, t) ==
    /\ h.st = "active" =>
        /\ h.resume => Resumable(p)
        /\ \A i \in DOMAIN c : c[i] = 0 => IF i <= h.initial THEN t ELSE c[h.initial + 1] = 0
    /\ h.st # "active" => (HoldsPage(c) => t)
    /\ HoldsPage(d) => t /\ Resumable(p)

PagesOf(p) == PagesIn(p, load[p], part[p], dest[p], p \in torn)

\* No transfer of a file is under way whose download has not been started.
PageInv ==
    /\ \A p \in Payloads : PagesOf(p)
    /\ at # "download" => Active = {}
    /\ \A p \in Active : p[2] = "file" => p[1] \notin queue

\* A step changes some payloads, and tears none of the others.
LEMMA PageStep ==
    ASSUME PageInv, opts' = opts, torn \subseteq torn',
           \A p \in Payloads :
              \/ load'[p] = load[p] /\ part'[p] = part[p] /\ dest'[p] = dest[p]
              \/ PagesIn(p, load'[p], part'[p], dest'[p], p \in torn')
    PROVE  \A p \in Payloads : PagesOf(p)'
<1> SUFFICES ASSUME NEW p \in Payloads PROVE PagesOf(p)'
  OBVIOUS
<1>1. PICK h, c, d : h = load'[p] /\ c = part'[p] /\ d = dest'[p]
  OBVIOUS
<1>2. PICK t \in BOOLEAN : t <=> p \in torn'
  OBVIOUS
<1>3. PagesIn(p, h, c, d, t)
  <2>1. CASE PagesIn(p, load'[p], part'[p], dest'[p], p \in torn')
    BY <1>1, <1>2, <2>1 DEF PagesIn
  <2>2. CASE load'[p] = load[p] /\ part'[p] = part[p] /\ dest'[p] = dest[p]
    <3>1. PagesIn(p, h, c, d, p \in torn)
      BY <1>1, <2>2 DEF PageInv, PagesOf
    <3>2. p \in torn => t
      BY <1>2
    <3>3. QED  BY <3>1, <3>2 DEF PagesIn
  <2>3. QED  BY <2>1, <2>2
<1>4. Resumable(p)' <=> Resumable(p)
  BY DEF Resumable, allow_resume
<1>5. QED  BY <1>1, <1>2, <1>3, <1>4 DEF PagesOf, PagesIn

\* One payload changes, which keeps being handled or was not waiting.
LEMMA OnePayloadPages ==
    ASSUME DataInv, PageInv, opts' = opts, torn \subseteq torn', at' = "download",
           NEW p \in Payloads, NEW h, NEW c, NEW d,
           load' = [load EXCEPT ![p] = h], part' = [part EXCEPT ![p] = c],
           dest' = [dest EXCEPT ![p] = d], PagesIn(p, h, c, d, p \in torn'),
           queue' \subseteq queue, p \in Active \/ h.st # "active" \/ p[1] \notin queue'
    PROVE  PageInv'
<1>1. load'[p] = h /\ part'[p] = c /\ dest'[p] = d
  BY DEF DataInv, LoadInv, PartInv, DestInv
<1>2. \A q \in Payloads : q # p => load'[q] = load[q] /\ part'[q] = part[q] /\ dest'[q] = dest[q]
  BY DEF DataInv, LoadInv, PartInv, DestInv
<1>3. \A q \in Payloads : PagesOf(q)'
  BY <1>1, <1>2, PageStep
<1>4. ASSUME NEW q \in Active', q[2] = "file" PROVE q[1] \notin queue'
  <2>1. q \in Payloads /\ load'[q].st = "active"
    BY DEF Active
  <2>2. CASE q = p
    BY <1>1, <1>4, <2>1, <2>2 DEF PageInv
  <2>3. CASE q # p
    BY <1>2, <1>4, <2>1, <2>3 DEF PageInv, Active
  <2>4. QED  BY <2>2, <2>3
<1>5. QED  BY <1>3, <1>4 DEF PageInv

\* What is known of the pages in the files of a transfer under way.
LEMMA RunningPages ==
    ASSUME DataInv, PageInv, NEW p \in Payloads, Running(p)
    PROVE  /\ load[p].resume => Resumable(p)
           /\ HoldsPage(dest[p]) => p \in torn /\ Resumable(p)
           /\ \A i \in 1..load[p].initial : part[p][i] = 0 => p \in torn
           /\ ~ErrorAnswer(p) /\ HoldsPage(part[p]) => p \in torn /\ Resumable(p)
<1>0. /\ load[p] \in Loading /\ part[p] \in Chunks
      /\ load[p].initial \in Nat /\ load[p].initial <= Len(part[p])
  BY RunningTransfer
<1>1. load[p].st = "active" /\ PagesIn(p, load[p], part[p], dest[p], p \in torn)
  BY <1>0 DEF PageInv, PagesOf, Running, Active
<1>2. DOMAIN part[p] = 1..Len(part[p]) /\ Len(part[p]) \in Nat
  BY <1>0 DEF Chunks
<1>3. \A i \in 1..load[p].initial : part[p][i] = 0 => p \in torn
  <2>1. \A i \in 1..load[p].initial : i \in DOMAIN part[p] /\ i <= load[p].initial
    BY <1>0, <1>2
  <2>2. QED  BY <1>1, <2>1 DEF PagesIn
<1>4. ASSUME ~ErrorAnswer(p), HoldsPage(part[p]) PROVE p \in torn /\ Resumable(p)
  <2>1. PICK i \in DOMAIN part[p] : part[p][i] = 0
    BY <1>4 DEF HoldsPage
  <2>2. i <= load[p].initial
    BY <1>0, <1>1, <1>2, <1>4, <2>1 DEF PagesIn, ErrorAnswer
  <2>3. p \in torn
    BY <1>1, <2>1, <2>2 DEF PagesIn
  <2>4. load[p].initial # 0
    BY <1>0, <1>2, <2>1, <2>2
  <2>5. load[p].resume
    BY <1>1, <2>4 DEF DataInv, LoadInv, OpenFile
  <2>6. QED  BY <1>1, <2>3, <2>5 DEF PagesIn
<1>5. QED  BY <1>1, <1>3, <1>4 DEF PagesIn

LEMMA NoPage == ~HoldsPage(NoFile) /\ ~HoldsPage(<<>>)
BY DEF HoldsPage, Present

\* A failed transfer goes on with the next server, or ends.
LEMMA RetryOrGiveUpPages ==
    ASSUME DataInv, PageInv, UNCHANGED <<at, opts, dest>>, torn \subseteq torn',
           NEW p \in Payloads, Running(p), NEW c \in Chunks, HoldsPage(c) => p \in torn',
           NEW unlink, RetryOrGiveUp(p, c, unlink) \/ GiveUp(p, c, unlink)
    PROVE  PageInv'
<1>0. /\ load[p] \in Loading /\ load[p].st = "active" /\ at = "download" /\ p \in Active
      /\ load[p].resume => Resumable(p)
      /\ HoldsPage(dest[p]) => p \in torn /\ Resumable(p)
  BY RunningTransfer, RunningPages DEF Running, Active
<1>1. dest' = [dest EXCEPT ![p] = dest[p]]
  BY DEF DataInv, DestInv
<1>2. CASE GiveUp(p, c, unlink)
  <2>1. PICK d : d = IF unlink THEN NoFile ELSE c
    OBVIOUS
  <2>2. load' = [load EXCEPT ![p] = IdleHandle] /\ part' = [part EXCEPT ![p] = d]
    BY <1>2, <2>1 DEF GiveUp, Ended, SetFile, IdleHandle
  <2>3. queue' \subseteq queue
    BY <1>2 DEF GiveUp, FailUnlessOptional
  <2>4. IdleHandle.st # "active"
    BY DEF IdleHandle
  <2>5. HoldsPage(d) => p \in torn'
    BY <2>1, NoPage
  <2>6. PagesIn(p, IdleHandle, d, dest[p], p \in torn')
    BY <1>0, <2>4, <2>5 DEF PagesIn
  <2>7. QED  BY <1>0, <1>1, <2>2, <2>3, <2>4, <2>6, OnePayloadPages
<1>3. ASSUME NEW errs, curl_retry_next_server(p, c, errs) PROVE PageInv'
  <2>1. PICK left : left = IF load[p].resume THEN c ELSE <<>>
    OBVIOUS
  <2>2. PICK servers : servers = Usable(errs, load[p].servers)
    OBVIOUS
  <2> DEFINE h == [load[p] EXCEPT !.server = Head(servers), !.servers = Tail(servers),
                      !.initial = IF load[p].resume THEN Len(left) ELSE load[p].initial]
  <2>3. load' = [load EXCEPT ![p] = h] /\ part' = [part EXCEPT ![p] = left] /\ queue' = queue
    BY <1>3, <2>1, <2>2 DEF curl_retry_next_server, SetFile, DataInv, LoadInv
  <2>4. /\ h.st = "active" /\ h.resume = load[p].resume
        /\ load[p].resume => h.initial = Len(left)
    BY <1>0 DEF Loading
  <2> HIDE DEF h
  <2>5. left \in Chunks /\ (HoldsPage(left) => load[p].resume /\ p \in torn')
    BY <2>1, NoPage DEF Chunks
  <2>6. ASSUME NEW i \in DOMAIN left, left[i] = 0 PROVE i <= h.initial /\ p \in torn'
    <3>1. HoldsPage(left)
      BY <2>5, <2>6, NoFileIsNone DEF HoldsPage, Present
    <3>2. i <= Len(left)
      BY <2>5 DEF Chunks
    <3>3. QED  BY <2>4, <2>5, <3>1, <3>2
  <2>7. PagesIn(p, h, left, dest[p], p \in torn')
    BY <1>0, <2>4, <2>6 DEF PagesIn
  <2>8. QED  BY <1>0, <1>1, <2>3, <2>7, OnePayloadPages
<1>4. QED  BY <1>2, <1>3 DEF RetryOrGiveUp

\* A finished transfer is followed by that of the signature; c is what is left of
\* the .part file, and d what is now in the file.
LEMMA FollowedPages ==
    ASSUME DataInv, PageInv, UNCHANGED <<at, opts, torn>>, queue' \subseteq queue,
           NEW p \in Payloads, Running(p), NEW c, HoldsPage(c) => p \in torn,
           NEW d, HoldsPage(d) => p \in torn /\ Resumable(p),
           dest' = [dest EXCEPT ![p] = d],
           FollowedBySignature(p, [part EXCEPT ![p] = c])
    PROVE  PageInv'
<1>0. at = "download" /\ p \in Active
  BY DEF Running
<1>1. IdleHandle.st # "active" /\ PagesIn(p, IdleHandle, c, d, p \in torn')
  BY DEF IdleHandle, PagesIn
<1>2. CASE load' = Ended(p) /\ part' = [part EXCEPT ![p] = c]
  <2>1. load' = [load EXCEPT ![p] = IdleHandle]
    BY <1>2 DEF Ended, IdleHandle
  <2>2. QED  BY <1>0, <1>1, <1>2, <2>1, OnePayloadPages
<1>3. ASSUME NEW sig, sig = <<p[1], "sig">>, NEW h,
             h = Opened(sig, load[p].server, <<>>, FALSE, load[p].unlink, opts.optional),
             WantsSignature(p), load' = [Ended(p) EXCEPT ![sig] = h],
             part' = SetFile([part EXCEPT ![p] = c], sig, <<>>)
      PROVE  PageInv'
  <2>1. sig \in Payloads /\ sig # p /\ sig[2] # "file" /\ ~h.resume
    BY <1>3 DEF WantsSignature, Payloads, Opened
  <2>2. load'[p] = IdleHandle /\ part'[p] = c /\ dest'[p] = d
    BY <1>3, <2>1 DEF DataInv, LoadInv, PartInv, DestInv, Ended, SetFile, IdleHandle
  <2>3. load'[sig] = h /\ part'[sig] = <<>> /\ dest'[sig] = dest[sig]
    BY <1>3, <2>1 DEF DataInv, LoadInv, PartInv, DestInv, Ended, SetFile
  <2>4. \A q \in Payloads : q # p /\ q # sig =>
          load'[q] = load[q] /\ part'[q] = part[q] /\ dest'[q] = dest[q]
    BY <1>3 DEF DataInv, LoadInv, PartInv, DestInv, Ended, SetFile
  <2>5. PagesIn(sig, h, <<>>, dest[sig], sig \in torn')
    BY <2>1 DEF PageInv, PagesOf, PagesIn, HoldsPage, Present
  <2>6. \A q \in Payloads : PagesOf(q)'
    <3>1. \A q \in Payloads : \/ load'[q] = load[q] /\ part'[q] = part[q] /\ dest'[q] = dest[q]
                              \/ PagesIn(q, load'[q], part'[q], dest'[q], q \in torn')
      BY <1>1, <2>2, <2>3, <2>4, <2>5
    <3>2. QED  BY <3>1, PageStep
  <2>7. ASSUME NEW q \in Active', q[2] = "file" PROVE q[1] \notin queue'
    <3>1. q \in Payloads /\ load'[q].st = "active"
      BY DEF Active
    <3>2. q # p /\ q # sig
      BY <1>1, <2>1, <2>2, <2>7, <3>1
    <3>3. QED  BY <2>4, <2>7, <3>1, <3>2 DEF PageInv, Active
  <2>8. QED  BY <1>0, <2>6, <2>7 DEF PageInv
<1>4. QED  BY <1>2, <1>3 DEF FollowedBySignature

\* An error answer that was complete leaves what was there before it.
LEMMA TruncatedPages ==
    ASSUME DataInv, PageInv, NEW p \in Payloads, Running(p), HoldsPage(Truncated(p, part[p]))
    PROVE  p \in torn
<1>0. /\ part[p] \in Chunks /\ load[p].initial \in Nat /\ load[p].initial <= Len(part[p])
      /\ \A i \in 1..load[p].initial : part[p][i] = 0 => p \in torn
  BY RunningTransfer, RunningPages
<1>1. PICK n \in Nat : n = load[p].initial
  BY <1>0
<1>2. PICK c : c = SubSeq(part[p], 1, n)
  OBVIOUS
<1>3. c \in Chunks /\ Len(c) = n /\ \A i \in 1..n : c[i] = part[p][i]
  BY <1>0, <1>1, <1>2, TruncatedChunks
<1>4. PICK i \in DOMAIN c : c[i] = 0
  BY <1>1, <1>2 DEF HoldsPage, Truncated
<1>5. i \in 1..n
  BY <1>3 DEF Chunks
<1>6. QED  BY <1>0, <1>1, <1>3, <1>4, <1>5

LEMMA PayloadPages ==
    ASSUME DataInv, PageInv, NEW p \in Payloads,
           \/ Receive(p) \/ ReceivePage(p) \/ HttpError(p) \/ ResolveError(p)
           \/ TransferError(p) \/ Abort(p) \/ Complete(p) \/ NotModified(p) \/ Truncation(p)
    PROVE  PageInv'
<1>0. Running(p) /\ UNCHANGED <<at, opts>>
  BY DEF Receive, ReceivePage, HttpError, ResolveError, TransferError, Abort,
     Complete, NotModified, Truncation, settings
<1>1. /\ load[p] \in Loading /\ part[p] \in Chunks /\ load[p].st = "active" /\ at = "download"
      /\ load[p].initial \in Nat /\ load[p].initial <= Len(part[p]) /\ p \in Active
      /\ Version(p) \in 0..2
  BY <1>0, RunningTransfer DEF Running, Active
<1>2. /\ load[p].resume => Resumable(p)
      /\ HoldsPage(dest[p]) => p \in torn /\ Resumable(p)
      /\ \A i \in 1..load[p].initial : part[p][i] = 0 => p \in torn
      /\ ~ErrorAnswer(p) /\ HoldsPage(part[p]) => p \in torn /\ Resumable(p)
  BY <1>0, RunningPages
<1>3. Len(part[p]) \in Nat /\ DOMAIN part[p] = 1..Len(part[p])
  BY <1>1 DEF Chunks
<1>4. CASE Receive(p) \/ ReceivePage(p)
  <2>1. PICK v \in 0..2 : /\ part' = [part EXCEPT ![p] = Append(part[p], v)]
                          /\ v = 0 => Fresh(p)
                          /\ ~ErrorAnswer(p)
    <3>1. CASE Receive(p)
      BY <1>1, <3>1 DEF Receive, SetFile
    <3>2. CASE ReceivePage(p)
      BY <1>1, <1>3, <3>2 DEF ReceivePage, SetFile, Fresh, ErrorAnswer
    <3>3. QED  BY <1>4, <3>1, <3>2
  <2>2. /\ load' = [load EXCEPT ![p] = load[p]] /\ dest' = [dest EXCEPT ![p] = dest[p]]
        /\ torn' = torn /\ queue' = queue
    BY <1>4 DEF Receive, ReceivePage, transfers, DataInv, LoadInv, DestInv
  <2>3. PICK c : c = Append(part[p], v)
    OBVIOUS
  <2>4. /\ DOMAIN c = 1..(Len(part[p]) + 1) /\ c[Len(part[p]) + 1] = v
        /\ \A i \in 1..Len(part[p]) : c[i] = part[p][i]
    BY <1>1, <2>3 DEF Chunks
  <2>5. ASSUME NEW i \in DOMAIN c, c[i] = 0
        PROVE  IF i <= load[p].initial THEN p \in torn ELSE c[load[p].initial + 1] = 0
    <3>1. CASE i = Len(part[p]) + 1
      <4>1. Fresh(p)
        BY <2>1, <2>4, <2>5, <3>1
      <4>2. i = load[p].initial + 1
        BY <3>1, <4>1 DEF Fresh
      <4>3. QED  BY <1>1, <2>5, <4>2
    <3>2. CASE i # Len(part[p]) + 1
      <4>1. i \in DOMAIN part[p] /\ part[p][i] = 0 /\ i \in Nat
        BY <1>3, <2>4, <2>5, <3>2
      <4>2. HoldsPage(part[p])
        BY <1>1, <4>1, NoFileIsNone DEF HoldsPage, Present
      <4>3. PagesOf(p)
        BY DEF PageInv
      <4>4. i <= load[p].initial
        BY <1>1, <1>3, <2>1, <4>1, <4>3 DEF PagesOf, PagesIn, ErrorAnswer
      <4>5. QED  BY <1>2, <2>1, <4>2, <4>4
    <3>3. QED  BY <3>1, <3>2
  <2>6. PagesIn(p, load[p], c, dest[p], p \in torn')
    BY <1>1, <1>2, <2>2, <2>5 DEF PagesIn
  <2>7. QED  BY <1>0, <1>1, <2>1, <2>2, <2>3, <2>6, OnePayloadPages
<1>5. CASE HttpError(p)
  <2>1. PICK c : c = Truncated(p, part[p])
    OBVIOUS
  <2>2. c \in Chunks
    BY <1>1, <2>1, TruncatedChunks DEF Truncated
  <2>3. RetryOrGiveUp(p, c, TRUE) /\ dest' = dest /\ torn' = torn
    BY <1>5, <2>1 DEF HttpError
  <2>4. HoldsPage(c) => p \in torn'
    BY <1>0, <2>1, <2>3, TruncatedPages
  <2>5. QED  BY <1>0, <2>2, <2>3, <2>4, RetryOrGiveUpPages
<1>6. CASE ResolveError(p)
  <2>1. RetryOrGiveUp(p, part[p], TRUE) /\ dest' = dest /\ torn' = torn /\ Fresh(p)
    BY <1>6 DEF ResolveError
  <2>2. ~ErrorAnswer(p)
    BY <1>1, <1>3, <2>1 DEF Fresh, ErrorAnswer
  <2>3. QED  BY <1>0, <1>1, <1>2, <2>1, <2>2, RetryOrGiveUpPages
<1>7. CASE TransferError(p)
  <2>1. /\ RetryOrGiveUp(p, part[p], load[p].unlink \/ part[p] = <<>>) /\ dest' = dest
        /\ torn' = IF ErrorAnswer(p) THEN torn \cup {p} ELSE torn
    BY <1>7 DEF TransferError
  <2>2. torn \subseteq torn' /\ (HoldsPage(part[p]) => p \in torn')
    BY <1>2, <2>1
  <2>3. QED  BY <1>0, <1>1, <2>1, <2>2, RetryOrGiveUpPages
<1>8. CASE Abort(p)
  <2>1. GiveUp(p, part[p], TRUE) /\ dest' = dest /\ torn' = torn /\ ~ErrorAnswer(p)
    BY <1>8 DEF Abort
  <2>2. QED  BY <1>0, <1>1, <1>2, <2>1, RetryOrGiveUpPages
<1>9. CASE Complete(p)
  <2>1. /\ FollowedBySignature(p, [part EXCEPT ![p] = NoFile]) /\ ~ErrorAnswer(p)
        /\ dest' = [dest EXCEPT ![p] = part[p]] /\ torn' = torn /\ queue' = queue
    BY <1>9 DEF Complete, SetFile
  <2>2. QED  BY <1>0, <1>2, <2>1, NoPage, FollowedPages
<1>10. CASE NotModified(p)
  <2>1. /\ FollowedBySignature(p, [part EXCEPT ![p] = NoFile]) /\ torn' = torn
        /\ dest' = [dest EXCEPT ![p] = dest[p]] /\ queue' = queue
    BY <1>10 DEF NotModified, SetFile, DataInv, DestInv
  <2>2. QED  BY <1>0, <1>2, <2>1, NoPage, FollowedPages
<1>11. CASE Truncation(p)
  <2>1. PICK c : c = IF load[p].unlink THEN NoFile ELSE part[p]
    OBVIOUS
  <2>2. /\ FollowedBySignature(p, [part EXCEPT ![p] = c]) /\ torn' = torn /\ ~ErrorAnswer(p)
        /\ dest' = [dest EXCEPT ![p] = dest[p]] /\ queue' \subseteq queue
    BY <1>11, <2>1 DEF Truncation, SetFile, FailUnlessOptional, DataInv, DestInv
  <2>3. HoldsPage(c) => p \in torn
    BY <1>2, <2>1, <2>2, NoPage
  <2>4. QED  BY <1>0, <1>2, <2>2, <2>3, FollowedPages
<1>12. QED  BY <1>4, <1>5, <1>6, <1>7, <1>8, <1>9, <1>10, <1>11

LEMMA AddPayloadPages ==
    ASSUME DataInv, PageInv, curl_add_payload PROVE PageInv'
<1>1. at = "download" /\ UNCHANGED <<at, opts, dest, torn>> /\ queue' \subseteq queue
  BY DEF curl_add_payload, settings
<1>2. CASE UNCHANGED <<part, load>>
  BY <1>1, <1>2 DEF PageInv, PagesOf, PagesIn, Resumable, allow_resume, Active
<1>3. ASSUME NEW i \in queue, NEW p, p = <<i, "file">>, NEW h, NEW server, NEW rest,
             h = Opened(p, server, rest, allow_resume, unlink_on_fail, FALSE),
             load' = [load EXCEPT ![p] = h], i \notin queue',
             part' = [part EXCEPT ![p] = OpenPart(p, allow_resume)]
      PROVE  PageInv'
  <2>1. CASE p \notin Payloads
    <3>1. load' = load /\ part' = part
      BY <1>3, <2>1 DEF DataInv, LoadInv, PartInv
    <3>2. QED  BY <1>2, <3>1
  <2>2. CASE p \in Payloads
    <3>1. p \notin Active /\ p[1] = i /\ p[2] = "file"
      BY <1>3 DEF PageInv
    <3>2. /\ HoldsPage(part[p]) => p \in torn
          /\ HoldsPage(dest[p]) => p \in torn /\ Resumable(p)
      BY <2>2, <3>1 DEF PageInv, PagesOf, PagesIn, Active
    <3>3. PICK c : c = OpenPart(p, allow_resume)
      OBVIOUS
    <3>4. h.resume = allow_resume /\ (HoldsPage(c) => c = part[p])
      BY <1>3, <3>3, NoPage DEF Opened, OpenPart
    <3>5. ASSUME NEW j \in DOMAIN c, c[j] = 0 PROVE j <= h.initial /\ p \in torn
      <4>1. Resumes(p, allow_resume) /\ c = part[p]
        BY <3>3, <3>5 DEF OpenPart
      <4>2. c \in Chunks
        BY <2>2, <4>1 DEF Resumes, Present, DataInv, PartInv
      <4>3. h.initial = Len(c)
        BY <1>3, <4>1 DEF Opened
      <4>4. HoldsPage(part[p])
        BY <3>5, <4>1, <4>2, NoFileIsNone DEF HoldsPage, Present
      <4>5. j <= h.initial
        BY <4>2, <4>3 DEF Chunks
      <4>6. QED  BY <3>2, <4>4, <4>5
    <3>6. h.resume => Resumable(p)
      BY <3>1, <3>4 DEF Resumable
    <3>7. h.st = "active"
      BY <1>3 DEF Opened
    <3>8. PagesIn(p, h, c, dest[p], p \in torn')
      BY <1>1, <3>2, <3>5, <3>6, <3>7 DEF PagesIn
    <3>9. dest' = [dest EXCEPT ![p] = dest[p]]
      BY <1>1 DEF DataInv, DestInv
    <3>10. QED  BY <1>1, <1>3, <2>2, <3>1, <3>3, <3>8, <3>9, OnePayloadPages
  <2>3. QED  BY <2>1, <2>2
<1>4. QED  BY <1>2, <1>3 DEF curl_add_payload, SetFile

\* Nothing about the files and transfers changes.
LEMMA SamePages ==
    ASSUME PageInv, UNCHANGED <<opts, part, load>>, torn \subseteq torn', queue' \subseteq queue,
           \A p \in Payloads : dest'[p] = dest[p] \/ dest'[p] = NoFile,
           at = "download" => at' = "download" \/ Active = {}, at' = "download" => at = "download"
    PROVE  PageInv'
<1>1. \A p \in Payloads : PagesOf(p)'
  <2>1. \A p \in Payloads : dest'[p] # dest[p] => PagesIn(p, load'[p], part'[p], dest'[p], p \in torn')
    <3> SUFFICES ASSUME NEW p \in Payloads, dest'[p] = NoFile
                 PROVE  PagesIn(p, load'[p], part'[p], dest'[p], p \in torn')
      OBVIOUS
    <3>1. PagesIn(p, load[p], part[p], dest[p], p \in torn)
      BY DEF PageInv, PagesOf
    <3>2. QED  BY <3>1, NoPage DEF PagesIn
  <2>2. QED  BY <2>1, PageStep
<1>2. QED  BY <1>1 DEF PageInv, Active

\* No transfer is under way afterwards.
LEMMA IdlePages ==
    ASSUME PageInv, UNCHANGED <<opts, part, dest>>, load' = Idle,
           torn' = torn \cup {p \in Active : ErrorAnswer(p)}, DataInv
    PROVE  PageInv'
<1>1. \A p \in Payloads : load'[p].st = "idle"
  BY DEF Idle
<1>2. ASSUME NEW p \in Payloads PROVE PagesIn(p, load'[p], part'[p], dest'[p], p \in torn')
  <2>1. PagesIn(p, load[p], part[p], dest[p], p \in torn)
    BY DEF PageInv, PagesOf
  <2>2. HoldsPage(part[p]) => p \in torn'
    <3>1. CASE p \notin Active
      BY <2>1, <3>1 DEF PagesIn, Active
    <3>2. CASE p \in Active
      <4>1. HoldsPage(part[p]) => p \in torn \/ ErrorAnswer(p)
        <5> SUFFICES ASSUME HoldsPage(part[p]), p \notin torn PROVE ErrorAnswer(p)
          OBVIOUS
        <5>1. PICK i \in DOMAIN part[p] : part[p][i] = 0
          BY DEF HoldsPage
        <5>2. /\ part[p] \in Chunks /\ load[p].st = "active" /\ load[p] \in Loading
              /\ load[p].initial \in Nat
          BY <3>2 DEF Active, DataInv, LoadInv, OpenFile, Idling, Loading
        <5>3. ~(i <= load[p].initial) /\ part[p][load[p].initial + 1] = 0
          BY <2>1, <5>1, <5>2 DEF PagesIn
        <5>4. i \in 1..Len(part[p]) /\ Len(part[p]) \in Nat
          BY <5>1, <5>2 DEF Chunks
        <5>5. QED  BY <5>2, <5>3, <5>4 DEF ErrorAnswer
      <4>2. QED  BY <3>2, <4>1
    <3>3. QED  BY <3>1, <3>2
  <2>3. QED  BY <1>1, <2>1, <2>2 DEF PagesIn
<1>3. \A p \in Payloads : PagesOf(p)'
  BY <1>2, PageStep
<1>4. Active' = {}
  BY <1>1 DEF Active
<1>5. QED  BY <1>3, <1>4 DEF PageInv

\* A download begins.
LEMMA StartPages ==
    ASSUME PageInv, DataInv, UNCHANGED <<opts, part, dest, torn>>, at # "download", load' = Idle
    PROVE  PageInv'
<1>1. torn' = torn \cup {p \in Active : ErrorAnswer(p)}
  BY DEF PageInv
<1>2. QED  BY <1>1, IdlePages

LEMMA SyncLoadPages ==
    ASSUME DataInv, PageInv, SyncLoadNext PROVE PageInv'
<1>1. CASE Transfers
  <2>1. CASE curl_add_payload
    BY <2>1, AddPayloadPages
  <2>2. CASE MultiError
    BY <2>2, SamePages DEF MultiError, settings, disk
  <2>3. QED  BY <1>1, <2>1, <2>2, PayloadPages DEF Transfers, Transfer
<1>2. CASE download_files \/ alpm_db_update
  <2>1. UNCHANGED <<opts, part, dest, torn>> /\ at # "download"
    BY <1>2 DEF download_files, alpm_db_update, settings, disk
  <2>2. CASE \E items : Download(items)
    BY <2>1, <2>2, StartPages DEF Download
  <2>3. CASE load' = load /\ queue' = queue /\ at' # "download"
    BY <2>1, <2>3, SamePages
  <2>4. QED  BY <1>2, <2>2, <2>3 DEF download_files, alpm_db_update, Fail
<1>3. CASE Downloaded \/ Updated
  <2>1. /\ UNCHANGED <<opts, part, dest, torn, load, queue>> /\ Active = {}
        /\ at' \in {"failed", "keyring", "ready"}
    BY <1>3 DEF Downloaded, Updated, Returned, settings, disk, transfers
  <2>2. QED  BY <2>1, SamePages
<1>4. CASE check_keyring \/ load_packages \/ alpm_register_syncdb \/ TryAgain
  <2>1. /\ UNCHANGED <<opts, part, dest, torn, load, queue>> /\ at # "download"
        /\ at' # "download"
    BY <1>4 DEF check_keyring, load_packages, alpm_register_syncdb, TryAgain, settings, disk,
       transfers
  <2>2. QED  BY <2>1, SamePages
<1>5. CASE check_validity
  <2>1. /\ UNCHANGED <<opts, part, torn, load, queue>> /\ at # "download" /\ at' # "download"
        /\ \A p \in Payloads : dest'[p] = dest[p] \/ dest'[p] = NoFile
    BY <1>5 DEF check_validity, settings, transfers
  <2>2. QED  BY <2>1, SamePages
<1>6. ASSUME NEW f \in Items, _alpm_db_get_pkgcache_hash(f) PROVE PageInv'
  <2>1. /\ UNCHANGED <<opts, part, dest, torn, load, queue>> /\ at # "download"
        /\ at' # "download"
    BY <1>6 DEF _alpm_db_get_pkgcache_hash, settings, disk, transfers
  <2>2. QED  BY <2>1, SamePages
<1>7. CASE Restart
  BY <1>7, IdlePages DEF Restart, settings
<1>8. QED  BY <1>1, <1>2, <1>3, <1>4, <1>5, <1>6, <1>7 DEF SyncLoadNext

LEMMA StartHooksPages ==
    ASSUME StartHooks PROVE PageInv'
<1>1. \A p \in Payloads : dest'[p] = NoFile /\ part'[p] = NoFile /\ load'[p].st = "idle"
  BY DEF StartHooks, Idle
<1>2. \A p \in Payloads : ~HoldsPage(dest'[p]) /\ ~HoldsPage(part'[p])
  BY <1>1, NoPage
<1>3. \A p \in Payloads : PagesOf(p)'
  BY <1>1, <1>2 DEF PagesOf, PagesIn, HoldsPage, Present
<1>4. Active' = {}
  BY <1>1 DEF Active
<1>5. QED  BY <1>3, <1>4 DEF PageInv

LEMMA StutterPages ==
    ASSUME PageInv, UNCHANGED vars PROVE PageInv'
BY SamePages DEF vars, dvars, settings, disk, transfers

LEMMA InitPages == SyncLoadInit => PageInv
<1> SUFFICES ASSUME SyncLoadInit PROVE PageInv
  OBVIOUS
<1>1. \A p \in Payloads : dest[p] = NoFile /\ part[p] = NoFile /\ load[p].st = "idle"
  BY DEF SyncLoadInit, DownloadInit, Idle
<1>2. \A p \in Payloads : PagesOf(p)
  BY <1>1, NoPage DEF PagesOf, PagesIn
<1>3. Active = {}
  BY <1>1 DEF Active
<1>4. QED  BY <1>2, <1>3 DEF PageInv

LEMMA PageInvHolds == SyncCommitSpec => []PageInv
<1>1. SyncCommitInit => PageInv
  BY InitPages DEF SyncCommitInit
<1>2. SyncInv /\ PageInv /\ [SyncCommitNext]_svars => PageInv'
  BY SyncLoadPages, StartHooksPages, StutterPages DEF SyncCommitNext, svars, SyncInv
<1>3. QED  BY <1>1, <1>2, SyncInvHolds, PTL DEF SyncCommitSpec

\* The page of an error answer is in a file only while the answer arrives, and after
\* that only if it broke off; and databases and signatures never take their names
\* with a page in them (curl_check_finished_download, curl_retry_next_server),
\* whatever mirrors, resumptions, failures and new processes there are.
THEOREM NoErrorPageKept == SyncCommitSpec => []NoErrorPage
<1>1. SyncInv /\ PageInv => NoErrorPage
  <2> SUFFICES ASSUME SyncInv, PageInv, NEW p \in Payloads
               PROVE  /\ HoldsPage(part[p]) => p \in torn \/ (p \in Active /\ ErrorAnswer(p))
                      /\ HoldsPage(dest[p]) => p \in torn /\ allow_resume /\ p[2] = "file"
    BY DEF NoErrorPage
  <2>1. PagesIn(p, load[p], part[p], dest[p], p \in torn)
    BY DEF PageInv, PagesOf
  <2>2. ASSUME HoldsPage(part[p]), p \in Active, p \notin torn PROVE ErrorAnswer(p)
    <3>1. PICK i \in DOMAIN part[p] : part[p][i] = 0
      BY <2>2 DEF HoldsPage
    <3>2. /\ part[p] \in Chunks /\ load[p].st = "active" /\ load[p] \in Loading
          /\ load[p].initial \in Nat
      BY <2>2 DEF Active, SyncInv, DataInv, LoadInv, OpenFile, Idling, Loading
    <3>3. ~(i <= load[p].initial) /\ part[p][load[p].initial + 1] = 0
      BY <2>1, <2>2, <3>1, <3>2 DEF PagesIn
    <3>4. i \in 1..Len(part[p]) /\ Len(part[p]) \in Nat
      BY <3>1, <3>2 DEF Chunks
    <3>5. QED  BY <3>2, <3>3, <3>4 DEF ErrorAnswer
  <2>3. QED  BY <2>1, <2>2 DEF PagesIn, Active, Resumable
<1>2. QED  BY SyncInvHolds, PageInvHolds, <1>1, PTL

\* What is loaded into a transaction is the file the database describes
\* (_alpm_sync_load).
THEOREM LoadedIsWhatWasChecked == SyncCommitSpec => []LoadedIsGood
<1>1. SyncInv => LoadedIsGood
  BY DEF SyncInv, CallerInv, LoadedIsGood, Checked
<1>2. QED  BY SyncInvHolds, <1>1, PTL

\* Packages are only read from a database file whose signature was checked
\* (alpm_db_update, _alpm_db_get_pkgcache_hash), if the caller does not go on
\* after an update that failed.
THEOREM ReadIsVerified == GoesOn = FALSE => (SyncCommitSpec => []UsedIsVerified)
<1> SUFFICES ASSUME GoesOn = FALSE PROVE SyncCommitSpec => []UsedIsVerified
  OBVIOUS
<1>1. SyncInv => UsedIsVerified
  BY DEF SyncInv, CallerInv, UsedIsVerified, Verified, Valid, Loads, Present
<1>2. QED  BY SyncInvHolds, <1>1, PTL

-----------------------------------------------------------------------------
(* Hooks                                                                   *)

Ascending(s) == \A i, j \in DOMAIN s : i < j => s[i][2] < s[j][2]

\* The last of some hooks with different names.
LEMMA LastHook ==
    ASSUME NEW S \in SUBSET (Nat \X Nat), IsFiniteSet(S), S # {}
    PROVE  \E m \in S : \A h \in S : h[2] <= m[2]
<1> DEFINE Later(m) == {h \in S : h[2] > m[2]}
           T == {Later(m) : m \in S}
<1>1. T \in SUBSET (SUBSET S) /\ T # {}
  <2>1. \A m \in S : Later(m) \in SUBSET S
    OBVIOUS
  <2>2. PICK m \in S : TRUE
    OBVIOUS
  <2> HIDE DEF Later
  <2>3. T \subseteq SUBSET S
    BY <2>1
  <2>4. Later(m) \in T
    OBVIOUS
  <2>5. QED  BY <2>3, <2>4
<1>2. PICK x \in T : \A y \in T : y \subseteq x => y = x
  <2> HIDE DEF T
  <2>1. QED  BY <1>1, SmallestSet
<1>3. PICK m \in S : x = Later(m)
  OBVIOUS
<1>4. ASSUME NEW h \in S, h[2] > m[2] PROVE FALSE
  <2>1. h[2] \in Nat /\ m[2] \in Nat /\ \A g \in S : g[2] \in Nat
    OBVIOUS
  <2>2. Later(h) \in T /\ Later(h) \subseteq Later(m) /\ h \in Later(m) /\ h \notin Later(h)
    BY <1>4, <2>1
  <2> HIDE DEF Later, T
  <2>3. QED  BY <1>2, <1>3, <2>2
<1>5. \A h \in S : h[2] \in Nat /\ m[2] \in Nat
  OBVIOUS
<1>6. QED  BY <1>4, <1>5

\* Hooks with different names can be sorted by them.
LEMMA OrderExists ==
    ASSUME NEW S \in SUBSET (Nat \X Nat), IsFiniteSet(S),
           \A g, h \in S : g[2] = h[2] => g = h
    PROVE  \E s \in [1..Cardinality(S) -> S] : Ascending(s)
<1> DEFINE T == {R \in SUBSET S : ~\E s \in [1..Cardinality(R) -> R] : Ascending(s)}
<1>1. SUFFICES ASSUME T # {} PROVE FALSE
  OBVIOUS
<1>2. PICK R \in T : \A Q \in T : Q \subseteq R => Q = R
  <2>1. T \in SUBSET SUBSET S
    OBVIOUS
  <2> HIDE DEF T
  <2>2. QED  BY <1>1, <2>1, SmallestSet
<1>3. R \subseteq Nat \X Nat /\ R \subseteq S /\ IsFiniteSet(R)
  <2>1. R \subseteq S
    OBVIOUS
  <2>2. QED  BY <2>1, FS_Subset
<1>4. R # {}
  <2>1. Cardinality({}) = 0
    BY FS_EmptySet
  <2>2. ASSUME R = {} PROVE <<>> \in [1..Cardinality(R) -> R] /\ Ascending(<<>>)
    BY <2>1, <2>2 DEF Ascending
  <2>3. QED  BY <2>2
<1>5. PICK m \in R : \A h \in R : h[2] <= m[2]
  BY <1>3, <1>4, LastHook
<1> DEFINE Q == R \ {m}
<1>6. Q \notin T
  <2>1. Q # R /\ Q \subseteq R
    OBVIOUS
  <2> HIDE DEF T
  <2>2. QED  BY <1>2, <2>1
<1>7. Cardinality(Q) \in Nat /\ Cardinality(R) = Cardinality(Q) + 1
  <2>1. IsFiniteSet(R) /\ m \in R /\ IsFiniteSet(Q)
    BY <1>3, <1>5, FS_RemoveElement
  <2>2. Cardinality(Q) = Cardinality(R) - 1
    BY <2>1, FS_RemoveElement
  <2> HIDE DEF Q
  <2>3. Cardinality(Q) \in Nat /\ Cardinality(R) \in Nat
    BY <2>1, FS_CardinalityType
  <2>4. QED  BY <2>2, <2>3
<1>8. PICK n \in Nat : /\ Cardinality(R) = n + 1
                       /\ \E s \in [1..n -> Q] : Ascending(s)
  BY <1>3, <1>6, <1>7
<1>9. PICK s \in [1..n -> Q] : Ascending(s)
  BY <1>8
<1> DEFINE r == [i \in 1..(n + 1) |-> IF i = n + 1 THEN m ELSE s[i]]
<1> HIDE DEF T
<1>10. r \in [1..(n + 1) -> R]
  OBVIOUS
<1>11. ASSUME NEW i \in 1..(n + 1), NEW j \in 1..(n + 1), i < j PROVE r[i][2] < r[j][2]
  <2>1. i \in 1..n /\ r[i] = s[i] /\ s[i] \in Q
    BY <1>11
  <2>2. CASE j = n + 1
    <3>1. r[j] = m /\ s[i] \in R /\ s[i] # m
      BY <2>1, <2>2
    <3>2. s[i][2] <= m[2] /\ s[i][2] # m[2]
      BY <1>3, <1>5, <3>1
    <3>3. s[i][2] \in Nat /\ m[2] \in Nat
      BY <1>3, <3>1
    <3>4. QED  BY <2>1, <3>1, <3>2, <3>3
  <2>3. CASE j # n + 1
    <3>1. j \in 1..n /\ r[j] = s[j]
      BY <2>3
    <3>2. QED  BY <1>9, <1>11, <2>1, <3>1 DEF Ascending
  <2>4. QED  BY <2>2, <2>3
<1>12. Ascending(r)
  BY <1>11 DEF Ascending
<1>13. QED  BY <1>2, <1>8, <1>10, <1>12 DEF T

\* A hook is there, and no file of its name in a directory that counts more.
TopMost(h) ==
    /\ h \in Dirs \X HookNames
    /\ \A e \in Dirs : e > h[1] => files[e][h[2]].kind = "none"
Tops == {h \in Dirs \X HookNames : TopMost(h)}

\* What a transaction does not start with: an error in a file that counts.
NoneBad ==
    \A d \in Dirs, n \in HookNames : files[d][n].kind = "bad" => Hidden(d, n, {})

HookInv ==
    /\ \A d \in Dirs, n \in HookNames : files[d][n].kind \in {"hook", "mask", "bad", "none"}
    /\ todo \in Seq(Tops)
    /\ stage \in {"commit", "post"} \/ (stage = "pre" /\ loaded) => NoneBad
    /\ stage = "none" => todo = <<>>
    /\ loaded \in BOOLEAN /\ (loaded => stage \in {"pre", "post"})

\* Without errors, a hook that is found is the one that counts.
LEMMA FoundAreTopMost ==
    ASSUME HookInv, NoneBad, NEW h \in HooksFound({})
    PROVE  TopMost(h)
<1>1. PICK n \in HookNames : Owners(n, {}) # {} /\ h = <<Max(Owners(n, {})), n>>
  BY DEF HooksFound
<1> DEFINE O == Owners(n, {})
<1>2. O \in SUBSET (1..NumDirs) /\ NumDirs \in Nat
  BY HooksBounds DEF Owners, Dirs
<1>3. Max(O) \in O /\ \A d \in O : Max(O) >= d
  <2>1. \E m \in O : \A d \in O : m >= d
    <3> HIDE DEF O
    <3>1. QED  BY <1>1, <1>2, LargestNumber DEF O
  <2>2. Max(O) = CHOOSE m \in O : \A d \in O : m >= d
    BY DEF Max
  <2> HIDE DEF O
  <2>3. QED  BY <2>1, <2>2
<1>4. ASSUME NEW e \in Dirs, e > Max(O) PROVE files[e][n].kind = "none"
  <2>1. \A d \in O : ~(d > e)
    BY <1>2, <1>3, <1>4 DEF Dirs
  <2>2. e \notin O
    BY <1>2, <1>3, <1>4 DEF Dirs
  <2>3. files[e][n].kind \notin {"hook", "mask"}
    BY <2>2 DEF Owners
  <2>4. files[e][n].kind # "bad"
    BY <2>1 DEF NoneBad, Hidden
  <2>5. QED  BY <2>3, <2>4 DEF HookInv
<1>5. QED  BY <1>1, <1>2, <1>3, <1>4 DEF TopMost, Dirs

LEMMA TriggeredAreTopMost ==
    ASSUME HookInv, NoneBad
    PROVE  Triggered({}) \in Seq(Tops)
<1> DEFINE hooks == {h \in HooksFound({}) :
                       /\ Hook(h).kind = "hook" /\ Hook(h).when = stage
                       /\ _alpm_hook_triggered(Hook(h))}
<1>1. hooks \subseteq Tops /\ hooks \subseteq HooksFound({})
  BY FoundAreTopMost DEF TopMost, Tops
<1>2. Tops \subseteq Dirs \X HookNames /\ IsFiniteSet(Dirs \X HookNames)
  <2>1. IsFiniteSet(Dirs) /\ IsFiniteSet(HookNames)
    BY HooksBounds, FS_Interval DEF Dirs
  <2>2. QED  BY <2>1, FS_Product DEF Tops
<1>3. Dirs \X HookNames \subseteq Nat \X Nat
  <2>1. Dirs \subseteq Nat /\ HookNames \subseteq Nat
    BY HooksBounds DEF Dirs
  <2>2. QED  BY <2>1
<1>4. \A g, h \in hooks : g[2] = h[2] => g = h
  BY DEF HooksFound
<1>5. Triggered({}) = CHOOSE s \in [1..Cardinality(hooks) -> hooks] : Ascending(s)
  BY DEF Triggered, Ascending
<1> HIDE DEF hooks
<1>6. IsFiniteSet(hooks) /\ hooks \in SUBSET (Nat \X Nat) /\ Cardinality(hooks) \in Nat
  BY <1>1, <1>2, <1>3, FS_Subset, FS_CardinalityType
<1>7. \E s \in [1..Cardinality(hooks) -> hooks] : Ascending(s)
  BY <1>4, <1>6, OrderExists
<1>8. Triggered({}) \in [1..Cardinality(hooks) -> hooks]
  BY <1>5, <1>7
<1>9. Triggered({}) \in Seq(hooks)
  BY <1>6, <1>8, SeqDef
<1>10. QED  BY <1>1, <1>9

\* The hooks to run stay, as the files do.
LEMMA SameFiles ==
    ASSUME files' = files PROVE Tops' = Tops
BY DEF Tops, TopMost

LEMMA NextHookInv ==
    ASSUME ReadErrors \subseteq {"pre"}, HookInv, [SyncCommitNext]_svars PROVE HookInv'
<1>1. CASE ReadHooks
  <2>1. PICK missed \in IF stage \in ReadErrors THEN SUBSET (Dirs \X HookNames) ELSE {{}} :
          IF stage = "pre" /\ ReadFails(missed)
          THEN stage' = "aborted" /\ UNCHANGED <<loaded, todo, hret>>
          ELSE /\ loaded' = TRUE /\ todo' = Triggered(missed)
               /\ UNCHANGED stage
    BY <1>1 DEF ReadHooks
  <2>2. stage \in {"pre", "post"} /\ files' = files /\ loaded = FALSE
    BY <1>1 DEF ReadHooks, HookInv
  <2>3. CASE stage = "pre" /\ ReadFails(missed)
    <3>1. stage' = "aborted" /\ loaded' = FALSE /\ todo' = todo
      BY <2>1, <2>2, <2>3
    <3>2. QED  BY <2>2, <3>1, SameFiles DEF HookInv
  <2>4. CASE ~(stage = "pre" /\ ReadFails(missed))
    <3>1. missed = {}
      BY <2>1, <2>2, <2>4 DEF ReadFails
    <3>2. NoneBad
      BY <2>2, <2>4, <3>1 DEF ReadFails, NoneBad, HookInv
    <3>3. todo' \in Seq(Tops)
      BY <2>1, <2>4, <3>1, <3>2, TriggeredAreTopMost
    <3>4. NoneBad'
      BY <2>2, <3>2 DEF NoneBad, Hidden, Owners
    <3>5. stage' = stage /\ loaded' = TRUE
      BY <2>1, <2>4
    <3>6. QED  BY <2>2, <3>3, <3>4, <3>5, SameFiles DEF HookInv
  <2>5. QED  BY <2>3, <2>4
<1>2. CASE HookDone
  <2>1. todo' \in {<<>>, Tail(todo)} /\ todo # <<>> /\ UNCHANGED <<stage, files, loaded>>
    BY <1>2 DEF HookDone
  <2>2. todo' \in Seq(Tops)
    <3>1. todo \in Seq(Tops)
      BY DEF HookInv
    <3>2. Tail(todo) \in Seq(Tops) /\ <<>> \in Seq(Tops)
      BY <2>1, <3>1
    <3>3. QED  BY <2>1, <3>2
  <2>3. NoneBad' <=> NoneBad
    BY <2>1 DEF NoneBad, Hidden, Owners
  <2>4. QED  BY <2>1, <2>2, <2>3, SameFiles DEF HookInv
<1>3. CASE AllHooksDone
  <2>1. /\ todo = <<>> /\ UNCHANGED <<todo, files>> /\ stage' \in {"done", "commit", "aborted"}
        /\ loaded' = FALSE /\ (stage' = "commit" => stage = "pre" /\ loaded)
    BY <1>3 DEF AllHooksDone, HookInv
  <2>2. stage' = "commit" => NoneBad
    BY <2>1 DEF HookInv
  <2>3. NoneBad' <=> NoneBad
    BY <2>1 DEF NoneBad, Hidden, Owners
  <2>4. todo' \in Seq(Tops')
    BY <2>1
  <2>5. QED  BY <2>1, <2>2, <2>3, <2>4 DEF HookInv
<1>4. CASE CommitPackages
  <2>1. /\ stage = "commit" /\ UNCHANGED <<files, todo, loaded>>
        /\ stage' \in {"post", "done", "aborted"}
    BY <1>4 DEF CommitPackages
  <2>2. NoneBad' <=> NoneBad
    BY <2>1 DEF NoneBad, Hidden, Owners
  <2>3. NoneBad /\ loaded = FALSE
    BY <2>1 DEF HookInv
  <2>4. NoneBad' /\ loaded' = FALSE
    BY <2>1, <2>2, <2>3
  <2>5. QED  BY <2>1, <2>4, SameFiles DEF HookInv
<1>5. CASE StartHooks
  <2>1. /\ stage = "none" /\ stage' = "pre" /\ UNCHANGED <<todo, loaded>>
        /\ \E c \in HookCases : files' = c.files
    BY <1>5 DEF StartHooks
  <2>2. \A d \in Dirs, n \in HookNames : files'[d][n].kind \in {"hook", "mask", "bad", "none"}
    BY <2>1, HookFiles
  <2>3. todo' = <<>> /\ loaded' = FALSE
    BY <2>1 DEF HookInv
  <2>4. todo' \in Seq(Tops')
    BY <2>3
  <2>5. QED  BY <2>1, <2>2, <2>3, <2>4 DEF HookInv
<1>6. CASE UNCHANGED <<stage, files, todo, loaded>>
  <2>1. NoneBad' <=> NoneBad
    BY <1>6 DEF NoneBad, Hidden, Owners
  <2>2. QED  BY <1>6, <2>1, SameFiles DEF HookInv
<1>7. QED
  BY <1>1, <1>2, <1>3, <1>4, <1>5, <1>6 DEF SyncCommitNext, HooksNext, _alpm_hook_run,
     RunHook, HookChild, hvars, svars

LEMMA HookInvHolds == ReadErrors \subseteq {"pre"} => (SyncCommitSpec => []HookInv)
<1> SUFFICES ASSUME ReadErrors \subseteq {"pre"} PROVE SyncCommitSpec => []HookInv
  OBVIOUS
<1>1. SyncCommitInit => HookInv
  <2> SUFFICES ASSUME SyncCommitInit PROVE HookInv
    OBVIOUS
  <2>1. todo = <<>> /\ loaded = FALSE /\ stage = "none"
    BY DEF SyncCommitInit
  <2>2. \A d \in Dirs, n \in HookNames : files[d][n].kind = "none"
    BY DEF SyncCommitInit, NoHook
  <2>3. todo \in Seq(Tops)
    BY <2>1
  <2>4. loaded \in BOOLEAN
    BY <2>1, Zenon
  <2>5. QED  BY <2>1, <2>2, <2>3, <2>4 DEF HookInv
<1>2. HookInv /\ [SyncCommitNext]_svars => HookInv'
  BY NextHookInv
<1>3. QED  BY <1>1, <1>2, PTL DEF SyncCommitSpec

\* A hook does not run when a directory that counts more has a file of its name
\* (_alpm_hook_run), unless a file cannot be read after the transaction, when it
\* is too late to stop.
THEOREM HiddenHooksDoNotRun ==
    ReadErrors \subseteq {"pre"} => (SyncCommitSpec => []OverriddenNeverRuns)
<1> SUFFICES ASSUME ReadErrors \subseteq {"pre"} PROVE SyncCommitSpec => []OverriddenNeverRuns
  OBVIOUS
<1>1. HookInv => OverriddenNeverRuns
  <2> SUFFICES ASSUME HookInv, todo # <<>> PROVE TopMost(Head(todo))
    BY DEF OverriddenNeverRuns, TopMost
  <2>1. Head(todo) \in Tops
    BY DEF HookInv
  <2>2. QED  BY <2>1 DEF Tops
<1>2. QED  BY HookInvHolds, <1>1, PTL

-----------------------------------------------------------------------------
(* The output of a child (RunChroot)                                       *)

LEMMA CutInTwo ==
    ASSUME NEW s \in Seq(Nat), NEW n \in Nat, n <= Len(s)
    PROVE  /\ SubSeq(s, 1, n) \in Seq(Nat) /\ SubSeq(s, n + 1, Len(s)) \in Seq(Nat)
           /\ SubSeq(s, 1, n) \o SubSeq(s, n + 1, Len(s)) = s
<1>1. SubSeq(s, 1, n) \in Seq(Nat) /\ SubSeq(s, n + 1, Len(s)) \in Seq(Nat)
  OBVIOUS
<1>2. 1 \in 1..(Len(s) + 1) /\ n \in (1 - 1)..Len(s) /\ Len(s) \in n..Len(s)
  OBVIOUS
<1>3. SubSeq(s, 1, n) \o SubSeq(s, n + 1, Len(s)) = SubSeq(s, 1, Len(s))
  BY <1>2, ConcatAdjacentSubSeq
<1>4. SubSeq(s, 1, Len(s)) = s
  OBVIOUS
<1>5. QED  BY <1>1, <1>3, <1>4

LEMMA ConcatAssoc ==
    ASSUME NEW s \in Seq(Nat), NEW t \in Seq(Nat), NEW u \in Seq(Nat)
    PROVE  (s \o t) \o u = s \o (t \o u)
OBVIOUS

LEMMA AppendCat ==
    ASSUME NEW s \in Seq(Nat), NEW t \in Seq(Nat), NEW c \in Nat
    PROVE  s \o Append(t, c) \in Seq(Nat) /\ s \o Append(t, c) = Append(s \o t, c)
<1>1. Append(t, c) = t \o <<c>> /\ Append(s \o t, c) = (s \o t) \o <<c>> /\ s \o t \in Seq(Nat)
  BY AppendIsConcat, ConcatProperties
<1>2. <<c>> \in Seq(Nat)
  OBVIOUS
<1>3. s \o (t \o <<c>>) = (s \o t) \o <<c>>
  BY <1>2, ConcatAssoc
<1>4. s \o (t \o <<c>>) \in Seq(Nat)
  BY <1>1, <1>2, <1>3, ConcatProperties
<1>5. QED  BY <1>1, <1>3, <1>4

LEMMA LastOfCat ==
    ASSUME NEW s \in Seq(Nat), NEW t \in Seq(Nat), t # <<>>
    PROVE  s \o t # <<>> /\ Last(s \o t) = t[Len(t)] /\ Len(t) \in DOMAIN t
<1>1. PICK a, b : a = Len(s) /\ b = Len(t)
  OBVIOUS
<1>2. a \in Nat /\ b \in Nat \ {0} /\ DOMAIN t = 1..b
  BY <1>1
<1>3. /\ s \o t \in Seq(Nat) /\ Len(s \o t) = a + b
      /\ \A i \in 1..(a + b) : (s \o t)[i] = IF i <= a THEN s[i] ELSE t[i - a]
  BY <1>1, ConcatProperties
<1>4. PICK k \in 1..(a + b) : k = a + b
  BY <1>2
<1>5. (s \o t)[a + b] = t[b]
  <2>1. (s \o t)[k] = IF k <= a THEN s[k] ELSE t[k - a]
    BY <1>3
  <2>2. ~(k <= a) /\ k - a = b
    BY <1>2, <1>4
  <2>3. QED  BY <1>4, <2>1, <2>2, Zenon
<1>6. s \o t # <<>>
  BY <1>2, <1>3
<1>7. QED  BY <1>1, <1>2, <1>3, <1>5, <1>6 DEF Last

\* A text is cut after its last newline, and nothing of it is lost.
LEMMA LinesSplit ==
    ASSUME NEW buf \in Seq(Nat)
    PROVE  /\ Lines(buf).lines \in Seq(Nat) /\ Lines(buf).left \in Seq(Nat)
           /\ Lines(buf).lines \o Lines(buf).left = buf
           /\ Newline \notin {Lines(buf).left[i] : i \in DOMAIN Lines(buf).left}
<1> DEFINE N == Len(buf)
           Cut(n) == /\ n > 0 => buf[n] = Newline
                     /\ \A i \in (n + 1)..N : buf[i] # Newline
           ends == {i \in 1..N : buf[i] = Newline}
<1>1. N \in Nat /\ ends \in SUBSET (1..N)
  OBVIOUS
<1>2. \E n \in 0..N : Cut(n)
  <2>1. CASE ends = {}
    <3>1. 0 \in 0..N /\ Cut(0)
      BY <1>1, <2>1
    <3>2. QED  BY <3>1
  <2>2. CASE ends # {}
    <3>1. PICK n \in ends : \A i \in ends : n >= i
      <4> HIDE DEF ends, N
      <4>1. QED  BY <1>1, <2>2, LargestNumber
    <3>2. n \in 0..N /\ Cut(n)
      <4>1. ASSUME NEW i \in (n + 1)..N PROVE i \in 1..N /\ i \notin ends
        BY <1>1, <3>1
      <4>2. QED  BY <1>1, <3>1, <4>1
    <3>3. QED  BY <3>2
  <2>3. QED  BY <2>1, <2>2
<1>3. PICK n : n = CHOOSE m \in 0..N : Cut(m)
  OBVIOUS
<1>4. n \in 0..N /\ Cut(n)
  <2> HIDE DEF N, Cut
  <2>1. QED  BY <1>2, <1>3
<1>5. Lines(buf) = [lines |-> SubSeq(buf, 1, n), left |-> SubSeq(buf, n + 1, N)]
  BY <1>3 DEF Lines
<1>6. PICK a, b : a = SubSeq(buf, 1, n) /\ b = SubSeq(buf, n + 1, N)
  OBVIOUS
<1>7. /\ a \in Seq(Nat) /\ Len(a) = n
      /\ b \in Seq(Nat) /\ Len(b) = N - n /\ \A i \in 1..(N - n) : b[i] = buf[n + i]
  <2> HIDE DEF N, Cut
  <2>1. N \in Nat /\ n \in Nat /\ n <= N /\ N = Len(buf)
    BY <1>1, <1>4 DEF N
  <2>2. QED  BY <1>6, <2>1
<1>8. a \o b = buf
  <2>1. n \in Nat /\ n <= Len(buf)
    BY <1>1, <1>4
  <2> HIDE DEF Cut
  <2>2. QED  BY <1>6, <2>1, CutInTwo
<1>9. \A i \in DOMAIN b : b[i] # Newline
  <2>1. \A i \in 1..(N - n) : n + i \in (n + 1)..N
    BY <1>4
  <2>2. DOMAIN b = 1..(N - n)
    BY <1>7
  <2>3. ASSUME NEW i \in 1..(N - n) PROVE b[i] # Newline
    <3>1. n + i \in (n + 1)..N /\ b[i] = buf[n + i]
      BY <1>7, <2>1
    <3>2. QED  BY <1>4, <3>1
  <2>4. QED  BY <2>2, <2>3
<1>10. Lines(buf).lines = a /\ Lines(buf).left = b
  <2>1. Lines(buf) = [lines |-> a, left |-> b]
    BY <1>5, <1>6, Zenon
  <2>2. QED  BY <2>1
<1>11. QED  BY <1>7, <1>8, <1>9, <1>10

LEMMA NothingWithNewlines == WithNewlines(<<>>, <<>>)
<1>1. {} \in SUBSET DOMAIN <<>> /\ Cardinality({}) = Len(<<>>) /\ DOMAIN <<>> = {}
  BY FS_EmptySet
<1>2. QED  BY <1>1 DEF WithNewlines

LEMMA NumbersFinite ==
    ASSUME NEW n \in Nat, NEW S \in SUBSET (1..n)
    PROVE  IsFiniteSet(S) /\ Cardinality(S) \in Nat
<1>1. IsFiniteSet(1..n)
  BY FS_Interval
<1>2. IsFiniteSet(S)
  BY <1>1, FS_Subset
<1>3. QED  BY <1>2, FS_CardinalityType

\* What is kept of a text up to some place.
LEMMA KeptUpTo ==
    ASSUME NEW n \in Nat, NEW kept \in SUBSET (1..n), NEW j \in kept
    PROVE  Place(j, kept) \in 1..Cardinality(kept)
<1> DEFINE upto == {i \in kept : i <= j}
<1>1. IsFiniteSet(kept) /\ Cardinality(kept) \in Nat
  BY NumbersFinite
<1>2. IsFiniteSet(upto) /\ Cardinality(upto) \in Nat /\ Cardinality(upto) <= Cardinality(kept)
  BY <1>1, FS_Subset, FS_CardinalityType
<1>3. j \in upto
  OBVIOUS
<1>4. Cardinality(upto) # 0
  BY <1>2, <1>3, FS_EmptySet
<1>5. Place(j, kept) = Cardinality(upto)
  BY DEF Place
<1>6. QED
  <2> HIDE DEF upto
  <2>1. QED  BY <1>1, <1>2, <1>4, <1>5

\* The same text may follow both.
LEMMA NewlinesCat ==
    ASSUME NEW s \in Seq(Nat), NEW t \in Seq(Nat), NEW u \in Seq(Nat), WithNewlines(s, t)
    PROVE  WithNewlines(s \o u, t \o u)
<1>1. PICK a, b, c : a = Len(s) /\ b = Len(t) /\ c = Len(u)
  OBVIOUS
<1>2. PICK kept \in SUBSET (1..b) :
          /\ Cardinality(kept) = a
          /\ \A j \in 1..b :
               IF j \in kept THEN t[j] = s[Place(j, kept)] ELSE t[j] = Newline
  <2>1. DOMAIN t = 1..b
    BY <1>1
  <2>2. PICK k \in SUBSET DOMAIN t :
           /\ Cardinality(k) = Len(s)
           /\ \A j \in DOMAIN t : IF j \in k THEN t[j] = s[Place(j, k)] ELSE t[j] = Newline
    BY Zenon DEF WithNewlines
  <2>3. k \in SUBSET (1..b) /\ Cardinality(k) = a
    BY <1>1, <2>1, <2>2
  <2>4. ASSUME NEW j \in 1..b
        PROVE  IF j \in k THEN t[j] = s[Place(j, k)] ELSE t[j] = Newline
    BY <2>1, <2>2
  <2>5. QED  BY <2>3, <2>4, Zenon
<1>3. a \in Nat /\ b \in Nat /\ c \in Nat /\ IsFiniteSet(kept)
  <2>1. a \in Nat /\ b \in Nat /\ c \in Nat
    BY <1>1
  <2>2. QED  BY <2>1, NumbersFinite
<1>4. /\ DOMAIN (t \o u) = 1..(b + c) /\ Len(s \o u) = a + c
      /\ \A j \in 1..b : (t \o u)[j] = t[j]
      /\ \A j \in 1..c : (t \o u)[b + j] = u[j] /\ (s \o u)[a + j] = u[j]
      /\ \A j \in 1..a : (s \o u)[j] = s[j]
  BY <1>1
<1>5. PICK K : K = kept \cup ((b + 1)..(b + c))
  OBVIOUS
<1>6. ASSUME NEW m \in 0..c
      PROVE  Cardinality(kept \cup ((b + 1)..(b + m))) = a + m
  <2> DEFINE new == (b + 1)..(b + m)
  <2>1. IsFiniteSet(new) /\ Cardinality(new) = m
    BY <1>3, FS_Interval
  <2>2. kept \cap new = {}
    BY <1>3
  <2>3. Cardinality(kept \cap new) = 0
    BY <2>2, FS_EmptySet
  <2>4. Cardinality(kept \cup new) = Cardinality(kept) + Cardinality(new) - Cardinality(kept \cap new)
    BY <1>3, <2>1, FS_Union
  <2> HIDE DEF new
  <2>5. Cardinality(kept \cup new) = a + m
    BY <1>2, <1>3, <2>1, <2>3, <2>4
  <2>6. QED  BY <2>5 DEF new
<1>7. K \in SUBSET (1..(b + c)) /\ Cardinality(K) = a + c
  BY <1>3, <1>5, <1>6
<1>8. ASSUME NEW j \in 1..(b + c)
      PROVE  IF j \in K THEN (t \o u)[j] = (s \o u)[Place(j, K)]
             ELSE (t \o u)[j] = Newline
  <2>1. CASE j <= b
    <3>1. j \in 1..b /\ (j \in K <=> j \in kept) /\ (t \o u)[j] = t[j]
      BY <1>3, <1>4, <1>5, <2>1
    <3>2. Place(j, K) = Place(j, kept)
      <4>1. {i \in K : i <= j} = {i \in kept : i <= j}
        BY <1>3, <1>5, <2>1
      <4>2. QED  BY <4>1 DEF Place
    <3>3. CASE j \in kept
      <4>1. Place(j, kept) \in 1..a
        BY <1>2, <1>3, <3>3, KeptUpTo
      <4>2. QED  BY <1>2, <1>4, <3>1, <3>2, <3>3, <4>1
    <3>4. CASE j \notin kept
      BY <1>2, <3>1, <3>4
    <3>5. QED  BY <3>3, <3>4
  <2>2. CASE j > b
    <3>1. PICK m \in 1..c : j = b + m
      <4>1. j - b \in 1..c /\ j = b + (j - b)
        BY <1>3, <2>2
      <4>2. QED  BY <4>1
    <3>2. {i \in K : i <= j} = kept \cup ((b + 1)..(b + m))
      <4>1. \A i \in kept : i \in 1..b /\ i <= j
        BY <1>3, <3>1
      <4>2. \A i \in (b + 1)..(b + m) : i \in (b + 1)..(b + c) /\ i <= j
        BY <1>3, <3>1
      <4>3. \A i \in (b + 1)..(b + c) : i <= j => i \in (b + 1)..(b + m)
        BY <1>3, <3>1
      <4>4. QED  BY <1>5, <4>1, <4>2, <4>3
    <3>3. Place(j, K) = a + m
      <4>1. m \in 0..c
        BY <1>3
      <4>2. Cardinality(kept \cup ((b + 1)..(b + m))) = a + m
        BY <1>6, <4>1
      <4>3. QED  BY <3>2, <4>2 DEF Place
    <3>k. j \in K
      BY <1>3, <1>5, <3>1
    <3>4. QED  BY <1>4, <3>1, <3>3, <3>k
  <2>3. j <= b \/ j > b
    BY <1>3
  <2>4. QED  BY <2>1, <2>2, <2>3
<1>9. QED  BY <1>4, <1>7, <1>8 DEF WithNewlines

\* A newline may follow the second.
LEMMA NewlinesAdd ==
    ASSUME NEW s \in Seq(Nat), NEW t \in Seq(Nat), WithNewlines(s, t)
    PROVE  WithNewlines(s, Append(t, Newline))
<1>1. PICK a, b : a = Len(s) /\ b = Len(t)
  OBVIOUS
<1>2. PICK kept \in SUBSET (1..b) :
          /\ Cardinality(kept) = a
          /\ \A j \in 1..b :
               IF j \in kept THEN t[j] = s[Place(j, kept)] ELSE t[j] = Newline
  <2>1. DOMAIN t = 1..b
    BY <1>1
  <2>2. QED  BY <1>1, <2>1 DEF WithNewlines
<1>3. /\ b \in Nat /\ DOMAIN Append(t, Newline) = 1..(b + 1)
      /\ \A j \in 1..b : Append(t, Newline)[j] = t[j]
      /\ Append(t, Newline)[b + 1] = Newline
  BY <1>1 DEF Newline
<1>4. kept \in SUBSET (1..(b + 1)) /\ b + 1 \notin kept
  BY <1>3
<1>5. \A j \in 1..(b + 1) : j \in 1..b \/ j = b + 1
  BY <1>3
<1>6. QED  BY <1>1, <1>2, <1>3, <1>4, <1>5 DEF WithNewlines

\* Text without an end of line.
Unended(s) == \A i \in DOMAIN s : s[i] # Newline

AllAccountedFor ==
    \E p \in Seq(Nat) : says = (p \o ibuf) \o unread /\ WithNewlines(p, log)

\* What is logged is what was said up to the buffer, and what is said comes from
\* the buffer and the socket, until the end of the output is read with an
\* unended line in the buffer.
ChildInv ==
    /\ says \in Seq(Nat) /\ unread \in Seq(Nat) /\ ibuf \in Seq(Nat) /\ log \in Seq(Nat)
    /\ Unended(ibuf)
    /\ proc \in {"none", "done"} => ~stdout
    /\ stdout \/ ibuf = <<>> => AllAccountedFor
    /\ ~stdout => unread = <<>> /\ (ibuf # <<>> => says # <<>> /\ Last(says) # Newline)

LEMMA EmptyCat == <<>> \in Seq(Nat) /\ \A s \in Seq(Nat) : (<<>> \o s) = s /\ (s \o <<>>) = s
  OBVIOUS

LEMMA NoChildInv == NoChild => ChildInv
<1> SUFFICES ASSUME NoChild PROVE ChildInv
  OBVIOUS
<1>1. says = <<>> /\ unread = <<>> /\ ibuf = <<>> /\ log = <<>> /\ ~stdout
  BY DEF NoChild
<1>2. WithNewlines(<<>>, <<>>) /\ <<>> = (<<>> \o <<>>) \o <<>>
  BY NothingWithNewlines, EmptyCat
<1>3. AllAccountedFor
  BY <1>1, <1>2, EmptyCat DEF AllAccountedFor
<1>4. QED  BY <1>1, <1>3, EmptyCat DEF ChildInv, Unended

LEMMA ForgetChildInv == ForgetChild => ChildInv'
<1> SUFFICES ASSUME ForgetChild PROVE ChildInv'
  OBVIOUS
<1>1. says' = <<>> /\ unread' = <<>> /\ ibuf' = <<>> /\ log' = <<>> /\ ~stdout'
  BY DEF ForgetChild
<1>2. WithNewlines(<<>>, <<>>) /\ <<>> = (<<>> \o <<>>) \o <<>>
  BY NothingWithNewlines, EmptyCat
<1>3. AllAccountedFor'
  BY <1>1, <1>2, EmptyCat DEF AllAccountedFor
<1>4. QED  BY <1>1, <1>3, EmptyCat DEF ChildInv, Unended

\* Steps that leave the output alone.
LEMMA SameOutput ==
    ASSUME ChildInv, UNCHANGED <<says, unread, ibuf, stdout, log>>,
           proc' \in {"none", "done"} => ~stdout
    PROVE  ChildInv'
BY DEF ChildInv, AllAccountedFor, Unended

LEMMA ForkInv ==
    ASSUME NEW targets, NEW fed, Fork(targets, fed)
    PROVE  ChildInv'
<1>1. /\ says' \in Seq(Nat) /\ unread' = says' /\ ibuf' = <<>> /\ log' = <<>>
      /\ stdout' = TRUE /\ proc' = "running"
  BY RunChrootBounds DEF Fork
<1>2. WithNewlines(<<>>, <<>>) /\ says' = (<<>> \o <<>>) \o says'
  BY <1>1, NothingWithNewlines, EmptyCat
<1>3. AllAccountedFor'
  BY <1>1, <1>2, EmptyCat DEF AllAccountedFor
<1>4. QED  BY <1>1, <1>3, EmptyCat DEF ChildInv, Unended

\* The end of the output is read.
LEMMA EndReadInv ==
    ASSUME ChildInv, stdout, unread = <<>>, UNCHANGED <<says, unread, ibuf, proc>>,
           log' = IF ibuf = <<>> THEN log ELSE log \o Append(ibuf, Newline), stdout' = FALSE
    PROVE  ChildInv'
<1>1. PICK p \in Seq(Nat) : says = (p \o ibuf) \o unread /\ WithNewlines(p, log)
  BY DEF ChildInv, AllAccountedFor
<1>2. /\ says \in Seq(Nat) /\ ibuf \in Seq(Nat) /\ log \in Seq(Nat) /\ unread \in Seq(Nat)
      /\ Unended(ibuf) /\ says = p \o ibuf
  BY <1>1, EmptyCat DEF ChildInv
<1>3. CASE ibuf = <<>>
  BY <1>1, <1>2, <1>3 DEF ChildInv, AllAccountedFor, Unended
<1>4. CASE ibuf # <<>>
  <2>1. log' \in Seq(Nat)
    <3>1. Newline \in Nat
      BY DEF Newline
    <3>2. QED  BY <1>2, <1>4, <3>1, AppendCat
  <2>2. says # <<>> /\ Last(says) = ibuf[Len(ibuf)] /\ Len(ibuf) \in DOMAIN ibuf
    <3>1. p \o ibuf # <<>> /\ Last(p \o ibuf) = ibuf[Len(ibuf)] /\ Len(ibuf) \in DOMAIN ibuf
      BY <1>2, <1>4, LastOfCat
    <3>2. QED  BY <1>2, <3>1, Zenon
  <2>3. says # <<>> /\ Last(says) # Newline
    BY <1>2, <2>2 DEF Unended
  <2>4. QED  BY <1>2, <1>4, <2>1, <2>3 DEF ChildInv
<1>5. QED  BY <1>3, <1>4

\* What is read is logged as far as its lines go, or a line that fills the buffer
\* with a newline added.
LEMMA MoreReadInv ==
    ASSUME ChildInv, stdout, NEW n \in Nat, n <= Len(unread), NEW full \in BOOLEAN,
           NEW buf, buf = ibuf \o SubSeq(unread, 1, n),
           log' = log \o (IF full THEN Append(buf, Newline) ELSE Lines(buf).lines),
           ibuf' = IF full THEN <<>> ELSE Lines(buf).left,
           unread' = SubSeq(unread, n + 1, Len(unread)), stdout' = stdout, says' = says,
           proc' = proc
    PROVE  ChildInv'
<1>1. PICK p \in Seq(Nat) : says = (p \o ibuf) \o unread /\ WithNewlines(p, log)
  BY DEF ChildInv, AllAccountedFor
<1>2. says \in Seq(Nat) /\ ibuf \in Seq(Nat) /\ log \in Seq(Nat) /\ unread \in Seq(Nat)
  BY DEF ChildInv
<1>3. PICK chunk, rest : chunk = SubSeq(unread, 1, n) /\ rest = unread'
  OBVIOUS
<1>4. /\ chunk \in Seq(Nat) /\ rest \in Seq(Nat) /\ chunk \o rest = unread
      /\ buf \in Seq(Nat) /\ buf = ibuf \o chunk
  <2>1. chunk \in Seq(Nat) /\ rest \in Seq(Nat) /\ chunk \o rest = unread
    BY <1>2, <1>3, CutInTwo
  <2>2. ibuf \o chunk \in Seq(Nat) /\ buf = ibuf \o chunk
    BY <1>2, <1>3, <2>1, ConcatProperties
  <2>3. QED  BY <2>1, <2>2
<1>5. says = (p \o buf) \o rest
  <2>1. (p \o ibuf) \o (chunk \o rest) = ((p \o ibuf) \o chunk) \o rest
    <3>1. p \o ibuf \in Seq(Nat)
      BY <1>1, <1>2, ConcatProperties
    <3>2. QED  BY <1>4, <3>1, ConcatAssoc
  <2>2. (p \o ibuf) \o chunk = p \o buf
    <3>1. p \in Seq(Nat) /\ ibuf \in Seq(Nat) /\ chunk \in Seq(Nat)
      BY <1>2, <1>4
    <3>2. (p \o ibuf) \o chunk = p \o (ibuf \o chunk)
      BY <3>1, ConcatAssoc
    <3>3. QED  BY <1>4, <3>2, Zenon
  <2>3. QED  BY <1>1, <1>4, <2>1, <2>2
<1>6. proc' \in {"none", "done"} => ~stdout'
  BY DEF ChildInv
<1>7. CASE full
  <2>1. p \o buf \in Seq(Nat) /\ log \o buf \in Seq(Nat) /\ log' = Append(log \o buf, Newline)
    <3>1. Newline \in Nat /\ log' = log \o Append(buf, Newline)
      BY <1>7 DEF Newline
    <3>2. QED  BY <1>2, <1>4, <3>1, AppendCat, ConcatProperties
  <2>2. WithNewlines(p \o buf, log')
    BY <1>1, <1>2, <1>4, <2>1, NewlinesCat, NewlinesAdd
  <2>3. says' = ((p \o buf) \o ibuf') \o unread'
    BY <1>3, <1>5, <1>7, <2>1, EmptyCat
  <2>4. log' \in Seq(Nat) /\ ibuf' \in Seq(Nat) /\ unread' \in Seq(Nat) /\ Unended(ibuf')
    <3>1. Newline \in Nat /\ log' = log \o Append(buf, Newline) /\ ibuf' = <<>>
      BY <1>7 DEF Newline
    <3>2. log \o Append(buf, Newline) \in Seq(Nat)
      <4>1. Newline \in Nat
        BY DEF Newline
      <4>2. log \in Seq(Nat) /\ buf \in Seq(Nat)
        BY <1>2, <1>4
      <4>3. QED  BY <4>1, <4>2, AppendCat
    <3>3. Unended(<<>>) /\ <<>> \in Seq(Nat)
      BY DEF Unended
    <3>4. QED  BY <1>3, <1>4, <3>1, <3>2, <3>3
  <2>6. AllAccountedFor'
    BY <2>1, <2>2, <2>3 DEF AllAccountedFor
  <2>5. QED  BY <1>2, <1>6, <2>1, <2>4, <2>6 DEF ChildInv
<1>8. CASE ~full
  <2>1. PICK whole, left : whole = Lines(buf).lines /\ left = Lines(buf).left
    OBVIOUS
  <2>2. whole \in Seq(Nat) /\ left \in Seq(Nat) /\ whole \o left = buf /\ Unended(left)
    BY <1>4, <2>1, LinesSplit DEF Unended
  <2>3. p \o whole \in Seq(Nat) /\ log' \in Seq(Nat) /\ log' = log \o whole /\ ibuf' = left
    <3>1. log' = log \o whole /\ ibuf' = left
      BY <1>8, <2>1
    <3>2. p \o whole \in Seq(Nat) /\ log \o whole \in Seq(Nat)
      BY <1>2, <2>2, ConcatProperties
    <3>3. QED  BY <3>1, <3>2
  <2>4. WithNewlines(p \o whole, log')
    BY <1>1, <1>2, <2>2, <2>3, NewlinesCat
  <2>5. (p \o whole) \o left = p \o buf
    <3>1. (p \o whole) \o left = p \o (whole \o left)
      BY <2>2, ConcatAssoc
    <3>2. QED  BY <2>2, <3>1, Zenon
  <2>6. says' = ((p \o whole) \o ibuf') \o unread'
    BY <1>3, <1>5, <2>3, <2>5
  <2>7. AllAccountedFor'
    BY <2>3, <2>4, <2>6 DEF AllAccountedFor
  <2>8. Unended(ibuf')
    BY <2>2, <2>3 DEF Unended
  <2>9. QED  BY <1>2, <1>3, <1>4, <1>6, <2>2, <2>3, <2>7, <2>8 DEF ChildInv
<1>9. QED  BY <1>7, <1>8

LEMMA ReadInv == ChildInv /\ _alpm_chroot_read_from_child => ChildInv'
<1> SUFFICES ASSUME ChildInv, _alpm_chroot_read_from_child PROVE ChildInv'
  OBVIOUS
<1>1. stdout /\ UNCHANGED <<proc, says>>
  BY DEF _alpm_chroot_read_from_child
<1>2. CASE \E n \in 1..(ReadLimit - Len(ibuf)) :
             /\ n <= Len(unread)
             /\ LET buf == ibuf \o SubSeq(unread, 1, n)
                    split == Lines(buf)
                    full == split.lines = <<>> /\ n = ReadLimit - Len(ibuf)
                IN /\ log' = log \o (IF full THEN Append(buf, Newline) ELSE split.lines)
                   /\ ibuf' = IF full THEN <<>> ELSE split.left
             /\ unread' = SubSeq(unread, n + 1, Len(unread))
             /\ UNCHANGED stdout
  <2>1. PICK n \in 1..(ReadLimit - Len(ibuf)) :
             /\ n <= Len(unread)
             /\ LET buf == ibuf \o SubSeq(unread, 1, n)
                    split == Lines(buf)
                    full == split.lines = <<>> /\ n = ReadLimit - Len(ibuf)
                IN /\ log' = log \o (IF full THEN Append(buf, Newline) ELSE split.lines)
                   /\ ibuf' = IF full THEN <<>> ELSE split.left
             /\ unread' = SubSeq(unread, n + 1, Len(unread))
             /\ UNCHANGED stdout
    BY <1>2
  <2>2. PICK buf, full :
          /\ buf = ibuf \o SubSeq(unread, 1, n)
          /\ full = (Lines(buf).lines = <<>> /\ n = ReadLimit - Len(ibuf))
    OBVIOUS
  <2>3. full \in BOOLEAN /\ n \in Nat
    BY <2>2
  <2>4. /\ log' = log \o (IF full THEN Append(buf, Newline) ELSE Lines(buf).lines)
        /\ ibuf' = IF full THEN <<>> ELSE Lines(buf).left
    BY <2>1, <2>2
  <2>5. QED  BY <1>1, <2>1, <2>2, <2>3, <2>4, MoreReadInv
<1>3. CASE /\ proc = "exited" /\ unread = <<>>
           /\ log' = IF ibuf = <<>> THEN log ELSE log \o Append(ibuf, Newline)
           /\ stdout' = FALSE
           /\ UNCHANGED <<ibuf, unread>>
  <2>1. stdout /\ UNCHANGED <<says, unread, ibuf, proc>>
    BY <1>1, <1>3
  <2>2. QED  BY <1>3, <2>1, EndReadInv
<1>4. QED  BY <1>2, <1>3 DEF _alpm_chroot_read_from_child

LEMMA WaitInv == ChildInv /\ waitpid => ChildInv'
<1> SUFFICES ASSUME ChildInv, waitpid PROVE ChildInv'
  OBVIOUS
<1>1. /\ ~stdout /\ UNCHANGED <<says, unread, ibuf, stdout>>
      /\ log' = IF ibuf = <<>> THEN log ELSE log \o Append(ibuf, Newline)
  BY DEF waitpid
<1>2. CASE ibuf = <<>>
  BY <1>1, <1>2, SameOutput
<1>3. CASE ibuf # <<>>
  <2>1. log' = log \o Append(ibuf, Newline) /\ log' \in Seq(Nat)
    <3>1. log \in Seq(Nat) /\ ibuf \in Seq(Nat) /\ Newline \in Nat
      BY DEF ChildInv, Newline
    <3>2. log \o Append(ibuf, Newline) \in Seq(Nat)
      BY <3>1, AppendCat
    <3>3. QED  BY <1>1, <1>3, <3>2
  <2>2. Unended(ibuf')
    BY <1>1 DEF ChildInv, Unended
  <2>3. QED  BY <1>1, <1>3, <2>1, <2>2 DEF ChildInv
<1>4. QED  BY <1>2, <1>3

LEMMA RunChildInv == ChildInv /\ ChildNext => ChildInv'
<1> SUFFICES ASSUME ChildInv, ChildNext PROVE ChildInv'
  OBVIOUS
<1>1. CASE _alpm_chroot_write_to_child
  <2>1. UNCHANGED <<says, unread, ibuf, stdout, log>> /\ proc' = proc
    BY <1>1 DEF _alpm_chroot_write_to_child
  <2>2. QED  BY <2>1, SameOutput DEF ChildInv
<1>2. CASE _alpm_chroot_read_from_child
  BY <1>2, ReadInv
<1>3. CASE ChildExits
  BY <1>3, SameOutput DEF ChildExits
<1>4. CASE waitpid
  BY <1>4, WaitInv
<1>5. QED  BY <1>1, <1>2, <1>3, <1>4 DEF ChildNext

\* A hook is started only when there is no child, so nothing is being read.
LEMMA RunHookInv == ChildInv /\ RunHook => ChildInv'
<1> SUFFICES ASSUME ChildInv, RunHook PROVE ChildInv'
  OBVIOUS
<1>1. ~stdout
  BY DEF ChildInv, RunHook
<1>2. CASE \E targets, fed : Fork(targets, fed)
  BY <1>2, ForkInv
<1>3. CASE UNCHANGED <<says, unread, ibuf, stdout, log>>
  BY <1>1, <1>3, SameOutput
<1>4. QED
  <2>1. \/ \E targets, fed : _alpm_run_chroot(targets, fed)
        \/ UNCHANGED <<says, unread, ibuf, stdout, log>>
    BY DEF RunHook
  <2>2. QED  BY <1>2, <1>3, <2>1 DEF _alpm_run_chroot, NotForked

LEMMA OutputInvHolds == SyncCommitSpec => []ChildInv
<1>1. SyncCommitInit => ChildInv
  BY NoChildInv DEF SyncCommitInit
<1>2. ASSUME ChildInv, UNCHANGED cvars PROVE ChildInv'
  BY <1>2, SameOutput DEF cvars, ChildInv
<1>3. ASSUME ChildInv, [SyncCommitNext]_svars PROVE ChildInv'
  <2>1. CASE UNCHANGED cvars
    BY <1>2, <1>3, <2>1
  <2>2. CASE HookChild
    BY <1>3, <2>2, RunChildInv DEF HookChild
  <2>3. CASE RunHook
    BY <1>3, <2>3, RunHookInv
  <2>4. CASE HookDone
    BY <2>4, ForgetChildInv DEF HookDone
  <2>5. SyncLoadNext /\ UNCHANGED hvars => UNCHANGED cvars
    BY DEF hvars
  <2>6. StartHooks => UNCHANGED cvars
    BY DEF StartHooks
  <2>7. HooksNext => HookChild \/ RunHook \/ HookDone \/ UNCHANGED cvars
    BY DEF HooksNext, _alpm_hook_run, ReadHooks, AllHooksDone, CommitPackages
  <2>8. UNCHANGED svars => UNCHANGED cvars
    BY DEF svars, hvars
  <2>9. QED
    BY <1>3, <2>1, <2>2, <2>3, <2>4, <2>5, <2>6, <2>7, <2>8 DEF SyncCommitNext
<1>4. QED  BY <1>1, <1>3, PTL DEF SyncCommitSpec

\* OutputLoggedOnce: what a hook says in lines that end is in the log once and in
\* order, whatever it says and however it is read (_alpm_chroot_read_from_child).
THEOREM OutputIsLoggedOnce == SyncCommitSpec => []OutputLoggedOnce
<1>1. ChildInv => OutputLoggedOnce
  <2> SUFFICES ASSUME ChildInv, proc = "done", says = <<>> \/ Last(says) = Newline
               PROVE  WithNewlines(says, log)
    BY DEF OutputLoggedOnce
  <2>1. unread = <<>> /\ ibuf = <<>> /\ AllAccountedFor
    BY DEF ChildInv
  <2>2. PICK p \in Seq(Nat) : says = (p \o <<>>) \o <<>> /\ WithNewlines(p, log)
    BY <2>1 DEF AllAccountedFor
  <2>3. says = p
    BY <2>2, EmptyCat
  <2>4. QED  BY <2>2, <2>3
<1>2. QED  BY OutputInvHolds, <1>1, PTL
=============================================================================
