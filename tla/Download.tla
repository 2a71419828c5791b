------------------------------- MODULE Download ------------------------------
(***************************************************************************)
(* The downloads of libalpm (dload.c, curl_download_internal): parallel    *)
(* transfers, mirrors tried one after the other, .part files that are      *)
(* resumed, the signature fetched after its file, and mirrors left out     *)
(* after too many errors.                                                  *)
(*                                                                         *)
(* The content of a file is the sequence of its chunks; a chunk is named   *)
(* by the version of the file it belongs to, 0 for the chunk of an error   *)
(* page.  A mirror holds one version of every item or, as version 0, none. *)
(* The signature of a version is one chunk of that version.                *)
(***************************************************************************)
EXTENDS Integers, Sequences, FiniteSets, SequencesExt

CONSTANTS
    NumItems,          \* the files asked for
    Servers,           \* mirrors
    MaxStreams,        \* handle->parallel_downloads
    ServerErrorLimit,  \* server_error_limit
    MaxFaults,         \* bound on the failures of transfers and system calls
    NoFile             \* there is no such file

Items == 1..NumItems
Payloads == Items \X {"file", "sig"}

ASSUME DownloadBounds ==
    /\ NumItems \in Nat /\ MaxStreams \in Nat \ {0}
    /\ ServerErrorLimit \in Nat \ {0} /\ MaxFaults \in Nat
    /\ NoFile \notin Seq(0..2)

VARIABLES
    at,           \* where the caller is; "download" inside curl_download_internal
    mirror,       \* mirror[s][f]: the version of f on server s; never changes
    opts,         \* the repositories' settings (see Opts); never change
    forced,       \* items to be fetched even if they are there (payload->force)
    dest,         \* the files with their final names
    part,         \* the .part files
    torn,         \* files an error answer for which broke off (a history variable)
    queue,        \* items whose download has not been started
    load,         \* the payloads handed to curl
    errors,       \* handle->server_errors
    interrupted,  \* dload_interrupted
    err,          \* of curl_download_internal
    faults        \* how many failures have happened

settings == <<mirror, opts>>
disk == <<dest, part, torn>>
transfers == <<queue, load, errors, interrupted, err>>
dvars == <<at, settings, forced, disk, transfers, faults>>

Present(c) == c # NoFile
Size(p) == IF p[2] = "sig" THEN 1 ELSE 2
Idle == [p \in Payloads |-> [st |-> "idle"]]
Active == {p \in Payloads : load[p].st = "active"}

\* Package files are resumed; database files are not, and are removed after a
\* failure.  Of a signature: wanted, may be missing, is in the database itself.
Opts == [kind : {"packages", "databases"}, sig : BOOLEAN, optional : BOOLEAN,
         embedded : BOOLEAN, servers : [Items -> Seq(Servers)]]

allow_resume == opts.kind = "packages"
unlink_on_fail == opts.kind = "databases"

Fault == faults < MaxFaults /\ faults' = faults + 1
SetFile(files, p, c) == [files EXCEPT ![p] = c]

\* What lasts from one call to the next, and what a process starts with.
DownloadInit ==
    /\ dest = [p \in Payloads |-> NoFile] /\ part = dest /\ torn = {}
    /\ forced = {} /\ queue = {} /\ load = Idle
    /\ errors = [s \in Servers |-> 0] /\ interrupted = FALSE
    /\ err = FALSE /\ faults = 0

-----------------------------------------------------------------------------
(* Mirrors that fail (find_server_errors and its users)                    *)

should_skip_server(errs, s) == errs[s] >= ServerErrorLimit

server_increment_error(s, count) ==
    IF should_skip_server(errors, s) THEN errors
    ELSE [errors EXCEPT ![s] = IF @ + count > ServerErrorLimit THEN ServerErrorLimit
                               ELSE @ + count]

\* The servers from the first one that is not left out.
Usable(errs, servers) ==
    LET good == {i \in DOMAIN servers : ~should_skip_server(errs, servers[i])}
    IN IF good = {} THEN <<>>
       ELSE SubSeq(servers, CHOOSE i \in good : \A j \in good : i <= j, Len(servers))

-----------------------------------------------------------------------------
(* Starting a transfer (curl_add_payload, curl_set_handle_opts)            *)

\* An existing file is fetched only if the mirror has a newer one.
TimeCondition(p) == p[1] \notin forced /\ Present(dest[p])
Resumes(p, resume) == ~TimeCondition(p) /\ resume /\ Present(part[p])

\* A transfer from a server; its file is opened for writing or appending.
Opened(p, server, rest, resume, unlink, optional) ==
    [st |-> "active", server |-> server, servers |-> rest,
     initial |-> IF Resumes(p, resume) THEN Len(part[p]) ELSE 0,
     since |-> IF TimeCondition(p) THEN Last(dest[p]) ELSE 0,
     resume |-> resume, unlink |-> unlink, optional |-> optional]

OpenPart(p, resume) == IF Resumes(p, resume) THEN part[p] ELSE <<>>

\* Nothing is started when the .part file has the size of the package.
PartComplete(p) == Resumes(p, allow_resume) /\ Len(part[p]) = Size(p)

\* One turn of the loop that keeps MaxStreams transfers going.  The payloads are
\* sorted, the largest first; items are numbered in this order.
curl_add_payload ==
    /\ at = "download" /\ Cardinality(Active) < MaxStreams
    /\ \E i \in queue :
        LET p == <<i, "file">>
            servers == Usable(errors, opts.servers[i])
        IN /\ \A j \in queue : i <= j
           /\ \/ /\ servers = <<>>
                 /\ queue' = {} /\ err' = TRUE
                 /\ UNCHANGED <<part, load, faults>>
              \/ /\ servers # <<>> /\ PartComplete(p)
                 /\ queue' = queue \ {i}
                 /\ UNCHANGED <<part, load, err, faults>>
              \/ /\ servers # <<>> /\ ~PartComplete(p)
                 /\ queue' = queue \ {i}
                 /\ load' = [load EXCEPT ![p] = Opened(p, Head(servers), Tail(servers),
                                                  allow_resume, unlink_on_fail, FALSE)]
                 /\ part' = SetFile(part, p, OpenPart(p, allow_resume))
                 /\ UNCHANGED <<err, faults>>
              \/ \* the .part file cannot be opened
                 /\ servers # <<>> /\ ~PartComplete(p) /\ Fault
                 /\ queue' = {} /\ err' = TRUE
                 /\ UNCHANGED <<part, load>>
    /\ UNCHANGED <<at, settings, forced, dest, torn, errors, interrupted>>

-----------------------------------------------------------------------------
(* The end of a transfer (curl_check_finished_download)                    *)

Version(p) == mirror[load[p].server][p[1]]
UpToDate(p) == Version(p) <= load[p].since /\ part[p] = <<>>
Running(p) == at = "download" /\ p \in Active

\* Nothing has come from the current server.
Fresh(p) == Len(part[p]) = load[p].initial

\* What came from the current server is the page of an error answer.
ErrorAnswer(p) ==
    Len(part[p]) > load[p].initial /\ part[p][load[p].initial + 1] = 0

\* A chunk arrives.
Receive(p) ==
    /\ Running(p) /\ ~interrupted /\ ~ErrorAnswer(p)
    /\ Version(p) # 0 /\ Version(p) > load[p].since /\ Len(part[p]) < Size(p)
    /\ part' = SetFile(part, p, Append(part[p], Version(p)))
    /\ UNCHANGED <<at, settings, forced, dest, torn, transfers, faults>>

\* The server has no such file, or fails, and the page it sends with an answer of
\* 400 or more is written to the file like any other chunk.
ReceivePage(p) ==
    /\ Running(p) /\ Fresh(p)
    /\ (Version(p) = 0 /\ UNCHANGED faults) \/ (Version(p) # 0 /\ Fault)
    /\ part' = SetFile(part, p, Append(part[p], 0))
    /\ UNCHANGED <<at, settings, forced, dest, torn, transfers>>

Ended(p) == [load EXCEPT ![p] = [st |-> "idle"]]

\* What follows from -1 and -2: unless the payload is optional the download has
\* failed and nothing else is started.
FailUnlessOptional(p) ==
    IF load[p].optional THEN UNCHANGED <<err, queue>>
    ELSE err' = TRUE /\ queue' = {}

\* A payload that failed for good.
GiveUp(p, content, unlink) ==
    /\ load' = Ended(p)
    /\ part' = SetFile(part, p, IF unlink THEN NoFile ELSE content)
    /\ FailUnlessOptional(p)

\* The next server continues a .part file that may be resumed, and otherwise
\* starts again from an empty one.
curl_retry_next_server(p, content, errs) ==
    LET servers == Usable(errs, load[p].servers)
        left == IF load[p].resume THEN content ELSE <<>>
    IN /\ servers # <<>>
       /\ part' = SetFile(part, p, left)
       /\ load' = [load EXCEPT
             ![p].server = Head(servers), ![p].servers = Tail(servers),
             ![p].initial = IF load[p].resume THEN Len(left) ELSE load[p].initial]
       /\ UNCHANGED <<queue, err>>

RetryOrGiveUp(p, content, unlink) ==
    \/ curl_retry_next_server(p, content, errors')
    \/ Usable(errors', load[p].servers) = <<>> /\ GiveUp(p, content, unlink)

SoftError(p) ==
    errors' = IF load[p].optional THEN errors
              ELSE server_increment_error(load[p].server, 1)

Truncated_Never(p, content) == content

\* What the server sent after the part that was there is cut off.
Truncated(p, content) == SubSeq(content, 1, load[p].initial)

\* The server has no such file, or nothing beyond the end of the .part file.
Refuses(p) == Version(p) = 0 \/ load[p].initial >= Size(p)

\* An answer of 400 or more is complete, with a page or without.
HttpError(p) ==
    /\ Running(p)
    /\ ErrorAnswer(p) \/ (Fresh(p) /\ Refuses(p))
    /\ SoftError(p)
    /\ RetryOrGiveUp(p, Truncated(p, part[p]), TRUE)
    /\ UNCHANGED <<at, settings, forced, dest, torn, interrupted, faults>>

\* The name of the server cannot be resolved.
ResolveError(p) ==
    /\ Running(p) /\ Fresh(p) /\ Fault
    /\ errors' = server_increment_error(load[p].server, ServerErrorLimit)
    /\ RetryOrGiveUp(p, part[p], TRUE)
    /\ UNCHANGED <<at, settings, forced, dest, torn, interrupted>>

\* Any other failure, such as a timeout or a broken connection.  The page of an
\* error answer that breaks off stays where it is.
TransferError(p) ==
    /\ Running(p) /\ Fault
    /\ SoftError(p)
    /\ RetryOrGiveUp(p, part[p], load[p].unlink \/ part[p] = <<>>)
    /\ torn' = IF ErrorAnswer(p) THEN torn \cup {p} ELSE torn
    /\ UNCHANGED <<at, settings, forced, dest, interrupted>>

\* dload_progress_cb aborts: the server sends more than it may.  The flag it
\* sets is never cleared, and every later transfer is aborted too, but not the
\* page of an error answer.
Abort(p) ==
    /\ Running(p) /\ ~ErrorAnswer(p)
    /\ (interrupted /\ UNCHANGED faults) \/ (~interrupted /\ Fault)
    /\ interrupted' = TRUE
    /\ errors' = server_increment_error(load[p].server, 1)
    /\ GiveUp(p, part[p], TRUE)
    /\ UNCHANGED <<at, settings, forced, dest, torn>>

WantsSignature(p) == p[2] = "file" /\ opts.sig

\* The signature is fetched from where the file came from; when it cannot be
\* started nobody notices.
FollowedBySignature(p, newpart) ==
    LET sig == <<p[1], "sig">>
    IN \/ /\ ~WantsSignature(p)
          /\ load' = Ended(p) /\ part' = newpart
       \/ /\ WantsSignature(p)
          /\ load' = [Ended(p) EXCEPT ![sig] =
                Opened(sig, load[p].server, <<>>, FALSE, load[p].unlink, opts.optional)]
          /\ part' = SetFile(newpart, sig, <<>>)
       \/ /\ WantsSignature(p) /\ faults < MaxFaults
          /\ load' = Ended(p) /\ part' = newpart

\* All of the file is there and it takes its name.
Complete(p) ==
    /\ Running(p) /\ ~UpToDate(p) /\ ~ErrorAnswer(p) /\ Len(part[p]) = Size(p)
    /\ FollowedBySignature(p, SetFile(part, p, NoFile))
    /\ dest' = SetFile(dest, p, part[p])
    /\ UNCHANGED <<at, settings, forced, torn, queue, errors, interrupted, err, faults>>

\* The time condition was met; the empty .part file goes.
NotModified(p) ==
    /\ Running(p) /\ Version(p) # 0 /\ UpToDate(p)
    /\ FollowedBySignature(p, SetFile(part, p, NoFile))
    /\ UNCHANGED <<at, settings, forced, dest, torn, queue, errors, interrupted, err, faults>>

\* Less came than was announced, or the file cannot be renamed.  The
\* signature, once started, goes on.
Truncation(p) ==
    /\ Running(p) /\ Version(p) # 0 /\ ~UpToDate(p) /\ ~ErrorAnswer(p) /\ Fault
    /\ FollowedBySignature(p, SetFile(part, p, IF load[p].unlink THEN NoFile ELSE part[p]))
    /\ FailUnlessOptional(p)
    /\ UNCHANGED <<at, settings, forced, dest, torn, errors, interrupted>>

\* curl itself fails: nothing new is started.
MultiError ==
    /\ at = "download" /\ queue # {} /\ Fault
    /\ queue' = {} /\ err' = TRUE
    /\ UNCHANGED <<at, settings, forced, disk, load, errors, interrupted>>

Transfer ==
    \/ curl_add_payload \/ MultiError
    \/ \E p \in Payloads :
        \/ Receive(p) \/ ReceivePage(p) \/ HttpError(p) \/ ResolveError(p)
        \/ TransferError(p) \/ Abort(p) \/ Complete(p) \/ NotModified(p) \/ Truncation(p)

\* _alpm_download is called for some items, and returns.
Download(items) ==
    queue' = items /\ load' = Idle /\ err' = FALSE /\ at' = "download"
Returned == at = "download" /\ queue = {} /\ Active = {}

-----------------------------------------------------------------------------
(* Correctness                                                             *)

HoldsPage(content) == Present(content) /\ \E i \in DOMAIN content : content[i] = 0

\* The page of an error answer is in a .part file only while it arrives, and
\* after that only if the answer broke off: curl_check_finished_download cuts a
\* page off when the answer was complete, but not after a failed transfer, and
\* the next mirror or a later process resumes behind it.  Even then no database
\* and no signature takes its name with a page in it, as these are not resumed.
NoErrorPage ==
    \A p \in Payloads :
        /\ HoldsPage(part[p]) => p \in torn \/ (p \in Active /\ ErrorAnswer(p))
        /\ HoldsPage(dest[p]) => p \in torn /\ allow_resume /\ p[2] = "file"
=============================================================================
