------------------------------ MODULE SyncLoad ------------------------------
(***************************************************************************)
(* The two callers of Download.                                            *)
(*                                                                         *)
(* _alpm_sync_load fetches the packages of a transaction, makes sure of    *)
(* the keys, checks sums and signatures and loads the files.  Item p is    *)
(* described by the database as version 1 of its file; version 2 is        *)
(* another build under the same name, with a good signature of its own.    *)
(*                                                                         *)
(* alpm_db_update fetches databases and validates them; their packages are *)
(* read into the cache when somebody asks for them.                        *)
(*                                                                         *)
(* A transaction or update that failed is tried again, by the same process *)
(* or by a new one, which starts without the memory of failing mirrors.    *)
(***************************************************************************)
EXTENDS Download

CONSTANTS
    MaxTries,      \* bound on transactions and updates
    Settings,      \* the settings and mirrors to start with (MC module)
    GoesOn         \* whether the caller reads databases after a failed update

ASSUME SyncLoadBounds == MaxTries \in Nat /\ GoesOn \in BOOLEAN

\* Signatures are in the database for packages only.
ASSUME SettingsAssumption ==
    \A s \in Settings :
        /\ s.mirror \in [Servers -> [Items -> 0..2]] /\ s.opts \in Opts
        /\ s.opts.kind = "databases" => ~s.opts.embedded

VARIABLES
    tries,    \* transactions or updates so far
    key,      \* whether the key of all signatures is in the keyring
    status,   \* status[f]: what is known of database f
    cache     \* cache[f]: the content its packages were read from, or NoFile

lvars == <<tries, key, status, cache>>
vars == <<dvars, lvars>>

File(f) == <<f, "file">>
Sig(f) == <<f, "sig">>
Built(v) == <<v, v>>

SyncLoadInit ==
    /\ \E s \in Settings : mirror = s.mirror /\ opts = s.opts
    /\ DownloadInit
    /\ at = "start" /\ tries = 0 /\ key \in BOOLEAN
    /\ status = [f \in Items |-> "unknown"] /\ cache = [f \in Items |-> NoFile]

-----------------------------------------------------------------------------
(* Signatures (_alpm_check_pgp_helper with one signature)                  *)

SigWanted == opts.sig
HasSignature(f) == opts.embedded \/ Present(dest[Sig(f)])

\* The signature belongs to the content and its key is known.
Verifies(f, known) ==
    /\ known
    /\ \/ opts.embedded /\ dest[File(f)] = Built(1)
       \/ /\ ~opts.embedded
          /\ dest[Sig(f)] # <<>> /\ dest[File(f)] = Built(dest[Sig(f)][1])

_alpm_check_pgp_helper_MissingIsGood(f, known) ==
    HasSignature(f) => Verifies(f, known)

_alpm_check_pgp_helper(f, known) ==
    IF HasSignature(f) THEN Verifies(f, known) ELSE opts.optional

-----------------------------------------------------------------------------
(* Packages (_alpm_sync_load)                                              *)

Candidate(f) ==
    ~Present(dest[File(f)]) \/ (SigWanted /\ ~Present(dest[Sig(f)]))

Fail == at' = "failed" /\ UNCHANGED <<queue, load, err>>

\* find_dl_candidates stops with 1 at a repository without servers, and
\* _alpm_sync_load goes on as only -1 is an error.
download_files ==
    /\ opts.kind = "packages" /\ at = "start" /\ tries < MaxTries
    /\ tries' = tries + 1
    /\ \/ /\ \E f \in Items : opts.servers[f] = <<>>
          /\ at' = "keyring" /\ UNCHANGED <<queue, load, err>>
       \/ /\ \A f \in Items : opts.servers[f] # <<>>
          /\ LET files == {f \in Items : Candidate(f)}
             IN \/ files # {} /\ Download(files)
                \/ files # {} /\ Fail  \* _alpm_check_downloadspace
                \/ files = {} /\ at' = "keyring" /\ UNCHANGED <<queue, load, err>>
    /\ UNCHANGED <<settings, forced, disk, errors, interrupted, faults, key, status, cache>>

Downloaded ==
    /\ opts.kind = "packages" /\ Returned
    /\ at' = IF err THEN "failed" ELSE "keyring"
    /\ UNCHANGED <<settings, forced, disk, transfers, faults, lvars>>

check_keyring ==
    /\ at = "keyring"
    /\ LET missing == SigWanted /\ ~key /\ \E f \in Items : HasSignature(f)
       IN \/ ~missing /\ at' = "validity" /\ UNCHANGED key
          \/ missing /\ at' = "validity" /\ key' = TRUE
          \/ missing /\ at' = "failed" /\ UNCHANGED key
    /\ UNCHANGED <<settings, forced, disk, transfers, faults, tries, status, cache>>

ChecksumSkipped_AnySignature(f) == SigWanted /\ HasSignature(f)

\* Sums are not compared when the database holds a signature.
ChecksumSkipped(f) == SigWanted /\ opts.embedded

ChecksumBad(f) == ~ChecksumSkipped(f) /\ dest[File(f)] # Built(1)

\* What is wrong with the file of a package, "ok" if nothing is.
_alpm_pkg_validate_internal(f) ==
    CASE ~Present(dest[File(f)])                                -> "not found"
      [] Present(dest[File(f)]) /\ ChecksumBad(f)               -> "checksum"
      [] Present(dest[File(f)]) /\ ~ChecksumBad(f) /\ SigWanted
           /\ ~HasSignature(f) /\ ~opts.optional                -> "missing sig"
      [] Present(dest[File(f)]) /\ ~ChecksumBad(f) /\ SigWanted
           /\ HasSignature(f) /\ ~Verifies(f, key)              -> "invalid sig"
      [] OTHER                                                  -> "ok"

\* Files found invalid are deleted with their signatures, if the user agrees.
check_validity ==
    /\ at = "validity"
    /\ LET bad == {f \in Items : _alpm_pkg_validate_internal(f) # "ok"}
           asked == {f \in bad : _alpm_pkg_validate_internal(f) \in {"checksum", "invalid sig"}}
       IN \/ bad = {} /\ at' \in {"load", "downloaded"} /\ UNCHANGED dest
          \/ /\ bad # {} /\ at' = "failed"
             /\ \E gone \in SUBSET asked :
                  dest' = [p \in Payloads |-> IF p[1] \in gone THEN NoFile ELSE dest[p]]
    /\ UNCHANGED <<settings, forced, part, torn, transfers, faults, lvars>>

\* The file has to be a package of the name and version expected.
Loads(f) == dest[File(f)] \in {Built(1), Built(2)}

load_packages ==
    /\ at = "load"
    /\ at' = IF \A f \in Items : Loads(f) THEN "loaded" ELSE "failed"
    /\ UNCHANGED <<settings, forced, disk, transfers, faults, lvars>>

-----------------------------------------------------------------------------
(* Databases                                                               *)

Verdict(f, known) ==
    IF ~Present(dest[File(f)]) THEN "missing"
    ELSE IF SigWanted /\ ~_alpm_check_pgp_helper(f, known) THEN "invalid" ELSE "valid"

\* A status that is known is believed.
sync_db_validate(f, known, st) ==
    IF st \in {"valid", "missing", "invalid"} THEN st ELSE Verdict(f, known)

\* Validating may import the key (_alpm_process_siglist, and again).
Validated(before) ==
    \E known \in {key, TRUE} :
        /\ known # key => SigWanted /\ \E f \in Items : Present(dest[File(f)]) /\ HasSignature(f)
        /\ key' = known
        /\ status' = [f \in Items |-> sync_db_validate(f, known, before[f])]

alpm_register_syncdb ==
    /\ opts.kind = "databases" /\ at = "start"
    /\ Validated(status)
    /\ at' = "ready"
    /\ UNCHANGED <<settings, forced, disk, transfers, faults, tries, cache>>

alpm_db_update ==
    /\ opts.kind = "databases" /\ at = "ready" /\ tries < MaxTries
    /\ tries' = tries + 1
    /\ \/ /\ \E f \in Items : opts.servers[f] = <<>>
          /\ at' = "failed" /\ UNCHANGED <<queue, load, err, forced>>
       \/ /\ \A f \in Items : opts.servers[f] # <<>>
          /\ Download(Items)
          /\ forced' \in {Items, {f \in Items : status[f] = "invalid"}}
    /\ UNCHANGED <<settings, disk, errors, interrupted, faults, key, status, cache>>

\* Cache and status are left alone when the download failed.
Updated ==
    /\ opts.kind = "databases" /\ Returned
    /\ IF err
       THEN at' = "failed" /\ UNCHANGED <<key, status, cache>>
       ELSE /\ cache' = [f \in Items |-> NoFile]
            /\ Validated([f \in Items |-> "unknown"])
            /\ at' = IF \E f \in Items : status'[f] = "invalid" THEN "failed" ELSE "ready"
    /\ forced' = {}
    /\ UNCHANGED <<settings, disk, transfers, faults, tries>>

\* The packages of a valid database are read at the first access; a file that
\* is no archive makes it invalid.
_alpm_db_get_pkgcache_hash(f) ==
    /\ opts.kind = "databases" /\ at = "ready"
    /\ status[f] = "valid" /\ cache[f] = NoFile
    /\ IF Loads(f)
       THEN cache' = [cache EXCEPT ![f] = dest[File(f)]] /\ UNCHANGED status
       ELSE status' = [status EXCEPT ![f] = "invalid"] /\ UNCHANGED cache
    /\ UNCHANGED <<at, settings, forced, disk, transfers, faults, tries, key>>

-----------------------------------------------------------------------------
(* After a failure                                                         *)

\* The same process goes on.
TryAgain ==
    /\ at = "failed" /\ (opts.kind = "packages" \/ GoesOn)
    /\ at' = IF opts.kind = "packages" THEN "start" ELSE "ready"
    /\ UNCHANGED <<settings, forced, disk, transfers, faults, lvars>>

\* The process ends, of itself or killed, and another one starts.
Restart ==
    /\ at \in {"failed", "ready", "download"} /\ tries < MaxTries
    /\ at' = "start"
    /\ forced' = {} /\ queue' = {} /\ load' = Idle /\ err' = FALSE
    /\ errors' = [s \in Servers |-> 0] /\ interrupted' = FALSE
    /\ status' = [f \in Items |-> "unknown"] /\ cache' = [f \in Items |-> NoFile]
    /\ torn' = torn \cup {p \in Active : ErrorAnswer(p)}
    /\ UNCHANGED <<settings, dest, part, faults, tries, key>>

Transfers == Transfer /\ UNCHANGED lvars

SyncLoadNext ==
    \/ Transfers
    \/ download_files \/ Downloaded \/ check_keyring \/ check_validity \/ load_packages
    \/ alpm_register_syncdb \/ alpm_db_update \/ Updated
    \/ \E f \in Items : _alpm_db_get_pkgcache_hash(f)
    \/ TryAgain \/ Restart

SyncLoadSpec == SyncLoadInit /\ [][SyncLoadNext]_vars

-----------------------------------------------------------------------------
(* Correctness                                                             *)

\* What goes into the transaction is, to the last chunk, the file the database
\* describes, whatever mirrors sent, however often the download was resumed from
\* another one, and whichever failure was not noticed on the way (_alpm_sync_load).
LoadedIsGood ==
    at \in {"loaded", "downloaded"} =>
        \A f \in Items : /\ dest[File(f)] = Built(1)
                         /\ SigWanted /\ ~opts.optional => HasSignature(f)

\* Packages are only read from a database file whose signature was checked after
\* the file had got its name, and never from a mixture of two (alpm_db_update,
\* _alpm_db_get_pkgcache_hash).
UsedIsVerified ==
    \A f \in Items : at = "ready" /\ Present(cache[f]) =>
        /\ cache[f] \in {Built(1), Built(2)}
        /\ SigWanted /\ ~opts.optional =>
             Present(dest[Sig(f)]) /\ cache[f] = Built(dest[Sig(f)][1])
=============================================================================
