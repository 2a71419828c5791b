------------------------------ MODULE SyncCommit ----------------------------
(***************************************************************************)
(* A transaction from the first download to the last hook                  *)
(* (alpm_trans_commit): SyncLoad, then Hooks.  The download of databases   *)
(* ends with their packages being read.                                    *)
(***************************************************************************)
EXTENDS SyncLoad, Hooks

svars == <<vars, hvars>>

NoTrans == [add |-> <<>>, remove |-> <<>>, noextract |-> {}]
NoHook == [kind |-> "none"]

SyncCommitInit ==
    /\ SyncLoadInit /\ NoChild
    /\ stage = "none" /\ trans = NoTrans /\ installed = {} /\ loaded = FALSE
    /\ files = [d \in Dirs |-> [n \in HookNames |-> NoHook]]
    /\ todo = <<>> /\ hret = 0

\* The packages are there, or nothing is to be added.  What the download left
\* behind plays no part any more: it is forgotten, so that the states of the two
\* phases add up.  The case gives the hook files and the packages of the
\* transaction.
StartHooks ==
    /\ stage = "none" /\ at = "loaded" /\ stage' = "pre" /\ at' = "hooks"
    /\ \E c \in HookCases : files' = c.files /\ trans' = c.trans /\ installed' = c.installed
    /\ mirror' = [s \in Servers |-> [f \in Items |-> 1]]
    /\ opts' = [opts EXCEPT !.sig = FALSE, !.optional = FALSE, !.embedded = FALSE,
                            !.servers = [f \in Items |-> <<>>]]
    /\ dest' = [p \in Payloads |-> NoFile] /\ part' = dest' /\ torn' = {}
    /\ forced' = {} /\ queue' = {} /\ load' = Idle
    /\ errors' = [s \in Servers |-> 0] /\ interrupted' = FALSE
    /\ err' = FALSE /\ faults' = 0 /\ tries' = 0 /\ key' = TRUE
    /\ UNCHANGED <<status, cache, loaded, todo, hret, cvars>>

SyncCommitNext ==
    \/ SyncLoadNext /\ UNCHANGED hvars
    \/ StartHooks
    \/ HooksNext /\ UNCHANGED vars

SyncCommitSpec == SyncCommitInit /\ [][SyncCommitNext]_svars
=============================================================================
