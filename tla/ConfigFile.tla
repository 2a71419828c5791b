----------------------------- MODULE ConfigFile ------------------------------
(***************************************************************************)
(* What happens to one path, its .pacnew and its .pacsave files while      *)
(* packages that may list it, as a configuration file or not, are          *)
(* installed, upgraded and removed (unlink_file and shift_pacsave of       *)
(* remove.c, extract_single_file of add.c), and the user edits it.         *)
(*                                                                         *)
(* A file is known by its content, as the MD5 sums in the code know it.    *)
(***************************************************************************)
EXTENDS Integers, FiniteSets

CONSTANTS
    Packaged,   \* contents the package ships at this path
    Edited,     \* contents the user writes
    MaxNum,     \* the largest unsigned long: .pacsave.1 to .pacsave.MaxNum
    MaxOps,     \* bound on the number of package operations
    Literal,    \* TRUE: the path, read as a regular expression, matches itself
    None        \* no file, no hash, or no package

ASSUME ContentsAssumption ==
    None \notin Packaged \cup Edited /\ Packaged \cap Edited = {}
ASSUME NumAssumption == MaxNum \in Nat \ {0} /\ MaxOps \in Nat
ASSUME LiteralAssumption == Literal \in BOOLEAN

Contents == Packaged \cup Edited
Slots == 0..MaxNum     \* 0 is .pacsave itself

VARIABLES
    noupgrade,  \* the path matches NoUpgrade
    noextract,  \* the path matches NoExtract
    file,       \* the content of the path
    pacnew,     \* the content of path.pacnew
    pacsave,    \* the contents of path.pacsave, path.pacsave.1, ...
    inst,       \* the installed package, as its database entry has it
    new,        \* the package that is being installed
    orig,       \* hash_orig: what the replaced package recorded
    isnew,      \* isnewfile: there was no .pacnew before
    pc,         \* the step of the operation
    nosave,     \* ALPM_TRANS_FLAG_NOSAVE
    ops         \* operations begun

config == <<noupgrade, noextract>>
vars == <<noupgrade, noextract, file, pacnew, pacsave, inst, new, orig, isnew,
          pc, nosave, ops>>

\* A package: whether the path is in its file list and in its backup list, the
\* content it ships, and the hash kept for the backup list.
Package == [lists : BOOLEAN, backup : BOOLEAN, content : Packaged,
            hash : Packaged \cup {None}]

ASSUME NoneAssumption == None \notin Package

_alpm_needbackup(pkg) == pkg # None /\ pkg.backup
Lists(pkg) == pkg # None /\ pkg.lists

Init ==
    /\ noupgrade \in BOOLEAN /\ noextract \in BOOLEAN
    /\ file \in Edited \cup {None}
    /\ pacnew = None /\ pacsave = [i \in Slots |-> None]
    /\ inst = None /\ new = None /\ orig = None /\ isnew = FALSE
    /\ pc = "idle" /\ nosave = FALSE /\ ops = 0

-----------------------------------------------------------------------------
(* remove.c                                                                *)

\* The highest number found in the directory; the regular expression is built
\* from the file name as it is.
LogMax ==
    LET found == {i \in Slots \ {0} : Literal /\ pacsave[i] # None}
    IN IF found = {} THEN 0 ELSE CHOOSE i \in found : \A j \in found : j <= i

shift_pacsave_Upwards ==
    IF pacsave[0] = None THEN pacsave ELSE [pacsave EXCEPT ![1] = pacsave[0], ![0] = None]

\* shift_pacsave: from log_max + 1, an unsigned long, downwards every file moves
\* up one number, then .pacsave becomes .pacsave.1.
shift_pacsave ==
    LET top == (LogMax + 1) % (MaxNum + 1)
        moved == [i \in Slots |->
                     IF i >= 2 /\ i <= top THEN pacsave[i - 1]
                     ELSE IF i = 1 /\ top > 1 THEN None ELSE pacsave[i]]
    IN IF pacsave[0] = None THEN moved
       ELSE [moved EXCEPT ![1] = pacsave[0], ![0] = None]

\* unlink_file: a configuration file that is not what the package shipped is
\* moved away, everything else is deleted.
unlink_file(pkg, nsave) ==
    IF file # None /\ _alpm_needbackup(pkg) /\ ~nsave /\ file # pkg.hash
    THEN pacsave' = [shift_pacsave EXCEPT ![0] = file] /\ file' = None
    ELSE file' = None /\ UNCHANGED pacsave

should_skip_file(next) == noupgrade \/ (_alpm_needbackup(next) /\ Lists(next))

\* The installed package, if any, gives way to `next' (None: plain removal).
RemoveOld(next, nsave) ==
    IF Lists(inst) /\ ~should_skip_file(next)
    THEN unlink_file(inst, nsave)
    ELSE UNCHANGED <<file, pacsave>>

_alpm_remove_single_package ==
    /\ pc = "idle" /\ inst # None /\ ops < MaxOps
    /\ \E nsave \in BOOLEAN : nosave' = nsave /\ RemoveOld(None, nsave)
    /\ inst' = None
    /\ ops' = ops + 1
    /\ UNCHANGED <<config, pacnew, new, orig, isnew, pc>>

-----------------------------------------------------------------------------
(* add.c                                                                   *)

\* The conflict check: a path that is new in the package and exists on disk is
\* accepted when nobody owns it and it is a configuration file of the package.
Conflict(next) == next.lists /\ ~Lists(inst) /\ file # None /\ ~next.backup

\* commit_single_pkg, until the archive is read: the old version goes.
StartInstall ==
    /\ pc = "idle" /\ ops < MaxOps
    /\ \E next \in [lists : BOOLEAN, backup : BOOLEAN, content : Packaged,
                    hash : {None}] :
        /\ ~Conflict(next)
        /\ new' = next
        /\ RemoveOld(next, FALSE)
    /\ orig' = IF _alpm_needbackup(inst) THEN inst.hash ELSE None
    /\ nosave' = FALSE
    /\ pc' = "extract"
    /\ ops' = ops + 1
    /\ UNCHANGED <<config, pacnew, inst, isnew>>

\* The package is registered with the hash of what was extracted for it.
Register(hash) ==
    /\ inst' = [new EXCEPT !.hash = IF new.backup THEN hash ELSE None]
    /\ new' = None
    /\ pc' = "idle"

\* extract_single_file up to the extraction: not at all, to the path itself, or
\* beside it.  Without a file on disk there is nothing to keep.
ExtractNothing ==
    /\ pc = "extract"
    /\ ~new.lists \/ noextract
    /\ Register(None)
    /\ UNCHANGED <<config, file, pacnew, pacsave, orig, isnew, nosave, ops>>

needbackup == ~noupgrade /\ (_alpm_needbackup(inst) \/ new.backup)

ExtractInPlace ==
    /\ pc = "extract"
    /\ new.lists /\ ~noextract
    /\ file = None \/ (~noupgrade /\ ~needbackup)
    /\ file' = new.content
    /\ Register(new.content)
    /\ UNCHANGED <<config, pacnew, pacsave, orig, isnew, nosave, ops>>

ExtractBeside ==
    /\ pc = "extract"
    /\ new.lists /\ ~noextract
    /\ file # None /\ (noupgrade \/ needbackup)
    /\ isnew' = (pacnew = None)
    /\ pacnew' = new.content
    /\ IF noupgrade THEN Register(new.content)
                    ELSE pc' = "decide" /\ UNCHANGED <<inst, new>>
    /\ UNCHANGED <<config, file, pacsave, orig, nosave, ops>>

InstallNew_KeepNone == file = new.content \/ orig # new.content

\* The three hashes of a configuration file are compared.
LeaveLocal == file # new.content /\ orig = new.content
InstallNew == file = new.content \/ (orig # new.content /\ orig = file)

DecideInstall ==
    /\ pc = "decide"
    /\ InstallNew
    /\ file' = pacnew /\ pacnew' = None
    /\ Register(new.content)
    /\ UNCHANGED <<config, pacsave, orig, isnew, nosave, ops>>

DecideLeave ==
    /\ pc = "decide"
    /\ LeaveLocal
    /\ pacnew' = IF isnew THEN None ELSE pacnew
    /\ Register(new.content)
    /\ UNCHANGED <<config, file, pacsave, orig, isnew, nosave, ops>>

DecideBoth ==
    /\ pc = "decide"
    /\ ~InstallNew /\ ~LeaveLocal
    /\ Register(new.content)
    /\ UNCHANGED <<config, file, pacnew, pacsave, orig, isnew, nosave, ops>>

-----------------------------------------------------------------------------
\* The user writes or deletes the file between operations.
UserEdit ==
    /\ pc = "idle"
    /\ file' \in (Contents \cup {None}) \ {file}
    /\ UNCHANGED <<config, pacnew, pacsave, inst, new, orig, isnew, pc, nosave,
                   ops>>

\* A crash in the middle of commit_single_pkg: the entry of the old version is
\* gone and that of the new one is not there yet.
Crash ==
    /\ pc # "idle"
    /\ pc' = "idle" /\ inst' = None /\ new' = None
    /\ UNCHANGED <<config, file, pacnew, pacsave, orig, isnew, nosave, ops>>

Manager ==
    \/ _alpm_remove_single_package \/ StartInstall \/ ExtractNothing
    \/ ExtractInPlace \/ ExtractBeside
    \/ DecideInstall \/ DecideLeave \/ DecideBoth \/ Crash

Next == Manager \/ UserEdit

Spec == Init /\ [][Next]_vars

-----------------------------------------------------------------------------
(* Properties                                                              *)

\* Every variable keeps its type, and the manager never invents a content.
TypeOK ==
    /\ noupgrade \in BOOLEAN /\ noextract \in BOOLEAN
    /\ file \in Contents \cup {None}
    /\ pacnew \in Packaged \cup {None}
    /\ pacsave \in [Slots -> Contents \cup {None}]
    /\ inst \in Package \cup {None} /\ new \in Package \cup {None}
    /\ orig \in Packaged \cup {None}
    /\ isnew \in BOOLEAN /\ nosave \in BOOLEAN
    /\ pc \in {"idle", "extract", "decide"}
    /\ ops \in 0..MaxOps

\* What the user would miss: a configuration file that is not what the package
\* shipped, a file of the user's own, and everything saved before.
Precious ==
    {pacsave[i] : i \in Slots}
      \cup (IF Lists(inst) /\ ~inst.backup THEN {} ELSE {file})

Kept == {pacsave[i] : i \in Slots} \cup {file}

\* No sequence of installs, upgrades, removals and crashes, with packages that
\* begin or cease to list the path as a configuration file, loses a content
\* the user wrote, except with --nosave.
NothingLost ==
    [][Manager /\ ~nosave' => (Precious \cap Edited) \subseteq Kept']_vars

\* The six cases of "Handling Config Files" in pacman(8): what is at the path
\* and what is beside it once a configuration file was upgraded.
ConfigTable ==
    [][pc = "decide" /\ pc' = "idle" /\ inst' # None =>
         CASE file = new.content  -> file' = new.content /\ pacnew' = None
           [] file # new.content /\ orig = file ->
                file' = new.content /\ pacnew' = None
           [] file # new.content /\ orig = new.content ->
                file' = file /\ (isnew => pacnew' = None)
           [] OTHER -> file' = file /\ pacnew' = new.content]_vars

=============================================================================
