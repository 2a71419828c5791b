-------------------------------- MODULE Hooks -------------------------------
(***************************************************************************)
(* _alpm_hook_run and its two calls in alpm_trans_commit: the hook files   *)
(* of all directories are read, those of a higher directory hiding those   *)
(* of the same name below it; the ones the transaction triggers are run    *)
(* by name, before and after the packages are changed.                     *)
(*                                                                         *)
(* Hook names are numbers, which sort as the names do; names of packages   *)
(* and paths are texts (RunChroot).  A pattern is the set of texts it      *)
(* matches.                                                                *)
(***************************************************************************)
EXTENDS RunChroot, Text, FiniteSets, TLC

CONSTANTS
    NumDirs,      \* the number of handle->hookdirs; the last one counts most
    HookNames,
    HookCases,    \* hook files and transactions (MC module)
    ReadErrors    \* when reading hook files may fail: a subset of {"pre", "post"}

Dirs == 1..NumDirs

ASSUME HooksBounds ==
    /\ NumDirs \in Nat /\ HookNames \subseteq Nat /\ IsFiniteSet(HookNames)
    /\ ReadErrors \subseteq {"pre", "post"}

\* A name may be that of a hook, of a file without triggers, of a file with an
\* error, or of no file.
ASSUME HookFiles ==
    \A c \in HookCases : \A d \in Dirs, n \in HookNames :
        c.files[d][n].kind \in {"hook", "mask", "bad", "none"}

VARIABLES
    stage,      \* "none", then "pre", "commit", "post", "done", or "aborted"
    files,      \* files[d][n]: the hook file with name n in directory d
    trans,      \* the transaction: add, remove (sequences) and noextract
    installed,  \* names of the packages of the local database
    loaded,     \* the hook files of this stage have been read
    todo,       \* the hooks to run, as <<directory, name>>; the first is running
    hret        \* what _alpm_hook_run will return

hvars == <<stage, files, trans, installed, loaded, todo, hret, cvars>>

Hook(h) == files[h[1]][h[2]]
RangeOf(s) == {s[i] : i \in DOMAIN s}

-----------------------------------------------------------------------------
(* Matching                                                                *)

\* The last pattern that matches decides.
_alpm_fnmatch_patterns(patterns, text) ==
    LET hits == {i \in DOMAIN patterns : text \in patterns[i].matches}
    IN hits # {} /\ ~patterns[Max(hits)].inverted

merge_OneOfEach[i \in Seq(Texts), j \in Seq(Texts)] ==
    IF i = <<>> \/ j = <<>> THEN [install |-> i, upgrade |-> <<>>, remove |-> j]
    ELSE IF strcmp_less(Head(j), Head(i))
    THEN [merge_OneOfEach[i, Tail(j)] EXCEPT !.remove = <<Head(j)>> \o @]
    ELSE IF strcmp_less(Head(i), Head(j))
    THEN [merge_OneOfEach[Tail(i), j] EXCEPT !.install = <<Head(i)>> \o @]
    ELSE [merge_OneOfEach[Tail(i), Tail(j)] EXCEPT !.upgrade = <<Head(i)>> \o @]

\* Two sorted lists: what is in both is taken out of both, with every copy.
merge[i \in Seq(Texts), j \in Seq(Texts)] ==
    IF i = <<>> \/ j = <<>> THEN [install |-> i, upgrade |-> <<>>, remove |-> j]
    ELSE IF strcmp_less(Head(j), Head(i))
    THEN [merge[i, Tail(j)] EXCEPT !.remove = <<Head(j)>> \o @]
    ELSE IF strcmp_less(Head(i), Head(j))
    THEN [merge[Tail(i), j] EXCEPT !.install = <<Head(i)>> \o @]
    ELSE LET Others(s) == SelectSeq(s, LAMBDA f : f # Head(i))
         IN [merge[Others(i), Others(j)] EXCEPT !.upgrade = <<Head(i)>> \o @]

Files(pkgs) == FlattenSeq([k \in DOMAIN pkgs |-> pkgs[k].files])
OldFiles(pkgs) == FlattenSeq([k \in DOMAIN pkgs |-> pkgs[k].oldfiles])
PkgNames(pkgs) == [k \in DOMAIN pkgs |-> pkgs[k].name]
If(t, op, texts) == IF op \in t.ops THEN texts ELSE <<>>

SplitFiles_OneOfEach(i, j) == merge_OneOfEach[i, j]
SplitFiles(i, j) == merge[i, j]

\* A file is installed, upgraded or removed, whichever packages do it.
_alpm_hook_trigger_match_file(t) ==
    LET Matching(fs) == SelectSeq(fs, LAMBDA f : _alpm_fnmatch_patterns(t.targets, f))
        Sorted(fs) == SortSeq(fs, strcmp_less)
        new == SelectSeq(Files(trans.add), LAMBDA f : f \notin trans.noextract)
        split == SplitFiles(Sorted(Matching(new)),
                            Sorted(Matching(OldFiles(trans.add) \o Files(trans.remove))))
    IN If(t, "Install", split.install) \o If(t, "Upgrade", split.upgrade)
         \o If(t, "Remove", split.remove)

\* A package that is added as well is not removed.
_alpm_hook_trigger_match_pkg(t) ==
    LET Chosen(pkgs, Test(_)) ==
          PkgNames(SelectSeq(pkgs, LAMBDA p :
                     _alpm_fnmatch_patterns(t.targets, p.name) /\ Test(p)))
    IN If(t, "Install", Chosen(trans.add, LAMBDA p : ~p.upgrade))
         \o If(t, "Upgrade", Chosen(trans.add, LAMBDA p : p.upgrade))
         \o If(t, "Remove", Chosen(trans.remove,
                                   LAMBDA p : p.name \notin RangeOf(PkgNames(trans.add))))

_alpm_hook_trigger_match(t) ==
    IF t.type = "Package" THEN _alpm_hook_trigger_match_pkg(t)
    ELSE _alpm_hook_trigger_match_file(t)

\* hook->matches; the hook is triggered if there is one.
Matches(h) == FlattenSeq([k \in DOMAIN h.triggers |-> _alpm_hook_trigger_match(h.triggers[k])])
_alpm_hook_triggered(h) == Matches(h) # <<>>

_alpm_strlist_dedup(texts) ==
    FoldLeft(LAMBDA s, x : IF s # <<>> /\ s[Len(s)] = x THEN s ELSE Append(s, x), <<>>, texts)

-----------------------------------------------------------------------------
(* Reading the hook files                                                  *)

\* A file with an error hides nothing, and is an error unless it is hidden.
\* Without triggers a file is valid ("mask").  A directory is as good as no file.
Owners(n, missed) ==
    {d \in Dirs : files[d][n].kind \in {"hook", "mask"} /\ <<d, n>> \notin missed}
Hidden(d, n, missed) == \E e \in Owners(n, missed) : e > d
ReadFails(missed) ==
    \/ missed # {}
    \/ \E d \in Dirs, n \in HookNames : files[d][n].kind = "bad" /\ ~Hidden(d, n, missed)

HooksFound(missed) ==
    {<<Max(Owners(n, missed)), n>> : n \in {m \in HookNames : Owners(m, missed) # {}}}

\* Sorted by _alpm_hook_cmp.
Triggered(missed) ==
    LET hooks == {h \in HooksFound(missed) :
                    /\ Hook(h).kind = "hook" /\ Hook(h).when = stage
                    /\ _alpm_hook_triggered(Hook(h))}
    IN CHOOSE s \in [1..Cardinality(hooks) -> hooks] :
         \A i, j \in DOMAIN s : i < j => s[i][2] < s[j][2]

ReadHooks_GoesOn ==
    /\ stage \in {"pre", "post"} /\ ~loaded
    /\ \E missed \in IF stage \in ReadErrors THEN SUBSET (Dirs \X HookNames) ELSE {{}} :
         /\ loaded' = TRUE /\ todo' = Triggered(missed) /\ UNCHANGED <<stage, hret>>
    /\ UNCHANGED <<files, trans, installed, cvars>>

\* A transaction does not start when a hook file could not be read.
ReadHooks ==
    /\ stage \in {"pre", "post"} /\ ~loaded
    /\ \E missed \in IF stage \in ReadErrors THEN SUBSET (Dirs \X HookNames) ELSE {{}} :
         IF stage = "pre" /\ ReadFails(missed)
         THEN stage' = "aborted" /\ UNCHANGED <<loaded, todo, hret>>
         ELSE /\ loaded' = TRUE /\ todo' = Triggered(missed)
              /\ hret' = IF ReadFails(missed) THEN -1 ELSE 0
              /\ UNCHANGED stage
    /\ UNCHANGED <<files, trans, installed, cvars>>

-----------------------------------------------------------------------------
(* Running them                                                            *)

RunHook ==
    /\ loaded /\ todo # <<>> /\ proc = "none"
    /\ LET h == Hook(Head(todo))
       IN IF h.depends \subseteq installed
          THEN _alpm_run_chroot(IF h.needs_targets
                                THEN _alpm_strlist_dedup(SortSeq(Matches(h), strcmp_less))
                                ELSE <<>>, h.needs_targets)
          ELSE /\ proc' = "done" /\ rc' = -1
               /\ UNCHANGED <<feed, obuf, stdin, got, says, unread, ibuf, stdout, log>>
    /\ UNCHANGED <<stage, files, trans, installed, loaded, todo, hret>>

HookChild ==
    ChildNext /\ UNCHANGED <<stage, files, trans, installed, loaded, todo, hret>>

ForgetChild ==
    /\ proc' = "none" /\ rc' = 0 /\ feed' = <<>> /\ obuf' = <<>> /\ stdin' = "closed"
    /\ got' = <<>> /\ says' = <<>> /\ unread' = <<>> /\ ibuf' = <<>> /\ stdout' = FALSE
    /\ log' = <<>>

\* Only a hook with AbortOnFail counts, and only before the transaction.
HookDone ==
    /\ loaded /\ todo # <<>> /\ proc = "done"
    /\ hret' = IF rc # 0 /\ Hook(Head(todo)).abort_on_fail THEN -1 ELSE hret
    /\ todo' = IF hret' # 0 /\ stage = "pre" THEN <<>> ELSE Tail(todo)
    /\ ForgetChild
    /\ UNCHANGED <<stage, files, trans, installed, loaded>>

AllHooksDone ==
    /\ loaded /\ todo = <<>>
    /\ stage' = IF stage = "post" THEN "done" ELSE IF hret = 0 THEN "commit" ELSE "aborted"
    /\ loaded' = FALSE /\ hret' = 0
    /\ UNCHANGED <<files, trans, installed, todo, cvars>>

_alpm_hook_run == ReadHooks \/ RunHook \/ HookChild \/ HookDone \/ AllHooksDone

\* What alpm_trans_commit does between the hooks: interrupted or failed, it runs
\* none afterwards.
CommitPackages ==
    /\ stage = "commit"
    /\ \/ /\ stage' = "post"
          /\ installed' = (installed \ RangeOf(PkgNames(trans.remove)))
                            \cup RangeOf(PkgNames(trans.add))
       \/ stage' \in {"done", "aborted"} /\ UNCHANGED installed
    /\ UNCHANGED <<files, trans, loaded, todo, hret, cvars>>

HooksNext == _alpm_hook_run \/ CommitPackages

-----------------------------------------------------------------------------
(* Correctness                                                             *)

NewFiles == RangeOf(Files(trans.add)) \ trans.noextract
GoneFiles == RangeOf(OldFiles(trans.add)) \cup RangeOf(Files(trans.remove))
AddNames == RangeOf(PkgNames(trans.add))

\* What a trigger is about, without lists.
About(t) ==
    LET Upgrades == {trans.add[k].name : k \in {i \in DOMAIN trans.add : trans.add[i].upgrade}}
        ops == IF t.type = "Package"
               THEN [Install |-> AddNames \ Upgrades, Upgrade |-> Upgrades,
                     Remove |-> RangeOf(PkgNames(trans.remove)) \ AddNames]
               ELSE [Install |-> NewFiles \ GoneFiles, Upgrade |-> NewFiles \cap GoneFiles,
                     Remove |-> GoneFiles \ NewFiles]
        last(f) == {k \in DOMAIN t.targets :
                      /\ f \in t.targets[k].matches
                      /\ \A m \in DOMAIN t.targets : f \in t.targets[m].matches => m <= k}
    IN {f \in UNION {ops[op] : op \in t.ops} : \E k \in last(f) : ~t.targets[k].inverted}

\* A hook with NeedsTargets reads every name its triggers are about, once each,
\* sorted, one to a line, whatever the packages share and however the socket
\* splits the text; a hook whose triggers are about nothing does not run
\* (_alpm_hook_trigger_match_file, _alpm_hook_feed_targets).
HookReadsItsTargets ==
    todo # <<>> /\ proc # "none" =>
        LET h == Hook(Head(todo))
            wanted == UNION {About(h.triggers[k]) : k \in DOMAIN h.triggers}
            lines == SetToSortSeq(wanted, strcmp_less)
            text == FlattenSeq([k \in DOMAIN lines |-> Append(lines[k], Newline)])
        IN /\ wanted # {}
           /\ IsPrefix(got, IF h.needs_targets THEN text ELSE <<>>)
           /\ stdin = "fed" => got = text

\* A hook does not run when a directory of higher priority has a file of its name,
\* be that one valid, a mask or in error (_alpm_hook_run; alpm-hooks.5).
OverriddenNeverRuns ==
    todo # <<>> /\ proc # "none" =>
        \A d \in Dirs : d > Head(todo)[1] => files[d][Head(todo)[2]].kind = "none"
=============================================================================
