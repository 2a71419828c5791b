----------------------------- MODULE MCSyncCommit ---------------------------
(* Names and paths are one or two characters long; 1 2, 1 3 and 2 are sorted. *)
EXTENDS SyncCommit

CONSTANTS s1, s2

Mirrors == {m \in [{s1, s2} -> [Items -> 0..2]] :
              /\ m[s2][1] # 0
              /\ \A f \in Items \ {1} : m[s1][f] = 1 /\ m[s2][f] = 1}

SigOpts == {<<FALSE, FALSE, FALSE>>, <<TRUE, FALSE, FALSE>>, <<TRUE, TRUE, FALSE>>}

Cases == {[kind |-> k, sig |-> o[1], optional |-> o[2], embedded |-> o[3]] :
            k \in {"packages", "databases"}, o \in SigOpts}
         \cup {[kind |-> "packages", sig |-> TRUE, optional |-> FALSE, embedded |-> TRUE]}

\* One repository may be without servers.
Settled(c, none) ==
    [kind |-> c.kind, sig |-> c.sig, optional |-> c.optional, embedded |-> c.embedded,
     servers |-> [f \in Items |-> IF f = none THEN <<>> ELSE <<s1, s2>>]]

\* Of two versions of a database it only matters which is the newer one.
Differ(m, c) == c.kind = "databases" /\ m[s2][1] = 2 => m[s1][1] = 1

MCSettings ==
    {[mirror |-> t[1], opts |-> Settled(t[2], t[3])] :
        t \in {u \in Mirrors \X Cases \X {0, 1} : Differ(u[1], u[2])}}

-----------------------------------------------------------------------------

a == <<1, 2>>
b == <<1, 3>>
c1 == <<2>>
All == {a, b, c1}

Plain(m) == [inverted |-> FALSE, matches |-> m]
Not(m) == [inverted |-> TRUE, matches |-> m]
Trigger(type, ops, targets) == [type |-> type, ops |-> ops, targets |-> targets]

AHook(when, triggers, needs, abort, depends) ==
    [kind |-> "hook", when |-> when, triggers |-> triggers, needs_targets |-> needs,
     abort_on_fail |-> abort, depends |-> depends]

Everything == {"Install", "Upgrade", "Remove"}
TriggerLists ==
    {<<Trigger(ty, ops, ts)>> : ty \in {"Package", "Path"},
        ops \in {{"Install"}, {"Upgrade"}, {"Remove"}, Everything},
        ts \in {<<Plain(All)>>, <<Plain(All), Not({a})>>}}
    \cup {<<Trigger("Path", Everything, <<Not({a}), Plain({a, b})>>),
            Trigger("Package", {"Install"}, <<Plain({a})>>)>>}

Pkg(name, fs, old) ==
    [name |-> name, files |-> fs, oldfiles |-> old, upgrade |-> old # <<>>]
Transactions ==
    {[add |-> add, remove |-> rem, noextract |-> no] :
       add \in {<<Pkg(a, <<a, b>>, <<a>>), Pkg(b, <<a, c1>>, <<>>)>>, <<Pkg(b, <<b>>, <<b, c1>>)>>},
       rem \in {<<>>, <<Pkg(c1, <<a, c1>>, <<>>)>>}, no \in {{}, {a}}}

Files2(f1, f2, f3) ==
    <<[n \in HookNames |-> IF n = 1 THEN f1 ELSE f2],
      [n \in HookNames |-> IF n = 1 THEN f3 ELSE NoHook]>>

\* One hook that reads targets, of every sort, in every transaction; then two
\* hooks, one with a file above it, in one transaction.
Readers ==
    {[files |-> Files2(AHook("pre", ts, TRUE, TRUE, {}), NoHook, NoHook), trans |-> t,
      installed |-> {c1}] : ts \in TriggerLists, t \in Transactions}

Small == <<Trigger("Package", {"Install"}, <<Plain(All)>>)>>
Twos ==
    {[files |-> Files2(AHook(w1, Small, FALSE, ab, d), AHook(w2, Small, TRUE, FALSE, {}), top),
      trans |-> [add |-> <<Pkg(b, <<b>>, <<>>)>>, remove |-> <<>>, noextract |-> {}],
      installed |-> {c1}] :
        w1 \in {"pre", "post"}, w2 \in {"pre", "post"}, ab \in BOOLEAN, d \in {{}, {b}},
        top \in {NoHook, [kind |-> "mask"], [kind |-> "bad"],
                 AHook("post", Small, FALSE, FALSE, {c1})}}

MCHookCases == Readers \cup Twos
MCOutputs == {<<>>, <<1, 1, 1, Newline>>, <<1, Newline, Newline, 1, Newline>>, <<1, 1, 1>>}
=============================================================================
