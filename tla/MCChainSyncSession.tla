-------------------------- MODULE MCChainSyncSession -------------------------
(* Instances of ChainSyncSession for TLC. *)
EXTENDS ChainSyncSession

CONSTANTS o, a, b, c, x     \* Origin, three headers, and a foreign point

MCPoints == {o, a, b, c, x}
MCChain == <<a, b, c>>

\* Origin, mid-chain, the tip, unknown before known, unknown only, nothing.
MCPointLists == {<<o>>, <<b>>, <<c>>, <<x, a>>, <<x>>, <<>>}

HonestScripts == {generate_from_fixture(Len(Chain), hold) : hold \in {0, 1}}

\* What a scenario's `responses' may hold: an intersection and two rules, or
\* any two rules, one of them repeatable, for every kind of send a scenario can name.
ScriptedRules ==
    {Rule("Any", send, Nil, 0) : send \in {"Disconnect", "RawBytes", "AwaitReply"}}
    \cup {Rule("Any", "Wait", Nil, 1),
          Rule("FindIntersect", "IntersectNotFound", Nil, 0),
          Rule("FindIntersect", "IntersectFound", x, 0),
          Rule("RequestNext", "RollForward", a, 0),
          Rule("RequestNext", "RollForward", Opaque, 0),
          Rule("RequestNext", "RollBackward", o, 0),
          Rule("RequestNext", "AwaitReply", Nil, 1),
          [Rule("RequestNext", "RollForward", c, 0) EXCEPT !.repeatable = TRUE]}

MCScripts ==
    HonestScripts
    \cup {<<Rule("FindIntersect", "IntersectFound", b, 0), r, s>> :
        r \in ScriptedRules, s \in ScriptedRules}
    \cup {<<r, s>> : r \in ScriptedRules, s \in ScriptedRules}
    \cup {<<>>}
=============================================================================
