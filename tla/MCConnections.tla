---------------------------- MODULE MCConnections ----------------------------
(* Scenarios of the size of the repository's own, for the connection runs. *)
EXTENDS Connections

CONSTANTS a, b, v, w, slot

Sets(step, x) == [step EXCEPT !.output = x]
Refers(step, x) == [step EXCEPT !.ref = x]

\* After a first step, a branch of two steps next to a branch of one, in all
\* combinations: the branches work under the same names or not.
Races(steps) == {Parallel(<<<<s, t>>, <<u>>>>) : s, t, u \in steps}

ClientSteps ==
    {Step("connect", b), Step("handshake", a), Step("chain_sync", a), Step("disconnect", a),
     Step("connect", a)}

ServerSteps ==
    {Accept(a, a), Accept(a, b), Step("serve_chain_sync", a), Step("close_listener", a)}

ClientRaces == {<<Plain(Step("connect", a)), race>> : race \in Races(ClientSteps)}
ServerRaces == {<<Plain(Step("listen", a)), race>> : race \in Races(ServerSteps)}

Cycle == <<Step("connect", a), Step("handshake", a), Step("disconnect", a)>>

\* A built-in variable: in a branch next to others, in each iteration, and
\* replaced by a step of the scenario's own.
MCGenesis ==
    {<<Plain(Step("connect", a)),
       Parallel(<<<<Refers(Step("leios_notify", a), slot)>>,
                  <<Sets(Step("query_tip", a), v), Refers(Step("other", a), slot)>>>>),
       Repeat(2, <<Refers(Step("other", a), slot), Sets(Step("query_tip", a), slot)>>)>>,
     <<Plain(Step("connect", a)), Plain(Sets(Refers(Step("chain_sync", a), slot), v)),
       Plain(Refers(Step("block_fetch", a), v)), Plain(Refers(Step("other", a), w))>>}

MCScenarios ==
    MCGenesis \cup ClientRaces \cup ServerRaces \cup
    {\* a cycle in a repeat, next to another branch, and never
     <<Repeat(2, Cycle), Plain(Step("connect", b))>>,
     <<Repeat(0, Cycle), Plain(Step("connect", a)), Plain(Step("handshake", a))>>,
     <<Parallel(<<Cycle, <<Step("connect", b), Step("handshake", b)>>>>),
       Plain(Step("other", a))>>,
     \* a body that leaves its connection open, one that uses a channel twice
     <<Repeat(2, <<Step("connect", a), Step("chain_sync", a)>>)>>,
     <<Plain(Step("connect", a)), Repeat(2, <<Step("chain_sync", a)>>)>>,
     \* query_tip next to an open connection
     <<Plain(Step("connect", a)),
       Parallel(<<<<Step("query_tip", a)>>, <<Step("leios_fetch", a)>>>>)>>,
     \* variables: across blocks and branches, across iterations, in a race, unset
     <<Plain(Step("connect", a)),
       Parallel(<<<<Sets(Step("query_tip", a), v)>>, <<Step("handshake", a)>>>>),
       Plain(Sets(Refers(Step("chain_sync", a), v), w)),
       Plain(Refers(Step("block_fetch", a), w))>>,
     <<Plain(Step("connect", a)),
       Repeat(2, <<Sets(Step("query_tip", a), v), Refers(Step("other", a), v)>>),
       Plain(Refers(Step("leios_fetch", a), w))>>,
     <<Plain(Step("connect", a)),
       Parallel(<<<<Sets(Step("query_tip", a), v)>>, <<Refers(Step("other", a), v)>>>>)>>,
     \* the name of a built-in variable where no genesis time is declared
     <<Plain(Step("connect", a)), Plain(Refers(Step("leios_notify", a), slot))>>,
     \* a channel used again with other parameters, an output that nothing sets
     <<Plain(Step("connect", a)), Plain(Sets(Step("chain_sync", a), v)),
       Plain(Refers(Step("chain_sync", a), v))>>,
     <<Plain(Step("connect", a)), Plain(Sets(Step("block_fetch", a), v)),
       Plain(Refers(Step("leios_fetch", a), v))>>,
     \* both sides of a session in one scenario
     <<Plain(Step("listen", a)),
       Parallel(<<<<Accept(a, a), Step("serve_chain_sync", a), Step("serve_block_fetch", a)>>,
                  <<Step("connect", a), Step("handshake", a), Step("chain_sync", a)>>>>),
       Plain(Step("close_listener", a))>>}

\* The steps of a scenario in the order of the file.
Linear(sc) ==
    FoldLeft(LAMBDA steps, block :
               steps \o FoldLeft(LAMBDA s, i : s \o FlattenSeq(block.branches),
                                 <<>>, [i \in 1..block.times |-> i]),
             <<>>, sc)

\* NamesInOrder is the rule of validate_connection_names.
ASSUME SameRule == \A sc \in MCScenarios : NamesInOrder(sc) <=> Validates(Linear(sc))
=============================================================================
