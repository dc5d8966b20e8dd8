---------------------------- MODULE MCBlockFetch -----------------------------
(* Instances of BlockFetchSession for TLC. *)
EXTENDS BlockFetchSession

CONSTANTS a, b, c, x        \* three blocks of the fixture, and a foreign one

MCBlocks == {a, b, c, x}
MCFixture == <<a, b, c, b>>     \* one block repeated

\* All of the fixture, parts of it, a gap, reversed, unknown ends, nothing.
MCPointLists ==
    {<<a, b, c>>, <<b, c>>, <<c>>, <<a, c>>, <<c, a>>, <<c, b>>, <<x, b>>, <<Origin, a>>, <<>>}

FromRequest == BfRule("RequestRange", <<BfSend("StreamRequested", <<>>)>>, FALSE)

HonestScripts == {[i \in 1..n |-> FromRequest] : n \in {1, 3}}

\* Sends a scenario may put in its responses, alone and in a send_sequence.
Sends ==
    {BfSend(kind, <<>>) : kind \in {"NoBlocks", "StartBatch", "BatchDone", "Wait",
                                    "Disconnect", "RawBytes", "StreamRequested"}}
    \cup {BfSend("Block", <<x>>), BfSend("StreamBatch", <<c, a>>),
          BfSend("StreamBatch", <<>>)}

ScriptedScripts ==
    {<<BfRule("Any", <<s, t>>, FALSE)>> : s \in Sends, t \in Sends}
    \cup {<<BfRule("RequestRange", <<s>>, FALSE), FromRequest>> : s \in Sends}
    \cup {<<BfRule("Done", <<>>, FALSE)>>, <<BfRule("Any", <<>>, FALSE)>>}
    \cup {generate_for_block_fetch(TRUE)}

Scripted == ScriptedScripts \cup HonestScripts \cup {generate_for_block_fetch(FALSE)}
Generated == {generate_for_block_fetch(FALSE)}
=============================================================================
