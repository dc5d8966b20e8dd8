-------------------------- MODULE BlockFetchServer ---------------------------
(***************************************************************************)
(* The Block-Fetch channel of a connection and the scripted server on it   *)
(* (src/miniprotocols/blockfetch_server.rs, and BlockFixtureChain of       *)
(* src/scenario/block_fixture.rs).  A block is named by its point.         *)
(*                                                                         *)
(* The server answers a request with the sends of one rule, one message at *)
(* a time: there is an await after each, and the client reads meanwhile.   *)
(***************************************************************************)
EXTENDS Integers, Sequences, SequencesExt, ResponseRules

CONSTANTS
    Blocks,         \* points and bodies that may be named or sent
    Origin,         \* Point::Origin, which is no block
    Fixture,        \* the entries of the block fixture, in order
    BfScripts       \* the scripts a serve_block_fetch step may have

WireKinds == {"NoBlocks", "StartBatch", "Block", "BatchDone", "RawBytes"}
BfSends ==
    {s \in [kind : WireKinds \cup {"StreamBatch", "StreamRequested", "Wait", "Disconnect",
                                   "CursorRange"},
            blocks : Seq(Blocks)] :
        s.kind = "Block" => Len(s.blocks) = 1}
BfRules ==
    [on : {"RequestRange", "Done", "Any"}, sends : Seq(BfSends), repeatable : BOOLEAN]

ASSUME FixtureAssumption ==
    /\ Nil \notin Blocks /\ Origin \notin Blocks
    /\ Fixture \in Seq(Blocks)
    /\ BfScripts \subseteq Seq(BfRules)

VARIABLES
    c2s, s2c, closed,   \* the channel, as for Chain-Sync
    script,             \* rules
    spc,                \* where execute_block_fetch_script is
    rule_idx,           \* first unconsumed rule
    request,            \* the range being answered
    todo,               \* what the rule in hand has still to send
    state,              \* tracked state (ServerBfState)
    blocks_served

wireVars == <<c2s, s2c, closed>>
serverVars == <<script, spc, rule_idx, request, todo, state, blocks_served>>

Ends == Blocks \cup {Origin, Nil}
BfRequests == [kind : {"RequestRange", "Done"}, from : Ends, to : Ends]
RequestRange(from, to) == [kind |-> "RequestRange", from |-> from, to |-> to]
ClientDone == [kind |-> "Done", from |-> Nil, to |-> Nil]

Messages ==
    {m \in [kind : WireKinds, block : Blocks \cup {Nil}] : m.kind = "Block" <=> m.block # Nil}
Msg(kind, block) == [kind |-> kind, block |-> block]

\* The message of a primitive send.
OnWire(send) == Msg(send.kind, IF send.kind = "Block" THEN send.blocks[1] ELSE Nil)

ServerTypeOK ==
    /\ c2s \in Seq(BfRequests) /\ s2c \in Seq(Messages) /\ closed \in BOOLEAN
    /\ script \in BfScripts
    /\ spc \in {"recv", "send", "hold", "done", "failed"}
    /\ rule_idx \in 1..(Len(script) + 1)
    /\ request \in BfRequests
    /\ todo \in Seq(BfSends) /\ (spc = "send" => todo # <<>>)
    /\ state \in {"Idle", "Busy", "Streaming", "Done"}
    /\ blocks_served \in Nat

ServerInit ==
    /\ c2s = <<>> /\ s2c = <<>> /\ closed = FALSE
    /\ script \in BfScripts
    /\ spc = "recv" /\ rule_idx = 1 /\ todo = <<>>
    /\ request = ClientDone
    /\ state = "Idle" /\ blocks_served = 0

Deliver(channel, msg) == IF closed THEN channel ELSE Append(channel, msg)

-----------------------------------------------------------------------------
\* find_entry_idx: the first entry with this point; 0 stands for None.
find_entry_idx(p) ==
    LET at == {i \in 1..Len(Fixture) : Fixture[i] = p} IN
    IF at = {} THEN 0 ELSE Min(at)

\* Mutant of find_range: the last entry is left out.
find_range_exclusive(from, to) ==
    LET i == find_entry_idx(from)
        j == find_entry_idx(to)
    IN  IF i = 0 \/ j < i THEN <<>> ELSE SubSeq(Fixture, i, j - 1)

\* find_range: both ends included; a missing end or a reversed range is None,
\* which is answered like an empty range.
find_range(from, to) ==
    LET i == find_entry_idx(from)
        j == find_entry_idx(to)
    IN  IF i = 0 \/ j < i THEN <<>> ELSE SubSeq(Fixture, i, j)

\* Mutant of StreamBatch: no batch_done after the last block.
StreamBatchOpen(blocks) ==
    IF blocks = <<>> THEN <<BfSend("NoBlocks", <<>>)>>
    ELSE <<BfSend("StartBatch", <<>>)>>
         \o [i \in 1..Len(blocks) |-> BfSend("Block", <<blocks[i]>>)]

\* Mutant of StreamBatch: batch_done overtakes the last block.
StreamBatchEarlyDone(blocks) ==
    IF blocks = <<>> THEN <<BfSend("NoBlocks", <<>>)>>
    ELSE <<BfSend("StartBatch", <<>>)>>
         \o [i \in 1..(Len(blocks) - 1) |-> BfSend("Block", <<blocks[i]>>)]
         \o <<BfSend("BatchDone", <<>>), BfSend("Block", <<Last(blocks)>>)>>

\* The messages of stream_batch.
StreamBatch(blocks) ==
    IF blocks = <<>> THEN <<BfSend("NoBlocks", <<>>)>>
    ELSE <<BfSend("StartBatch", <<>>)>>
         \o [i \in 1..Len(blocks) |-> BfSend("Block", <<blocks[i]>>)]
         \o <<BfSend("BatchDone", <<>>)>>

\* What is left to send, a stream_batch at its head spelled out.
Plan ==
    CASE Head(todo).kind = "StreamBatch" -> StreamBatch(Head(todo).blocks) \o Tail(todo)
      [] Head(todo).kind = "StreamRequested" ->
            StreamBatch(find_range(request.from, request.to)) \o Tail(todo)
      [] OTHER -> todo

After(rest) == IF rest = <<>> THEN "recv" ELSE "send"

\* A request: stop on ClientDone, fail when no unconsumed rule answers it,
\* otherwise take the first rule that does.
ServerReceive ==
    /\ spc = "recv" /\ c2s # <<>>
    /\ c2s' = Tail(c2s)
    /\ request' = Head(c2s)
    /\ LET kind == Head(c2s).kind IN
       \/ /\ kind = "Done"
          /\ state' = "Done" /\ spc' = "done"
          /\ UNCHANGED <<rule_idx, todo>>
       \/ /\ kind # "Done"
          /\ Candidates(script, rule_idx, kind) = {}
          /\ state' = "Busy" /\ spc' = "failed"
          /\ UNCHANGED <<rule_idx, todo>>
       \/ /\ kind # "Done"
          /\ Candidates(script, rule_idx, kind) # {}
          /\ LET pos == RulePos(script, rule_idx, kind) IN
             /\ rule_idx' = RuleIdxAfter(script, rule_idx, pos)
             /\ todo' = script[pos].sends
          /\ state' = "Busy" /\ spc' = After(todo')
    /\ UNCHANGED <<s2c, closed, script, blocks_served>>

ServerRecvError ==
    /\ spc = "recv" /\ c2s = <<>> /\ closed
    /\ spc' = "done"
    /\ UNCHANGED <<wireVars, script, rule_idx, request, todo, state, blocks_served>>

\* One message; a lone block or raw bytes leave the tracked state as it is.
SendMessage ==
    /\ spc = "send" /\ Plan[1].kind \in WireKinds
    /\ s2c' = Deliver(s2c, OnWire(Plan[1]))
    /\ state' = CASE Plan[1].kind \in {"NoBlocks", "BatchDone"} -> "Idle"
                  [] Plan[1].kind = "StartBatch" -> "Streaming"
                  [] OTHER -> state
    /\ blocks_served' = IF Plan[1].kind = "Block" THEN blocks_served + 1 ELSE blocks_served
    /\ todo' = Tail(Plan)
    /\ spc' = After(todo')
    /\ UNCHANGED <<c2s, closed, script, rule_idx, request>>

SendWait ==
    /\ spc = "send" /\ Plan[1].kind = "Wait"
    /\ spc' = "hold" /\ todo' = Tail(todo)
    /\ UNCHANGED <<wireVars, script, rule_idx, request, state, blocks_served>>

ServerWake ==
    /\ spc = "hold"
    /\ spc' = After(todo)
    /\ UNCHANGED <<wireVars, script, rule_idx, request, todo, state, blocks_served>>

\* disconnect leaves the loop, the rest of its sequence unsent.
SendDisconnect ==
    /\ spc = "send" /\ Plan[1].kind = "Disconnect"
    /\ spc' = "done"
    /\ UNCHANGED <<wireVars, script, rule_idx, request, todo, state, blocks_served>>

\* execute_single_send has no arm for CursorRange: it falls to the last one.
SendUnsupported ==
    /\ spc = "send" /\ Plan[1].kind = "CursorRange"
    /\ spc' = "failed"
    /\ UNCHANGED <<wireVars, script, rule_idx, request, todo, state, blocks_served>>

ServerSendError ==
    /\ spc = "send" /\ closed /\ Plan[1].kind \in WireKinds
    /\ spc' = "failed"
    /\ UNCHANGED <<wireVars, script, rule_idx, request, todo, state, blocks_served>>

ServerNext ==
    \/ ServerReceive \/ ServerRecvError \/ SendMessage \/ SendWait \/ ServerWake
    \/ SendDisconnect \/ SendUnsupported \/ ServerSendError

ServerFinished == spc \in {"done", "failed"}
=============================================================================
