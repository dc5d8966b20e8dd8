-------------------------- MODULE BlockFetchSession --------------------------
(***************************************************************************)
(* A block_fetch step (run_block_fetch, src/miniprotocols/blockfetch.rs)   *)
(* against a serve_block_fetch step, over one connection.  The client      *)
(* drives net_core's typed runner (external) and has no timeout.           *)
(***************************************************************************)
EXTENDS BlockFetchServer

CONSTANTS
    PointLists,     \* points a block_fetch step may have
    BatchSizes,     \* its batch_size
    MayDrop         \* the connection may go down at any time

ASSUME FetchAssumption ==
    /\ PointLists \subseteq Seq(Blocks \cup {Origin})
    /\ BatchSizes \subseteq Nat
    /\ MayDrop \in BOOLEAN

VARIABLES
    points,
    batch_size,
    cpc,                \* where run_block_fetch is
    batches_done,       \* turns of the loop over the chunks so far
    blocks_received,    \* the blocks themselves, in order
    captured_blocks     \* <<point, body>> pairs

clientVars == <<points, batch_size, cpc, batches_done, blocks_received, captured_blocks>>
vars == <<wireVars, serverVars, clientVars>>

ClientFinished == cpc \in {"completed", "error"}

TypeOK ==
    /\ ServerTypeOK
    /\ points \in PointLists /\ batch_size \in BatchSizes
    /\ cpc \in {"idle", "busy", "streaming", "completed", "error"}
    /\ batches_done \in 0..Len(points)
    /\ blocks_received \in Seq(Blocks)
    /\ captured_blocks \in Seq(Blocks \X Blocks)

Init ==
    /\ ServerInit
    /\ points \in PointLists /\ batch_size \in BatchSizes
    /\ cpc = "idle" /\ batches_done = 0
    /\ blocks_received = <<>> /\ captured_blocks = <<>>

-----------------------------------------------------------------------------
effective_batch == Max({batch_size, 1})

\* Mutant of Batch: the chunks overlap by one point.
BatchOverlaps ==
    SubSeq(points, Max({batches_done * effective_batch, 1}),
           Min({(batches_done + 1) * effective_batch, Len(points)}))

\* points.chunks(effective_batch): the chunk that is next; the last one may
\* be short, and after it there is none.
Batch ==
    SubSeq(points, batches_done * effective_batch + 1,
           Min({(batches_done + 1) * effective_batch, Len(points)}))

\* request_range sends the two ends of the chunk.
ClientRequestRange ==
    /\ cpc = "idle" /\ Batch # <<>>
    /\ c2s' = Deliver(c2s, RequestRange(Batch[1], Last(Batch)))
    /\ cpc' = "busy"
    /\ UNCHANGED <<s2c, closed, points, batch_size, batches_done, blocks_received,
                   captured_blocks>>

Take(kind) == s2c # <<>> /\ Head(s2c).kind = kind /\ s2c' = Tail(s2c)

ClientNoBlocks ==
    /\ cpc = "busy" /\ Take("NoBlocks")
    /\ cpc' = "idle" /\ batches_done' = batches_done + 1
    /\ UNCHANGED <<c2s, closed, points, batch_size, blocks_received, captured_blocks>>

ClientStartBatch ==
    /\ cpc = "busy" /\ Take("StartBatch")
    /\ cpc' = "streaming"
    /\ UNCHANGED <<c2s, closed, points, batch_size, batches_done, blocks_received,
                   captured_blocks>>

\* Mutant of ClientBlock: a body is captured under the end of its range.
ClientBlockCaptures ==
    /\ cpc = "streaming" /\ Take("Block")
    /\ blocks_received' = Append(blocks_received, Head(s2c).block)
    /\ captured_blocks' = Append(captured_blocks, <<Last(Batch), Head(s2c).block>>)
    /\ UNCHANGED <<c2s, closed, points, batch_size, cpc, batches_done>>

\* A body is captured only when the chunk is one point, and under that point.
ClientBlock ==
    /\ cpc = "streaming" /\ Take("Block")
    /\ blocks_received' = Append(blocks_received, Head(s2c).block)
    /\ captured_blocks' = IF Len(Batch) = 1 /\ Batch[1] # Origin
                          THEN Append(captured_blocks, <<Batch[1], Head(s2c).block>>)
                          ELSE captured_blocks
    /\ UNCHANGED <<c2s, closed, points, batch_size, cpc, batches_done>>

ClientBatchDone ==
    /\ cpc = "streaming" /\ Take("BatchDone")
    /\ cpc' = "idle" /\ batches_done' = batches_done + 1
    /\ UNCHANGED <<c2s, closed, points, batch_size, blocks_received, captured_blocks>>

Expected ==
    CASE cpc = "busy"      -> {"NoBlocks", "StartBatch"}
      [] cpc = "streaming" -> {"Block", "BatchDone"}

Fail ==
    /\ cpc' = "error"
    /\ UNCHANGED <<c2s, closed, points, batch_size, batches_done, blocks_received,
                   captured_blocks>>

\* A message the typed state does not allow, or that does not decode.
ClientUnexpected ==
    /\ cpc \in {"busy", "streaming"} /\ s2c # <<>> /\ Head(s2c).kind \notin Expected
    /\ s2c' = Tail(s2c)
    /\ Fail

\* Raw bytes may also be the start of a longer message: keep waiting.
ClientPartialBytes ==
    /\ cpc \in {"busy", "streaming"} /\ Take("RawBytes")
    /\ UNCHANGED <<c2s, closed, clientVars>>

ClientConnError ==
    /\ closed
    /\ \/ cpc = "idle" /\ Batch # <<>>
       \/ cpc \in {"busy", "streaming"} /\ s2c = <<>>
    /\ UNCHANGED s2c
    /\ Fail

\* A failure to send MsgClientDone does not fail the step.
ClientSendDone ==
    /\ cpc = "idle" /\ Batch = <<>>
    /\ c2s' = Deliver(c2s, ClientDone)
    /\ cpc' = "completed"
    /\ UNCHANGED <<s2c, closed, points, batch_size, batches_done, blocks_received,
                   captured_blocks>>

ClientNext ==
    \/ ClientRequestRange \/ ClientNoBlocks \/ ClientStartBatch \/ ClientBlock
    \/ ClientBatchDone \/ ClientUnexpected \/ ClientPartialBytes \/ ClientConnError
    \/ ClientSendDone

\* The connection goes down, and what is in flight arrives or is lost.
Close ==
    /\ ~closed
    /\ MayDrop \/ ClientFinished \/ ServerFinished
    /\ closed' = TRUE
    /\ c2s' \in {c2s, <<>>}
    /\ s2c' \in {s2c, <<>>}
    /\ UNCHANGED <<serverVars, clientVars>>

Next ==
    \/ ServerNext /\ UNCHANGED clientVars
    \/ ClientNext /\ UNCHANGED serverVars
    \/ Close

Spec == Init /\ [][Next]_vars

\* Each side is polled while it can go on, and closes after its scenario.
Fairness ==
    /\ WF_vars(ServerNext /\ UNCHANGED clientVars)
    /\ WF_vars(ClientNext /\ UNCHANGED serverVars)
    /\ WF_vars(Close /\ (ClientFinished \/ ServerFinished))

FairSpec == Spec /\ Fairness

-----------------------------------------------------------------------------
\* Every rule answers its request from the fixture.
Honest == \A i \in 1..Len(script) :
    script[i].sends = <<BfSend("StreamRequested", <<>>)>>

\* The points asked for follow each other in the fixture, and none of them is
\* an earlier entry too: load does not refuse a fixture that repeats a block.
Contiguous ==
    \E k \in 0..Len(Fixture) : \A i \in 1..Len(points) :
        /\ k + i <= Len(Fixture) /\ points[i] = Fixture[k + i]
        /\ \A j \in 1..(k + i - 1) : Fixture[j] # points[i]

(***************************************************************************)
(* A client that asks an honest server for consecutive blocks gets exactly *)
(* those, each once and in order, whatever batch_size cuts the request     *)
(* into; if the session breaks off, what it got is a prefix of them.       *)
(* Between two requests to an honest server nothing is on its way and both *)
(* sides have counted the same blocks.                                     *)
(***************************************************************************)
FetchedExactly ==
    Honest =>
        /\ Contiguous => /\ IsPrefix(blocks_received, points)
                         /\ cpc = "completed" => blocks_received = points
        /\ cpc = "idle" => s2c = <<>> /\ blocks_served = Len(blocks_received)

(***************************************************************************)
(* A captured body is stored under the point of the block it is, so that   *)
(* the captured file can be served again.                                  *)
(***************************************************************************)
CapturedUnderOwnPoint ==
    Honest => \A i \in 1..Len(captured_blocks) : captured_blocks[i][1] = captured_blocks[i][2]

(***************************************************************************)
(* An honest server never sends what the typed client would reject: while  *)
(* the connection is up and rules last, the client does not fail.          *)
(***************************************************************************)
HonestIsWellTyped == Honest /\ ~closed => cpc # "error"

(***************************************************************************)
(* There is no timeout, yet with a server that answers from its fixture    *)
(* the client's step always ends, even if the script is too short.         *)
(***************************************************************************)
FetchTerminates == Honest ~> ClientFinished

-----------------------------------------------------------------------------
(***************************************************************************)
(* response_rules.rs on generate_for_block_fetch: its rule "serves         *)
(* whatever range the client asks for", so the serve step does not fail.   *)
(***************************************************************************)
GeneratedScriptServes ==
    script = generate_for_block_fetch(FALSE) /\ ~closed => spc # "failed"

-----------------------------------------------------------------------------
(***************************************************************************)
(* The inductive strengthening: how far an honest server and its client    *)
(* are in the answer to one request.                                       *)
(***************************************************************************)
Offset == batches_done * effective_batch

\* A request is only open for a chunk that there is.
OpenBatch == cpc \in {"busy", "streaming"} => Offset < Len(points)

Asked == find_range(request.from, request.to)
Answer == StreamBatch(Asked)

\* The blocks among the first i messages of the answer, and the messages sent.
BlocksIn(i) ==
    IF i <= 1 \/ Asked = <<>> THEN 0 ELSE IF i <= Len(Asked) + 1 THEN i - 1 ELSE Len(Asked)

NothingSent == todo = <<BfSend("StreamRequested", <<>>)>>
Sent ==
    IF spc # "send" THEN Len(Answer) ELSE IF NothingSent THEN 0 ELSE Len(Answer) - Len(todo)

\* The server sends the answer, from wherever it is to its end.
AnswersInOrder ==
    /\ spc # "hold"
    /\ spc = "send" /\ ~NothingSent =>
         /\ Len(todo) \in 1..(Len(Answer) - 1)
         /\ \A i \in 1..Len(todo) : todo[i] = Answer[Len(Answer) - Len(todo) + i]

\* The first m messages of the answer were delivered, the last of them are
\* still under way: all that was sent, unless the connection went down.
Delivered(m) ==
    LET got == m - Len(s2c) IN
    /\ got \in 0..(Len(Answer) - 1)
    /\ ~closed => m = Sent
    /\ m = Len(Answer) => spc # "send"
    /\ \A i \in 1..Len(s2c) : s2c[i] = OnWire(Answer[got + i])
    /\ cpc = "busy" <=> got = 0
    /\ ~closed \/ m = Len(Answer) =>
         blocks_served + BlocksIn(got) = Len(blocks_received) + BlocksIn(m)
    /\ Contiguous => Len(blocks_received) = Offset + BlocksIn(got)

\* A request that no server has taken, or that it has no rule for, or that the
\* connection lost; otherwise the answer to it is under way.
Untaken ==
    /\ c2s # <<>> /\ cpc = "busy" /\ blocks_served = Len(blocks_received)
    /\ Contiguous => Len(blocks_received) = Offset

Unanswered == s2c = <<>> /\ (closed \/ spc = "failed")

UnderWay ==
    /\ c2s = <<>> /\ request = RequestRange(Batch[1], Last(Batch))
    /\ \E m \in 0..Len(Answer) : Delivered(m)

ClientInStep ==
    /\ c2s # <<>> =>
         /\ Len(c2s) = 1 /\ s2c = <<>> /\ spc # "send"
         /\ IF Head(c2s).kind = "Done" THEN cpc = "completed"
            ELSE cpc \in {"busy", "error"} /\ Head(c2s) = RequestRange(Batch[1], Last(Batch))
    /\ cpc \in {"idle", "completed"} => s2c = <<>> /\ spc # "send"
    /\ cpc = "idle" => c2s = <<>> /\ blocks_served = Len(blocks_received)
    /\ cpc = "error" => closed
    /\ cpc \in {"busy", "streaming"} => Untaken \/ Unanswered \/ UnderWay

ReceivedInOrder ==
    Contiguous =>
        /\ Len(blocks_received) <= Len(points)
        /\ \A i \in 1..Len(blocks_received) : blocks_received[i] = points[i]
        /\ cpc \in {"idle", "completed"} =>
             Len(blocks_received) = IF Offset <= Len(points) THEN Offset ELSE Len(points)
        /\ cpc = "completed" => Offset >= Len(points)

HonestParts ==
    AnswersInOrder /\ ClientInStep /\ ReceivedInOrder /\ CapturedUnderOwnPoint

BatchInv == TypeOK /\ OpenBatch
BlockFetchInv == BatchInv /\ (Honest => HonestParts)
=============================================================================
