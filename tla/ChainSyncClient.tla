--------------------------- MODULE ChainSyncClient ---------------------------
(***************************************************************************)
(* The Chain-Sync client of a chain_sync step, run_chain_sync of           *)
(* src/miniprotocols/chainsync.rs.  It drives net_core's typed runner      *)
(* (external): find_intersection and request_next each send one message    *)
(* and wait for an answer the typed state allows; any other answer is an   *)
(* error.  request_next passes over one AwaitReply.                        *)
(***************************************************************************)
EXTENDS ChainSyncWire

CONSTANTS
    PointLists,     \* intersection_points a step may supply
    Count,          \* headers to collect
    HasTimeout      \* await_timeout is not zero

ASSUME ClientAssumption ==
    /\ PointLists \subseteq Seq(Points)
    /\ Count \in Nat
    /\ HasTimeout \in BOOLEAN

VARIABLES
    cpc,                \* where run_chain_sync is
    headers_received,
    collected_points,
    found               \* the point of MsgIntersectFound, or Nil

clientVars == <<cpc, headers_received, collected_points, found>>

\* Waiting for an answer; "mustReply" is after an AwaitReply.
Waiting == {"intersect", "canAwait", "mustReply"}
ExitReasons == {"completed", "await_timeout", "error"}

ClientTypeOK ==
    /\ cpc \in {"start", "idle"} \cup Waiting \cup ExitReasons
    /\ headers_received \in 0..Count
    /\ collected_points \in Seq(Points \ {Origin})
    /\ found \in Points \cup {Nil}

ClientInit ==
    /\ cpc = "start"
    /\ headers_received = 0
    /\ collected_points = <<>>
    /\ found = Nil

ClientFinished == cpc \in ExitReasons

-----------------------------------------------------------------------------
\* The typed runner sends MsgFindIntersect.  There is no timeout on its answer.
ClientFindIntersect ==
    /\ cpc = "start"
    /\ \E points \in PointLists : c2s' = Deliver(c2s, FindIntersect(points))
    /\ cpc' = "intersect"
    /\ UNCHANGED <<s2c, closed, headers_received, collected_points, found>>

\* Found or not, the request loop follows.
ClientIntersect ==
    /\ cpc = "intersect" /\ s2c # <<>>
    /\ \/ Head(s2c).kind = "IntersectFound" /\ found' = Head(s2c).val
       \/ Head(s2c).kind = "IntersectNotFound" /\ UNCHANGED found
    /\ s2c' = Tail(s2c)
    /\ cpc' = "idle"
    /\ UNCHANGED <<c2s, closed, headers_received, collected_points>>

ClientRequestNext ==
    /\ cpc = "idle" /\ headers_received < Count
    /\ c2s' = Deliver(c2s, RequestNext)
    /\ cpc' = "canAwait"
    /\ UNCHANGED <<s2c, closed, headers_received, collected_points, found>>

\* A header that does not parse is counted but not collected.
ClientRollForward ==
    /\ cpc \in {"canAwait", "mustReply"} /\ s2c # <<>>
    /\ Head(s2c).kind = "RollForward"
    /\ headers_received' = headers_received + 1
    /\ collected_points' = IF Head(s2c).val = Opaque THEN collected_points
                           ELSE Append(collected_points, Head(s2c).val)
    /\ s2c' = Tail(s2c)
    /\ cpc' = "idle"
    /\ UNCHANGED <<c2s, closed, found>>

\* A rollback is counted; the points collected before it are kept.
ClientRollBackward ==
    /\ cpc \in {"canAwait", "mustReply"} /\ s2c # <<>>
    /\ Head(s2c).kind = "RollBackward"
    /\ s2c' = Tail(s2c)
    /\ cpc' = "idle"
    /\ UNCHANGED <<c2s, closed, headers_received, collected_points, found>>

ClientAwaitReply ==
    /\ cpc = "canAwait" /\ s2c # <<>>
    /\ Head(s2c).kind = "AwaitReply"
    /\ s2c' = Tail(s2c)
    /\ cpc' = "mustReply"
    /\ UNCHANGED <<c2s, closed, headers_received, collected_points, found>>

\* Mutant of ClientTimeout: the request is sent again.
ClientTimeoutRetries ==
    /\ HasTimeout /\ cpc \in {"canAwait", "mustReply"}
    /\ cpc' = "idle"
    /\ UNCHANGED <<wireVars, headers_received, collected_points, found>>

\* Mutant of ClientTimeout: the timeout is dropped once AwaitReply arrives.
ClientTimeoutCanAwait ==
    /\ HasTimeout /\ cpc = "canAwait"
    /\ cpc' = "await_timeout"
    /\ UNCHANGED <<wireVars, headers_received, collected_points, found>>

\* One timeout covers a whole request_next; MsgDone is not sent.
ClientTimeout ==
    /\ HasTimeout /\ cpc \in {"canAwait", "mustReply"}
    /\ cpc' = "await_timeout"
    /\ UNCHANGED <<wireVars, headers_received, collected_points, found>>

Expected ==
    CASE cpc = "intersect" -> {"IntersectFound", "IntersectNotFound"}
      [] cpc = "canAwait"  -> {"RollForward", "RollBackward", "AwaitReply"}
      [] cpc = "mustReply" -> {"RollForward", "RollBackward"}

\* The answer does not decode or is not allowed in the typed state.
ClientUnexpected ==
    /\ cpc \in Waiting /\ s2c # <<>>
    /\ Head(s2c).kind \notin Expected
    /\ s2c' = Tail(s2c)
    /\ cpc' = "error"
    /\ UNCHANGED <<c2s, closed, headers_received, collected_points, found>>

\* Raw bytes may also be the start of a longer message: keep waiting.
ClientPartialBytes ==
    /\ cpc \in Waiting /\ s2c # <<>>
    /\ Head(s2c).kind = "RawBytes"
    /\ s2c' = Tail(s2c)
    /\ UNCHANGED <<c2s, closed, clientVars>>

\* The bearer is down: a send is refused, or there is nothing more to read.
ClientConnError ==
    /\ closed
    /\ \/ cpc = "start"
       \/ cpc = "idle" /\ headers_received < Count
       \/ cpc \in Waiting /\ s2c = <<>>
    /\ cpc' = "error"
    /\ UNCHANGED <<wireVars, headers_received, collected_points, found>>

\* A failure to send MsgDone is traced but does not fail the step.
ClientDone ==
    /\ cpc = "idle" /\ headers_received >= Count
    /\ c2s' = Deliver(c2s, Done)
    /\ cpc' = "completed"
    /\ UNCHANGED <<s2c, closed, headers_received, collected_points, found>>

ClientNext ==
    \/ ClientFindIntersect
    \/ ClientIntersect
    \/ ClientRequestNext
    \/ ClientRollForward
    \/ ClientRollBackward
    \/ ClientAwaitReply
    \/ ClientTimeout
    \/ ClientUnexpected
    \/ ClientPartialBytes
    \/ ClientConnError
    \/ ClientDone
=============================================================================
