---------------------------- MODULE ChainSyncWire ----------------------------
(***************************************************************************)
(* The Chain-Sync channel of one connection: two FIFO byte streams under   *)
(* the multiplexer (an external component), seen as sequences of decoded   *)
(* messages, and whether the bearer is still open.                         *)
(***************************************************************************)
EXTENDS FixtureCursor, ResponseRules

CONSTANT Opaque     \* a header whose bytes do not parse as a block header

ASSUME WireAssumption ==
    /\ Opaque \notin Points
    /\ Nil \notin Points \cup {Opaque}

VARIABLES
    c2s,        \* client to server
    s2c,        \* server to client
    closed      \* the connection is down

wireVars == <<c2s, s2c, closed>>

Headers == (Points \ {Origin}) \cup {Opaque}

Requests == [kind : {"FindIntersect", "RequestNext", "Done"}, points : Seq(Points)]

FindIntersect(points) == [kind |-> "FindIntersect", points |-> points]
RequestNext == [kind |-> "RequestNext", points |-> <<>>]
Done == [kind |-> "Done", points |-> <<>>]

\* The value that goes with each kind of reply.
Carries(kind, val) ==
    CASE kind = "RollForward" -> val \in Headers
      [] kind \in {"RollBackward", "IntersectFound"} -> val \in Points
      [] OTHER -> val = Nil

Replies ==
    {m \in [kind : {"IntersectFound", "IntersectNotFound", "RollForward",
                    "RollBackward", "AwaitReply", "RawBytes"},
            val : Points \cup {Opaque, Nil}] : Carries(m.kind, m.val)}

Reply(kind, val) == [kind |-> kind, val |-> val]

WireTypeOK ==
    /\ c2s \in Seq(Requests)
    /\ s2c \in Seq(Replies)
    /\ closed \in BOOLEAN

WireInit == c2s = <<>> /\ s2c = <<>> /\ closed = FALSE

\* A send on a closed bearer that is not refused is lost.
Deliver(channel, msg) == IF closed THEN channel ELSE Append(channel, msg)
=============================================================================
