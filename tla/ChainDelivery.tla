---------------------------- MODULE ChainDelivery ----------------------------
(***************************************************************************)
(* What a chain_sync step promises against an honest server, without the   *)
(* messages: the two sides agree on a point of the server's chain once,    *)
(* then the headers after it are delivered one by one and in order until   *)
(* the client has what it asked for, gives up, or has the whole chain and  *)
(* is made to wait.                                                        *)
(***************************************************************************)
EXTENDS FixtureCursor

CONSTANTS
    Nil,        \* no intersection
    Count       \* headers asked for

VARIABLES
    intersection,   \* the point agreed on, or Nil
    delivered,      \* the headers delivered
    status          \* "open", "waiting", or how the step ended

vars == <<intersection, delivered, status>>

Init == intersection = Nil /\ delivered = <<>> /\ status = "open"

\* The position of the next header.
NextPos == point_to_pos(intersection) + Len(delivered) + 1

Agree ==
    /\ status = "open" /\ intersection = Nil /\ delivered = <<>>
    /\ \E p \in Points : Known(p) /\ intersection' = p
    /\ UNCHANGED <<delivered, status>>

DeliverNext ==
    /\ status = "open" /\ intersection # Nil
    /\ Len(delivered) < Count /\ NextPos <= Len(Chain)
    /\ delivered' = Append(delivered, Chain[NextPos])
    /\ UNCHANGED <<intersection, status>>

\* Nothing follows.  A client without an intersection gets nothing at all.
Wait ==
    /\ status = "open" /\ Len(delivered) < Count
    /\ intersection # Nil => NextPos = Len(Chain) + 1
    /\ status' = "waiting"
    /\ UNCHANGED <<intersection, delivered>>

Finish ==
    /\ status = "open" /\ Len(delivered) = Count
    /\ status' = "completed"
    /\ UNCHANGED <<intersection, delivered>>

GiveUp ==
    /\ status \in {"open", "waiting"}
    /\ status' \in {"await_timeout", "error"}
    /\ UNCHANGED <<intersection, delivered>>

Next == Agree \/ DeliverNext \/ Wait \/ Finish \/ GiveUp

Spec == Init /\ [][Next]_vars
=============================================================================
