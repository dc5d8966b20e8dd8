--------------------------- MODULE ChainSyncSession --------------------------
(***************************************************************************)
(* A chain_sync step of one harness against a serve_chain_sync step of     *)
(* another, over one connection.  Each side is a single task; they share   *)
(* nothing but the channel.  After its step a side may go on to close the  *)
(* connection (a disconnect step, or the end of its scenario), and then    *)
(* what is in flight arrives or is lost.                                   *)
(***************************************************************************)
EXTENDS ChainSyncServer, ChainSyncClient

CONSTANT MayDrop    \* the connection may also go down at any time

ASSUME SessionAssumption == MayDrop \in BOOLEAN

vars == <<wireVars, serverVars, clientVars>>

TypeOK == WireTypeOK /\ ServerTypeOK /\ ClientTypeOK

Init == WireInit /\ ServerInit /\ ClientInit

\* The multiplexer of one side goes away, with or without what it carries.
Close ==
    /\ ~closed
    /\ MayDrop \/ ClientFinished \/ ServerFinished
    /\ closed' = TRUE
    /\ c2s' \in {c2s, <<>>}
    /\ s2c' \in {s2c, <<>>}
    /\ UNCHANGED <<serverVars, clientVars>>

Next ==
    \/ ServerNext /\ UNCHANGED clientVars
    \/ ClientNext /\ UNCHANGED serverVars
    \/ Close

Spec == Init /\ [][Next]_vars

\* Both tasks are polled while they can make progress, a sleep and a timeout
\* end, and a harness whose step is over does come to the end of its scenario.
Fairness ==
    /\ WF_vars(ServerNext /\ UNCHANGED clientVars)
    /\ WF_vars((ClientNext /\ ~ClientTimeout) /\ UNCHANGED serverVars)
    /\ WF_vars(ClientTimeout /\ UNCHANGED serverVars)
    /\ WF_vars(Close /\ (ClientFinished \/ ServerFinished))

FairSpec == Spec /\ Fairness

-----------------------------------------------------------------------------
\* await_at_tip_secs, clamped to at most 300 by the serve_chain_sync step.
AwaitAtTip == 0..300

\* The script the server follows is the one generated from its fixture.
Honest ==
    /\ Len(script) = Len(Chain) + 3
    /\ \E hold \in AwaitAtTip : script = generate_from_fixture(Len(Chain), hold)

(***************************************************************************)
(* Neither side ever speaks out of turn: at most one message is in flight, *)
(* the server executes a rule only when none is, and while the client has  *)
(* the turn, or was told to wait, the channel is empty and the server is   *)
(* back at its receive.                                                    *)
(***************************************************************************)
OneMessageInFlight ==
    /\ Len(c2s) + Len(s2c) <= 1
    /\ spc = "send" => c2s = <<>> /\ s2c = <<>>
    /\ cpc \in {"start", "idle", "mustReply"} =>
            c2s = <<>> /\ s2c = <<>> /\ spc # "send"

(***************************************************************************)
(* What an honest server delivers is the chain: the points the client has  *)
(* collected are the headers that follow the intersection it was told of,  *)
(* in order, with none skipped and none repeated, and the server's cursor  *)
(* is never behind them, whatever times out or is lost.                    *)
(***************************************************************************)
Base == point_to_pos(found)

CollectedIsSegment ==
    Honest =>
        IF found = Nil THEN collected_points = <<>>
        ELSE LET upto == Base + Len(collected_points) IN
             /\ collected_points = SubSeq(Chain, Base + 1, upto)
             /\ upto <= pos
             /\ Len(collected_points) = headers_received

(***************************************************************************)
(* The generated script is long enough: whatever intersection the client   *)
(* asks for and however many headers it wants, an honest server never runs *)
(* out of rules and never disconnects a client that is still waiting.      *)
(***************************************************************************)
HonestScriptSuffices ==
    Honest /\ ~closed =>
        /\ spc # "failed"
        /\ spc = "done" => cpc = "completed"

(***************************************************************************)
(* The server's annotations describe the session: when it waits for a      *)
(* request, the state it tracks is the one its last traced message left,   *)
(* whatever the script sent and the client asked.  The one exception is a  *)
(* cursor_advance that found the chain exhausted: it has sent AwaitReply,  *)
(* and the tracker is told it was a header.                                *)
(***************************************************************************)
ExhaustedAdvance ==
    rule > 0 /\ script[rule].send = "CursorAdvance" /\ traced = "MustReply" /\ state = "Idle"

TrackerMatchesTrace == spc = "recv" => state = traced \/ ExhaustedAdvance

(***************************************************************************)
(* With a timeout, every chain_sync step whose intersection was answered   *)
(* comes to an end, whatever the script does.                              *)
(***************************************************************************)
RequestLoopTerminates == cpc = "idle" ~> ClientFinished

(***************************************************************************)
(* On a connection that stays up and without a timeout, a client that asks *)
(* for no more headers than follow its intersection gets all of them.      *)
(***************************************************************************)
EnoughHeadersComplete ==
    (Honest /\ found # Nil /\ Base + Count <= Len(Chain)) ~> cpc = "completed"

(***************************************************************************)
(* A serve step ends once its client is gone.                              *)
(***************************************************************************)
ServerTerminates == ClientFinished ~> ServerFinished

(***************************************************************************)
(* A session with an honest server implements ChainDelivery: whatever is   *)
(* scripted, delayed, lost or closed, the client's step looks from outside *)
(* as if the headers came straight from the chain.  The script does not    *)
(* change within a session; one with another script maps to a step that    *)
(* never does anything.                                                    *)
(***************************************************************************)
StepStatus ==
    IF cpc = "mustReply" THEN "waiting" ELSE IF ClientFinished THEN cpc ELSE "open"

Delivery == INSTANCE ChainDelivery WITH
    intersection <- IF Honest THEN found ELSE Nil,
    delivered <- IF Honest THEN collected_points ELSE <<>>,
    status <- IF Honest THEN StepStatus ELSE "open"

ImplementsDelivery == Delivery!Spec

-----------------------------------------------------------------------------
(***************************************************************************)
(* The inductive strengthening of CollectedIsSegment: how far an honest    *)
(* server and its client can be apart at every point of a session.         *)
(***************************************************************************)
InLoop == cpc \in {"idle", "canAwait", "mustReply"}

\* A request of the loop has not been answered yet.
Unanswered == cpc = "idle" \/ c2s # <<>> \/ spc = "send"

Upto == Base + Len(collected_points)

\* MsgFindIntersect is the first request, and takes the first rule.
IntersectFirst ==
    /\ InLoop \/ cpc \in {"completed", "await_timeout"} \/ s2c # <<>> \/ spc = "send"
            => rule_idx >= 2
    /\ cpc = "start" => rule_idx = 1
    /\ rule_idx = 1 => pos = -1 /\ found = Nil
    /\ c2s # <<>> =>
         IF Head(c2s).kind = "FindIntersect"
         THEN rule_idx = 1 /\ cpc \in {"intersect", "error"}
         ELSE rule_idx >= 2 /\ cpc # "intersect"
    /\ spc = "send" /\ rule = 1 =>
         pos = -1 /\ found = Nil /\ cpc \in {"intersect", "error"}
    /\ spc = "send" /\ cpc = "intersect" => rule = 1

\* The answer to it tells where the cursor is.
IntersectAgrees ==
    cpc = "intersect" /\ s2c # <<>> =>
        \/ /\ Head(s2c).kind = "IntersectFound"
           /\ pos \in 0..Len(Chain)
           /\ point_to_pos(Head(s2c).val) = pos
        \/ Head(s2c).kind = "IntersectNotFound" /\ pos = -1

\* Without an intersection no header is ever sent.
NotFoundGetsNothing ==
    found = Nil =>
        /\ collected_points = <<>> /\ headers_received = 0
        /\ InLoop => /\ s2c # <<>> => Head(s2c).kind = "AwaitReply"
                     /\ Unanswered => pos = -1

\* With one, the cursor is where the client is, or one header ahead of it.
CursorKeepsPace ==
    found # Nil =>
        /\ Base \in 0..Len(Chain)
        /\ Upto <= pos
        /\ collected_points = SubSeq(Chain, Base + 1, Upto)
        /\ headers_received = Len(collected_points)
        /\ InLoop => /\ Unanswered => Upto = pos
                     /\ s2c # <<>> =>
                          \/ Head(s2c).kind = "AwaitReply"
                          \/ /\ Head(s2c).kind = "RollForward"
                             /\ Upto + 1 = pos /\ Head(s2c).val = Chain[pos]

HonestParts ==
    /\ cpc \in {"start", "intersect"} => found = Nil
    /\ IntersectFirst
    /\ IntersectAgrees
    /\ NotFoundGetsNothing
    /\ CursorKeepsPace

\* How far the generated script is: the rule that is next, or in hand, ...
RuleTurn == IF spc = "send" THEN rule ELSE rule_idx

\* ... is one per header, so that the closing await_reply comes at the tip, and
\* no request is left for the disconnect after it.
ScriptKeepsPace ==
    /\ spc = "send" => rule_idx = rule + 1 /\ rule <= Len(Chain) + 2
    /\ cpc = "intersect" => rule_idx <= 2
    /\ InLoop /\ Unanswered => RuleTurn = Len(collected_points) + 2
    /\ InLoop /\ s2c # <<>> /\ Head(s2c).kind = "RollForward" =>
            rule_idx = Len(collected_points) + 3
    /\ InLoop /\ s2c # <<>> /\ Head(s2c).kind = "AwaitReply" /\ found # Nil =>
            Upto = Len(Chain)
    /\ c2s # <<>> /\ Head(c2s).kind = "RequestNext" => rule_idx <= Len(Chain) + 2

\* The intersection offered is a point of the chain.
OfferIsKnown ==
    cpc = "intersect" /\ s2c # <<>> /\ Head(s2c).kind = "IntersectFound" =>
        Known(Head(s2c).val)

\* Who ends a session: its client, or the connection.
EndsInOrder ==
    /\ c2s # <<>> /\ Head(c2s).kind = "Done" => cpc = "completed"
    /\ spc = "failed" => closed
    /\ spc = "done" => closed \/ cpc = "completed"

ScriptParts == ScriptKeepsPace /\ OfferIsKnown /\ EndsInOrder

\* The tracked state and the trace part only at an exhausted cursor_advance.
TrackerInv ==
    /\ spc = "send" => state = traced
    /\ spc \in {"recv", "hold"} => state = traced \/ ExhaustedAdvance

\* The loop only asks while headers are missing.
AsksWhileShort == cpc \in {"canAwait", "mustReply"} => headers_received < Count

SessionInv ==
    TypeOK /\ AsksWhileShort /\ OneMessageInFlight /\ (Honest => HonestParts)

=============================================================================
