------------------------- MODULE ChainDeliveryProofs -------------------------
(***************************************************************************)
(* A Chain-Sync session with an honest server implements ChainDelivery,    *)
(* its generated script is never too short, and the server's annotations   *)
(* agree with its trace, for every chain, script and client.               *)
(***************************************************************************)
EXTENDS ChainSyncProofs

-----------------------------------------------------------------------------
(* The tracked state.                                                      *)

\* A step of the server other than a receive or a send keeps the annotations.
LEMMA TrackerStep ==
    ASSUME TypeOK, TrackerInv, [Next]_vars
    PROVE  TrackerInv'
  <1>1. CASE ServerReceive
    BY <1>1 DEF ServerReceive, TrackerInv
  <1>2. CASE SendCursorFindIntersect
    BY <1>2 DEF SendCursorFindIntersect, SendMessage, AfterSend, after_send, TrackerInv
  <1>3. CASE SendCursorAdvance
    <2>1. /\ spc' = "recv" /\ state' = "Idle" /\ traced' \in {"Idle", "MustReply"}
          /\ rule' = rule /\ script' = script /\ script[rule].send = "CursorAdvance"
          /\ rule > 0
      BY <1>3 DEF SendCursorAdvance, SendMessage, AfterSend, after_send, TypeOK, ServerTypeOK
    <2> QED
      BY <2>1 DEF TrackerInv, ExhaustedAdvance
  <1>4. CASE SendScripted \/ SendAwaitReply
    BY <1>4 DEF SendScripted, SendAwaitReply, SendMessage, AfterSend, after_send, TrackerInv
  <1>5. CASE SendRawBytes \/ SendWait \/ SendDisconnect
    BY <1>5 DEF SendRawBytes, SendWait, SendDisconnect, AfterSend, after_send, TrackerInv
  <1>6. CASE ServerSendError \/ ServerRecvError \/ ServerWake
    BY <1>6 DEF ServerSendError, ServerRecvError, ServerWake, TrackerInv, ExhaustedAdvance
  <1>7. CASE UNCHANGED serverVars
    BY <1>7 DEF serverVars, TrackerInv, ExhaustedAdvance
  <1> QED
    BY <1>1, <1>2, <1>3, <1>4, <1>5, <1>6, <1>7
    DEF Next, ServerNext, ExecuteSend, Close, vars

(***************************************************************************)
(* The server's annotations describe the session, for every script: when   *)
(* it waits for a request the state it tracks is the one it last traced,   *)
(* but for an exhausted cursor_advance.                                    *)
(***************************************************************************)
THEOREM TrackerCorrect == Spec => []TrackerMatchesTrace
  <1>1. Init => TrackerInv
    BY DEF Init, ServerInit, TrackerInv
  <1>2. TypeOK /\ TrackerInv /\ [Next]_vars => TrackerInv'
    BY TrackerStep
  <1>3. TrackerInv => TrackerMatchesTrace
    BY DEF TrackerInv, TrackerMatchesTrace
  <1> QED
    BY TypeCorrect, <1>1, <1>2, <1>3, PTL DEF Spec

-----------------------------------------------------------------------------
(* The generated script keeps pace with the headers.                       *)

\* The order of the rules of a generated script.
LEMMA HonestOrder ==
    ASSUME Honest, script \in Scripts
    PROVE  /\ \A i \in 2..(Len(Chain) + 2) : script[i].on = "RequestNext"
           /\ \A i \in 2..(Len(Chain) + 1) : script[i].send = "CursorAdvance"
           /\ script[Len(Chain) + 2].send = "AwaitReply"
           /\ script[Len(Chain) + 3].send = "Disconnect"
  <1>1. PICK hold \in AwaitAtTip : script = generate_from_fixture(Len(Chain), hold)
    BY Zenon DEF Honest
  <1> DEFINE n == Len(Chain)
             GeneratedRule(i) ==
                IF i = 1 THEN Rule("FindIntersect", "CursorFindIntersect", Nil, 0)
                ELSE IF i <= n + 1 THEN Rule("RequestNext", "CursorAdvance", Nil, 0)
                ELSE IF i = n + 2 THEN Rule("RequestNext", "AwaitReply", Nil, hold)
                ELSE Rule("Any", "Disconnect", Nil, 0)
  <1>2. n \in Nat
    BY ChainAssumption
  <1>3. ASSUME NEW i \in 1..(n + 3)
        PROVE  script[i] = GeneratedRule(i)
    BY <1>1, Zenon DEF generate_from_fixture
  <1> HIDE DEF n
  <1>4. ASSUME NEW i \in 2..(n + 1)
        PROVE  script[i].on = "RequestNext" /\ script[i].send = "CursorAdvance"
    <2>1. i \in 1..(n + 3) /\ i # 1 /\ i <= n + 1
      BY <1>2
    <2>2. script[i] = Rule("RequestNext", "CursorAdvance", Nil, 0)
      BY <1>3, <2>1, Zenon
    <2> QED
      BY <2>2 DEF Rule
  <1>5. script[n + 2].on = "RequestNext" /\ script[n + 2].send = "AwaitReply"
    <2>1. n + 2 \in 1..(n + 3) /\ n + 2 # 1 /\ ~(n + 2 <= n + 1)
      BY <1>2
    <2>2. script[n + 2] = Rule("RequestNext", "AwaitReply", Nil, hold)
      BY <1>3, <2>1, Zenon
    <2> QED
      BY <2>2 DEF Rule
  <1>6. script[n + 3].send = "Disconnect"
    <2>1. n + 3 \in 1..(n + 3) /\ n + 3 # 1 /\ ~(n + 3 <= n + 1) /\ n + 3 # n + 2
      BY <1>2
    <2>2. script[n + 3] = Rule("Any", "Disconnect", Nil, 0)
      BY <1>3, <2>1, Zenon
    <2> QED
      BY <2>2 DEF Rule
  <1>7. \A i \in 2..(n + 2) : i \in 2..(n + 1) \/ i = n + 2
    BY <1>2
  <1> QED
    BY <1>4, <1>5, <1>6, <1>7, Zenon DEF n

\* What an honest session's invariants say of numbers and messages.
LEMMA HonestFacts ==
    ASSUME TypeOK
    PROVE  /\ Len(Chain) \in Nat /\ pos \in -1..Len(Chain)
           /\ rule_idx \in Nat \ {0} /\ rule \in Nat
           /\ script \in Scripts /\ script \in Seq(Rules) /\ Len(script) \in Nat
           /\ spc = "send" => rule \in 1..Len(script)
           /\ Len(collected_points) \in Nat
           /\ headers_received \in Nat
  BY ChainAssumption, ScriptsAssumption, ClientAssumption
  DEF TypeOK, ServerTypeOK, ClientTypeOK, Positions

\* A request takes the rule that is next: one always answers it.
LEMMA ScriptReceive ==
    ASSUME TypeOK, OneMessageInFlight, Honest, HonestParts, ScriptParts,
           ServerReceive, UNCHANGED clientVars
    PROVE  ScriptParts'
  <1> DEFINE kind == Head(c2s).kind
  <1>1. /\ c2s # <<>> /\ s2c = <<>> /\ c2s' = <<>> /\ s2c' = <<>>
        /\ kind \in {"FindIntersect", "RequestNext", "Done"}
        /\ spc = "recv" /\ closed' = closed
    BY ChannelFacts DEF ServerReceive, Requests
  <1>2. cpc' = cpc /\ found' = found /\ collected_points' = collected_points
    BY DEF clientVars
  <1>3. /\ rule_idx \in Nat \ {0} /\ script \in Scripts /\ script \in Seq(Rules)
        /\ Len(script) \in Nat /\ Len(Chain) \in Nat /\ Len(collected_points) \in Nat
    BY HonestFacts
  <1>4. kind # "Done" => /\ rule_idx \in Candidates(script, rule_idx, kind)
                         /\ rule_idx \in 1..(Len(Chain) + 2)
    <2>1. CASE kind = "FindIntersect"
      <3>1. rule_idx = 1
        BY <1>1, <2>1 DEF HonestParts, IntersectFirst
      <3> QED
        BY <1>3, <2>1, <3>1, HonestRules DEF Candidates, MatchesOn
    <2>2. CASE kind = "RequestNext"
      <3>1. rule_idx \in 2..(Len(Chain) + 2)
        BY <1>1, <1>3, <2>2 DEF HonestParts, IntersectFirst, ScriptParts, ScriptKeepsPace
      <3>2. script[rule_idx].on = "RequestNext" /\ Len(script) = Len(Chain) + 3
        BY <1>3, <3>1, HonestOrder, HonestRules
      <3> QED
        BY <1>3, <2>2, <3>1, <3>2 DEF Candidates, MatchesOn
    <2> QED
      BY <1>1, <2>1, <2>2
  <1>5. CASE kind = "Done"
    <2>1. spc' = "done" /\ rule_idx' = rule_idx
      BY <1>5 DEF ServerReceive
    <2>2. cpc = "completed"
      BY <1>1, <1>5 DEF ScriptParts, EndsInOrder
    <2> QED
      BY <1>1, <1>2, <2>1, <2>2
      DEF ScriptParts, ScriptKeepsPace, OfferIsKnown, EndsInOrder, InLoop
  <1>6. CASE kind # "Done"
    <2>1. /\ rule' = RulePos(script, rule_idx, kind)
          /\ rule_idx' = RuleIdxAfter(script, rule_idx, rule')
          /\ spc' = "send"
      BY <1>4, <1>6 DEF ServerReceive
    <2>2. rule' = rule_idx
      <3>1. /\ rule' \in Candidates(script, rule_idx, kind)
            /\ rule' <= rule_idx
        BY <1>3, <1>4, <1>6, <2>1, RulePosIsFirst
      <3>2. rule' \in rule_idx..Len(script)
        BY <3>1 DEF Candidates
      <3> QED
        BY <1>3, <3>1, <3>2
    <2>3. rule_idx' = rule' + 1
      <3>1. rule_idx \in 1..Len(script)
        BY <1>4, <1>6 DEF Candidates
      <3> QED
        BY <1>3, <2>1, <2>2, <3>1, HonestRules DEF RuleIdxAfter
    <2>4. RuleTurn = rule_idx /\ RuleTurn' = rule_idx /\ Unanswered
      BY <1>1, <2>1, <2>2 DEF RuleTurn, Unanswered
    <2>5. cpc = "intersect" => rule_idx = 1
      BY <1>1 DEF HonestParts, IntersectFirst
    <2>6. ScriptKeepsPace'
      <3>1. rule' <= Len(Chain) + 2
        BY <1>3, <1>4, <1>6, <2>2
      <3>2. cpc' = "intersect" => rule_idx' <= 2
        BY <1>2, <2>2, <2>3, <2>5
      <3>3. InLoop' => RuleTurn' = Len(collected_points') + 2
        BY <1>2, <2>4 DEF ScriptParts, ScriptKeepsPace, InLoop
      <3> QED
        BY <1>1, <2>3, <3>1, <3>2, <3>3 DEF ScriptKeepsPace
    <2> QED
      BY <1>1, <2>1, <2>6 DEF ScriptParts, OfferIsKnown, EndsInOrder
  <1> QED
    BY <1>5, <1>6

\* The answer to MsgFindIntersect names a point of the chain.
LEMMA ScriptFindIntersect ==
    ASSUME TypeOK, OneMessageInFlight, Honest, HonestParts, ScriptParts,
           SendCursorFindIntersect, UNCHANGED clientVars
    PROVE  ScriptParts'
  <1>1. /\ spc = "send" /\ spc' = "recv" /\ c2s = <<>> /\ s2c = <<>> /\ c2s' = <<>>
        /\ rule_idx' = rule_idx /\ rule' = rule /\ closed' = closed
    BY DEF SendCursorFindIntersect, AfterSend, OneMessageInFlight
  <1>2. cpc' = cpc /\ found' = found /\ collected_points' = collected_points
    BY DEF clientVars
  <1>3. rule = 1
    BY <1>1, HonestFacts, HonestRules DEF SendCursorFindIntersect
  <1>4. cpc \in {"intersect", "error"}
    BY <1>1, <1>3 DEF HonestParts, IntersectFirst
  <1>5. s2c' # <<>> /\ Head(s2c').kind = "IntersectFound" => Known(Head(s2c').val)
    <2> DEFINE points == IF request.kind = "FindIntersect" THEN request.points ELSE <<>>
    <2>1. CASE /\ HasIntersect(points) /\ pos' = find_intersect(points)
               /\ SendMessage(Reply("IntersectFound", current_point(pos')), "Idle")
      <3>1. s2c' # <<>> => Head(s2c') = Reply("IntersectFound", current_point(pos'))
        BY <1>1, <2>1 DEF SendMessage, Deliver
      <3>2. points \in Seq(Points)
        BY DEF TypeOK, ServerTypeOK, Requests
      <3>3. pos' \in 0..Len(Chain)
        BY <2>1, <3>2, IntersectPosition
      <3>4. Known(current_point(pos'))
        BY <3>3, ChainAssumption DEF Known, current_point
      <3> QED
        BY <3>1, <3>4 DEF Reply
    <2>2. CASE SendMessage(Reply("IntersectNotFound", Nil), "Idle")
      <3>1. s2c' # <<>> => Head(s2c') = Reply("IntersectNotFound", Nil)
        BY <1>1, <2>2 DEF SendMessage, Deliver
      <3> QED
        BY <3>1 DEF Reply
    <2> QED
      BY <2>1, <2>2 DEF SendCursorFindIntersect
  <1> QED
    BY <1>1, <1>2, <1>4, <1>5
    DEF ScriptParts, ScriptKeepsPace, OfferIsKnown, EndsInOrder, InLoop

\* An answer is a header, or an AwaitReply at the tip.
LEMMA ScriptAnswer ==
    ASSUME TypeOK, OneMessageInFlight, Honest, HonestParts, ScriptParts,
           SendCursorAdvance \/ SendAwaitReply, UNCHANGED clientVars
    PROVE  ScriptParts'
  <1>1. /\ spc = "send" /\ spc' \in {"recv", "hold"}
        /\ c2s = <<>> /\ s2c = <<>> /\ c2s' = <<>>
        /\ rule_idx' = rule_idx /\ rule' = rule /\ closed' = closed
    BY DEF SendCursorAdvance, SendAwaitReply, AfterSend, OneMessageInFlight
  <1>2. cpc' = cpc /\ found' = found /\ collected_points' = collected_points
    BY DEF clientVars
  <1>3. /\ Len(Chain) \in Nat /\ pos \in -1..Len(Chain) /\ rule \in Nat
        /\ Len(collected_points) \in Nat /\ script \in Scripts
    BY HonestFacts
  <1>4. cpc \notin {"start", "idle", "mustReply", "intersect"}
    <2>1. rule # 1
      BY <1>1, <1>3, HonestRules DEF SendCursorAdvance, SendAwaitReply
    <2> QED
      BY <1>1, <2>1 DEF OneMessageInFlight, HonestParts, IntersectFirst
  <1>5. InLoop => rule = Len(collected_points) + 2 /\ rule_idx = Len(collected_points) + 3
    <2>1. Unanswered /\ RuleTurn = rule /\ rule_idx = rule + 1
      BY <1>1 DEF Unanswered, RuleTurn, ScriptParts, ScriptKeepsPace
    <2> QED
      BY <1>3, <2>1 DEF ScriptParts, ScriptKeepsPace
  <1>6. InLoop /\ found # Nil => Upto = pos /\ Base \in Nat /\ Upto = Base + Len(collected_points)
    BY <1>1, <1>3 DEF HonestParts, CursorKeepsPace, Unanswered, Upto
  <1>7. InLoop /\ found # Nil /\ s2c' # <<>> /\ Head(s2c').kind = "AwaitReply" =>
            Upto = Len(Chain)
    <2>1. SUFFICES ASSUME InLoop, found # Nil, s2c' # <<>>, Head(s2c').kind = "AwaitReply"
                   PROVE  Upto = Len(Chain)
      OBVIOUS
    <2>2. CASE SendCursorAdvance
      <3>1. ~advance_some(pos)
        <4>1. ASSUME SendMessage(Reply("RollForward", Chain[pos']), "Idle")
              PROVE  FALSE
          <5>1. Head(s2c') = Reply("RollForward", Chain[pos'])
            BY <1>1, <2>1, <4>1 DEF SendMessage, Deliver
          <5> QED
            BY <2>1, <5>1 DEF Reply
        <4> QED
          BY <2>2, <4>1 DEF SendCursorAdvance
      <3> QED
        BY <1>3, <1>6, <2>1, <3>1 DEF advance_some
    <2>3. CASE SendAwaitReply
      <3>1. script[rule].send = "AwaitReply" /\ rule \in 2..(Len(Chain) + 2)
        BY <1>1, <1>3, <1>5, <2>1, <2>3
        DEF SendAwaitReply, ScriptParts, ScriptKeepsPace
      <3>2. rule = Len(Chain) + 2
        <4>1. rule \notin 2..(Len(Chain) + 1)
          BY <1>3, <3>1, HonestOrder
        <4> QED
          BY <1>3, <3>1, <4>1
      <3> QED
        BY <1>3, <1>5, <1>6, <2>1, <3>2
    <2> QED
      BY <2>2, <2>3
  <1>8. InLoop' <=> InLoop
    BY <1>2 DEF InLoop
  <1>9. Upto' = Upto
    BY <1>2 DEF Upto, Base
  <1>10. ~(InLoop' /\ Unanswered')
    BY <1>1, <1>2, <1>4 DEF Unanswered
  <1>11. ScriptKeepsPace'
    BY <1>1, <1>2, <1>4, <1>5, <1>7, <1>8, <1>9, <1>10 DEF ScriptKeepsPace
  <1> QED
    BY <1>1, <1>2, <1>4, <1>11 DEF ScriptParts, OfferIsKnown, EndsInOrder

\* Every step of the server.
LEMMA ScriptServerStep ==
    ASSUME TypeOK, OneMessageInFlight, Honest, HonestParts, ScriptParts,
           ServerNext, UNCHANGED clientVars
    PROVE  ScriptParts'
  <1>0. /\ script \in Scripts /\ Len(script) \in Nat /\ Len(Chain) \in Nat
        /\ spc = "send" => rule \in 1..Len(script) /\ rule <= Len(Chain) + 2
    BY HonestFacts DEF ScriptParts, ScriptKeepsPace
  <1>1. CASE ServerReceive
    BY <1>1, ScriptReceive
  <1>2. CASE SendCursorFindIntersect
    BY <1>2, ScriptFindIntersect
  <1>3. CASE SendCursorAdvance \/ SendAwaitReply
    BY <1>3, ScriptAnswer
  <1>4. CASE SendScripted \/ SendRawBytes \/ SendWait \/ SendDisconnect
    <2>1. spc = "send"
      BY <1>4 DEF SendScripted, SendRawBytes, SendWait, SendDisconnect
    <2>2. script[rule].send \in {"CursorFindIntersect", "CursorAdvance", "AwaitReply"}
      <3>1. rule = 1 \/ rule \in 2..(Len(Chain) + 1) \/ rule = Len(Chain) + 2
        BY <1>0, <2>1
      <3> QED
        BY <1>0, <3>1, HonestRules, HonestOrder
    <2> QED
      BY <1>4, <2>2 DEF SendScripted, SendRawBytes, SendWait, SendDisconnect
  <1>5. CASE ServerSendError \/ ServerRecvError \/ ServerWake
    <2>1. /\ \/ spc' \in {"done", "failed"} /\ closed
             \/ spc' = "recv" /\ spc = "hold"
          /\ c2s' = c2s /\ s2c' = s2c /\ closed' = closed
          /\ rule_idx' = rule_idx /\ rule' = rule
      BY <1>5 DEF ServerSendError, ServerRecvError, ServerWake, wireVars
    <2>2. cpc' = cpc /\ found' = found /\ collected_points' = collected_points
      BY DEF clientVars
    <2>3. /\ InLoop' <=> InLoop
          /\ Upto' = Upto
          /\ Unanswered' => Unanswered
      BY <2>1, <2>2 DEF InLoop, Upto, Base, Unanswered
    <2>4. ScriptKeepsPace'
      <3>1. CASE spc # "send"
        <4>1. RuleTurn' = RuleTurn
          BY <2>1, <3>1 DEF RuleTurn
        <4> QED
          BY <2>1, <2>2, <2>3, <3>1, <4>1 DEF ScriptParts, ScriptKeepsPace
      <3>2. CASE spc = "send"
        <4>1. c2s = <<>> /\ s2c = <<>> /\ cpc # "idle"
          BY <3>2 DEF OneMessageInFlight
        <4>2. ~Unanswered'
          BY <2>1, <2>2, <4>1 DEF Unanswered
        <4> QED
          BY <2>1, <2>2, <2>3, <4>1, <4>2 DEF ScriptParts, ScriptKeepsPace
      <3> QED
        BY <3>1, <3>2
    <2> QED
      BY <2>1, <2>2, <2>4 DEF ScriptParts, OfferIsKnown, EndsInOrder
  <1> QED
    BY <1>1, <1>2, <1>3, <1>4, <1>5 DEF ServerNext, ExecuteSend

\* The client's sends: it asks only for headers that have a rule.
LEMMA ScriptClientSend ==
    ASSUME TypeOK, OneMessageInFlight, Honest, HonestParts, ScriptParts, UNCHANGED serverVars,
           ClientFindIntersect \/ ClientRequestNext \/ ClientDone
    PROVE  ScriptParts'
  <1>1. /\ c2s = <<>> /\ s2c = <<>> /\ s2c' = <<>> /\ spc # "send" /\ closed' = closed
        /\ found' = found /\ collected_points' = collected_points
    BY DEF ClientFindIntersect, ClientRequestNext, ClientDone, OneMessageInFlight
  <1>2. /\ spc' = spc /\ rule_idx' = rule_idx /\ rule' = rule /\ pos' = pos
    BY DEF serverVars
  <1>3. /\ Len(Chain) \in Nat /\ pos \in -1..Len(Chain) /\ rule_idx \in Nat
        /\ Len(collected_points) \in Nat
    BY HonestFacts
  <1>4. \/ /\ cpc = "start" /\ cpc' = "intersect"
           /\ c2s' # <<>> => Head(c2s').kind = "FindIntersect"
        \/ /\ cpc = "idle" /\ cpc' = "canAwait"
           /\ c2s' # <<>> => Head(c2s').kind = "RequestNext"
        \/ /\ cpc = "idle" /\ cpc' = "completed"
           /\ c2s' # <<>> => Head(c2s').kind = "Done"
    <2>1. CASE ClientFindIntersect
      <3>1. PICK points \in PointLists : c2s' = Deliver(c2s, FindIntersect(points))
        BY <2>1 DEF ClientFindIntersect
      <3>2. c2s' # <<>> => Head(c2s') = FindIntersect(points)
        BY <1>1, <3>1 DEF Deliver
      <3> QED
        BY <2>1, <3>2 DEF ClientFindIntersect, FindIntersect
    <2>2. CASE ClientRequestNext
      <3>1. c2s' # <<>> => Head(c2s') = RequestNext
        BY <1>1, <2>2 DEF ClientRequestNext, Deliver
      <3> QED
        BY <2>2, <3>1 DEF ClientRequestNext, RequestNext
    <2>3. CASE ClientDone
      <3>1. c2s' # <<>> => Head(c2s') = Done
        BY <1>1, <2>3 DEF ClientDone, Deliver
      <3> QED
        BY <2>3, <3>1 DEF ClientDone, Done
    <2> QED
      BY <2>1, <2>2, <2>3
  <1>5. CASE cpc = "start"
    <2>1. rule_idx = 1
      BY <1>5 DEF HonestParts, IntersectFirst
    <2> QED
      BY <1>1, <1>2, <1>4, <1>5, <2>1
      DEF ScriptParts, ScriptKeepsPace, OfferIsKnown, EndsInOrder, InLoop
  <1>6. CASE cpc = "idle"
    <2>1. rule_idx = Len(collected_points) + 2
      BY <1>1, <1>6 DEF ScriptParts, ScriptKeepsPace, InLoop, Unanswered, RuleTurn
    <2>2. rule_idx <= Len(Chain) + 2
      <3>1. CASE found = Nil
        BY <1>3, <2>1, <3>1 DEF HonestParts, NotFoundGetsNothing
      <3>2. CASE found # Nil
        <4>1. Base \in Nat /\ Upto = pos /\ Upto = Base + Len(collected_points)
          BY <1>3, <1>6, <3>2 DEF HonestParts, CursorKeepsPace, InLoop, Unanswered, Upto
        <4> QED
          BY <1>3, <2>1, <4>1
      <3> QED
        BY <3>1, <3>2
    <2>3. RuleTurn' = rule_idx
      BY <1>1, <1>2 DEF RuleTurn
    <2>4. ScriptKeepsPace'
      BY <1>1, <1>2, <1>4, <1>6, <2>1, <2>2, <2>3 DEF ScriptKeepsPace
    <2>5. EndsInOrder'
      BY <1>1, <1>2, <1>4, <1>6 DEF ScriptParts, EndsInOrder
    <2> QED
      BY <1>1, <2>4, <2>5 DEF ScriptParts, OfferIsKnown
  <1> QED
    BY <1>4, <1>5, <1>6

\* What the client takes from the channel, and how it stops.
LEMMA ScriptClientRest ==
    ASSUME TypeOK, OneMessageInFlight, Honest, HonestParts, ScriptParts, UNCHANGED serverVars,
           ClientNext, ~(ClientFindIntersect \/ ClientRequestNext \/ ClientDone)
    PROVE  ScriptParts'
  <1>1. /\ spc' = spc /\ rule_idx' = rule_idx /\ rule' = rule /\ pos' = pos
    BY DEF serverVars
  <1>2. /\ Len(Chain) \in Nat /\ pos \in -1..Len(Chain) /\ rule_idx \in Nat
        /\ Len(collected_points) \in Nat
    BY HonestFacts
  <1>3. CASE ClientIntersect
    <2>1. /\ cpc = "intersect" /\ cpc' = "idle" /\ s2c # <<>> /\ s2c' = <<>> /\ c2s' = <<>>
          /\ collected_points' = collected_points /\ closed' = closed /\ spc # "send"
      BY <1>3, ChannelFacts DEF ClientIntersect, OneMessageInFlight
    <2>2. rule_idx = 2 /\ Len(collected_points) = 0
      <3>1. rule_idx >= 2 /\ rule_idx <= 2 /\ collected_points = <<>>
        BY <2>1
        DEF HonestParts, IntersectFirst, NotFoundGetsNothing, ScriptParts, ScriptKeepsPace
      <3> QED
        BY <1>2, <3>1
    <2> QED
      BY <1>1, <2>1, <2>2
      DEF ScriptParts, ScriptKeepsPace, OfferIsKnown, EndsInOrder, RuleTurn
  <1>4. CASE ClientRollForward
    <2>1. /\ InLoop /\ cpc' = "idle" /\ s2c # <<>> /\ s2c' = <<>> /\ c2s' = <<>>
          /\ closed' = closed /\ spc # "send" /\ Head(s2c).kind = "RollForward"
          /\ collected_points' = IF Head(s2c).val = Opaque THEN collected_points
                                 ELSE Append(collected_points, Head(s2c).val)
          /\ cpc \notin {"completed", "idle", "intersect"}
      BY <1>4, ChannelFacts DEF ClientRollForward, OneMessageInFlight, InLoop
    <2>2. Len(collected_points') = Len(collected_points) + 1
      <3>1. Head(s2c).val = Chain[pos] /\ pos \in 1..Len(Chain)
        <4>1. found # Nil
          BY <2>1 DEF HonestParts, NotFoundGetsNothing
        <4>2. Head(s2c).val = Chain[pos] /\ Upto + 1 = pos /\ Base \in Nat
          BY <2>1, <4>1, <1>2 DEF HonestParts, CursorKeepsPace
        <4> QED
          BY <1>2, <4>2 DEF Upto
      <3>2. Head(s2c).val # Opaque /\ Head(s2c).val \in Points \ {Origin}
        BY <3>1, ChainAssumption, WireAssumption
      <3>3. collected_points \in Seq(Points \ {Origin})
        BY DEF TypeOK, ClientTypeOK
      <3> QED
        BY <2>1, <3>2, <3>3
    <2>3. rule_idx = Len(collected_points') + 2
      BY <1>2, <2>1, <2>2 DEF ScriptParts, ScriptKeepsPace
    <2> QED
      BY <1>1, <2>1, <2>3
      DEF ScriptParts, ScriptKeepsPace, OfferIsKnown, EndsInOrder, RuleTurn
  <1>5. CASE ClientRollBackward
    BY <1>5 DEF ClientRollBackward, HonestParts, NotFoundGetsNothing, CursorKeepsPace, InLoop
  <1>6. CASE ClientPartialBytes
    BY <1>6 DEF ClientPartialBytes, Waiting, HonestParts, IntersectAgrees,
        NotFoundGetsNothing, CursorKeepsPace, InLoop
  <1>7. CASE ClientAwaitReply \/ ClientUnexpected
    <2>1. /\ cpc' \in {"mustReply", "error"} /\ cpc \notin {"completed"}
          /\ s2c' = <<>> /\ c2s' = <<>> /\ spc # "send" /\ closed' = closed
      BY <1>7, ChannelFacts DEF ClientAwaitReply, ClientUnexpected, Waiting, OneMessageInFlight
    <2>2. ~Unanswered'
      BY <1>1, <2>1 DEF Unanswered
    <2> QED
      BY <1>1, <2>1, <2>2 DEF ScriptParts, ScriptKeepsPace, OfferIsKnown, EndsInOrder
  <1>8. CASE ClientTimeout \/ ClientConnError
    <2>1. /\ cpc' \in {"error", "await_timeout"} /\ cpc # "completed"
          /\ c2s' = c2s /\ s2c' = s2c /\ closed' = closed
      BY <1>8 DEF ClientTimeout, ClientConnError, wireVars, Waiting
    <2>2. ~InLoop'
      BY <2>1 DEF InLoop
    <2> QED
      BY <1>1, <2>1, <2>2 DEF ScriptParts, ScriptKeepsPace, OfferIsKnown, EndsInOrder
  <1> QED
    BY <1>3, <1>4, <1>5, <1>6, <1>7, <1>8 DEF ClientNext

\* No step changes the script, so a session stays honest or stays dishonest.
LEMMA ScriptFixed ==
    ASSUME [Next]_vars
    PROVE  script' = script /\ (Honest' <=> Honest)
  <1>1. script' = script
    BY DEF Next, ServerNext, ServerReceive, ServerRecvError, ExecuteSend, ServerWake,
        SendCursorFindIntersect, SendCursorAdvance, SendScripted, SendAwaitReply,
        SendRawBytes, SendWait, SendDisconnect, ServerSendError, AfterSend, Close,
        vars, serverVars
  <1> QED
    BY <1>1 DEF Honest

\* Every step of a session with an honest server.
LEMMA ScriptStep ==
    ASSUME TypeOK, OneMessageInFlight, Honest => HonestParts, Honest => ScriptParts,
           [Next]_vars
    PROVE  Honest' => ScriptParts'
  <1>1. SUFFICES ASSUME Honest
                 PROVE  ScriptParts'
    BY ScriptFixed
  <1>2. HonestParts /\ ScriptParts
    BY <1>1
  <1>3. CASE ServerNext /\ UNCHANGED clientVars
    BY <1>1, <1>2, <1>3, ScriptServerStep
  <1>4. CASE ClientNext /\ UNCHANGED serverVars
    BY <1>1, <1>2, <1>4, ScriptClientSend, ScriptClientRest
  <1>5. CASE Close \/ UNCHANGED vars
    <2>1. /\ c2s' \in {c2s, <<>>} /\ s2c' \in {s2c, <<>>} /\ (closed => closed')
          /\ spc' = spc /\ rule_idx' = rule_idx /\ rule' = rule
          /\ cpc' = cpc /\ found' = found /\ collected_points' = collected_points
      BY <1>5 DEF Close, vars, wireVars, serverVars, clientVars
    <2>2. /\ InLoop' <=> InLoop
          /\ Upto' = Upto
          /\ Unanswered' => Unanswered
          /\ RuleTurn' = RuleTurn
      BY <2>1 DEF InLoop, Upto, Base, Unanswered, RuleTurn
    <2>3. ScriptKeepsPace'
      BY <1>2, <2>1, <2>2 DEF ScriptParts, ScriptKeepsPace
    <2> QED
      BY <1>2, <2>1, <2>3 DEF ScriptParts, OfferIsKnown, EndsInOrder
  <1> QED
    BY <1>3, <1>4, <1>5 DEF Next

\* The script's part of the inductive invariant holds throughout.
LEMMA ScriptInvariant == Spec => [](Honest => ScriptParts)
  <1>1. Init => (Honest => ScriptParts)
    BY DEF Init, WireInit, ServerInit, ClientInit, ScriptParts, ScriptKeepsPace,
        OfferIsKnown, EndsInOrder, InLoop
  <1>2. TypeOK /\ OneMessageInFlight /\ (Honest => HonestParts) /\ (Honest => ScriptParts)
            /\ [Next]_vars => (Honest => ScriptParts)'
    BY ScriptStep
  <1> QED
    BY TypeCorrect, TurnTaking, HonestInvariant, <1>1, <1>2, PTL DEF Spec

(***************************************************************************)
(* The script generate_from_fixture builds is long enough for every chain, *)
(* every intersection and every count: an honest server is never out of    *)
(* rules and never disconnects a client that is still waiting.             *)
(***************************************************************************)
THEOREM ScriptSuffices == Spec => []HonestScriptSuffices
  <1>1. (Honest => ScriptParts) => HonestScriptSuffices
    BY DEF ScriptParts, EndsInOrder, HonestScriptSuffices
  <1> QED
    BY ScriptInvariant, <1>1, PTL

-----------------------------------------------------------------------------
(* The refinement.                                                         *)

\* The steps of an honest session's client, seen from outside.
LEMMA HonestClientRefines ==
    ASSUME TypeOK, AsksWhileShort, OneMessageInFlight, Honest, HonestParts, ScriptParts,
           Honest', ClientNext, UNCHANGED serverVars
    PROVE  Delivery!Next \/ UNCHANGED Delivery!vars
  <1> USE DEF Delivery!Next, Delivery!vars
  <1>0. /\ Len(Chain) \in Nat /\ pos \in -1..Len(Chain) /\ Len(collected_points) \in Nat
        /\ headers_received \in 0..Count /\ Count \in Nat
    BY HonestFacts, ClientAssumption DEF TypeOK, ClientTypeOK
  <1>1. CASE ClientIntersect
    <2>1. /\ StepStatus = "open" /\ StepStatus' = "open" /\ s2c # <<>> /\ cpc = "intersect"
          /\ collected_points' = collected_points
      BY <1>1 DEF ClientIntersect, StepStatus, ClientFinished, ExitReasons
    <2>2. found = Nil /\ collected_points = <<>>
      BY <2>1 DEF HonestParts, NotFoundGetsNothing
    <2>3. CASE Head(s2c).kind = "IntersectFound" /\ found' = Head(s2c).val
      <3>1. Known(found') /\ found' \in Points
        BY <2>1, <2>3, ChannelFacts
        DEF ScriptParts, OfferIsKnown, Replies, Carries
      <3>2. Delivery!Known(found')
        BY <3>1 DEF Known, Delivery!Known
      <3>3. Delivery!Agree
        BY <2>1, <2>2, <3>1, <3>2 DEF Delivery!Agree
      <3> QED
        BY <3>3
    <2>4. CASE UNCHANGED found
      BY <2>1, <2>4
    <2> QED
      BY <1>1, <2>3, <2>4 DEF ClientIntersect
  <1>2. CASE ClientRollForward
    <2>1. /\ cpc = "canAwait" /\ s2c # <<>> /\ cpc' = "idle" /\ found' = found
          /\ Head(s2c).kind = "RollForward"
          /\ collected_points' = IF Head(s2c).val = Opaque THEN collected_points
                                 ELSE Append(collected_points, Head(s2c).val)
      BY <1>2 DEF ClientRollForward, OneMessageInFlight
    <2>2. found # Nil
      BY <2>1 DEF HonestParts, NotFoundGetsNothing, InLoop
    <2>3. /\ Base \in 0..Len(Chain) /\ Upto + 1 = pos /\ Head(s2c).val = Chain[pos]
          /\ headers_received = Len(collected_points)
      BY <2>1, <2>2 DEF HonestParts, CursorKeepsPace, InLoop
    <2>4. pos \in 1..Len(Chain) /\ pos = Base + Len(collected_points) + 1
      BY <1>0, <2>3 DEF Upto
    <2>5. Chain[pos] # Opaque
      BY <2>4, ChainAssumption, WireAssumption
    <2>6. headers_received < Count
      BY <2>1 DEF AsksWhileShort
    <2>7. Delivery!NextPos = pos
      BY <2>2, <2>4 DEF Delivery!NextPos, Delivery!point_to_pos, Base, point_to_pos
    <2>8. StepStatus = "open" /\ StepStatus' = "open"
      BY <2>1 DEF StepStatus, ClientFinished, ExitReasons
    <2>9. Delivery!DeliverNext
      BY <1>0, <2>1, <2>2, <2>3, <2>4, <2>5, <2>6, <2>7, <2>8 DEF Delivery!DeliverNext
    <2> QED
      BY <2>9
  <1>3. CASE ClientAwaitReply
    <2>1. /\ cpc = "canAwait" /\ s2c # <<>> /\ Head(s2c).kind = "AwaitReply"
          /\ cpc' = "mustReply" /\ found' = found /\ collected_points' = collected_points
      BY <1>3 DEF ClientAwaitReply
    <2>2. headers_received < Count /\ Len(collected_points) = headers_received
      <3>1. headers_received < Count
        BY <2>1 DEF AsksWhileShort
      <3>2. CASE found = Nil
        BY <3>1, <3>2 DEF HonestParts, NotFoundGetsNothing
      <3>3. CASE found # Nil
        BY <3>1, <3>3 DEF HonestParts, CursorKeepsPace
      <3> QED
        BY <3>2, <3>3
    <2>3. found # Nil => Delivery!NextPos = Len(Chain) + 1
      <3>1. SUFFICES ASSUME found # Nil
                     PROVE  Delivery!NextPos = Len(Chain) + 1
        OBVIOUS
      <3>2. Upto = Len(Chain)
        BY <2>1, <3>1 DEF ScriptParts, ScriptKeepsPace, InLoop
      <3>3. Delivery!NextPos = Upto + 1
        BY <3>1 DEF Delivery!NextPos, Delivery!point_to_pos, Upto, Base, point_to_pos
      <3> QED
        BY <3>2, <3>3
    <2>4. StepStatus = "open" /\ StepStatus' = "waiting"
      BY <2>1 DEF StepStatus, ClientFinished, ExitReasons
    <2>5. Delivery!Wait
      BY <2>1, <2>2, <2>3, <2>4 DEF Delivery!Wait
    <2> QED
      BY <2>5
  <1>4. CASE ClientDone
    <2>1. /\ cpc = "idle" /\ cpc' = "completed" /\ headers_received >= Count
          /\ found' = found /\ collected_points' = collected_points
      BY <1>4 DEF ClientDone
    <2>2. Len(collected_points) = Count
      <3>1. headers_received = Count
        BY <1>0, <2>1
      <3>2. CASE found = Nil
        BY <3>1, <3>2 DEF HonestParts, NotFoundGetsNothing
      <3>3. CASE found # Nil
        BY <3>1, <3>3 DEF HonestParts, CursorKeepsPace
      <3> QED
        BY <3>2, <3>3
    <2>3. StepStatus = "open" /\ StepStatus' = "completed"
      BY <2>1 DEF StepStatus, ClientFinished, ExitReasons
    <2>4. Delivery!Finish
      BY <2>1, <2>2, <2>3 DEF Delivery!Finish
    <2> QED
      BY <2>4
  <1>5. CASE ClientTimeout \/ ClientUnexpected \/ ClientConnError
    <2>1. /\ cpc \in {"start", "idle", "intersect", "canAwait", "mustReply"}
          /\ cpc' \in {"await_timeout", "error"}
          /\ found' = found /\ collected_points' = collected_points
      BY <1>5 DEF ClientTimeout, ClientUnexpected, ClientConnError, Waiting
    <2>2. /\ StepStatus \in {"open", "waiting"}
          /\ StepStatus' \in {"await_timeout", "error"}
      BY <2>1 DEF StepStatus, ClientFinished, ExitReasons
    <2>3. Delivery!GiveUp
      BY <2>1, <2>2 DEF Delivery!GiveUp
    <2> QED
      BY <2>3
  <1>6. CASE ClientFindIntersect \/ ClientRequestNext
    <2>1. /\ found' = found /\ collected_points' = collected_points
          /\ StepStatus = "open" /\ StepStatus' = "open"
      BY <1>6 DEF ClientFindIntersect, ClientRequestNext, StepStatus, ClientFinished, ExitReasons
    <2> QED
      BY <2>1
  <1>7. CASE ClientPartialBytes
    <2>1. found' = found /\ collected_points' = collected_points /\ StepStatus' = StepStatus
      BY <1>7 DEF ClientPartialBytes, clientVars, StepStatus, ClientFinished
    <2> QED
      BY <2>1
  <1>8. CASE ClientRollBackward
    BY <1>8 DEF ClientRollBackward, HonestParts, NotFoundGetsNothing, CursorKeepsPace, InLoop
  <1> QED
    BY <1>1, <1>2, <1>3, <1>4, <1>5, <1>6, <1>7, <1>8 DEF ClientNext

\* Every step of a session is a step of ChainDelivery, or none at all.
LEMMA DeliveryStep ==
    ASSUME TypeOK, AsksWhileShort, OneMessageInFlight,
           Honest => HonestParts, Honest => ScriptParts, [Next]_vars
    PROVE  [Delivery!Next]_Delivery!vars
  <1>1. CASE ~Honest
    BY <1>1, ScriptFixed DEF Delivery!vars
  <1>2. CASE Honest
    <2>1. Honest'
      BY <1>2, ScriptFixed
    <2>2. CASE UNCHANGED clientVars
      <3>1. found' = found /\ collected_points' = collected_points /\ StepStatus' = StepStatus
        BY <2>2 DEF clientVars, StepStatus, ClientFinished
      <3> QED
        BY <1>2, <2>1, <3>1 DEF Delivery!vars
    <2>3. CASE ClientNext /\ UNCHANGED serverVars
      BY <1>2, <2>1, <2>3, HonestClientRefines
    <2> QED
      BY <2>2, <2>3 DEF Next, Close, vars
  <1> QED
    BY <1>1, <1>2

(***************************************************************************)
(* A chain_sync step against an honest server implements ChainDelivery:    *)
(* through every interleaving, timeout and loss it agrees on one point of  *)
(* the chain, takes the headers after it one by one, waits only at the     *)
(* tip, and completes only with the number of headers it asked for.        *)
(***************************************************************************)
THEOREM DeliveryImplemented == Spec => ImplementsDelivery
  <1>1. Init => Delivery!Init
    BY DEF Init, ClientInit, Delivery!Init, StepStatus, ClientFinished, ExitReasons
  <1>2. TypeOK /\ AsksWhileShort /\ OneMessageInFlight /\ (Honest => HonestParts)
            /\ (Honest => ScriptParts) /\ [Next]_vars => [Delivery!Next]_Delivery!vars
    BY DeliveryStep
  <1>3. Spec => []AsksWhileShort
    <2>1. TypeOK /\ AsksWhileShort /\ [Next]_vars => AsksWhileShort'
      BY TypeStep
    <2> QED
      BY TypeCorrect, InitType, <2>1, PTL DEF Spec
  <1> QED
    BY TypeCorrect, TurnTaking, HonestInvariant, ScriptInvariant, <1>1, <1>2, <1>3, PTL
    DEF Spec, ImplementsDelivery, Delivery!Spec
=============================================================================
