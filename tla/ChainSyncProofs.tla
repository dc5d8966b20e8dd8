--------------------------- MODULE ChainSyncProofs ---------------------------
(***************************************************************************)
(* Safety of a Chain-Sync session for every chain, every set of scripts    *)
(* and every client: the type invariant, the turn-taking of the two sides  *)
(* (OneMessageInFlight), and the delivery of the chain by an honest server *)
(* (CollectedIsSegment), all from the inductive invariant SessionInv.      *)
(***************************************************************************)
EXTENDS ChainSyncSession, ScriptLemmas

-----------------------------------------------------------------------------
(* The cursor.                                                             *)

\* A known point has a position, and the cursor placed there shows that point.
LEMMA PositionOfKnown ==
    ASSUME NEW p \in Points, Known(p)
    PROVE  /\ point_to_pos(p) \in 0..Len(Chain)
           /\ current_point(point_to_pos(p)) = p
  <1>1. CASE p = Anchor
    BY <1>1, ChainAssumption DEF point_to_pos, current_point
  <1>2. CASE p # Anchor
    <2> DEFINE T == {i \in 1..Len(Chain) : Chain[i] = p}
    <2>1. T # {} /\ T \subseteq Nat
      BY <1>2, ChainAssumption DEF Known
    <2>2. PICK i \in T : \A j \in T : i <= j
      BY <2>1, LeastNatural
    <2>3. i \in 1..Len(Chain) /\ Chain[i] = p /\ \A j \in 1..(i - 1) : Chain[j] # p
      BY <2>2, ChainAssumption
    <2>4. /\ point_to_pos(p) \in 1..Len(Chain)
          /\ Chain[point_to_pos(p)] = p
      BY <1>2, <2>3 DEF point_to_pos
    <2> QED
      BY <2>4, ChainAssumption DEF current_point
  <1> QED
    BY <1>1, <1>2

\* The intersection found is a position, and the point reported for it maps
\* back to that position.
LEMMA IntersectPosition ==
    ASSUME NEW points \in Seq(Points), HasIntersect(points)
    PROVE  /\ find_intersect(points) \in 0..Len(Chain)
           /\ current_point(find_intersect(points)) \in Points
           /\ point_to_pos(current_point(find_intersect(points))) = find_intersect(points)
  <1> DEFINE T == {i \in 1..Len(points) : Known(points[i])}
             i == CHOOSE k \in 1..Len(points) : IsFirstKnown(points, k)
  <1>1. T # {} /\ T \subseteq Nat
    BY DEF HasIntersect
  <1>2. PICK m \in T : \A j \in T : m <= j
    BY <1>1, LeastNatural
  <1>3. m \in 1..Len(points) /\ IsFirstKnown(points, m)
    BY <1>2 DEF IsFirstKnown
  <1>4. i \in 1..Len(points) /\ IsFirstKnown(points, i)
    BY <1>3
  <1>5. points[i] \in Points /\ Known(points[i])
    BY <1>4 DEF IsFirstKnown
  <1>6. find_intersect(points) = point_to_pos(points[i])
    BY DEF find_intersect
  <1> HIDE DEF i
  <1> QED
    BY <1>5, <1>6, PositionOfKnown

-----------------------------------------------------------------------------
(* The type invariant.                                                     *)

\* The messages of the protocol have their types.
LEMMA MessageTypes ==
    /\ \A points \in Seq(Points) : FindIntersect(points) \in Requests
    /\ RequestNext \in Requests
    /\ Done \in Requests
    /\ \A p \in Points : Reply("IntersectFound", p) \in Replies
    /\ \A p \in Points : Reply("RollBackward", p) \in Replies
    /\ \A h \in Headers : Reply("RollForward", h) \in Replies
    /\ Reply("IntersectNotFound", Nil) \in Replies
    /\ Reply("AwaitReply", Nil) \in Replies
    /\ Reply("RawBytes", Nil) \in Replies
  BY DEF FindIntersect, RequestNext, Done, Reply, Requests, Replies, Carries, Headers

\* What is delivered is well typed when the message is.
LEMMA DeliverType ==
    ASSUME NEW S, NEW ch \in Seq(S), NEW m \in S, closed \in BOOLEAN
    PROVE  Deliver(ch, m) \in Seq(S)
  BY DEF Deliver

\* Taking a request keeps the server's types: a rule chosen is a rule of the script.
LEMMA ServerReceiveType ==
    ASSUME TypeOK, ServerReceive
    PROVE  WireTypeOK' /\ ServerTypeOK'
  <1> USE DEF TypeOK, WireTypeOK, ServerTypeOK, ServerReceive
  <1>1. Head(c2s) \in Requests /\ Tail(c2s) \in Seq(Requests)
    BY TakeOne
  <1>2. after_receive(Head(c2s)) \in ServerCsStates
    BY <1>1 DEF after_receive, Requests, ServerCsStates
  <1>3. script \in Seq(Rules)
    BY ScriptsAssumption
  <1>4. WireTypeOK'
    BY <1>1
  <1>5. script' = script /\ pos' \in Positions /\ request' \in Requests
        /\ state' \in ServerCsStates /\ traced' \in ServerCsStates
    BY <1>1, <1>2 DEF Positions
  <1>6. CASE spc' \in {"done", "failed"} /\ UNCHANGED <<rule_idx, rule>>
    BY <1>4, <1>5, <1>6
  <1>7. CASE /\ Candidates(script, rule_idx, Head(c2s).kind) # {}
             /\ rule' = RulePos(script, rule_idx, Head(c2s).kind)
             /\ rule_idx' = RuleIdxAfter(script, rule_idx, rule')
             /\ spc' = "send"
    <2>1. rule_idx \in Nat \ {0} /\ Len(script) \in Nat
      BY <1>3
    <2>2. rule' \in Candidates(script, rule_idx, Head(c2s).kind)
      BY <1>3, <1>7, <2>1, RulePosIsFirst
    <2>3. rule' \in 1..Len(script)
      BY <2>1, <2>2 DEF Candidates
    <2>4. rule_idx' \in 1..(Len(script) + 1)
      BY <1>7, <2>1, <2>3 DEF RuleIdxAfter
    <2> QED
      BY <1>4, <1>5, <1>7, <2>1, <2>3, <2>4
  <1> QED
    BY <1>6, <1>7

\* Every send keeps the types: the cursor stays on the chain, a message is a reply.
LEMMA ExecuteSendType ==
    ASSUME TypeOK, ExecuteSend
    PROVE  WireTypeOK' /\ ServerTypeOK'
  <1> USE DEF TypeOK, WireTypeOK, ServerTypeOK
  <1>1. /\ spc = "send" /\ rule \in 1..Len(script)
        /\ script \in Seq(Rules) /\ script[rule] \in Rules
    BY ScriptsAssumption DEF ExecuteSend, SendCursorFindIntersect, SendCursorAdvance,
        SendScripted, SendAwaitReply, SendRawBytes, SendWait, SendDisconnect, ServerSendError
  <1>2. ASSUME NEW next \in {"recv", "hold", "done"}, AfterSend(next),
               pos' \in Positions, traced' \in ServerCsStates, s2c' \in Seq(Replies)
        PROVE  WireTypeOK' /\ ServerTypeOK'
    <2>1. after_send(state, script[rule].send) \in ServerCsStates
      BY <1>1 DEF after_send, Rules, CsSends, ServerCsStates
    <2> QED
      BY <1>2, <2>1 DEF AfterSend
  <1>3. CASE SendCursorFindIntersect
    <2> DEFINE points == IF request.kind = "FindIntersect" THEN request.points ELSE <<>>
    <2>1. points \in Seq(Points)
      BY DEF Requests
    <2>2. /\ AfterSend("recv")
          /\ \/ /\ HasIntersect(points)
                /\ pos' = find_intersect(points)
                /\ SendMessage(Reply("IntersectFound", current_point(pos')), "Idle")
             \/ /\ pos' = pos
                /\ SendMessage(Reply("IntersectNotFound", Nil), "Idle")
      BY <1>3 DEF SendCursorFindIntersect
    <2> HIDE DEF points
    <2>3. pos' \in Positions /\ s2c' \in Seq(Replies) /\ traced' \in ServerCsStates
      <3>1. CASE /\ HasIntersect(points) /\ pos' = find_intersect(points)
                 /\ SendMessage(Reply("IntersectFound", current_point(pos')), "Idle")
        <4>1. pos' \in 0..Len(Chain) /\ current_point(pos') \in Points
          BY <2>1, <3>1, IntersectPosition
        <4>2. Reply("IntersectFound", current_point(pos')) \in Replies
          BY <4>1, MessageTypes
        <4> QED
          BY <3>1, <4>1, <4>2, DeliverType, ChainAssumption
          DEF SendMessage, ServerCsStates, Positions
      <3>2. CASE pos' = pos /\ SendMessage(Reply("IntersectNotFound", Nil), "Idle")
        BY <3>2, MessageTypes, DeliverType DEF SendMessage, ServerCsStates
      <3> QED
        BY <2>2, <3>1, <3>2
    <2> QED
      BY <1>2, <2>2, <2>3
  <1>4. CASE SendCursorAdvance
    <2>1. pos' \in Positions
      BY <1>4, ChainAssumption DEF SendCursorAdvance, advance_pos, Positions
    <2>2. s2c' \in Seq(Replies) /\ traced' \in ServerCsStates
      <3>1. CASE advance_some(pos) /\ SendMessage(Reply("RollForward", Chain[pos']), "Idle")
        <4>1. pos' \in 1..Len(Chain)
          BY <1>4, <3>1, ChainAssumption
          DEF SendCursorAdvance, advance_pos, advance_some, Positions
        <4>2. Chain[pos'] \in Headers
          BY <4>1, ChainAssumption DEF Headers
        <4>3. Reply("RollForward", Chain[pos']) \in Replies
          BY <4>2, MessageTypes
        <4> QED
          BY <3>1, <4>3, DeliverType DEF SendMessage, ServerCsStates
      <3>2. CASE SendMessage(Reply("AwaitReply", Nil), "MustReply")
        BY <3>2, MessageTypes, DeliverType DEF SendMessage, ServerCsStates
      <3> QED
        BY <1>4, <3>1, <3>2 DEF SendCursorAdvance
    <2> QED
      BY <1>2, <1>4, <2>1, <2>2 DEF SendCursorAdvance
  <1>5. CASE SendScripted
    <2>1. Reply(script[rule].send, script[rule].val) \in Replies
      BY <1>1, <1>5 DEF SendScripted, Reply, Replies, Rules, Carries
    <2>2. s2c' \in Seq(Replies) /\ traced' \in ServerCsStates /\ pos' = pos
      BY <1>5, <2>1, DeliverType DEF SendScripted, SendMessage, ServerCsStates
    <2> QED
      BY <1>2, <1>5, <2>2 DEF SendScripted
  <1>6. CASE SendAwaitReply
    <2>1. s2c' \in Seq(Replies) /\ traced' \in ServerCsStates /\ pos' = pos
      BY <1>6, MessageTypes, DeliverType DEF SendAwaitReply, SendMessage, ServerCsStates
    <2> QED
      BY <1>2, <1>6, <2>1 DEF SendAwaitReply
  <1>7. CASE SendRawBytes
    <2>1. s2c' \in Seq(Replies) /\ traced' \in ServerCsStates /\ pos' = pos
      BY <1>7, MessageTypes, DeliverType DEF SendRawBytes
    <2> QED
      BY <1>2, <1>7, <2>1 DEF SendRawBytes
  <1>8. CASE SendWait \/ SendDisconnect
    BY <1>2, <1>8 DEF SendWait, SendDisconnect
  <1>9. CASE ServerSendError
    BY <1>1, <1>9 DEF ServerSendError, wireVars
  <1> QED
    BY <1>3, <1>4, <1>5, <1>6, <1>7, <1>8, <1>9 DEF ExecuteSend

\* The client's steps keep the types: it never counts beyond what it asked for.
LEMMA ClientType ==
    ASSUME TypeOK, AsksWhileShort, ClientNext
    PROVE  WireTypeOK' /\ ClientTypeOK' /\ AsksWhileShort'
  <1> USE DEF TypeOK, WireTypeOK, ClientTypeOK, AsksWhileShort, Waiting, ExitReasons
  <1>0. Count \in Nat /\ headers_received \in 0..Count
    BY ClientAssumption
  <1>1. s2c # <<>> => Head(s2c) \in Replies /\ Tail(s2c) \in Seq(Replies)
    BY TakeOne
  <1>2. CASE ClientFindIntersect
    <2>1. PICK points \in PointLists : c2s' = Deliver(c2s, FindIntersect(points))
      BY <1>2 DEF ClientFindIntersect
    <2>2. c2s' \in Seq(Requests)
      BY <2>1, MessageTypes, DeliverType, ClientAssumption
    <2> QED
      BY <1>2, <2>2 DEF ClientFindIntersect
  <1>3. CASE ClientIntersect
    <2>1. Head(s2c).kind = "IntersectFound" => Head(s2c).val \in Points
      BY <1>1, <1>3 DEF ClientIntersect, Replies, Carries
    <2> QED
      BY <1>1, <1>3, <2>1 DEF ClientIntersect
  <1>4. CASE ClientRequestNext
    <2>1. c2s' \in Seq(Requests)
      BY <1>4, MessageTypes, DeliverType DEF ClientRequestNext
    <2> QED
      BY <1>4, <2>1 DEF ClientRequestNext
  <1>5. CASE ClientRollForward
    <2>1. Head(s2c).val \in Headers
      BY <1>1, <1>5 DEF ClientRollForward, Replies, Carries
    <2>2. collected_points' \in Seq(Points \ {Origin})
      BY <1>5, <2>1 DEF ClientRollForward, Headers
    <2>3. headers_received' \in 0..Count
      BY <1>0, <1>5 DEF ClientRollForward
    <2> QED
      BY <1>1, <1>5, <2>2, <2>3 DEF ClientRollForward
  <1>6. CASE ClientRollBackward \/ ClientAwaitReply \/ ClientUnexpected
    BY <1>1, <1>6 DEF ClientRollBackward, ClientAwaitReply, ClientUnexpected
  <1>7. CASE ClientTimeout \/ ClientConnError
    BY <1>7 DEF ClientTimeout, ClientConnError, wireVars
  <1>8. CASE ClientPartialBytes
    BY <1>1, <1>8 DEF ClientPartialBytes, clientVars
  <1>9. CASE ClientDone
    <2>1. c2s' \in Seq(Requests)
      BY <1>9, MessageTypes, DeliverType DEF ClientDone
    <2> QED
      BY <1>9, <2>1 DEF ClientDone
  <1> QED
    BY <1>2, <1>3, <1>4, <1>5, <1>6, <1>7, <1>8, <1>9 DEF ClientNext

\* Every step of the session preserves the types.
LEMMA TypeStep ==
    ASSUME TypeOK, AsksWhileShort, [Next]_vars
    PROVE  TypeOK' /\ AsksWhileShort'
  <1>1. CASE ServerNext /\ UNCHANGED clientVars
    <2>1. ClientTypeOK' /\ AsksWhileShort'
      BY <1>1 DEF TypeOK, ClientTypeOK, AsksWhileShort, clientVars
    <2>2. CASE ServerReceive
      BY <2>1, <2>2, ServerReceiveType DEF TypeOK
    <2>3. CASE ServerRecvError \/ ServerWake
      BY <2>1, <2>3
      DEF ServerRecvError, ServerWake, TypeOK, WireTypeOK, ServerTypeOK, wireVars
    <2>4. CASE ExecuteSend
      BY <2>1, <2>4, ExecuteSendType DEF TypeOK
    <2> QED
      BY <1>1, <2>2, <2>3, <2>4 DEF ServerNext
  <1>2. CASE ClientNext /\ UNCHANGED serverVars
    <2>1. ServerTypeOK'
      BY <1>2 DEF TypeOK, ServerTypeOK, serverVars, Positions
    <2> QED
      BY <1>2, <2>1, ClientType DEF TypeOK
  <1>3. CASE Close
    <2>1. WireTypeOK'
      <3>1. c2s' \in Seq(Requests) /\ s2c' \in Seq(Replies)
        <4>1. /\ c2s \in Seq(Requests) /\ s2c \in Seq(Replies)
              /\ c2s' \in {c2s, <<>>} /\ s2c' \in {s2c, <<>>}
          BY <1>3, Zenon DEF Close, TypeOK, WireTypeOK
        <4> QED
          BY <4>1, EmptyChannel, Zenon
      <3>2. closed' \in BOOLEAN
        BY <1>3, Zenon DEF Close
      <3> QED
        BY <3>1, <3>2, Zenon DEF WireTypeOK
    <2>2. ServerTypeOK'
      BY <1>3 DEF Close, TypeOK, ServerTypeOK, serverVars, Positions
    <2>3. ClientTypeOK' /\ AsksWhileShort'
      BY <1>3 DEF Close, TypeOK, ClientTypeOK, AsksWhileShort, clientVars
    <2> QED
      BY <2>1, <2>2, <2>3 DEF TypeOK
  <1>4. CASE UNCHANGED vars
    <2>1. WireTypeOK'
      BY <1>4 DEF vars, wireVars, TypeOK, WireTypeOK
    <2>2. ServerTypeOK'
      BY <1>4 DEF vars, TypeOK, ServerTypeOK, serverVars, Positions
    <2>3. ClientTypeOK' /\ AsksWhileShort'
      BY <1>4 DEF vars, TypeOK, ClientTypeOK, AsksWhileShort, clientVars
    <2> QED
      BY <2>1, <2>2, <2>3 DEF TypeOK
  <1> QED
    BY <1>1, <1>2, <1>3, <1>4 DEF Next

\* A session starts well typed.
LEMMA InitType == Init => TypeOK /\ AsksWhileShort
  <1> SUFFICES ASSUME Init
               PROVE  TypeOK /\ AsksWhileShort
    OBVIOUS
  <1>1. WireTypeOK
    <2>1. c2s \in Seq(Requests) /\ s2c \in Seq(Replies)
      BY DEF Init, WireInit
    <2>2. closed \in BOOLEAN
      BY Zenon DEF Init, WireInit
    <2> QED
      BY <2>1, <2>2, Zenon DEF WireTypeOK
  <1>2. script \in Seq(Rules) /\ Len(script) \in Nat /\ Len(Chain) \in Nat
    BY ScriptsAssumption, ChainAssumption DEF Init, ServerInit
  <1>3. ServerTypeOK
    BY <1>2, MessageTypes DEF Init, ServerInit, ServerTypeOK, Positions, ServerCsStates
  <1>4. ClientTypeOK /\ AsksWhileShort
    BY ClientAssumption DEF Init, ClientInit, ClientTypeOK, AsksWhileShort
  <1> QED
    BY <1>1, <1>3, <1>4 DEF TypeOK

(***************************************************************************)
(* Every reachable state of a session is well typed: in particular the     *)
(* server only executes rules its script has, the cursor stays on the      *)
(* chain, and the client never takes more headers than it asked for.       *)
(***************************************************************************)
THEOREM TypeCorrect == Spec => []TypeOK
  <1>1. TypeOK /\ AsksWhileShort /\ [Next]_vars => (TypeOK /\ AsksWhileShort)'
    BY TypeStep
  <1> QED
    BY InitType, <1>1, PTL DEF Spec

-----------------------------------------------------------------------------
(* Turn-taking.                                                            *)

\* The two channels of a session in which the sides take turns.
LEMMA ChannelFacts ==
    ASSUME TypeOK, OneMessageInFlight
    PROVE  /\ c2s \in Seq(Requests) /\ s2c \in Seq(Replies)
           /\ c2s # <<>> => Head(c2s) \in Requests /\ s2c = <<>> /\ Tail(c2s) = <<>>
           /\ s2c # <<>> => Head(s2c) \in Replies /\ c2s = <<>> /\ Tail(s2c) = <<>>
  <1>1. c2s \in Seq(Requests) /\ s2c \in Seq(Replies)
    BY DEF TypeOK, WireTypeOK
  <1>2. /\ Len(c2s) \in Nat /\ Len(s2c) \in Nat
        /\ Len(c2s) = 0 <=> c2s = <<>>
        /\ Len(s2c) = 0 <=> s2c = <<>>
    BY <1>1, ChannelLength
  <1>3. /\ Len(c2s) <= 1 /\ Len(s2c) <= 1
        /\ c2s # <<>> => s2c = <<>>
        /\ s2c # <<>> => c2s = <<>>
    BY <1>2 DEF OneMessageInFlight
  <1> QED
    BY <1>1, <1>3, TakeOne

\* Every step of either side, a timeout and a close included, preserves the turns.
LEMMA TurnStep ==
    ASSUME TypeOK, OneMessageInFlight, [Next]_vars
    PROVE  OneMessageInFlight'
  <1> USE DEF OneMessageInFlight
  <1>1. /\ c2s # <<>> => s2c = <<>> /\ Tail(c2s) = <<>>
        /\ s2c # <<>> => c2s = <<>> /\ Tail(s2c) = <<>>
        /\ c2s = <<>> \/ s2c = <<>>
    BY ChannelFacts
  <1>2. ASSUME NEW m
        PROVE  Len(Deliver(<<>>, m)) <= 1
    BY DEF Deliver
  <1>3. CASE ServerNext /\ UNCHANGED clientVars
    <2>1. CASE ServerReceive
      BY <1>1, <1>3, <2>1 DEF ServerReceive, clientVars
    <2>2. CASE ServerRecvError \/ ServerWake
      BY <1>3, <2>2 DEF ServerRecvError, ServerWake, wireVars, clientVars
    <2>3. CASE ServerSendError
      BY <1>3, <2>3 DEF ServerSendError, wireVars, clientVars
    <2>4. CASE ExecuteSend /\ ~ServerSendError
      <3>1. c2s = <<>> /\ s2c = <<>> /\ cpc \notin {"start", "idle", "mustReply"}
        BY <2>4 DEF ExecuteSend, SendCursorFindIntersect, SendCursorAdvance, SendScripted,
            SendAwaitReply, SendRawBytes, SendWait, SendDisconnect
      <3>2. /\ c2s' = c2s
            /\ spc' # "send"
            /\ s2c' = s2c \/ \E m : s2c' = Deliver(s2c, m)
        BY <2>4 DEF ExecuteSend, SendCursorFindIntersect, SendCursorAdvance, SendScripted,
            SendAwaitReply, SendRawBytes, SendWait, SendDisconnect, AfterSend, SendMessage
      <3>3. Len(c2s') + Len(s2c') <= 1
        <4>1. s2c' = <<>> \/ \E m : s2c' = <<m>>
          BY <3>1, <3>2 DEF Deliver
        <4> QED
          BY <3>1, <3>2, <4>1, AtMostOne
      <3> QED
        BY <1>3, <3>1, <3>2, <3>3 DEF clientVars
    <2> QED
      BY <1>3, <2>1, <2>2, <2>3, <2>4 DEF ServerNext, ExecuteSend
  <1>4. CASE ClientNext /\ UNCHANGED serverVars
    <2>0. spc' = spc
      BY <1>4 DEF serverVars
    <2>1. CASE ClientFindIntersect \/ ClientRequestNext \/ ClientDone
      <3>1. c2s = <<>> /\ s2c = <<>> /\ spc # "send"
        BY <2>1 DEF ClientFindIntersect, ClientRequestNext, ClientDone
      <3>2. /\ \E m : c2s' = Deliver(c2s, m)
            /\ s2c' = s2c
            /\ cpc' \in {"intersect", "canAwait", "completed"}
        BY <2>1 DEF ClientFindIntersect, ClientRequestNext, ClientDone
      <3>3. c2s' = <<>> \/ \E m : c2s' = <<m>>
        BY <3>1, <3>2 DEF Deliver
      <3>4. Len(c2s') + Len(s2c') <= 1
        BY <3>1, <3>2, <3>3, AtMostOne
      <3> QED
        BY <2>0, <3>1, <3>2, <3>4
    <2>2. CASE \/ ClientIntersect \/ ClientRollForward \/ ClientRollBackward
               \/ ClientAwaitReply \/ ClientUnexpected \/ ClientPartialBytes
      <3>1. s2c # <<>> /\ s2c' = Tail(s2c) /\ c2s' = c2s
        BY <2>2 DEF ClientIntersect, ClientRollForward, ClientRollBackward,
            ClientAwaitReply, ClientUnexpected, ClientPartialBytes
      <3>2. c2s' = <<>> /\ s2c' = <<>> /\ spc' # "send"
        BY <1>1, <2>0, <3>1
      <3> QED
        BY <3>2
    <2>3. CASE ClientTimeout \/ ClientConnError
      BY <2>0, <2>3 DEF ClientTimeout, ClientConnError, wireVars
    <2> QED
      BY <1>4, <2>1, <2>2, <2>3 DEF ClientNext
  <1>5. CASE Close
    BY <1>1, <1>5 DEF Close, serverVars, clientVars
  <1>6. CASE UNCHANGED vars
    BY <1>6 DEF vars, wireVars, serverVars, clientVars
  <1> QED
    BY <1>3, <1>4, <1>5, <1>6 DEF Next

(***************************************************************************)
(* The two sides take turns for every script a scenario can give the       *)
(* server and on every connection: OneMessageInFlight is invariant.        *)
(***************************************************************************)
THEOREM TurnTaking == Spec => []OneMessageInFlight
  <1>1. Init => OneMessageInFlight
    BY DEF Init, WireInit, ServerInit, ClientInit, OneMessageInFlight
  <1>2. TypeOK /\ OneMessageInFlight /\ [Next]_vars => OneMessageInFlight'
    BY TurnStep
  <1> QED
    BY TypeCorrect, <1>1, <1>2, PTL DEF Spec

-----------------------------------------------------------------------------
(* Delivery of the chain by an honest server.                              *)

\* A segment grows by the header after it.
LEMMA SegmentGrows ==
    ASSUME NEW S, NEW s \in Seq(S), NEW m \in 1..(Len(s) + 1), NEW n \in (m - 1)..(Len(s) - 1)
    PROVE  SubSeq(s, m, n + 1) = Append(SubSeq(s, m, n), s[n + 1])
  OBVIOUS

\* The segment that ends where it starts is empty.
LEMMA EmptySegment ==
    ASSUME NEW S, NEW s \in Seq(S), NEW m \in 0..Len(s)
    PROVE  SubSeq(s, m + 1, m) = <<>>
  OBVIOUS

\* The rules of a generated script.
LEMMA HonestRules ==
    ASSUME Honest, script \in Scripts
    PROVE  /\ Len(script) = Len(Chain) + 3
           /\ script[1].on = "FindIntersect"
           /\ script[1].send = "CursorFindIntersect"
           /\ \A i \in 2..Len(script) :
                script[i].send \in {"CursorAdvance", "AwaitReply", "Disconnect"}
           /\ \A i \in 1..Len(script) : ~script[i].repeatable
  <1>1. PICK hold \in AwaitAtTip : script = generate_from_fixture(Len(Chain), hold)
    BY Zenon DEF Honest
  <1>2. Len(Chain) \in Nat
    BY ChainAssumption
  <1>3. script \in Seq(Rules)
    BY ScriptsAssumption
  <1>4. DOMAIN script = 1..(Len(Chain) + 3)
    BY <1>1, <1>2 DEF generate_from_fixture
  <1>5. Len(script) = Len(Chain) + 3
    BY <1>2, <1>3, <1>4
  <1> DEFINE n == Len(Chain)
             GeneratedRule(i) ==
                IF i = 1 THEN Rule("FindIntersect", "CursorFindIntersect", Nil, 0)
                ELSE IF i <= n + 1 THEN Rule("RequestNext", "CursorAdvance", Nil, 0)
                ELSE IF i = n + 2 THEN Rule("RequestNext", "AwaitReply", Nil, hold)
                ELSE Rule("Any", "Disconnect", Nil, 0)
  <1>6. ASSUME NEW i \in 1..(n + 3)
        PROVE  script[i] = GeneratedRule(i)
    BY <1>1, Zenon DEF generate_from_fixture
  <1>7. /\ 1 \in 1..(n + 3)
        /\ \A i \in 2..Len(script) : i # 1 /\ i \in 1..(n + 3)
        /\ \A i \in 1..Len(script) : i = 1 \/ i \in 2..Len(script)
    BY <1>2, <1>5
  <1>8. ASSUME NEW i \in 2..Len(script)
        PROVE  /\ script[i].send \in {"CursorAdvance", "AwaitReply", "Disconnect"}
               /\ ~script[i].repeatable
    <2>1. \/ script[i] = Rule("RequestNext", "CursorAdvance", Nil, 0)
          \/ script[i] = Rule("RequestNext", "AwaitReply", Nil, hold)
          \/ script[i] = Rule("Any", "Disconnect", Nil, 0)
      BY <1>6, <1>7, Zenon
    <2> QED
      BY <2>1 DEF Rule
  <1>9. /\ script[1].on = "FindIntersect" /\ script[1].send = "CursorFindIntersect"
        /\ ~script[1].repeatable
    <2>1. script[1] = Rule("FindIntersect", "CursorFindIntersect", Nil, 0)
      BY <1>6, <1>7, Zenon
    <2> QED
      BY <2>1 DEF Rule
  <1> QED
    BY <1>5, <1>7, <1>8, <1>9, Zenon

\* Taking a request: MsgFindIntersect takes the first rule, the others later ones.
LEMMA HonestReceive ==
    ASSUME TypeOK, OneMessageInFlight, Honest, HonestParts,
           ServerReceive, UNCHANGED clientVars
    PROVE  HonestParts'
  <1> DEFINE kind == Head(c2s).kind
  <1>1. /\ c2s # <<>> /\ s2c = <<>> /\ c2s' = <<>> /\ s2c' = <<>> /\ pos' = pos
        /\ kind \in {"FindIntersect", "RequestNext", "Done"}
        /\ spc = "recv"
    BY ChannelFacts DEF ServerReceive, Requests
  <1>2. /\ cpc' = cpc /\ found' = found /\ headers_received' = headers_received
        /\ collected_points' = collected_points
    BY DEF clientVars
  <1>3. cpc \notin {"start", "idle", "mustReply"}
    BY <1>1 DEF OneMessageInFlight
  <1>4. /\ rule_idx \in Nat \ {0} /\ script \in Scripts /\ script \in Seq(Rules)
        /\ Len(script) \in Nat
    BY ScriptsAssumption DEF TypeOK, ServerTypeOK
  <1>5. \/ spc' \in {"done", "failed"} /\ rule_idx' = rule_idx /\ rule' = rule
        \/ /\ spc' = "send" /\ kind = "FindIntersect" /\ rule_idx = 1
           /\ rule' = 1 /\ rule_idx' = 2
        \/ /\ spc' = "send" /\ kind = "RequestNext" /\ rule_idx >= 2
           /\ rule' >= 2 /\ rule_idx' >= 2 /\ rule_idx' \in Nat /\ rule' \in Nat
    <2>1. CASE spc' \in {"done", "failed"}
      BY <2>1 DEF ServerReceive
    <2>2. CASE spc' = "send"
      <3>1. /\ kind # "Done"
            /\ Candidates(script, rule_idx, kind) # {}
            /\ rule' = RulePos(script, rule_idx, kind)
            /\ rule_idx' = RuleIdxAfter(script, rule_idx, rule')
        BY <2>2 DEF ServerReceive
      <3>2. /\ rule' \in Candidates(script, rule_idx, kind)
            /\ \A q \in Candidates(script, rule_idx, kind) : rule' <= q
        BY <1>4, <3>1, RulePosIsFirst
      <3>3. rule' \in rule_idx..Len(script)
        BY <3>2 DEF Candidates
      <3>4. rule_idx' = rule' + 1
        BY <1>4, <3>1, <3>3, HonestRules DEF RuleIdxAfter
      <3>5. CASE kind = "FindIntersect"
        <4>1. rule_idx = 1
          BY <1>1, <3>5 DEF HonestParts, IntersectFirst
        <4>2. 1 \in Candidates(script, rule_idx, kind)
          BY <1>4, <3>3, <3>5, <4>1, HonestRules DEF Candidates, MatchesOn
        <4>3. rule' = 1 /\ rule_idx' = 2
          BY <1>4, <3>2, <3>3, <3>4, <4>1, <4>2
        <4> QED
          BY <2>2, <3>5, <4>1, <4>3, Zenon
      <3>6. CASE kind = "RequestNext"
        <4>1. rule_idx >= 2
          BY <1>1, <3>6 DEF HonestParts, IntersectFirst
        <4>2. rule' >= 2 /\ rule_idx' >= 2 /\ rule_idx' \in Nat /\ rule' \in Nat
          <5>1. rule' >= 2 /\ rule' \in Nat
            BY <1>4, <3>3, <4>1
          <5>2. \A r \in Nat : r >= 2 => r + 1 >= 2 /\ r + 1 \in Nat
            OBVIOUS
          <5> QED
            BY <3>4, <5>1, <5>2, Zenon
        <4> QED
          BY <2>2, <3>6, <4>1, <4>2, Zenon
      <3> QED
        BY <1>1, <3>1, <3>5, <3>6
    <2> QED
      BY <2>1, <2>2 DEF ServerReceive
  <1>6. IntersectFirst'
    BY <1>1, <1>2, <1>3, <1>4, <1>5 DEF HonestParts, IntersectFirst, InLoop
  <1>7. IntersectAgrees'
    BY <1>1 DEF IntersectAgrees
  <1>8. NotFoundGetsNothing'
    BY <1>1, <1>2, <1>3
    DEF HonestParts, NotFoundGetsNothing, InLoop, Unanswered
  <1>9. CursorKeepsPace'
    BY <1>1, <1>2, <1>3
    DEF HonestParts, CursorKeepsPace, InLoop, Unanswered, Base, Upto
  <1> QED
    BY <1>2, <1>6, <1>7, <1>8, <1>9 DEF HonestParts

\* Placing the cursor: the answer carries the point at its position.
LEMMA HonestFindIntersect ==
    ASSUME TypeOK, OneMessageInFlight, Honest, HonestParts,
           SendCursorFindIntersect, UNCHANGED clientVars
    PROVE  HonestParts'
  <1>1. /\ spc = "send" /\ spc' = "recv" /\ c2s = <<>> /\ s2c = <<>> /\ c2s' = <<>>
        /\ rule_idx' = rule_idx /\ rule' = rule
    BY DEF SendCursorFindIntersect, AfterSend, OneMessageInFlight
  <1>2. /\ cpc' = cpc /\ found' = found /\ headers_received' = headers_received
        /\ collected_points' = collected_points
    BY DEF clientVars
  <1>3. rule = 1
    <2>1. rule \in 1..Len(script) /\ script \in Scripts
      BY <1>1 DEF TypeOK, ServerTypeOK
    <2>2. script[rule].send = "CursorFindIntersect"
      BY DEF SendCursorFindIntersect
    <2>3. rule \notin 2..Len(script)
      BY <2>1, <2>2, HonestRules
    <2>4. Len(script) \in Nat
      BY <2>1, ScriptsAssumption
    <2> QED
      BY <2>1, <2>3, <2>4
  <1>4. found = Nil /\ cpc \in {"intersect", "error"} /\ rule_idx >= 2 /\ pos = -1
    BY <1>1, <1>3 DEF HonestParts, IntersectFirst
  <1>5. rule_idx \in Nat
    BY DEF TypeOK, ServerTypeOK
  <1>6. IntersectFirst'
    BY <1>1, <1>2, <1>4, <1>5 DEF HonestParts, IntersectFirst, InLoop
  <1>7. IntersectAgrees'
    <2> DEFINE points == IF request.kind = "FindIntersect" THEN request.points ELSE <<>>
    <2>1. points \in Seq(Points)
      BY DEF TypeOK, ServerTypeOK, Requests
    <2>2. \/ /\ HasIntersect(points)
             /\ pos' = find_intersect(points)
             /\ s2c' = Deliver(s2c, Reply("IntersectFound", current_point(pos')))
          \/ /\ pos' = pos
             /\ s2c' = Deliver(s2c, Reply("IntersectNotFound", Nil))
      BY DEF SendCursorFindIntersect, SendMessage
    <2> HIDE DEF points
    <2>3. CASE /\ HasIntersect(points) /\ pos' = find_intersect(points)
               /\ s2c' = Deliver(s2c, Reply("IntersectFound", current_point(pos')))
      <3>1. pos' \in 0..Len(Chain) /\ point_to_pos(current_point(pos')) = pos'
        BY <2>1, <2>3, IntersectPosition
      <3>2. s2c' # <<>> => Head(s2c') = Reply("IntersectFound", current_point(pos'))
        BY <1>1, <2>3 DEF Deliver
      <3>3. s2c' # <<>> => /\ Head(s2c').kind = "IntersectFound"
                           /\ Head(s2c').val = current_point(pos')
        BY <3>2 DEF Reply
      <3> QED
        BY <3>1, <3>3 DEF IntersectAgrees
    <2>4. CASE pos' = pos /\ s2c' = Deliver(s2c, Reply("IntersectNotFound", Nil))
      <3>1. s2c' # <<>> => Head(s2c') = Reply("IntersectNotFound", Nil)
        BY <1>1, <2>4 DEF Deliver
      <3>2. s2c' # <<>> => Head(s2c').kind = "IntersectNotFound"
        BY <3>1 DEF Reply
      <3> QED
        BY <1>4, <2>4, <3>2 DEF IntersectAgrees
    <2> QED
      BY <2>2, <2>3, <2>4
  <1>8. NotFoundGetsNothing'
    BY <1>2, <1>4 DEF HonestParts, NotFoundGetsNothing, InLoop
  <1>9. CursorKeepsPace'
    BY <1>2, <1>4 DEF CursorKeepsPace
  <1> QED
    BY <1>2, <1>4, <1>6, <1>7, <1>8, <1>9 DEF HonestParts

\* Answering a request of the loop: the next header, or none to give.
LEMMA HonestAnswer ==
    ASSUME TypeOK, OneMessageInFlight, Honest, HonestParts,
           SendCursorAdvance \/ SendAwaitReply, UNCHANGED clientVars
    PROVE  HonestParts'
  <1>1. /\ spc = "send" /\ spc' \in {"recv", "hold"}
        /\ c2s = <<>> /\ s2c = <<>> /\ c2s' = <<>>
        /\ rule_idx' = rule_idx /\ rule' = rule
    BY DEF SendCursorAdvance, SendAwaitReply, AfterSend, OneMessageInFlight
  <1>2. /\ cpc' = cpc /\ found' = found /\ headers_received' = headers_received
        /\ collected_points' = collected_points
    BY DEF clientVars
  <1>3. rule # 1 /\ rule_idx >= 2 /\ rule_idx \in Nat
    <2>1. script \in Scripts /\ rule_idx \in Nat
      BY DEF TypeOK, ServerTypeOK
    <2> QED
      BY <1>1, <2>1, HonestRules
      DEF SendCursorAdvance, SendAwaitReply, HonestParts, IntersectFirst
  <1>4. cpc \notin {"start", "idle", "mustReply", "intersect"}
    BY <1>1, <1>3 DEF OneMessageInFlight, HonestParts, IntersectFirst
  <1>5. Len(Chain) \in Nat /\ pos \in -1..Len(Chain)
    BY ChainAssumption DEF TypeOK, ServerTypeOK, Positions
  <1>6. \/ /\ pos' = pos + 1 /\ pos' \in 1..Len(Chain)
           /\ s2c' # <<>> => Head(s2c').kind = "RollForward" /\ Head(s2c').val = Chain[pos']
        \/ /\ pos' = (IF pos = -1 THEN 0 ELSE pos) \/ pos' = pos
           /\ s2c' # <<>> => Head(s2c').kind = "AwaitReply"
    <2>1. CASE /\ SendCursorAdvance /\ advance_some(pos)
               /\ SendMessage(Reply("RollForward", Chain[pos']), "Idle")
      <3>1. pos' = pos + 1 /\ pos' \in 1..Len(Chain)
        BY <1>5, <2>1 DEF SendCursorAdvance, advance_some, advance_pos
      <3>2. s2c' # <<>> => Head(s2c') = Reply("RollForward", Chain[pos'])
        BY <1>1, <2>1 DEF SendMessage, Deliver
      <3>3. s2c' # <<>> => Head(s2c').kind = "RollForward" /\ Head(s2c').val = Chain[pos']
        BY <3>2 DEF Reply
      <3> QED
        BY <3>1, <3>3
    <2>2. CASE /\ SendCursorAdvance /\ ~advance_some(pos)
               /\ SendMessage(Reply("AwaitReply", Nil), "MustReply")
      <3>1. pos' = (IF pos = -1 THEN 0 ELSE pos)
        BY <1>5, <2>2 DEF SendCursorAdvance, advance_some, advance_pos
      <3>2. s2c' # <<>> => Head(s2c') = Reply("AwaitReply", Nil)
        BY <1>1, <2>2 DEF SendMessage, Deliver
      <3>3. s2c' # <<>> => Head(s2c').kind = "AwaitReply"
        BY <3>2 DEF Reply
      <3> QED
        BY <3>1, <3>3
    <2>3. CASE SendAwaitReply
      <3>1. pos' = pos
        BY <2>3 DEF SendAwaitReply
      <3>2. s2c' # <<>> => Head(s2c') = Reply("AwaitReply", Nil)
        BY <1>1, <2>3 DEF SendAwaitReply, SendMessage, Deliver
      <3>3. s2c' # <<>> => Head(s2c').kind = "AwaitReply"
        BY <3>2 DEF Reply
      <3> QED
        BY <3>1, <3>3
    <2> QED
      BY <2>1, <2>2, <2>3 DEF SendCursorAdvance
  <1>7. IntersectFirst'
    BY <1>1, <1>2, <1>3, <1>4 DEF IntersectFirst
  <1>8. IntersectAgrees'
    BY <1>2, <1>4 DEF IntersectAgrees
  <1>9. ~(InLoop' /\ Unanswered')
    BY <1>1, <1>2, <1>4 DEF InLoop, Unanswered
  <1>10. NotFoundGetsNothing'
    <2> SUFFICES ASSUME found = Nil
                 PROVE  NotFoundGetsNothing'
      BY <1>2 DEF NotFoundGetsNothing
    <2>1. InLoop => pos = -1
      BY <1>1 DEF HonestParts, NotFoundGetsNothing, Unanswered
    <2>2. InLoop' => (s2c' # <<>> => Head(s2c').kind = "AwaitReply")
      BY <1>2, <1>6, <2>1 DEF InLoop
    <2> QED
      BY <1>2, <1>9, <2>2 DEF HonestParts, NotFoundGetsNothing
  <1>11. CursorKeepsPace'
    <2> SUFFICES ASSUME found # Nil
                 PROVE  CursorKeepsPace'
      BY <1>2 DEF CursorKeepsPace
    <2>1. /\ Base \in 0..Len(Chain) /\ Upto <= pos
          /\ collected_points = SubSeq(Chain, Base + 1, Upto)
          /\ headers_received = Len(collected_points)
          /\ InLoop => Upto = pos
      BY <1>1 DEF HonestParts, CursorKeepsPace, Unanswered
    <2>2. Base' = Base /\ Upto' = Upto /\ InLoop' = InLoop
      BY <1>2 DEF Base, Upto, InLoop
    <2>3. Upto \in Nat
      <3>1. Len(collected_points) \in Nat
        BY DEF TypeOK, ClientTypeOK
      <3> QED
        BY <1>5, <2>1, <3>1 DEF Upto
    <2>4. Upto <= pos'
      BY <1>5, <1>6, <2>1, <2>3
    <2>5. InLoop' /\ s2c' # <<>> =>
            \/ Head(s2c').kind = "AwaitReply"
            \/ /\ Head(s2c').kind = "RollForward"
               /\ Upto + 1 = pos' /\ Head(s2c').val = Chain[pos']
      BY <1>6, <2>1, <2>2
    <2> QED
      BY <1>2, <1>9, <2>1, <2>2, <2>4, <2>5 DEF CursorKeepsPace
  <1> QED
    BY <1>2, <1>4, <1>7, <1>8, <1>10, <1>11 DEF HonestParts

\* The other steps of an honest server change nothing the client can see.
LEMMA HonestServerStep ==
    ASSUME TypeOK, OneMessageInFlight, Honest, HonestParts,
           ServerNext, UNCHANGED clientVars
    PROVE  HonestParts'
  <1>1. CASE ServerReceive
    BY <1>1, HonestReceive
  <1>2. CASE SendCursorFindIntersect
    BY <1>2, HonestFindIntersect
  <1>3. CASE SendCursorAdvance \/ SendAwaitReply
    BY <1>3, HonestAnswer
  <1>4. CASE SendScripted \/ SendRawBytes \/ SendWait
    <2>1. rule \in 1..Len(script) /\ script \in Scripts /\ Len(script) \in Nat
      BY <1>4, ScriptsAssumption
      DEF SendScripted, SendRawBytes, SendWait, TypeOK, ServerTypeOK
    <2>2. script[rule].send \in {"CursorFindIntersect", "CursorAdvance", "AwaitReply",
                                 "Disconnect"}
      BY <2>1, HonestRules
    <2> QED
      BY <1>4, <2>2 DEF SendScripted, SendRawBytes, SendWait
  <1>5. CASE SendDisconnect \/ ServerSendError \/ ServerRecvError \/ ServerWake
    <2>1. /\ spc' # "send" /\ c2s' = c2s /\ s2c' = s2c /\ pos' = pos
          /\ rule_idx' = rule_idx /\ rule' = rule
      BY <1>5 DEF SendDisconnect, ServerSendError, ServerRecvError, ServerWake,
          AfterSend, wireVars
    <2>2. /\ cpc' = cpc /\ found' = found /\ headers_received' = headers_received
          /\ collected_points' = collected_points
      BY DEF clientVars
    <2>3. IntersectFirst'
      BY <2>1, <2>2 DEF HonestParts, IntersectFirst, InLoop
    <2>4. IntersectAgrees'
      BY <2>1, <2>2 DEF HonestParts, IntersectAgrees
    <2>5. NotFoundGetsNothing'
      BY <2>1, <2>2 DEF HonestParts, NotFoundGetsNothing, InLoop, Unanswered
    <2>6. CursorKeepsPace'
      BY <2>1, <2>2 DEF HonestParts, CursorKeepsPace, InLoop, Unanswered, Base, Upto
    <2> QED
      BY <2>2, <2>3, <2>4, <2>5, <2>6 DEF HonestParts
  <1> QED
    BY <1>1, <1>2, <1>3, <1>4, <1>5 DEF ServerNext, ExecuteSend

\* The client's sends: each finds the channel empty and the server waiting.
LEMMA HonestClientSend ==
    ASSUME TypeOK, OneMessageInFlight, Honest, HonestParts, UNCHANGED serverVars,
           ClientFindIntersect \/ ClientRequestNext \/ ClientDone
    PROVE  HonestParts'
  <1>1. /\ c2s = <<>> /\ s2c = <<>> /\ s2c' = <<>> /\ spc # "send"
        /\ found' = found /\ headers_received' = headers_received
        /\ collected_points' = collected_points
    BY DEF ClientFindIntersect, ClientRequestNext, ClientDone, OneMessageInFlight
  <1>2. /\ spc' = spc /\ rule_idx' = rule_idx /\ rule' = rule /\ pos' = pos
    BY DEF serverVars
  <1>3. \/ /\ cpc = "start" /\ cpc' = "intersect"
           /\ c2s' # <<>> => Head(c2s').kind = "FindIntersect"
        \/ /\ cpc = "idle" /\ cpc' \in {"canAwait", "completed"}
           /\ c2s' # <<>> => Head(c2s').kind \in {"RequestNext", "Done"}
    <2>1. CASE ClientFindIntersect
      <3>1. PICK points \in PointLists : c2s' = Deliver(c2s, FindIntersect(points))
        BY <2>1 DEF ClientFindIntersect
      <3>2. c2s' # <<>> => Head(c2s') = FindIntersect(points)
        BY <1>1, <3>1 DEF Deliver
      <3>3. c2s' # <<>> => Head(c2s').kind = "FindIntersect"
        BY <3>2 DEF FindIntersect
      <3> QED
        BY <2>1, <3>3 DEF ClientFindIntersect
    <2>2. CASE ClientRequestNext \/ ClientDone
      <3>1. c2s' # <<>> => Head(c2s') \in {RequestNext, Done}
        BY <1>1, <2>2 DEF ClientRequestNext, ClientDone, Deliver
      <3>2. c2s' # <<>> => Head(c2s').kind \in {"RequestNext", "Done"}
        BY <3>1 DEF RequestNext, Done
      <3> QED
        BY <2>2, <3>2 DEF ClientRequestNext, ClientDone
    <2> QED
      BY <2>1, <2>2
  <1>4. IntersectFirst'
    BY <1>1, <1>2, <1>3 DEF HonestParts, IntersectFirst, InLoop
  <1>5. IntersectAgrees'
    BY <1>1 DEF IntersectAgrees
  <1>6. NotFoundGetsNothing'
    BY <1>1, <1>2, <1>3 DEF HonestParts, NotFoundGetsNothing, InLoop, Unanswered
  <1>7. CursorKeepsPace'
    BY <1>1, <1>2, <1>3 DEF HonestParts, CursorKeepsPace, InLoop, Unanswered, Base, Upto
  <1>8. cpc' \in {"start", "intersect"} => found' = Nil
    BY <1>1, <1>3 DEF HonestParts
  <1> QED
    BY <1>4, <1>5, <1>6, <1>7, <1>8 DEF HonestParts

\* The client learns the intersection.
LEMMA HonestClientIntersect ==
    ASSUME TypeOK, OneMessageInFlight, Honest, HonestParts, UNCHANGED serverVars,
           ClientIntersect
    PROVE  HonestParts'
  <1>1. /\ cpc = "intersect" /\ cpc' = "idle" /\ found = Nil
        /\ s2c # <<>> /\ s2c' = <<>> /\ c2s' = <<>> /\ spc # "send"
        /\ headers_received' = headers_received
        /\ collected_points' = collected_points
        /\ Head(s2c) \in Replies
    BY ChannelFacts DEF ClientIntersect, OneMessageInFlight, HonestParts
  <1>2. /\ spc' = spc /\ rule_idx' = rule_idx /\ rule' = rule /\ pos' = pos
    BY DEF serverVars
  <1>3. rule_idx >= 2 /\ rule_idx \in Nat /\ collected_points = <<>> /\ headers_received = 0
    BY <1>1 DEF HonestParts, IntersectFirst, NotFoundGetsNothing, TypeOK, ServerTypeOK
  <1>4. IntersectFirst'
    BY <1>1, <1>2, <1>3 DEF IntersectFirst
  <1>5. IntersectAgrees'
    BY <1>1 DEF IntersectAgrees
  <1>6. CASE Head(s2c).kind = "IntersectFound" /\ found' = Head(s2c).val
    <2>1. found' # Nil
      BY <1>1, <1>6, WireAssumption DEF Replies, Carries
    <2>2. Base' = pos /\ pos \in 0..Len(Chain)
      BY <1>1, <1>6 DEF HonestParts, IntersectAgrees, Base
    <2>3. Len(collected_points') = 0
      BY <1>1, <1>3
    <2>4. Upto' = pos
      BY <2>2, <2>3, ChainAssumption DEF Upto
    <2>5. collected_points' = SubSeq(Chain, pos + 1, pos)
      BY <1>1, <1>3, <2>2, EmptySegment, ChainAssumption
    <2>6. CursorKeepsPace'
      BY <1>1, <1>2, <1>3, <2>2, <2>3, <2>4, <2>5, ChainAssumption DEF CursorKeepsPace
    <2>7. NotFoundGetsNothing'
      BY <2>1 DEF NotFoundGetsNothing
    <2> QED
      BY <1>1, <1>4, <1>5, <2>6, <2>7 DEF HonestParts
  <1>7. CASE Head(s2c).kind = "IntersectNotFound" /\ UNCHANGED found
    <2>1. pos = -1
      BY <1>1, <1>7 DEF HonestParts, IntersectAgrees
    <2>2. NotFoundGetsNothing'
      BY <1>1, <1>2, <1>3, <2>1 DEF NotFoundGetsNothing
    <2>3. CursorKeepsPace'
      BY <1>1, <1>7 DEF CursorKeepsPace
    <2> QED
      BY <1>1, <1>4, <1>5, <2>2, <2>3 DEF HonestParts
  <1> QED
    BY <1>6, <1>7 DEF ClientIntersect

\* The client takes a header: the one the cursor moved to.
LEMMA HonestClientHeader ==
    ASSUME TypeOK, OneMessageInFlight, Honest, HonestParts, UNCHANGED serverVars,
           ClientRollForward
    PROVE  HonestParts'
  <1>1. /\ InLoop /\ cpc' = "idle" /\ found' = found
        /\ s2c # <<>> /\ s2c' = <<>> /\ c2s' = <<>> /\ spc # "send"
        /\ Head(s2c).kind = "RollForward"
        /\ headers_received' = headers_received + 1
        /\ collected_points' = IF Head(s2c).val = Opaque THEN collected_points
                               ELSE Append(collected_points, Head(s2c).val)
    BY ChannelFacts DEF ClientRollForward, OneMessageInFlight, InLoop
  <1>2. /\ spc' = spc /\ rule_idx' = rule_idx /\ rule' = rule /\ pos' = pos
    BY DEF serverVars
  <1>3. rule_idx >= 2 /\ rule_idx \in Nat
    BY <1>1 DEF HonestParts, IntersectFirst, TypeOK, ServerTypeOK
  <1>4. found # Nil
    BY <1>1 DEF HonestParts, NotFoundGetsNothing
  <1>5. /\ Base \in 0..Len(Chain) /\ Upto <= pos
        /\ collected_points = SubSeq(Chain, Base + 1, Upto)
        /\ headers_received = Len(collected_points)
        /\ Upto + 1 = pos /\ Head(s2c).val = Chain[pos]
    BY <1>1, <1>4 DEF HonestParts, CursorKeepsPace
  <1>6. /\ Len(Chain) \in Nat /\ pos \in -1..Len(Chain)
        /\ Len(collected_points) \in Nat
        /\ collected_points \in Seq(Points \ {Origin})
    BY ChainAssumption DEF TypeOK, ServerTypeOK, ClientTypeOK, Positions
  <1>7. Upto \in Base..(Len(Chain) - 1) /\ pos \in 1..Len(Chain)
    BY <1>5, <1>6 DEF Upto
  <1>8. Chain[pos] \in Points \ {Origin} /\ Chain[pos] # Opaque
    BY <1>7, ChainAssumption, WireAssumption
  <1>9. collected_points' = Append(collected_points, Chain[pos])
    BY <1>1, <1>5, <1>8
  <1>10. Len(collected_points') = Len(collected_points) + 1
    BY <1>6, <1>8, <1>9
  <1>11. Base' = Base /\ Upto' = pos
    <2>1. Base' = Base
      BY <1>1 DEF Base
    <2> QED
      BY <1>5, <1>6, <1>10, <2>1 DEF Upto
  <1>12. collected_points' = SubSeq(Chain, Base + 1, pos)
    <2>1. Base + 1 \in 1..(Len(Chain) + 1) /\ Upto \in ((Base + 1) - 1)..(Len(Chain) - 1)
      BY <1>5, <1>6, <1>7
    <2>2. SubSeq(Chain, Base + 1, Upto + 1) = Append(SubSeq(Chain, Base + 1, Upto), Chain[Upto + 1])
      BY <2>1, SegmentGrows, ChainAssumption
    <2> QED
      BY <1>5, <1>9, <2>2
  <1>13. CursorKeepsPace'
    <2>1. Base' \in 0..Len(Chain) /\ Upto' <= pos'
      BY <1>2, <1>5, <1>6, <1>11
    <2>2. collected_points' = SubSeq(Chain, Base' + 1, Upto')
      BY <1>11, <1>12
    <2>3. headers_received' = Len(collected_points')
      BY <1>1, <1>5, <1>10
    <2>4. Upto' = pos' /\ ~(s2c' # <<>>)
      BY <1>1, <1>2, <1>11
    <2> QED
      BY <2>1, <2>2, <2>3, <2>4 DEF CursorKeepsPace
  <1>14. NotFoundGetsNothing'
    BY <1>1, <1>4 DEF NotFoundGetsNothing
  <1>15. IntersectAgrees'
    BY <1>1 DEF IntersectAgrees
  <1>16. IntersectFirst'
    BY <1>1, <1>2, <1>3 DEF IntersectFirst
  <1> QED
    BY <1>1, <1>13, <1>14, <1>15, <1>16 DEF HonestParts

\* The client stops, or learns that it has to wait.
LEMMA HonestClientRest ==
    ASSUME TypeOK, OneMessageInFlight, Honest, HonestParts, UNCHANGED serverVars,
           \/ ClientRollBackward \/ ClientAwaitReply \/ ClientTimeout
           \/ ClientUnexpected \/ ClientPartialBytes \/ ClientConnError
    PROVE  HonestParts'
  <1>1. /\ spc' = spc /\ rule_idx' = rule_idx /\ rule' = rule /\ pos' = pos
    BY DEF serverVars
  <1>2. CASE ClientRollBackward
    BY <1>2 DEF ClientRollBackward, HonestParts, NotFoundGetsNothing, CursorKeepsPace, InLoop
  <1>3. CASE ClientPartialBytes
    BY <1>3 DEF ClientPartialBytes, Waiting, HonestParts, IntersectAgrees,
        NotFoundGetsNothing, CursorKeepsPace, InLoop
  <1>4. CASE ClientAwaitReply \/ ClientUnexpected
    <2>1. /\ cpc # "start" /\ cpc # "idle" /\ cpc' \in {"mustReply", "error"}
          /\ cpc' = "mustReply" => cpc = "canAwait"
          /\ s2c # <<>> /\ s2c' = <<>> /\ c2s' = <<>> /\ spc # "send"
          /\ found' = found /\ headers_received' = headers_received
          /\ collected_points' = collected_points
      BY <1>4, ChannelFacts DEF ClientAwaitReply, ClientUnexpected, Waiting, OneMessageInFlight
    <2>2. IntersectFirst'
      BY <1>1, <2>1 DEF HonestParts, IntersectFirst, InLoop
    <2>3. IntersectAgrees'
      BY <2>1 DEF IntersectAgrees
    <2>4. NotFoundGetsNothing'
      BY <1>1, <2>1 DEF HonestParts, NotFoundGetsNothing, Unanswered
    <2>5. CursorKeepsPace'
      BY <1>1, <2>1 DEF HonestParts, CursorKeepsPace, Unanswered, Base, Upto
    <2> QED
      BY <2>1, <2>2, <2>3, <2>4, <2>5 DEF HonestParts
  <1>5. CASE ClientTimeout \/ ClientConnError
    <2>1. /\ \/ cpc' = "error"
             \/ cpc' = "await_timeout" /\ InLoop
          /\ c2s' = c2s /\ s2c' = s2c
          /\ found' = found /\ headers_received' = headers_received
          /\ collected_points' = collected_points
      BY <1>5 DEF ClientTimeout, ClientConnError, wireVars, InLoop
    <2>2. ~InLoop'
      BY <2>1 DEF InLoop
    <2>3. IntersectFirst'
      <3>1. cpc' = "await_timeout" => cpc \notin {"intersect", "error"} /\ cpc # "start"
        BY <2>1 DEF InLoop
      <3> QED
        BY <1>1, <2>1, <2>2, <3>1 DEF HonestParts, IntersectFirst
    <2>4. IntersectAgrees'
      BY <2>1 DEF IntersectAgrees
    <2>5. NotFoundGetsNothing'
      BY <2>1, <2>2 DEF HonestParts, NotFoundGetsNothing
    <2>6. CursorKeepsPace'
      BY <1>1, <2>1, <2>2 DEF HonestParts, CursorKeepsPace, Base, Upto
    <2> QED
      BY <2>1, <2>3, <2>4, <2>5, <2>6 DEF HonestParts
  <1> QED
    BY <1>2, <1>3, <1>4, <1>5

\* Every step of a session with an honest server.
LEMMA HonestStep ==
    ASSUME TypeOK, OneMessageInFlight, Honest => HonestParts, [Next]_vars
    PROVE  Honest' => HonestParts'
  <1>1. script' = script
    BY DEF Next, ServerNext, ServerReceive, ServerRecvError, ExecuteSend, ServerWake,
        SendCursorFindIntersect, SendCursorAdvance, SendScripted, SendAwaitReply,
        SendRawBytes, SendWait, SendDisconnect, ServerSendError, AfterSend, Close,
        vars, serverVars
  <1>2. SUFFICES ASSUME Honest
                 PROVE  HonestParts'
    BY <1>1 DEF Honest
  <1>3. HonestParts
    BY <1>2
  <1>4. CASE ServerNext /\ UNCHANGED clientVars
    BY <1>2, <1>3, <1>4, HonestServerStep
  <1>5. CASE ClientNext /\ UNCHANGED serverVars
    BY <1>2, <1>3, <1>5, HonestClientSend, HonestClientIntersect, HonestClientHeader,
        HonestClientRest DEF ClientNext
  <1>6. CASE Close \/ UNCHANGED vars
    <2>1. /\ c2s' \in {c2s, <<>>} /\ s2c' \in {s2c, <<>>}
          /\ spc' = spc /\ rule_idx' = rule_idx /\ rule' = rule /\ pos' = pos
          /\ cpc' = cpc /\ found' = found /\ headers_received' = headers_received
          /\ collected_points' = collected_points
      BY <1>6 DEF Close, vars, wireVars, serverVars, clientVars
    <2>2. IntersectFirst'
      BY <1>3, <2>1 DEF HonestParts, IntersectFirst, InLoop
    <2>3. IntersectAgrees'
      BY <1>3, <2>1 DEF HonestParts, IntersectAgrees
    <2>4. NotFoundGetsNothing'
      BY <1>3, <2>1 DEF HonestParts, NotFoundGetsNothing, InLoop, Unanswered
    <2>5. CursorKeepsPace'
      BY <1>3, <2>1 DEF HonestParts, CursorKeepsPace, InLoop, Unanswered, Base, Upto
    <2> QED
      BY <1>3, <2>1, <2>2, <2>3, <2>4, <2>5 DEF HonestParts
  <1> QED
    BY <1>4, <1>5, <1>6 DEF Next

\* The inductive invariant of an honest session holds throughout.
LEMMA HonestInvariant == Spec => [](Honest => HonestParts)
  <1>1. Init => (Honest => HonestParts)
    BY DEF Init, WireInit, ServerInit, ClientInit, HonestParts, IntersectFirst,
        IntersectAgrees, NotFoundGetsNothing, CursorKeepsPace, InLoop, Unanswered
  <1>2. TypeOK /\ OneMessageInFlight /\ (Honest => HonestParts) /\ [Next]_vars
            => (Honest => HonestParts)'
    BY HonestStep
  <1> QED
    BY TypeCorrect, TurnTaking, <1>1, <1>2, PTL DEF Spec

(***************************************************************************)
(* An honest server delivers its chain: for every fixture, every list of   *)
(* intersection points and every count, through timeouts and lost          *)
(* connections, the points a chain_sync step collects are the headers that *)
(* follow its intersection, in order and without gaps.                     *)
(***************************************************************************)
THEOREM ChainDelivered == Spec => []CollectedIsSegment
  <1>1. (Honest => HonestParts) => CollectedIsSegment
    BY DEF HonestParts, NotFoundGetsNothing, CursorKeepsPace, CollectedIsSegment, Upto
  <1> QED
    BY HonestInvariant, <1>1, PTL
=============================================================================
