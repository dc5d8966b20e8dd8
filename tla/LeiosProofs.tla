----------------------------- MODULE LeiosProofs -----------------------------
(***************************************************************************)
(* Safety of a Leios session, for every list of actions, every script and  *)
(* every client: the type invariant, one open request per channel, and the *)
(* agreement of the client's account with what the server was told to      *)
(* send, all from the inductive invariant LeiosInv.                        *)
(***************************************************************************)
EXTENDS LeiosSession, ScriptLemmas, FiniteSetTheorems

-----------------------------------------------------------------------------
(* Counting.                                                               *)

\* The positions up to i that satisfy a condition: one more position counts
\* one more if the condition holds there.
LEMMA CountStep ==
    ASSUME NEW T, NEW i \in Nat, NEW j, j = i + 1
    PROVE  /\ IsFiniteSet({k \in 1..i : k \in T})
           /\ Cardinality({k \in 1..i : k \in T}) \in Nat
           /\ Cardinality({k \in 1..i : k \in T}) <= i
           /\ Cardinality({k \in 1..j : k \in T}) =
                Cardinality({k \in 1..i : k \in T}) + (IF j \in T THEN 1 ELSE 0)
  <1> DEFINE U(n) == {k \in 1..n : k \in T}
  <1>1. IsFiniteSet(1..i) /\ Cardinality(1..i) = i
    BY FS_Interval
  <1>2. U(i) \subseteq 1..i
    OBVIOUS
  <1>3. IsFiniteSet(U(i)) /\ Cardinality(U(i)) <= i /\ Cardinality(U(i)) \in Nat
    <2> HIDE DEF U
    <2>1. IsFiniteSet(U(i)) /\ Cardinality(U(i)) <= Cardinality(1..i)
      BY <1>1, <1>2, FS_Subset
    <2>2. Cardinality(U(i)) \in Nat
      BY <2>1, FS_CardinalityType
    <2> QED
      BY <1>1, <2>1, <2>2
  <1>4. CASE j \in T
    <2>1. U(j) = U(i) \cup {j} /\ j \notin U(i)
      BY <1>4
    <2> HIDE DEF U
    <2>2. Cardinality(U(j)) = Cardinality(U(i)) + 1
      BY <1>3, <2>1, FS_AddElement
    <2>3. Cardinality(U(j)) = Cardinality(U(i)) + (IF j \in T THEN 1 ELSE 0)
      BY <1>3, <1>4, <2>2
    <2> QED
      BY <1>3, <2>3 DEF U
  <1>5. CASE j \notin T
    <2>1. U(j) = U(i)
      BY <1>5
    <2> HIDE DEF U
    <2>2. Cardinality(U(j)) = Cardinality(U(i)) + (IF j \in T THEN 1 ELSE 0)
      BY <1>3, <1>5, <2>1
    <2> QED
      BY <1>3, <2>2 DEF U
  <1> QED
    BY <1>4, <1>5

\* No position up to 0.
LEMMA CountNone ==
    ASSUME NEW T
    PROVE  Cardinality({k \in 1..0 : k \in T}) = 0
  <1>1. {k \in 1..0 : k \in T} = {}
    OBVIOUS
  <1> QED
    BY <1>1, FS_EmptySet

\* The later position does not count fewer.
LEMMA CountGrows ==
    ASSUME NEW T, NEW i \in Nat, NEW j \in Nat, i <= j
    PROVE  /\ Cardinality({k \in 1..i : k \in T}) <= Cardinality({k \in 1..j : k \in T})
           /\ i < j /\ j \in T =>
                Cardinality({k \in 1..i : k \in T}) < Cardinality({k \in 1..j : k \in T})
  <1> DEFINE U(n) == {k \in 1..n : k \in T}
  <1>1. IsFiniteSet(U(j)) /\ Cardinality(U(j)) \in Nat
    BY CountStep
  <1>2. U(i) \subseteq U(j)
    OBVIOUS
  <1>3. i < j /\ j \in T => U(i) # U(j)
    <2>1. j \in T => j \in U(j) \/ j = 0
      OBVIOUS
    <2>2. i < j => j \notin U(i)
      OBVIOUS
    <2> QED
      BY <2>1, <2>2
  <1> HIDE DEF U
  <1>4. /\ Cardinality(U(i)) \in Nat
        /\ Cardinality(U(i)) <= Cardinality(U(j))
        /\ U(i) # U(j) => Cardinality(U(i)) < Cardinality(U(j))
    <2>1. /\ IsFiniteSet(U(i)) /\ Cardinality(U(i)) <= Cardinality(U(j))
          /\ Cardinality(U(i)) = Cardinality(U(j)) => U(i) = U(j)
      BY <1>1, <1>2, FS_Subset
    <2>2. Cardinality(U(i)) \in Nat
      BY <2>1, FS_CardinalityType
    <2> QED
      BY <1>1, <2>1, <2>2
  <1> QED
    BY <1>3, <1>4 DEF U

\* Ranks in the server's list.
LEMMA RankFacts ==
    /\ Rank(0) = 0
    /\ \A i \in Nat : Rank(i) \in Nat /\ Rank(i) <= i
    /\ \A i \in Nat : Rank(i + 1) = Rank(i) + (IF actions[i + 1] \in Notifications THEN 1 ELSE 0)
    /\ \A i, j \in Nat : i <= j => Rank(i) <= Rank(j)
    /\ \A i, j \in Nat : i < j /\ actions[j] \in Notifications => Rank(i) < Rank(j)
  <1> DEFINE T == {k \in Nat : actions[k] \in Notifications}
  <1>1. ASSUME NEW i \in Nat
        PROVE  Rank(i) = Cardinality({k \in 1..i : k \in T})
    <2>1. {k \in 1..i : actions[k] \in Notifications} = {k \in 1..i : k \in T}
      OBVIOUS
    <2> QED
      BY <2>1, Zenon DEF Rank
  <1>2. \A j \in Nat : j \in T <=> actions[j] \in Notifications
    OBVIOUS
  <1> HIDE DEF T
  <1>3. Rank(0) = 0
    BY <1>1, CountNone
  <1>4. ASSUME NEW i \in Nat
        PROVE  /\ Rank(i) \in Nat /\ Rank(i) <= i
               /\ Rank(i + 1) = Rank(i) + (IF actions[i + 1] \in Notifications THEN 1 ELSE 0)
    <2>1. i + 1 \in Nat
      OBVIOUS
    <2>2. /\ Cardinality({k \in 1..i : k \in T}) \in Nat
          /\ Cardinality({k \in 1..i : k \in T}) <= i
          /\ Cardinality({k \in 1..(i + 1) : k \in T}) =
                Cardinality({k \in 1..i : k \in T}) + (IF i + 1 \in T THEN 1 ELSE 0)
      BY CountStep
    <2>3. /\ Rank(i) = Cardinality({k \in 1..i : k \in T})
          /\ Rank(i + 1) = Cardinality({k \in 1..(i + 1) : k \in T})
          /\ i + 1 \in T <=> actions[i + 1] \in Notifications
      BY <1>1, <1>2, <2>1, Zenon
    <2>4. CASE i + 1 \in T
      BY <2>2, <2>3, <2>4
    <2>5. CASE i + 1 \notin T
      BY <2>2, <2>3, <2>5
    <2> QED
      BY <2>4, <2>5
  <1>5. ASSUME NEW i \in Nat, NEW j \in Nat
        PROVE  /\ i <= j => Rank(i) <= Rank(j)
               /\ i < j /\ actions[j] \in Notifications => Rank(i) < Rank(j)
    <2>1. /\ Rank(i) = Cardinality({k \in 1..i : k \in T})
          /\ Rank(j) = Cardinality({k \in 1..j : k \in T})
          /\ j \in T <=> actions[j] \in Notifications
      BY <1>1, <1>2, Zenon
    <2>2. i <= j =>
            /\ Cardinality({k \in 1..i : k \in T}) <= Cardinality({k \in 1..j : k \in T})
            /\ i < j /\ j \in T =>
                Cardinality({k \in 1..i : k \in T}) < Cardinality({k \in 1..j : k \in T})
      BY CountGrows
    <2> QED
      BY <2>1, <2>2
  <1> QED
    BY <1>3, <1>4, <1>5

LEMMA RankType ==
    ASSUME NEW i \in Nat
    PROVE  Rank(i) \in Nat /\ Rank(i) <= i
  BY RankFacts, Zenon

LEMMA RankGrows ==
    ASSUME NEW i \in Nat, NEW j \in Nat
    PROVE  /\ i <= j => Rank(i) <= Rank(j)
           /\ i < j /\ actions[j] \in Notifications => Rank(i) < Rank(j)
  BY RankFacts, Zenon

\* One more event counts under its own kind.
LEMMA KindCountStep ==
    ASSUME NEW s \in Seq(Notifications), NEW e \in Notifications, NEW k \in Notifications
    PROVE  /\ Cardinality({j \in 1..Len(s) : s[j] = k}) \in Nat
           /\ Cardinality({j \in 1..Len(Append(s, e)) : Append(s, e)[j] = k}) =
                Cardinality({j \in 1..Len(s) : s[j] = k}) + (IF e = k THEN 1 ELSE 0)
  <1> DEFINE n == Len(s)
             T == {j \in 1..(n + 1) : Append(s, e)[j] = k}
  <1>1. n \in Nat /\ Len(Append(s, e)) = n + 1
    OBVIOUS
  <1>2. {j \in 1..n : s[j] = k} = {j \in 1..n : j \in T}
    OBVIOUS
  <1>3. {j \in 1..(n + 1) : Append(s, e)[j] = k} = {j \in 1..(n + 1) : j \in T}
    OBVIOUS
  <1>4. n + 1 \in T <=> e = k
    OBVIOUS
  <1> HIDE DEF n, T
  <1>5. /\ Cardinality({j \in 1..n : j \in T}) \in Nat
        /\ Cardinality({j \in 1..(n + 1) : j \in T}) =
             Cardinality({j \in 1..n : j \in T}) + (IF n + 1 \in T THEN 1 ELSE 0)
    BY <1>1, CountStep
  <1> QED
    BY <1>1, <1>2, <1>3, <1>4, <1>5 DEF n

-----------------------------------------------------------------------------
(* The notifications.                                                      *)

\* The channel and the numbers of a notify session.
LEMMA NotifyFacts ==
    ASSUME NotifyTypeOK, NotifyTurns
    PROVE  /\ nreq # <<>> => /\ Head(nreq) \in {"RequestNext", "Done"} /\ Tail(nreq) = <<>>
                             /\ nrep = <<>>
           /\ nrep # <<>> => /\ Head(nrep) \in Notifications \cup {"RawBytes"}
                             /\ Tail(nrep) = <<>> /\ nreq = <<>>
           /\ actions \in Seq(Actions) /\ Len(actions) \in Nat /\ action \in Nat
           /\ nspc = "act" => actions[action] \in Actions /\ action - 1 \in Nat
           /\ Len(notified) \in Nat /\ notifications_sent \in Nat
  <1>1. /\ nreq \in Seq({"RequestNext", "Done"})
        /\ nrep \in Seq(Notifications \cup {"RawBytes"})
    BY DEF NotifyTypeOK
  <1>2. /\ Len(nreq) \in Nat /\ Len(nrep) \in Nat
        /\ Len(nreq) = 0 <=> nreq = <<>>
        /\ Len(nrep) = 0 <=> nrep = <<>>
    BY <1>1, ChannelLength
  <1>3. /\ Len(nreq) <= 1 /\ Len(nrep) <= 1
        /\ nreq # <<>> => nrep = <<>>
        /\ nrep # <<>> => nreq = <<>>
    BY <1>2 DEF NotifyTurns
  <1>4. actions \in Seq(Actions) /\ Len(actions) \in Nat /\ action \in 0..Len(actions)
    BY NotifyAssumption DEF NotifyTypeOK
  <1>5. nspc = "act" => actions[action] \in Actions /\ action - 1 \in Nat
    BY <1>4 DEF NotifyTypeOK
  <1>6. Len(notified) \in Nat /\ notifications_sent \in Nat
    BY DEF NotifyTypeOK
  <1> QED
    BY <1>1, <1>3, <1>4, <1>5, <1>6, TakeOne

\* Ranks change only with the list.
LEMMA RankSame ==
    ASSUME actions' = actions
    PROVE  \A i : Rank(i)' = Rank(i)
  BY DEF Rank

\* The account stays right while the list and the events do not change.
LEMMA NotifiedSame ==
    ASSUME NotifiedInOrder,
           UNCHANGED <<actions, notified, events_received, kind_count>>,
           Len(notified) <= notifications_sent',
           ncpc' = "idle" => Len(notified) = notifications_sent'
    PROVE  NotifiedInOrder'
  <1>1. \A i : Rank(i)' = Rank(i)
    BY RankSame
  <1> QED
    BY <1>1 DEF NotifiedInOrder

\* The invariant when only the client's place and the channels change, and
\* nothing is sent: a timeout, an error, a lost message, malformed bytes.
LEMMA NotifyFades ==
    ASSUME NotifyInv,
           UNCHANGED <<notifyServer, events_received, kind_count, notified, strict>>,
           closed' \in BOOLEAN,
           nreq' \in {nreq, <<>>}, nrep' \in {nrep, <<>>},
           ncpc' = ncpc \/ (ncpc' \in {"await_timeout", "error"})
    PROVE  NotifyInv'
  <1>1. UNCHANGED <<actions, action, nspc, owed, notifications_sent>>
    BY DEF notifyServer
  <1>2. NotifyTypeOK'
    BY <1>1, EmptyChannel DEF NotifyInv, NotifyTypeOK
  <1>3. AsksWhileShort'
    BY DEF NotifyInv, AsksWhileShort
  <1>4. NotifyTurns'
    <2>1. Len(nreq') + Len(nrep') <= 1
      <3>1. /\ Len(nreq) \in Nat /\ Len(nrep) \in Nat /\ Len(nreq) + Len(nrep) <= 1
        BY DEF NotifyInv, NotifyTypeOK, NotifyTurns
      <3>2. /\ Len(nreq') \in {Len(nreq), 0}
            /\ Len(nrep') \in {Len(nrep), 0}
        OBVIOUS
      <3> QED
        BY <3>1, <3>2
    <2> QED
      BY <1>1, <2>1 DEF NotifyInv, NotifyTurns
  <1>5. NotifiedInOrder'
    BY <1>1, NotifiedSame DEF NotifyInv, NotifiedInOrder
  <1>6. SentAsListed'
    <2>1. Rank(action)' = Rank(action) /\ Rank(Behind)' = Rank(Behind)
      BY <1>1, RankSame DEF Behind
    <2> QED
      BY <1>1, <2>1 DEF NotifyInv, SentAsListed
  <1> QED
    BY <1>2, <1>3, <1>4, <1>5, <1>6 DEF NotifyInv

\* The client's requests.
LEMMA NotifyAsks ==
    ASSUME NotifyInv, NotifyRequest \/ NotifyFinish
    PROVE  NotifyInv'
  <1>1. /\ UNCHANGED <<actions, action, nspc, owed, notifications_sent, closed, strict,
                       nrep, events_received, kind_count, notified>>
        /\ ncpc = "idle" /\ ncpc' \in {"waiting", "completed"}
        /\ ncpc' = "waiting" => events_received < NotifyCount
    BY DEF NotifyRequest, NotifyFinish, notifyServer, connVars
  <1>2. nreq = <<>> /\ nrep = <<>> /\ nspc \notin {"act", "hold"}
    BY <1>1 DEF NotifyInv, NotifyTurns
  <1>3. nreq' = <<>> \/ \E m \in {"RequestNext", "Done"} : nreq' = <<m>>
    BY <1>2 DEF NotifyRequest, NotifyFinish, Deliver
  <1>4. NotifyTypeOK'
    <2>1. \A m \in {"RequestNext", "Done"} : <<m>> \in Seq({"RequestNext", "Done"})
      OBVIOUS
    <2>2. nreq' \in Seq({"RequestNext", "Done"})
      BY <1>3, <2>1, EmptyChannel, Zenon
    <2> QED
      BY <1>1, <2>2 DEF NotifyInv, NotifyTypeOK
  <1>5. AsksWhileShort'
    BY <1>1 DEF AsksWhileShort
  <1>6. NotifyTurns'
    <2>1. Len(nreq') + Len(nrep') <= 1
      BY <1>1, <1>2, <1>3, AtMostOne
    <2> QED
      BY <1>1, <1>2, <2>1 DEF NotifyInv, NotifyTurns
  <1>7. NotifiedInOrder'
    BY <1>1, NotifiedSame DEF NotifyInv, NotifiedInOrder
  <1>8. SentAsListed'
    <2>1. Rank(action)' = Rank(action) /\ Rank(Behind)' = Rank(Behind)
      BY <1>1, RankSame DEF Behind
    <2>2. notifications_sent = Len(notified)
      BY <1>1 DEF NotifyInv, NotifiedInOrder
    <2> QED
      BY <1>1, <1>2, <2>1, <2>2 DEF NotifyInv, SentAsListed
  <1> QED
    BY <1>4, <1>5, <1>6, <1>7, <1>8 DEF NotifyInv

\* An event is the notification whose turn it is.
LEMMA NotifyTakes ==
    ASSUME NotifyInv, NotifyEvent
    PROVE  NotifyInv'
  <1>1. /\ UNCHANGED <<actions, action, nspc, owed, notifications_sent, closed, strict, nreq>>
        /\ ncpc = "waiting" /\ ncpc' = "idle"
        /\ nrep # <<>> /\ Head(nrep) \in Notifications
        /\ nrep' = Tail(nrep)
        /\ events_received' = events_received + 1
        /\ kind_count' = [kind_count EXCEPT ![Head(nrep)] = @ + 1]
        /\ notified' = Append(notified, Head(nrep))
    BY DEF NotifyEvent, notifyServer, connVars
  <1>2. /\ nreq = <<>> /\ nrep' = <<>>
        /\ actions \in Seq(Actions) /\ Len(actions) \in Nat /\ action \in 0..Len(actions)
        /\ Len(notified) \in Nat /\ notifications_sent \in Nat /\ notified \in Seq(Notifications)
        /\ NotifyCount \in Nat /\ events_received \in Nat
    BY <1>1, NotifyFacts, NotifyAssumption DEF NotifyInv, NotifyTypeOK
  <1>3. nspc \notin {"act", "hold", "failed"}
    BY <1>1 DEF NotifyInv, NotifyTurns
  <1>4. /\ Head(nrep) = actions[action]
        /\ notifications_sent = Len(notified) + 1
        /\ notifications_sent = Rank(action)
    BY <1>1, <1>3 DEF NotifyInv, SentAsListed, Behind
  <1>5. /\ Len(notified') = Len(notified) + 1 /\ notified' \in Seq(Notifications)
        /\ notified'[Len(notified) + 1] = Head(nrep)
        /\ \A j \in 1..Len(notified) : notified'[j] = notified[j]
    BY <1>1, <1>2
  <1>6. NotifyTypeOK'
    <2>1. events_received' \in 0..NotifyCount
      BY <1>1, <1>2 DEF NotifyInv, AsksWhileShort
    <2>2. kind_count' \in [Notifications -> Nat]
      BY <1>1 DEF NotifyInv, NotifyTypeOK
    <2> QED
      BY <1>1, <1>2, <1>5, <2>1, <2>2, EmptyChannel DEF NotifyInv, NotifyTypeOK
  <1>7. AsksWhileShort'
    BY <1>1 DEF AsksWhileShort
  <1>8. NotifyTurns'
    BY <1>1, <1>2, <1>3 DEF NotifyTurns
  <1>9. NotifiedInOrder'
    <2>1. \A i : Rank(i)' = Rank(i)
      BY <1>1, RankSame
    <2>2. Len(notified') <= Rank(Len(actions))'
      <3>1. Rank(action) <= Rank(Len(actions))
        BY <1>2, RankGrows
      <3> QED
        BY <1>1, <1>4, <1>5, <2>1, <3>1
    <2>3. ASSUME NEW i \in 1..Len(actions), actions[i] \in Notifications,
                 Rank(i) <= Len(notified')
          PROVE  notified'[Rank(i)] = actions[i]
      <3>1. i \in Nat /\ i - 1 \in Nat /\ i - 1 < i /\ action \in Nat
        BY <1>2
      <3>0. Rank(i) \in Nat /\ Rank(i - 1) \in Nat /\ Rank(action) \in Nat
        BY <3>1, RankType
      <3>2. Rank(i) >= 1
        <4>1. Rank(i - 1) < Rank(i)
          BY <2>3, <3>1, RankGrows
        <4> QED
          BY <3>0, <4>1
      <3>3. CASE Rank(i) <= Len(notified)
        BY <1>2, <1>5, <2>3, <3>0, <3>2, <3>3, SMTT(30) DEF NotifyInv, NotifiedInOrder
      <3>4. CASE Rank(i) > Len(notified)
        <4>1. Rank(i) = Rank(action) /\ Rank(i) = Len(notified) + 1
          BY <1>2, <1>4, <1>5, <2>3, <3>0, <3>4
        <4>2. i = action
          <5>1. actions[action] \in Notifications
            BY <1>1, <1>4
          <5>2. i < action => Rank(i) < Rank(action)
            BY <3>1, <5>1, RankGrows, Zenon
          <5>3. action < i => Rank(action) < Rank(i)
            BY <2>3, <3>1, RankGrows, Zenon
          <5> QED
            BY <3>0, <3>1, <4>1, <5>2, <5>3
        <4> QED
          BY <1>4, <1>5, <4>1, <4>2
      <3> QED
        BY <1>2, <3>0, <3>3, <3>4
    <2>4. ASSUME NEW k \in Notifications
          PROVE  kind_count'[k] = Cardinality({j \in 1..Len(notified') : notified'[j] = k})
      <3>1. /\ Cardinality({j \in 1..Len(notified) : notified[j] = k}) \in Nat
            /\ Cardinality({j \in 1..Len(notified') : notified'[j] = k}) =
                 Cardinality({j \in 1..Len(notified) : notified[j] = k})
                   + (IF Head(nrep) = k THEN 1 ELSE 0)
        <4> DEFINE s == Append(notified, Head(nrep))
        <4>1. /\ Cardinality({j \in 1..Len(notified) : notified[j] = k}) \in Nat
              /\ Cardinality({j \in 1..Len(s) : s[j] = k}) =
                   Cardinality({j \in 1..Len(notified) : notified[j] = k})
                     + (IF Head(nrep) = k THEN 1 ELSE 0)
          BY <1>1, <1>2, KindCountStep
        <4>2. notified' = s
          BY <1>1
        <4> HIDE DEF s
        <4> QED
          BY <4>1, <4>2
      <3>2. kind_count[k] = Cardinality({j \in 1..Len(notified) : notified[j] = k})
        BY DEF NotifyInv, NotifiedInOrder
      <3>3. kind_count'[k] = kind_count[k] + (IF Head(nrep) = k THEN 1 ELSE 0)
        BY <1>1, <3>1, <3>2 DEF NotifyInv, NotifyTypeOK
      <3> QED
        BY <3>1, <3>2, <3>3
    <2>5. events_received' = Len(notified')
      BY <1>1, <1>5 DEF NotifyInv, NotifiedInOrder
    <2>6. Len(notified') <= notifications_sent' /\ Len(notified') = notifications_sent'
      BY <1>1, <1>2, <1>4, <1>5
    <2>7. \A i \in 1..Len(actions') : actions'[i] \in Notifications /\ Rank(i)' <= Len(notified')
                => notified'[Rank(i)'] = actions'[i]
      BY <1>1, <2>1, <2>3
    <2> QED
      BY <2>2, <2>4, <2>5, <2>6, <2>7 DEF NotifiedInOrder
  <1>10. SentAsListed'
    <2>1. Rank(action)' = Rank(action) /\ Rank(Behind)' = Rank(Behind)
      BY <1>1, RankSame DEF Behind
    <2> QED
      BY <1>1, <1>2, <2>1 DEF NotifyInv, SentAsListed
  <1> QED
    BY <1>6, <1>7, <1>8, <1>9, <1>10 DEF NotifyInv

\* The server takes a request and, with it, the next action.
LEMMA NotifyReceives ==
    ASSUME NotifyInv, NotifyReceive
    PROVE  NotifyInv'
  <1>1. /\ UNCHANGED <<actions, notifications_sent, closed, strict, nrep,
                       ncpc, events_received, kind_count, notified>>
        /\ nspc = "recv" /\ nreq # <<>> /\ nreq' = Tail(nreq)
        /\ owed' \in BOOLEAN
        /\ \/ nspc' = "done" /\ action' = action
           \/ nspc' = "act" /\ action' = action + 1 /\ action < Len(actions)
    BY DEF NotifyReceive, HasAction, notifyClient, connVars
  <1>2. nreq' = <<>> /\ nrep = <<>> /\ ncpc # "idle"
    BY <1>1, NotifyFacts DEF NotifyInv, NotifyTurns
  <1>3. /\ action \in Nat /\ Len(actions) \in Nat
        /\ action \in 0..Len(actions) /\ notifications_sent \in 0..action
    BY NotifyFacts DEF NotifyInv, NotifyTypeOK
  <1>4. NotifyTypeOK'
    BY <1>1, <1>2, <1>3, EmptyChannel DEF NotifyInv, NotifyTypeOK
  <1>5. AsksWhileShort'
    BY <1>1 DEF NotifyInv, AsksWhileShort
  <1>6. NotifyTurns'
    <2>1. Len(nreq') + Len(nrep') <= 1
      BY <1>1, <1>2, AtMostOne
    <2> QED
      BY <1>1, <1>2, <2>1 DEF NotifyTurns
  <1>7. NotifiedInOrder'
    BY <1>1, NotifiedSame DEF NotifyInv, NotifiedInOrder
  <1>8. SentAsListed'
    <2>1. \A i : Rank(i)' = Rank(i)
      BY <1>1, RankSame
    <2>2. Behind = action /\ Behind' = action
      BY <1>1, <1>3 DEF Behind
    <2>3. notifications_sent = Rank(action) /\ Rank(Behind)' = Rank(action)
      BY <1>1, <2>1, <2>2 DEF NotifyInv, SentAsListed
    <2>4. Rank(action) <= Rank(action')
      <3>1. action' \in Nat /\ action <= action'
        BY <1>1, <1>3
      <3> QED
        BY <1>3, <3>1, RankGrows
    <2>5. Rank(action)' = Rank(action')
      BY <1>1 DEF Rank
    <2>6. ncpc = "waiting" => notifications_sent = Len(notified)
      BY <1>1 DEF NotifyInv, SentAsListed
    <2> QED
      BY <1>1, <1>2, <2>3, <2>4, <2>5, <2>6 DEF SentAsListed
  <1> QED
    BY <1>4, <1>5, <1>6, <1>7, <1>8 DEF NotifyInv

\* The server sends what the action in hand says.
LEMMA NotifySends ==
    ASSUME NotifyInv, NotifySend
    PROVE  NotifyInv'
  <1>1. /\ UNCHANGED <<actions, action, closed, strict, nreq,
                       ncpc, events_received, kind_count, notified>>
        /\ nspc = "act" /\ nspc' = "recv"
        /\ actions[action] \in Notifications \cup {"RawBytes"}
        /\ nrep' = Deliver(nrep, actions[action])
        /\ \/ /\ actions[action] \in Notifications
              /\ notifications_sent' = notifications_sent + 1
              /\ owed' = FALSE
           \/ /\ actions[action] = "RawBytes"
              /\ notifications_sent' = notifications_sent /\ owed' = owed
    BY DEF NotifySend, notifyClient, connVars
  <1>2. nreq = <<>> /\ nrep = <<>> /\ ncpc # "idle"
    BY <1>1 DEF NotifyInv, NotifyTurns
  <1>3. /\ action \in Nat /\ action - 1 \in Nat /\ notifications_sent \in Nat
        /\ Len(notified) \in Nat
    BY <1>1, NotifyFacts DEF NotifyInv
  <1>4. /\ notifications_sent = Rank(action - 1)
        /\ Rank(action - 1) <= action - 1
        /\ Rank(action) = Rank(action - 1)
                            + (IF actions[action] \in Notifications THEN 1 ELSE 0)
    <2>1. notifications_sent = Rank(action - 1)
      BY <1>1 DEF NotifyInv, SentAsListed, Behind
    <2>2. Rank(action - 1) <= action - 1
      BY <1>3, RankType
    <2>3. Rank((action - 1) + 1) = Rank(action - 1)
            + (IF actions[(action - 1) + 1] \in Notifications THEN 1 ELSE 0)
      BY <1>3, RankFacts, Zenon
    <2>4. (action - 1) + 1 = action
      BY <1>3
    <2> QED
      BY <2>1, <2>2, <2>3, <2>4
  <1>5. notifications_sent' = Rank(action) /\ notifications_sent' \in 0..action
    <2>1. "RawBytes" \notin Notifications
      BY DEF Notifications
    <2> QED
      BY <1>1, <1>3, <1>4, <2>1
  <1>6. nrep' = <<>> \/ nrep' = <<actions[action]>>
    BY <1>1, <1>2 DEF Deliver
  <1>7. NotifyTypeOK'
    <2>1. nrep' \in Seq(Notifications \cup {"RawBytes"})
      <3>1. <<actions[action]>> \in Seq(Notifications \cup {"RawBytes"})
        BY <1>1
      <3> QED
        BY <1>6, <3>1, EmptyChannel
    <2>2. owed' \in BOOLEAN
      BY <1>1, Zenon DEF NotifyInv, NotifyTypeOK
    <2> QED
      BY <1>1, <1>5, <2>1, <2>2 DEF NotifyInv, NotifyTypeOK
  <1>8. AsksWhileShort'
    BY <1>1 DEF NotifyInv, AsksWhileShort
  <1>9. NotifyTurns'
    <2>1. Len(nreq') + Len(nrep') <= 1
      BY <1>1, <1>2, <1>6, AtMostOne
    <2> QED
      BY <1>1, <1>2, <2>1 DEF NotifyTurns
  <1>10. NotifiedInOrder'
    <2>1. Len(notified) <= notifications_sent'
      BY <1>1, <1>3 DEF NotifyInv, NotifiedInOrder
    <2> QED
      BY <1>1, <1>2, <2>1, NotifiedSame DEF NotifyInv
  <1>11. SentAsListed'
    <2>1. Rank(action)' = Rank(action) /\ Rank(Behind)' = Rank(action)
      BY <1>1, RankSame DEF Behind
    <2>2. Rank(action) \in Nat
      BY <1>3, RankType
    <2>3. ncpc = "waiting" => notifications_sent = Len(notified)
      BY <1>1 DEF NotifyInv, SentAsListed
    <2>4. nrep' # <<>> => Head(nrep') = actions[action]
      BY <1>6
    <2>5. actions[action] \in Notifications => notifications_sent' = notifications_sent + 1
      BY <1>1 DEF Notifications
    <2> QED
      BY <1>1, <1>2, <1>5, <2>1, <2>2, <2>3, <2>4, <2>5 DEF SentAsListed
  <1> QED
    BY <1>7, <1>8, <1>9, <1>10, <1>11 DEF NotifyInv

\* The server sends nothing: `wait', `disconnect', or an error.
LEMMA NotifyServerRest ==
    ASSUME NotifyInv, NotifyNoSend \/ NotifyWake \/ NotifyRecvError
    PROVE  NotifyInv'
  <1>1. /\ UNCHANGED <<actions, action, owed, notifications_sent, closed, strict,
                       nreq, nrep, ncpc, events_received, kind_count, notified>>
        /\ \/ nspc = "act" /\ nspc' = "failed"
           \/ nspc = "act" /\ nspc' \in {"done", "hold"} /\ actions[action] \notin Notifications
           \/ nspc \in {"hold", "recv"} /\ nspc' \in {"recv", "done"}
    BY DEF NotifyNoSend, NotifyWake, NotifyRecvError, notifyWire, notifyClient, connVars,
        Notifications
  <1>2. NotifyTypeOK'
    BY <1>1 DEF NotifyInv, NotifyTypeOK
  <1>3. AsksWhileShort'
    BY <1>1 DEF NotifyInv, AsksWhileShort
  <1>4. NotifyTurns'
    BY <1>1 DEF NotifyInv, NotifyTurns
  <1>5. NotifiedInOrder'
    BY <1>1, NotifiedSame DEF NotifyInv, NotifiedInOrder
  <1>6. SentAsListed'
    <2>1. Rank(action)' = Rank(action)
      BY <1>1, RankSame
    <2>2. nspc' # "failed" => notifications_sent = Rank(action)
      <3>1. CASE nspc = "act" /\ actions[action] \notin Notifications
        <4>1. action \in Nat /\ action - 1 \in Nat /\ notifications_sent = Rank(action - 1)
          BY <3>1, NotifyFacts DEF NotifyInv, SentAsListed, Behind
        <4>2. Rank((action - 1) + 1) = Rank(action - 1)
                + (IF actions[(action - 1) + 1] \in Notifications THEN 1 ELSE 0)
          BY <4>1, RankFacts, Zenon
        <4>3. (action - 1) + 1 = action /\ Rank(action - 1) \in Nat
          BY <4>1, RankType
        <4> QED
          BY <3>1, <4>1, <4>2, <4>3
      <3>2. CASE nspc \in {"hold", "recv"}
        BY <3>2 DEF NotifyInv, SentAsListed, Behind
      <3> QED
        BY <1>1, <3>1, <3>2
    <2>3. nspc' # "act" /\ Rank(Behind)' = Rank(action)
      BY <1>1, RankSame DEF Behind
    <2>4. nspc = "act" => nreq = <<>> /\ nrep = <<>>
      BY DEF NotifyInv, NotifyTurns
    <2> QED
      BY <1>1, <2>1, <2>2, <2>3, <2>4 DEF NotifyInv, SentAsListed
  <1> QED
    BY <1>2, <1>3, <1>4, <1>5, <1>6 DEF NotifyInv

\* Every step of the notify half.
LEMMA NotifyStep ==
    ASSUME NotifyInv, NotifyClientNext \/ NotifyServerNext
    PROVE  NotifyInv'
  <1>1. CASE NotifyMalformed \/ NotifyTimesOut \/ NotifyConnError
    <2>1. /\ UNCHANGED <<notifyServer, events_received, kind_count, notified, strict>>
          /\ closed' = closed /\ nreq' = nreq
          /\ nrep' = nrep \/ (nrep # <<>> /\ nrep' = Tail(nrep))
          /\ ncpc' = ncpc \/ ncpc' \in {"await_timeout", "error"}
      BY <1>1 DEF NotifyMalformed, NotifyTimesOut, NotifyConnError, notifyWire, connVars
    <2>2. nrep' \in {nrep, <<>>} /\ closed \in BOOLEAN
      BY <2>1, NotifyFacts DEF NotifyInv, NotifyTypeOK
    <2> QED
      BY <2>1, <2>2, NotifyFades
  <1> QED
    BY <1>1, NotifyAsks, NotifyTakes, NotifyReceives, NotifySends, NotifyServerRest
    DEF NotifyClientNext, NotifyServerNext

-----------------------------------------------------------------------------
(* The blocks.                                                             *)

\* The channel and the numbers of a fetch session.
LEMMA FetchFacts ==
    ASSUME FetchTypeOK, FetchTurns
    PROVE  /\ freq # <<>> => /\ Head(freq) \in Points \cup {Nil} /\ Tail(freq) = <<>>
                             /\ frep = <<>>
           /\ frep # <<>> => /\ Head(frep) \in Points \cup {Nil} /\ Tail(frep) = <<>>
                             /\ freq = <<>>
           /\ rules \in Seq(FetchRules) /\ Len(rules) \in Nat
           /\ rule_idx \in Nat \ {0} /\ rule \in Nat
           /\ fspc = "send" => rule \in 1..Len(rules) /\ rules[rule] \in FetchRules
           /\ points \in Seq(Points) /\ Len(points) \in Nat /\ Nil \notin Points
           /\ Len(fetched) \in Nat /\ blocks_served \in Nat /\ blocks_requested \in Nat
           /\ blocks_requested <= Len(points) /\ blocks_served <= blocks_requested
  <1>1. freq \in Seq(Points \cup {Nil}) /\ frep \in Seq(Points \cup {Nil})
    BY DEF FetchTypeOK
  <1>2. /\ Len(freq) \in Nat /\ Len(frep) \in Nat
        /\ Len(freq) = 0 <=> freq = <<>>
        /\ Len(frep) = 0 <=> frep = <<>>
    BY <1>1, ChannelLength
  <1>3. /\ Len(freq) <= 1 /\ Len(frep) <= 1
        /\ freq # <<>> => frep = <<>>
        /\ frep # <<>> => freq = <<>>
    BY <1>2 DEF FetchTurns
  <1>4. /\ rules \in Seq(FetchRules) /\ Len(rules) \in Nat
        /\ rule_idx \in Nat \ {0} /\ rule \in Nat
        /\ fspc = "send" => rule \in 1..Len(rules) /\ rules[rule] \in FetchRules
    BY FetchAssumption DEF FetchTypeOK
  <1>5. /\ points \in Seq(Points) /\ Len(points) \in Nat /\ Nil \notin Points
        /\ Len(fetched) \in Nat /\ blocks_served \in Nat /\ blocks_requested \in Nat
        /\ blocks_requested <= Len(points) /\ blocks_served <= blocks_requested
    BY FetchAssumption DEF FetchTypeOK
  <1> QED
    BY <1>1, <1>3, <1>4, <1>5, TakeOne

\* The rules of a script that names the blocks asked for.
LEMMA InOrderRules ==
    ASSUME FetchTypeOK, InOrder
    PROVE  /\ Len(rules) = Len(points)
           /\ \A i \in 1..Len(points) :
                /\ rules[i].on = "FetchBlock" /\ rules[i].send = "Block"
                /\ rules[i].val = points[i] /\ ~rules[i].repeatable
  <1>1. rules \in Seq(FetchRules) /\ points \in Seq(Points) /\ Len(points) \in Nat
    BY FetchAssumption DEF FetchTypeOK
  <1>2. DOMAIN rules = 1..Len(points)
    BY DEF InOrder
  <1>3. Len(rules) = Len(points)
    BY <1>1, <1>2
  <1>4. ASSUME NEW i \in 1..Len(points)
        PROVE  /\ rules[i].on = "FetchBlock" /\ rules[i].send = "Block"
               /\ rules[i].val = points[i] /\ ~rules[i].repeatable
    <2>1. rules[i] = Rule("FetchBlock", "Block", points[i], 0)
      BY Zenon DEF InOrder
    <2> QED
      BY <2>1 DEF Rule
  <1> QED
    BY <1>3, <1>4

\* Only the client's place changes, to an error, or a message is lost.
LEMMA FetchFades ==
    ASSUME FetchInv,
           UNCHANGED <<fetchServer, points, blocks_requested, fetched>>,
           freq' \in {freq, <<>>}, frep' \in {frep, <<>>},
           fcpc' = fcpc \/ (fcpc # "completed" /\ fcpc' = "error")
    PROVE  FetchInv'
  <1>1. UNCHANGED <<rules, rule_idx, rule, fspc, fowed, blocks_served>>
    BY DEF fetchServer
  <1>2. FetchTypeOK'
    BY <1>1, EmptyChannel DEF FetchInv, FetchTypeOK
  <1>3. FetchTurns'
    <2>1. Len(freq') + Len(frep') <= 1
      <3>1. /\ Len(freq) \in Nat /\ Len(frep) \in Nat /\ Len(freq) + Len(frep) <= 1
        BY DEF FetchInv, FetchTypeOK, FetchTurns
      <3>2. /\ Len(freq') \in {Len(freq), 0}
            /\ Len(frep') \in {Len(frep), 0}
        OBVIOUS
      <3> QED
        BY <3>1, <3>2
    <2> QED
      BY <1>1, <2>1 DEF FetchInv, FetchTurns
  <1>4. FetchAccount'
    BY <1>1 DEF FetchInv, FetchAccount, Unserved
  <1>5. InOrder' => RulesInStep'
    BY <1>1 DEF FetchInv, InOrder, RulesInStep
  <1> QED
    BY <1>2, <1>3, <1>4, <1>5 DEF FetchInv

\* The client's requests.
LEMMA FetchAsks ==
    ASSUME FetchInv, FetchRequest \/ FetchFinish
    PROVE  FetchInv'
  <1>1. /\ UNCHANGED <<rules, rule_idx, rule, fspc, fowed, blocks_served, frep, points, fetched>>
        /\ fcpc = "idle"
    BY DEF FetchRequest, FetchFinish, fetchServer
  <1>2. freq = <<>> /\ frep = <<>> /\ fspc \notin {"send", "hold"}
    BY <1>1 DEF FetchInv, FetchTurns
  <1>3. /\ blocks_served = Len(fetched) /\ blocks_requested = Len(fetched)
        /\ Len(fetched) \in Nat /\ Len(points) \in Nat /\ points \in Seq(Points)
        /\ blocks_requested <= Len(points) /\ Nil \notin Points
    BY <1>1, FetchFacts DEF FetchInv, FetchAccount
  <1>4. \/ /\ fcpc' = "waiting" /\ blocks_requested' = blocks_requested + 1
           /\ blocks_requested < Len(points)
           /\ freq' = <<>> \/ freq' = <<points[blocks_requested']>>
        \/ /\ fcpc' = "completed" /\ blocks_requested' = blocks_requested
           /\ blocks_requested = Len(points)
           /\ freq' = <<>> \/ freq' = <<Nil>>
    BY <1>2 DEF FetchRequest, FetchFinish, Deliver
  <1>5. blocks_requested' \in 0..Len(points) /\ blocks_served <= blocks_requested'
    BY <1>3, <1>4
  <1>6. \/ freq' = <<>>
        \/ /\ fcpc' = "waiting" /\ freq' = <<points[blocks_requested']>>
           /\ Head(freq') = points[blocks_requested'] /\ Head(freq') \in Points
        \/ fcpc' = "completed" /\ freq' = <<Nil>> /\ Head(freq') = Nil
    <2>1. fcpc' = "waiting" => points[blocks_requested'] \in Points
      BY <1>3, <1>4
    <2> QED
      BY <1>4, <2>1
  <1>7. FetchTypeOK'
    <2>1. freq' \in Seq(Points \cup {Nil})
      <3>1. <<Nil>> \in Seq(Points \cup {Nil})
        OBVIOUS
      <3>2. points[blocks_requested'] \in Points =>
                <<points[blocks_requested']>> \in Seq(Points \cup {Nil})
        OBVIOUS
      <3> QED
        BY <1>6, <3>1, <3>2, EmptyChannel
    <2>2. blocks_served' \in 0..blocks_requested'
      BY <1>1, <1>3, <1>5
    <2> QED
      BY <1>1, <1>4, <1>5, <2>1, <2>2 DEF FetchInv, FetchTypeOK
  <1>8. FetchTurns'
    <2>1. Len(freq') + Len(frep') <= 1
      BY <1>1, <1>2, <1>6, AtMostOne
    <2> QED
      BY <1>1, <1>2, <1>4, <2>1 DEF FetchTurns
  <1>9. FetchAccount'
    BY <1>1, <1>2, <1>3, <1>4, <1>6 DEF FetchAccount, Unserved
  <1>10. InOrder' => RulesInStep'
    <2>1. InOrder' => InOrder /\ RulesInStep
      BY <1>1 DEF FetchInv, InOrder
    <2> QED
      BY <1>1, <1>2, <1>3, <1>4, <1>6, <2>1 DEF RulesInStep
  <1> QED
    BY <1>7, <1>8, <1>9, <1>10 DEF FetchInv

\* A block arrives for the request that is open.
LEMMA FetchTakes ==
    ASSUME FetchInv, FetchBlock
    PROVE  FetchInv'
  <1>1. /\ UNCHANGED <<rules, rule_idx, rule, fspc, fowed, blocks_served, freq, points,
                       blocks_requested>>
        /\ fcpc = "waiting" /\ fcpc' = "idle"
        /\ frep # <<>> /\ Head(frep) # Nil /\ frep' = Tail(frep)
        /\ fetched' = Append(fetched, Head(frep))
    BY DEF FetchBlock, fetchServer
  <1>2. /\ freq = <<>> /\ frep' = <<>> /\ Head(frep) \in Points
        /\ Len(fetched) \in Nat /\ Len(points) \in Nat
        /\ blocks_requested \in Nat /\ blocks_requested <= Len(points)
    BY <1>1, FetchFacts DEF FetchInv
  <1>3. fspc \notin {"send", "hold"}
    BY <1>1 DEF FetchInv, FetchTurns
  <1>4. blocks_requested = Len(fetched) + 1 /\ blocks_served = blocks_requested
    BY <1>1 DEF FetchInv, FetchAccount
  <1>5. /\ fetched' \in Seq(Points) /\ Len(fetched') = Len(fetched) + 1
        /\ fetched'[Len(fetched) + 1] = Head(frep)
        /\ \A i \in 1..Len(fetched) : fetched'[i] = fetched[i]
    BY <1>1, <1>2 DEF FetchInv, FetchTypeOK
  <1>6. FetchTypeOK'
    BY <1>1, <1>2, <1>5, EmptyChannel DEF FetchInv, FetchTypeOK
  <1>7. FetchTurns'
    <2>1. Len(freq') + Len(frep') <= 1
      BY <1>1, <1>2, AtMostOne
    <2> QED
      BY <1>1, <1>2, <1>3, <2>1 DEF FetchTurns
  <1>8. FetchAccount'
    BY <1>1, <1>2, <1>3, <1>4, <1>5 DEF FetchAccount, Unserved
  <1>9. InOrder' => RulesInStep'
    <2>1. InOrder' => InOrder /\ RulesInStep
      BY <1>1 DEF FetchInv, InOrder
    <2>2. ASSUME RulesInStep
          PROVE  RulesInStep'
      <3>1. Head(frep) = points[blocks_requested] /\ rule_idx = blocks_requested + 1
        BY <1>1, <2>2 DEF RulesInStep
      <3>2. \A i \in 1..Len(fetched') : fetched'[i] = points'[i]
        BY <1>1, <1>2, <1>4, <1>5, <2>2, <3>1 DEF RulesInStep
      <3>3. Len(fetched') <= Len(points')
        BY <1>1, <1>2, <1>4, <1>5
      <3> QED
        BY <1>1, <1>2, <1>3, <3>1, <3>2, <3>3 DEF RulesInStep
    <2> QED
      BY <2>1, <2>2
  <1> QED
    BY <1>6, <1>7, <1>8, <1>9 DEF FetchInv

\* The server takes a request and the first rule that answers it.
LEMMA FetchReceives ==
    ASSUME FetchInv, FetchReceive
    PROVE  FetchInv'
  <1>1. /\ UNCHANGED <<frep, rules, blocks_served, points, fcpc, blocks_requested, fetched>>
        /\ fspc = "recv" /\ freq # <<>> /\ freq' = Tail(freq)
        /\ \/ fspc' \in {"done", "failed"} /\ UNCHANGED <<rule, rule_idx>>
           \/ /\ fspc' = "send" /\ Head(freq) # Nil
              /\ Candidates(rules, rule_idx, "FetchBlock") # {}
              /\ rule' = RulePos(rules, rule_idx, "FetchBlock")
              /\ rule_idx' = RuleIdxAfter(rules, rule_idx, rule')
    BY DEF FetchReceive, fetchClient
  <1>2. /\ freq' = <<>> /\ frep = <<>> /\ fcpc # "idle"
        /\ rules \in Seq(FetchRules) /\ Len(rules) \in Nat
        /\ rule_idx \in Nat \ {0} /\ rule_idx \in 1..(Len(rules) + 1)
        /\ Len(points) \in Nat /\ blocks_requested \in Nat /\ blocks_requested <= Len(points)
    BY <1>1, FetchFacts DEF FetchInv, FetchTurns, FetchTypeOK
  <1>3. fowed' \in BOOLEAN
    BY DEF FetchReceive
  <1>4. fspc' = "send" =>
          /\ rule' \in Candidates(rules, rule_idx, "FetchBlock")
          /\ rule' \in 1..Len(rules) /\ rule_idx' \in 1..(Len(rules) + 1)
          /\ \A q \in Candidates(rules, rule_idx, "FetchBlock") : rule' <= q
    <2>1. SUFFICES ASSUME fspc' = "send"
                   PROVE  /\ rule' \in Candidates(rules, rule_idx, "FetchBlock")
                          /\ rule' \in 1..Len(rules) /\ rule_idx' \in 1..(Len(rules) + 1)
                          /\ \A q \in Candidates(rules, rule_idx, "FetchBlock") : rule' <= q
      OBVIOUS
    <2>2. /\ rule' \in Candidates(rules, rule_idx, "FetchBlock")
          /\ rule' \in 1..Len(rules)
          /\ \A q \in Candidates(rules, rule_idx, "FetchBlock") : rule' <= q
      BY <1>1, <1>2, <2>1, RulePosIsFirst
    <2>3. rule_idx' = rule_idx \/ rule_idx' = rule' + 1
      BY <1>1, <2>1 DEF RuleIdxAfter
    <2>4. rule_idx' \in 1..(Len(rules) + 1)
      BY <1>2, <2>2, <2>3
    <2> QED
      BY <2>2, <2>4
  <1>5. FetchTypeOK'
    BY <1>1, <1>2, <1>3, <1>4, EmptyChannel DEF FetchInv, FetchTypeOK
  <1>6. FetchTurns'
    <2>1. Len(freq') + Len(frep') <= 1
      BY <1>1, <1>2, AtMostOne
    <2> QED
      BY <1>1, <1>2, <2>1 DEF FetchTurns
  <1>7. FetchAccount'
    BY <1>1, <1>2 DEF FetchInv, FetchAccount, Unserved
  <1>8. InOrder' => RulesInStep'
    <2>1. SUFFICES ASSUME InOrder, RulesInStep
                   PROVE  RulesInStep'
      BY <1>1 DEF FetchInv, InOrder
    <2>2. CASE fspc' = "send"
      <3>1. rule_idx = blocks_requested /\ Head(freq) # Nil
        BY <1>1, <2>1, <2>2 DEF RulesInStep
      <3>2. rule_idx \in 1..Len(points) /\ Len(rules) = Len(points)
        BY <1>2, <2>1, <3>1, InOrderRules DEF FetchInv
      <3>3. rules[rule_idx].on = "FetchBlock"
        BY <2>1, <3>2, InOrderRules DEF FetchInv
      <3>4. rule_idx \in Candidates(rules, rule_idx, "FetchBlock")
        BY <1>2, <3>2, <3>3 DEF Candidates, MatchesOn
      <3>5. rule' = rule_idx
        <4>1. rule' <= rule_idx /\ rule' \in rule_idx..Len(rules)
          BY <1>4, <2>2, <3>4 DEF Candidates
        <4> QED
          BY <1>2, <4>1
      <3>6. rule_idx' = rule' + 1
        BY <1>1, <2>1, <2>2, <3>2, <3>5, InOrderRules DEF FetchInv, RuleIdxAfter
      <3> QED
        BY <1>1, <1>2, <2>1, <3>1, <3>5, <3>6 DEF RulesInStep
    <2>3. CASE fspc' # "send"
      BY <1>1, <1>2, <2>1, <2>3 DEF RulesInStep
    <2> QED
      BY <2>2, <2>3
  <1> QED
    BY <1>5, <1>6, <1>7, <1>8 DEF FetchInv

\* The server sends what the rule in hand says.
LEMMA FetchReplies ==
    ASSUME FetchInv, FetchSend
    PROVE  FetchInv'
  <1>1. /\ UNCHANGED <<freq, rules, rule_idx, rule, points, fcpc, blocks_requested, fetched>>
        /\ fspc = "send" /\ fspc' = "recv"
        /\ frep' = Deliver(frep, rules[rule].val)
        /\ \/ /\ rules[rule].send = "Block"
              /\ blocks_served' = blocks_served + 1 /\ fowed' = FALSE
           \/ /\ rules[rule].send = "RawBytes"
              /\ blocks_served' = blocks_served /\ fowed' = fowed
    BY DEF FetchSend, fetchClient
  <1>2. /\ freq = <<>> /\ frep = <<>> /\ fcpc # "idle"
        /\ rule \in 1..Len(rules) /\ rules[rule] \in FetchRules
        /\ Len(points) \in Nat /\ blocks_requested \in Nat /\ blocks_served \in Nat
        /\ Len(fetched) \in Nat /\ blocks_requested <= Len(points)
    BY <1>1, FetchFacts DEF FetchInv, FetchTurns
  <1>3. /\ rules[rule].val \in Points \cup {Nil}
        /\ rules[rule].send = "Block" <=> rules[rule].val # Nil
    BY <1>2 DEF FetchRules
  <1>4. blocks_served < blocks_requested
    BY <1>1 DEF FetchInv, FetchAccount, Unserved
  <1>5. frep' = <<>> \/ (frep' = <<rules[rule].val>> /\ Head(frep') = rules[rule].val)
    BY <1>1, <1>2 DEF Deliver
  <1>6. FetchTypeOK'
    <2>1. frep' \in Seq(Points \cup {Nil})
      <3>1. <<rules[rule].val>> \in Seq(Points \cup {Nil})
        BY <1>3
      <3> QED
        BY <1>5, <3>1, EmptyChannel
    <2>2. blocks_served' \in 0..blocks_requested'
      BY <1>1, <1>2, <1>4
    <2>3. fowed' \in BOOLEAN
      BY <1>1, Zenon DEF FetchInv, FetchTypeOK
    <2> QED
      BY <1>1, <2>1, <2>2, <2>3 DEF FetchInv, FetchTypeOK
  <1>7. FetchTurns'
    <2>1. Len(freq') + Len(frep') <= 1
      BY <1>1, <1>2, <1>5, AtMostOne
    <2> QED
      BY <1>1, <1>2, <2>1 DEF FetchTurns
  <1>8. FetchAccount'
    <2>1. fcpc = "waiting" => blocks_requested = Len(fetched) + 1 /\ blocks_served = Len(fetched)
      BY <1>1 DEF FetchInv, FetchAccount, Unserved
    <2>2. frep' # <<>> /\ Head(frep') # Nil => blocks_served' = blocks_served + 1
      BY <1>1, <1>3, <1>5
    <2> QED
      BY <1>1, <1>2, <2>1, <2>2 DEF FetchInv, FetchAccount, Unserved
  <1>9. InOrder' => RulesInStep'
    <2>1. SUFFICES ASSUME InOrder, RulesInStep
                   PROVE  RulesInStep'
      BY <1>1 DEF FetchInv, InOrder
    <2>2. rule = blocks_requested /\ rule_idx = blocks_requested + 1
      BY <1>1, <2>1 DEF RulesInStep
    <2>3. rules[rule].val = points[blocks_requested]
      BY <1>2, <2>1, <2>2, InOrderRules DEF FetchInv
    <2> QED
      BY <1>1, <1>2, <1>5, <2>1, <2>2, <2>3 DEF RulesInStep
  <1> QED
    BY <1>6, <1>7, <1>8, <1>9 DEF FetchInv

\* The server sends nothing: `wait', `disconnect', or an error.
LEMMA FetchServerRest ==
    ASSUME FetchInv, FetchNoSend \/ FetchWake \/ FetchRecvError
    PROVE  FetchInv'
  <1>1. /\ UNCHANGED <<freq, frep, rules, rule_idx, rule, fowed, blocks_served, points, fcpc,
                       blocks_requested, fetched>>
        /\ fspc' \in {"recv", "hold", "done", "failed"}
        /\ fspc' = "hold" => fspc = "send"
    BY DEF FetchNoSend, FetchWake, FetchRecvError, fetchWire, fetchClient
  <1>2. FetchTypeOK'
    BY <1>1 DEF FetchInv, FetchTypeOK
  <1>3. FetchTurns'
    BY <1>1 DEF FetchInv, FetchTurns
  <1>4. FetchAccount'
    BY <1>1 DEF FetchInv, FetchAccount, Unserved
  <1>5. InOrder' => RulesInStep'
    BY <1>1 DEF FetchInv, InOrder, RulesInStep
  <1> QED
    BY <1>2, <1>3, <1>4, <1>5 DEF FetchInv

\* The connection is down before the next request: it is counted, not sent.
LEMMA FetchRefused ==
    ASSUME FetchInv, FetchConnError, fcpc = "idle"
    PROVE  FetchInv'
  <1>1. /\ UNCHANGED <<freq, frep, rules, rule_idx, rule, fspc, fowed, blocks_served, points,
                       fetched>>
        /\ fcpc' = "error" /\ blocks_requested' = blocks_requested + 1
        /\ blocks_requested < Len(points)
    BY DEF FetchConnError, fetchWire, fetchServer
  <1>2. /\ freq = <<>> /\ frep = <<>> /\ fspc \notin {"send", "hold"}
        /\ Len(points) \in Nat /\ blocks_requested \in Nat /\ blocks_served \in Nat
        /\ blocks_served <= blocks_requested
    BY FetchFacts DEF FetchInv, FetchTurns
  <1>3. FetchTypeOK'
    BY <1>1, <1>2 DEF FetchInv, FetchTypeOK
  <1>4. FetchTurns'
    BY <1>1 DEF FetchInv, FetchTurns
  <1>5. FetchAccount'
    BY <1>1, <1>2 DEF FetchAccount, Unserved
  <1>6. InOrder' => RulesInStep'
    BY <1>1, <1>2 DEF FetchInv, InOrder, RulesInStep
  <1> QED
    BY <1>3, <1>4, <1>5, <1>6 DEF FetchInv

\* Every step of the fetch half.
LEMMA FetchStep ==
    ASSUME FetchInv, FetchClientNext \/ FetchServerNext
    PROVE  FetchInv'
  <1>1. CASE FetchMalformed \/ (FetchConnError /\ fcpc # "idle")
    <2>1. /\ UNCHANGED <<fetchServer, points, blocks_requested, fetched>>
          /\ freq' = freq
          /\ frep' = frep \/ (frep # <<>> /\ frep' = Tail(frep))
          /\ fcpc' = fcpc \/ (fcpc # "completed" /\ fcpc' = "error")
      BY <1>1 DEF FetchMalformed, FetchConnError, fetchWire
    <2>2. frep' \in {frep, <<>>}
      BY <2>1, FetchFacts DEF FetchInv
    <2> QED
      BY <2>1, <2>2, FetchFades
  <1> QED
    BY <1>1, FetchAsks, FetchTakes, FetchReceives, FetchReplies, FetchServerRest, FetchRefused
    DEF FetchClientNext, FetchServerNext

-----------------------------------------------------------------------------
(* The session.                                                            *)

\* Every step of a session preserves the invariant.
LEMMA LeiosStep ==
    ASSUME LeiosInv, [Next]_vars
    PROVE  LeiosInv'
  <1>1. NotifyInv /\ FetchInv /\ closed \in BOOLEAN
    BY DEF LeiosInv, NotifyInv, NotifyTypeOK
  <1>2. ASSUME UNCHANGED notifyVars, closed' \in BOOLEAN, strict' = strict
        PROVE  NotifyInv'
    BY <1>1, <1>2, NotifyFades
    DEF notifyVars, notifyWire, notifyServer, notifyClient
  <1>3. ASSUME UNCHANGED fetchVars
        PROVE  FetchInv'
    BY <1>1, <1>3, FetchFades DEF fetchVars, fetchWire, fetchServer, fetchClient
  <1>4. CASE (NotifyClientNext \/ NotifyServerNext) /\ UNCHANGED fetchVars
    BY <1>1, <1>3, <1>4, NotifyStep DEF LeiosInv
  <1>5. CASE (FetchClientNext \/ FetchServerNext) /\ UNCHANGED notifyVars
    <2>1. closed' = closed /\ strict' = strict
      BY <1>5 DEF FetchClientNext, FetchServerNext, FetchRequest, FetchBlock, FetchMalformed,
          FetchConnError, FetchFinish, FetchReceive, FetchRecvError, FetchSend, FetchNoSend,
          FetchWake, connVars
    <2> QED
      BY <1>1, <1>2, <1>5, <2>1, FetchStep DEF LeiosInv
  <1>6. CASE Close
    <2>1. NotifyInv'
      BY <1>1, <1>6, NotifyFades DEF Close, notifyClient
    <2>2. FetchInv'
      BY <1>1, <1>6, FetchFades DEF Close, fetchClient
    <2> QED
      BY <2>1, <2>2 DEF LeiosInv
  <1>7. CASE UNCHANGED vars
    BY <1>1, <1>2, <1>3, <1>7 DEF LeiosInv, vars, connVars
  <1> QED
    BY <1>4, <1>5, <1>6, <1>7 DEF Next, ClientNext, ServerNext

\* A session starts with it.
LEMMA LeiosStart == Init => LeiosInv
  <1> SUFFICES ASSUME Init
               PROVE  LeiosInv
    OBVIOUS
  <1>1. /\ actions \in Seq(Actions) /\ Len(actions) \in Nat /\ action = 0
        /\ notifications_sent = 0 /\ notified = <<>> /\ nspc = "recv" /\ ncpc = "idle"
        /\ nreq = <<>> /\ nrep = <<>> /\ events_received = 0
        /\ kind_count = [k \in Notifications |-> 0]
    BY NotifyAssumption DEF Init, NotifyInit
  <1>2. NotifyTypeOK
    <2>1. closed \in BOOLEAN /\ strict \in BOOLEAN /\ owed \in BOOLEAN
      BY Zenon DEF Init, NotifyInit
    <2> QED
      BY <1>1, <2>1, NotifyAssumption DEF Init, NotifyInit, NotifyTypeOK
  <1>3. NotifiedInOrder
    <2>1. \A k \in Notifications : Cardinality({j \in 1..Len(notified) : notified[j] = k}) = 0
      <3>1. \A k \in Notifications : {j \in 1..Len(notified) : notified[j] = k} = {}
        BY <1>1
      <3> QED
        BY <3>1, FS_EmptySet
    <2>2. ASSUME NEW i \in 1..Len(actions), actions[i] \in Notifications
          PROVE  Rank(i) > 0
      <3>1. i \in Nat /\ 0 < i
        BY <1>1
      <3>2. Rank(0) < Rank(i) /\ Rank(i) \in Nat /\ Rank(0) = 0
        BY <2>2, <3>1, RankGrows, RankType, RankFacts
      <3> QED
        BY <3>2
    <2>3. Rank(Len(actions)) \in Nat /\ \A i \in 1..Len(actions) : Rank(i) \in Nat
      BY <1>1, RankType
    <2> QED
      BY <1>1, <2>1, <2>2, <2>3 DEF NotifiedInOrder
  <1>4. SentAsListed
    BY <1>1, RankFacts DEF SentAsListed, Behind
  <1>5. AsksWhileShort /\ NotifyTurns
    BY <1>1 DEF AsksWhileShort, NotifyTurns
  <1>6. FetchTypeOK
    <2>1. rules \in FetchScripts /\ Len(rules) \in Nat /\ points \in FetchLists
          /\ Len(points) \in Nat
      BY FetchAssumption DEF Init, FetchInit
    <2>2. fowed \in BOOLEAN
      BY Zenon DEF Init, FetchInit
    <2> QED
      BY <2>1, <2>2 DEF Init, FetchInit, FetchTypeOK
  <1>7. FetchTurns /\ FetchAccount /\ RulesInStep
    <2>1. Len(points) \in Nat
      BY <1>6, FetchAssumption DEF FetchTypeOK
    <2> QED
      BY <2>1 DEF Init, FetchInit, FetchTurns, FetchAccount, RulesInStep, Unserved
  <1> QED
    BY <1>2, <1>3, <1>4, <1>5, <1>6, <1>7 DEF LeiosInv, NotifyInv, FetchInv

\* The inductive invariant holds throughout.
LEMMA LeiosInvariant == Spec => []LeiosInv
  <1>1. LeiosInv /\ [Next]_vars => LeiosInv'
    BY LeiosStep
  <1> QED
    BY LeiosStart, <1>1, PTL DEF Spec

(***************************************************************************)
(* Every reachable state is well typed: a server never executes an action  *)
(* or a rule it does not have, never counts more notifications than        *)
(* actions, and never serves more blocks than were requested.              *)
(***************************************************************************)
THEOREM LeiosTypeCorrect == Spec => []TypeOK
  <1>1. LeiosInv => TypeOK
    BY DEF LeiosInv, NotifyInv, FetchInv, TypeOK
  <1> QED
    BY LeiosInvariant, <1>1, PTL

(***************************************************************************)
(* On both channels at most one request is open, whatever the server       *)
(* leaves unanswered and whatever times out.                               *)
(***************************************************************************)
THEOREM LeiosOneRequestOpen == Spec => []OneRequestOpen
  <1>1. LeiosInv => OneRequestOpen
    BY DEF LeiosInv, NotifyInv, FetchInv, NotifyTurns, FetchTurns, OneRequestOpen
  <1> QED
    BY LeiosInvariant, <1>1, PTL

(***************************************************************************)
(* The client's account of the notifications is the server's list, for     *)
(* every list of actions: none lost, repeated, reordered or miscounted.    *)
(***************************************************************************)
THEOREM LeiosNotifiedInOrder == Spec => []NotifiedInOrder
  <1>1. LeiosInv => NotifiedInOrder
    BY DEF LeiosInv, NotifyInv
  <1> QED
    BY LeiosInvariant, <1>1, PTL

(***************************************************************************)
(* A leios_fetch step that completes has a block per point, and from a     *)
(* script that names the blocks asked for, each block under its own point. *)
(***************************************************************************)
THEOREM LeiosFetchedAsServed == Spec => []FetchedAsServed
  <1>1. ASSUME LeiosInv
        PROVE  FetchedAsServed
    <2>1. FetchAccount /\ (InOrder => RulesInStep)
      BY <1>1 DEF LeiosInv, FetchInv
    <2>2. ASSUME InOrder
          PROVE  IsPrefix(fetched, points)
      <3>1. fetched \in Seq(Points) /\ points \in Seq(Points)
        BY <1>1, FetchAssumption DEF LeiosInv, FetchInv, FetchTypeOK
      <3> QED
        BY <2>1, <2>2, <3>1 DEF RulesInStep, IsPrefix
    <2> QED
      BY <2>1, <2>2 DEF FetchAccount, FetchedAsServed
  <1> QED
    BY LeiosInvariant, <1>1, PTL
=============================================================================
