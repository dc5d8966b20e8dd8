-------------------------- MODULE BlockFetchProofs ---------------------------
(***************************************************************************)
(* Safety of a Block-Fetch session, for every fixture, every script and    *)
(* every list of points and batch size: the type invariant for all         *)
(* servers, and for an honest one that its answers fit the typed client    *)
(* and that the client receives exactly the blocks it asked for.           *)
(***************************************************************************)
EXTENDS BlockFetchSession, ScriptLemmas, SequenceTheorems

-----------------------------------------------------------------------------
(* Sequences.                                                              *)

\* One more on each side of an account.
LEMMA OneMoreEach ==
    ASSUME NEW a \in Nat, NEW b \in Nat, NEW c \in Nat, NEW d \in Nat, a + b = c + d
    PROVE  /\ (a + 1) + b = c + (d + 1)
           /\ a + (b + 1) = (c + 1) + d
  OBVIOUS

\* A sequence of one element.
LEMMA OneElement ==
    ASSUME NEW S, NEW s \in Seq(S), Len(s) = 1
    PROVE  s = <<s[1]>>
  OBVIOUS

\* A sequence with one element before it and one after it.
LEMMA Bracketed ==
    ASSUME NEW S, NEW a \in Seq(S), NEW s \in Seq(S), NEW z \in Seq(S), Len(a) = 1, Len(z) = 1
    PROVE  /\ a \o s \o z \in Seq(S)
           /\ Len(a \o s \o z) = Len(s) + 2
           /\ (a \o s \o z)[1] = a[1]
           /\ (a \o s \o z)[Len(s) + 2] = z[1]
           /\ \A i \in 1..Len(s) : (a \o s \o z)[i + 1] = s[i]
  <1> DEFINE t == a \o s
             n == Len(s)
  <1>1. /\ t \in Seq(S) /\ Len(t) = 1 + n /\ n \in Nat
        /\ \A i \in 1..(1 + n) : t[i] = IF i <= 1 THEN a[i] ELSE s[i - 1]
    BY ConcatProperties
  <1>2. /\ t \o z \in Seq(S) /\ Len(t \o z) = Len(t) + 1
        /\ \A i \in 1..(Len(t) + 1) : (t \o z)[i] = IF i <= Len(t) THEN t[i] ELSE z[i - Len(t)]
    <2> HIDE DEF t
    <2>1. /\ t \o z \in Seq(S) /\ Len(t \o z) = Len(t) + Len(z)
          /\ \A i \in 1..(Len(t) + Len(z)) :
               (t \o z)[i] = IF i <= Len(t) THEN t[i] ELSE z[i - Len(t)]
      BY <1>1, ConcatProperties, Zenon
    <2> QED
      BY <2>1, Zenon
  <1> HIDE DEF t, n
  <1>3. Len(t \o z) = n + 2 /\ (t \o z)[1] = a[1]
    BY <1>1, <1>2
  <1>4. (t \o z)[n + 2] = z[1]
    <2>1. n + 2 \in 1..(Len(t) + 1) /\ ~(n + 2 <= Len(t)) /\ (n + 2) - Len(t) = 1
      BY <1>1
    <2>2. (t \o z)[n + 2] = z[(n + 2) - Len(t)]
      BY <1>2, <2>1
    <2> QED
      BY <2>1, <2>2
  <1>5. ASSUME NEW i \in 1..n
        PROVE  (t \o z)[i + 1] = s[i]
    <2>1. i + 1 \in 1..(Len(t) + 1) /\ i + 1 <= Len(t) /\ i + 1 \in 1..(1 + n)
          /\ ~(i + 1 <= 1) /\ (i + 1) - 1 = i
      BY <1>1
    <2>2. (t \o z)[i + 1] = t[i + 1]
      BY <1>2, <2>1
    <2>3. t[i + 1] = s[(i + 1) - 1]
      BY <1>1, <2>1
    <2> QED
      BY <2>1, <2>2, <2>3
  <1> QED
    BY <1>2, <1>3, <1>4, <1>5, Zenon DEF t, n

-----------------------------------------------------------------------------
(* The fixture.                                                            *)

\* find_entry_idx is the first entry with the point, or 0.
LEMMA EntryFacts ==
    ASSUME NEW p
    PROVE  /\ find_entry_idx(p) \in 0..Len(Fixture)
           /\ find_entry_idx(p) # 0 => Fixture[find_entry_idx(p)] = p
           /\ \A i \in 1..Len(Fixture) :
                Fixture[i] = p /\ (\A j \in 1..(i - 1) : Fixture[j] # p)
                    => find_entry_idx(p) = i
  <1> DEFINE at == {i \in 1..Len(Fixture) : Fixture[i] = p}
  <1>1. Len(Fixture) \in Nat
    BY FixtureAssumption
  <1>2. CASE at = {}
    <2>1. find_entry_idx(p) = 0
      BY <1>2, Zenon DEF find_entry_idx
    <2> QED
      BY <1>1, <1>2, <2>1
  <1>3. CASE at # {}
    <2>1. at \subseteq Nat
      BY <1>1
    <2>2. \E x \in at : \A y \in at : x <= y
      BY <1>3, <2>1, LeastNatural
    <2> DEFINE m == CHOOSE x \in at : \A y \in at : x <= y
    <2>3. m \in at /\ \A y \in at : m <= y
      BY <2>2, Zenon
    <2>4. find_entry_idx(p) = m
      BY <1>3, Zenon DEF find_entry_idx, Min
    <2> HIDE DEF m
    <2>5. m \in 1..Len(Fixture) /\ Fixture[m] = p
      BY <2>3
    <2>6. ASSUME NEW i \in 1..Len(Fixture), Fixture[i] = p,
                 \A j \in 1..(i - 1) : Fixture[j] # p
          PROVE  m = i
      <3>1. m <= i
        BY <2>3, <2>6
      <3>2. m \notin 1..(i - 1)
        BY <2>5, <2>6
      <3> QED
        BY <1>1, <2>5, <3>1, <3>2
    <2> QED
      BY <1>1, <2>4, <2>5, <2>6
  <1> QED
    BY <1>2, <1>3

\* A range is a piece of the fixture; of one point it is that block, or nothing.
LEMMA RangeFacts ==
    ASSUME NEW from, NEW to
    PROVE  /\ find_range(from, to) \in Seq(Blocks)
           /\ from = to => \/ find_range(from, to) = <<>>
                           \/ find_range(from, to) = <<from>>
  <1> DEFINE i == find_entry_idx(from)
             j == find_entry_idx(to)
  <1>1. /\ i \in 0..Len(Fixture) /\ j \in 0..Len(Fixture) /\ Len(Fixture) \in Nat
        /\ i # 0 => Fixture[i] = from
    BY EntryFacts, FixtureAssumption
  <1>2. find_range(from, to) = IF i = 0 \/ j < i THEN <<>> ELSE SubSeq(Fixture, i, j)
    BY DEF find_range
  <1>3. from = to => i = j
    OBVIOUS
  <1> HIDE DEF i, j
  <1>4. CASE i = 0 \/ j < i
    BY <1>2, <1>4
  <1>5. CASE ~(i = 0 \/ j < i)
    <2>1. i \in 1..Len(Fixture) /\ j \in i..Len(Fixture)
      BY <1>1, <1>5
    <2>2. SubSeq(Fixture, i, j) \in Seq(Blocks)
      BY <2>1, FixtureAssumption
    <2>3. SubSeq(Fixture, i, i) = <<Fixture[i]>>
      <3>1. Len(SubSeq(Fixture, i, i)) = 1 /\ SubSeq(Fixture, i, i)[1] = Fixture[i]
        BY <2>1, FixtureAssumption
      <3>2. SubSeq(Fixture, i, i) \in Seq(Blocks)
        BY <2>1, FixtureAssumption
      <3> QED
        BY <3>1, <3>2, OneElement
    <2> QED
      BY <1>1, <1>2, <1>3, <1>5, <2>1, <2>2, <2>3
  <1> QED
    BY <1>4, <1>5

\* The messages of stream_batch.
LEMMA StreamFacts ==
    ASSUME NEW blocks \in Seq(Blocks)
    PROVE  /\ StreamBatch(blocks) \in Seq(BfSends)
           /\ blocks = <<>> => /\ Len(StreamBatch(blocks)) = 1
                               /\ StreamBatch(blocks)[1] = BfSend("NoBlocks", <<>>)
           /\ blocks # <<>> =>
                /\ Len(StreamBatch(blocks)) = Len(blocks) + 2
                /\ StreamBatch(blocks)[1] = BfSend("StartBatch", <<>>)
                /\ StreamBatch(blocks)[Len(blocks) + 2] = BfSend("BatchDone", <<>>)
                /\ \A i \in 1..Len(blocks) :
                     StreamBatch(blocks)[i + 1] = BfSend("Block", <<blocks[i]>>)
  <1>1. /\ BfSend("NoBlocks", <<>>) \in BfSends
        /\ BfSend("StartBatch", <<>>) \in BfSends
        /\ BfSend("BatchDone", <<>>) \in BfSends
    BY DEF BfSend, BfSends, WireKinds
  <1>2. ASSUME NEW b \in Blocks
        PROVE  BfSend("Block", <<b>>) \in BfSends
    BY DEF BfSend, BfSends, WireKinds
  <1>3. CASE blocks = <<>>
    BY <1>1, <1>3 DEF StreamBatch
  <1>4. CASE blocks # <<>>
    <2> DEFINE body == [i \in 1..Len(blocks) |-> BfSend("Block", <<blocks[i]>>)]
               first == <<BfSend("StartBatch", <<>>)>>
               last == <<BfSend("BatchDone", <<>>)>>
    <2>1. StreamBatch(blocks) = first \o body \o last
      BY <1>4, Zenon DEF StreamBatch
    <2>2. /\ body \in Seq(BfSends) /\ Len(body) = Len(blocks) /\ Len(blocks) \in Nat
          /\ \A i \in 1..Len(blocks) : body[i] = BfSend("Block", <<blocks[i]>>)
      <3>1. Len(blocks) \in Nat /\ \A i \in 1..Len(blocks) : blocks[i] \in Blocks
        OBVIOUS
      <3>2. body \in [1..Len(blocks) -> BfSends]
        BY <1>2, <3>1
      <3>3. body \in Seq(BfSends) /\ Len(body) = Len(blocks)
        <4> HIDE DEF body
        <4> QED
          BY <3>1, <3>2
      <3> QED
        BY <3>1, <3>3
    <2>3. /\ first \in Seq(BfSends) /\ Len(first) = 1 /\ first[1] = BfSend("StartBatch", <<>>)
          /\ last \in Seq(BfSends) /\ Len(last) = 1 /\ last[1] = BfSend("BatchDone", <<>>)
      BY <1>1
    <2> HIDE DEF body, first, last
    <2>4. /\ first \o body \o last \in Seq(BfSends)
          /\ Len(first \o body \o last) = Len(body) + 2
          /\ (first \o body \o last)[1] = first[1]
          /\ (first \o body \o last)[Len(body) + 2] = last[1]
          /\ \A i \in 1..Len(body) : (first \o body \o last)[i + 1] = body[i]
      <3>1. first \in Seq(BfSends) /\ body \in Seq(BfSends) /\ last \in Seq(BfSends)
        BY <2>2, <2>3, Zenon
      <3>2. Len(first) = 1 /\ Len(last) = 1
        BY <2>3, Zenon
      <3> QED
        BY ONLY <3>1, <3>2, Bracketed, SMTT(30)
    <2> QED
      BY <1>4, <2>1, <2>2, <2>3, <2>4
  <1> QED
    BY <1>3, <1>4

-----------------------------------------------------------------------------
(* The chunks of the client.                                               *)

\* effective_batch is positive.
LEMMA EffectiveBatch ==
    ASSUME batch_size \in Nat
    PROVE  effective_batch \in Nat \ {0}
  <1> DEFINE S == {batch_size, 1}
             m == CHOOSE x \in S : \A y \in S : x >= y
  <1>1. \E x \in S : \A y \in S : x >= y
    <2>1. CASE batch_size >= 1
      <3>1. batch_size \in S /\ \A y \in S : batch_size >= y
        BY <2>1
      <3> QED
        BY <3>1, Zenon
    <2>2. CASE ~(batch_size >= 1)
      <3>1. 1 \in S /\ \A y \in S : 1 >= y
        BY <2>2
      <3> QED
        BY <3>1, Zenon
    <2> QED
      BY <2>1, <2>2, Zenon
  <1>2. m \in S /\ \A y \in S : m >= y
    BY <1>1, Zenon
  <1>3. effective_batch = m
    BY Zenon DEF effective_batch, Max
  <1> HIDE DEF m
  <1> QED
    BY <1>2, <1>3

\* The smaller of two numbers.
LEMMA SmallerOfTwo ==
    ASSUME NEW a \in Nat, NEW b \in Nat
    PROVE  Min({a, b}) = IF a <= b THEN a ELSE b
  <1> DEFINE S == {a, b}
             m == CHOOSE x \in S : \A y \in S : x <= y
             c == IF a <= b THEN a ELSE b
  <1>1. c \in S /\ \A y \in S : c <= y
    OBVIOUS
  <1>2. m \in S /\ \A y \in S : m <= y
    <2> HIDE DEF c
    <2> QED
      BY <1>1, Zenon
  <1>3. Min({a, b}) = m
    BY Zenon DEF Min
  <1> HIDE DEF m
  <1>4. m = c
    BY <1>1, <1>2
  <1> QED
    BY <1>3, <1>4, Zenon

\* The chunk that is next: where it is in the points, and that there is none
\* after the last.
LEMMA BatchFacts ==
    ASSUME points \in Seq(Blocks \cup {Origin}), batch_size \in Nat, batches_done \in Nat
    PROVE  /\ Offset \in Nat /\ batches_done <= Offset
           /\ (batches_done + 1) * effective_batch = Offset + effective_batch
           /\ Offset >= Len(points) => Batch = <<>>
           /\ Offset < Len(points) =>
                /\ Batch # <<>> /\ Batch \in Seq(Blocks \cup {Origin})
                /\ Len(Batch) = IF Offset + effective_batch <= Len(points)
                                THEN effective_batch ELSE Len(points) - Offset
                /\ Len(Batch) \in 1..(Len(points) - Offset)
                /\ \A i \in 1..Len(Batch) : Batch[i] = points[Offset + i]
                /\ Last(Batch) = points[Offset + Len(Batch)]
  <1> DEFINE e == effective_batch
             o == Offset
             n == Len(points)
             top == IF o + e <= n THEN o + e ELSE n
  <1>1. e \in Nat /\ e >= 1 /\ n \in Nat
    BY EffectiveBatch
  <1>2. o = batches_done * e
    BY DEF Offset
  <1>3. o \in Nat /\ batches_done <= o /\ (batches_done + 1) * e = o + e
    <2> HIDE DEF e, o
    <2>1. batches_done * e \in Nat /\ (batches_done + 1) * e = batches_done * e + e
      BY <1>1
    <2>2. batches_done <= batches_done * e
      BY <1>1
    <2> QED
      BY <1>2, <2>1, <2>2
  <1>4. Batch = SubSeq(points, o + 1, top)
    <2>1. Batch = SubSeq(points, o + 1, Min({o + e, n}))
      BY <1>2, <1>3, Zenon DEF Batch
    <2>2. Min({o + e, n}) = top
      <3> HIDE DEF o, e, n
      <3> QED
        BY <1>1, <1>3, SmallerOfTwo
    <2> QED
      BY <2>1, <2>2, Zenon
  <1> HIDE DEF e, o
  <1>5. o >= n => Batch = <<>>
    BY <1>1, <1>3, <1>4
  <1>6. ASSUME o < n
        PROVE  /\ Batch # <<>> /\ Batch \in Seq(Blocks \cup {Origin})
               /\ Len(Batch) = IF o + e <= n THEN e ELSE n - o
               /\ Len(Batch) \in 1..(n - o)
               /\ \A i \in 1..Len(Batch) : Batch[i] = points[o + i]
               /\ Last(Batch) = points[o + Len(Batch)]
    <2>1. top \in (o + 1)..n /\ top = IF o + e <= n THEN o + e ELSE n
      BY <1>1, <1>3, <1>6
    <2> HIDE DEF top
    <2>2. Batch \in Seq(Blocks \cup {Origin}) /\ Len(Batch) = top - o
      BY <1>1, <1>3, <1>4, <2>1
    <2>3. \A i \in 1..(top - o) : Batch[i] = points[o + i]
      BY <1>1, <1>3, <1>4, <2>1
    <2>4. top - o \in 1..(n - o) /\ top - o = IF o + e <= n THEN e ELSE n - o
      BY <1>1, <1>3, <2>1
    <2>5. Last(Batch) = Batch[Len(Batch)]
      BY Zenon DEF Last
    <2>6. top - o \in 1..(top - o)
      BY <2>4
    <2>7. Batch[top - o] = points[o + (top - o)]
      BY <2>3, <2>6, Zenon
    <2> QED
      BY <2>2, <2>3, <2>4, <2>5, <2>7
  <1> QED
    BY <1>1, <1>3, <1>5, <1>6, Zenon DEF e, o

-----------------------------------------------------------------------------
(* Types, for every server.                                                *)

\* What the server has still to send is made of sends, and there is a first.
LEMMA PlanFacts ==
    ASSUME todo \in Seq(BfSends), todo # <<>>
    PROVE  /\ Plan \in Seq(BfSends) /\ Plan # <<>> /\ Plan[1] \in BfSends
           /\ Head(todo) \in BfSends /\ Tail(todo) \in Seq(BfSends)
           /\ Tail(Plan) \in Seq(BfSends)
  <1>1. Head(todo) \in BfSends /\ Tail(todo) \in Seq(BfSends)
    OBVIOUS
  <1>2. ASSUME NEW s \in Seq(Blocks)
        PROVE  StreamBatch(s) \o Tail(todo) \in Seq(BfSends) /\ StreamBatch(s) \o Tail(todo) # <<>>
    <2>1. StreamBatch(s) \in Seq(BfSends) /\ Len(StreamBatch(s)) >= 1
      <3>1. Len(s) \in Nat
        OBVIOUS
      <3> QED
        BY <3>1, StreamFacts
    <2> HIDE DEF StreamBatch
    <2> QED
      BY <1>1, <2>1
  <1>3. Head(todo).blocks \in Seq(Blocks)
    BY <1>1 DEF BfSends
  <1>4. find_range(request.from, request.to) \in Seq(Blocks)
    BY RangeFacts
  <1>5. Plan \in Seq(BfSends) /\ Plan # <<>>
    BY <1>2, <1>3, <1>4, Zenon DEF Plan
  <1>6. Plan[1] \in BfSends /\ Tail(Plan) \in Seq(BfSends)
    BY <1>5
  <1> QED
    BY <1>1, <1>5, <1>6

\* A send that is a message is one on the wire.
LEMMA OnWireType ==
    ASSUME NEW s \in BfSends, s.kind \in WireKinds
    PROVE  OnWire(s) \in Messages
  <1>1. CASE s.kind = "Block"
    <2>1. s.blocks[1] \in Blocks
      BY <1>1 DEF BfSends
    <2> QED
      BY <1>1, <2>1, FixtureAssumption DEF OnWire, Msg, Messages, WireKinds
  <1>2. CASE s.kind # "Block"
    BY <1>2 DEF OnWire, Msg, Messages, WireKinds
  <1> QED
    BY <1>1, <1>2

\* Putting a message on a channel.
LEMMA DeliverType ==
    ASSUME NEW S, NEW channel \in Seq(S), NEW m \in S
    PROVE  Deliver(channel, m) \in Seq(S)
  <1>1. Append(channel, m) \in Seq(S)
    OBVIOUS
  <1> QED
    BY <1>1, Zenon DEF Deliver

\* Where the server goes after a send.
LEMMA AfterFacts ==
    ASSUME NEW rest
    PROVE  After(rest) \in {"recv", "send"} /\ (After(rest) = "send" <=> rest # <<>>)
  BY DEF After

\* The types of the channel and of the server are kept by its every step.
LEMMA ServerTypeStep ==
    ASSUME ServerTypeOK, ServerNext
    PROVE  ServerTypeOK'
  <1> USE DEF ServerTypeOK
  <1>1. script \in Seq(BfRules) /\ Len(script) \in Nat
    BY FixtureAssumption
  <1>2. ASSUME spc = "send"
        PROVE  /\ Plan[1] \in BfSends /\ Tail(Plan) \in Seq(BfSends)
               /\ Tail(todo) \in Seq(BfSends)
    BY <1>2, PlanFacts, Zenon
  <1>3. CASE ServerReceive
    <2>1. Head(c2s) \in BfRequests /\ Tail(c2s) \in Seq(BfRequests) /\ c2s # <<>>
      BY <1>3, TakeOne, Zenon DEF ServerReceive
    <2>2. request' \in BfRequests /\ c2s' \in Seq(BfRequests)
      BY <1>3, <2>1, Zenon DEF ServerReceive
    <2>3. UNCHANGED <<s2c, closed, script, blocks_served>>
      BY <1>3 DEF ServerReceive
    <2> DEFINE kind == Head(c2s).kind
               pos == RulePos(script, rule_idx, kind)
    <2>4. /\ spc' \in {"recv", "send", "done", "failed"}
          /\ state' \in {"Busy", "Done"}
          /\ rule_idx' \in 1..(Len(script) + 1)
          /\ todo' \in Seq(BfSends)
          /\ spc' = "send" => todo' # <<>>
      <3>1. CASE UNCHANGED <<rule_idx, todo>> /\ spc' \in {"done", "failed"} /\ state' \in {"Busy", "Done"}
        BY <3>1
      <3>2. CASE /\ Candidates(script, rule_idx, kind) # {}
                 /\ rule_idx' = RuleIdxAfter(script, rule_idx, pos)
                 /\ todo' = script[pos].sends
                 /\ state' = "Busy" /\ spc' = After(todo')
        <4>1. pos \in 1..Len(script)
          <5>1. rule_idx \in Nat \ {0}
            BY <1>1
          <5> QED
            BY <1>1, <3>2, <5>1, RulePosIsFirst, Zenon
        <4>2. script[pos].sends \in Seq(BfSends)
          <5>1. script[pos] \in BfRules
            BY <1>1, <4>1, ElementOfSeq, Zenon
          <5> QED
            BY <5>1, Zenon DEF BfRules
        <4>3. RuleIdxAfter(script, rule_idx, pos) \in 1..(Len(script) + 1)
          <5> HIDE DEF pos
          <5> QED
            BY <1>1, <4>1 DEF RuleIdxAfter
        <4> QED
          BY <3>2, <4>2, <4>3, AfterFacts, Zenon
      <3> QED
        BY <1>3, <3>1, <3>2, Zenon DEF ServerReceive
    <2> QED
      BY <2>2, <2>3, <2>4, Zenon
  <1>4. CASE SendMessage
    <2>1. OnWire(Plan[1]) \in Messages
      BY <1>2, <1>4, OnWireType, Zenon DEF SendMessage
    <2>2. s2c' \in Seq(Messages)
      BY <1>4, <2>1, DeliverType, Zenon DEF SendMessage
    <2>3. /\ todo' \in Seq(BfSends) /\ spc' \in {"recv", "send"}
          /\ spc' = "send" => todo' # <<>>
      BY <1>2, <1>4, AfterFacts, Zenon DEF SendMessage
    <2>4. blocks_served' \in Nat
      BY <1>4 DEF SendMessage
    <2>5. state' \in {"Idle", "Busy", "Streaming", "Done"}
      BY <1>4, Zenon DEF SendMessage
    <2>6. UNCHANGED <<c2s, closed, script, rule_idx, request>>
      BY <1>4 DEF SendMessage
    <2> QED
      BY <2>2, <2>3, <2>4, <2>5, <2>6, Zenon
  <1>5. CASE SendWait
    BY <1>2, <1>5 DEF SendWait, wireVars
  <1>6. CASE ServerWake
    <2>1. spc' \in {"recv", "send"} /\ (spc' = "send" => todo # <<>>)
      BY <1>6, AfterFacts, Zenon DEF ServerWake
    <2> QED
      BY <1>6, <2>1 DEF ServerWake, wireVars
  <1>7. CASE ServerRecvError \/ SendDisconnect \/ SendUnsupported \/ ServerSendError
    BY <1>7 DEF ServerRecvError, SendDisconnect, SendUnsupported, ServerSendError, wireVars
  <1> QED
    BY <1>3, <1>4, <1>5, <1>6, <1>7, Zenon DEF ServerNext

\* What a message taken by the client is.
LEMMA TakeFacts ==
    ASSUME TypeOK, NEW kind, Take(kind)
    PROVE  /\ s2c # <<>> /\ s2c' = Tail(s2c) /\ s2c' \in Seq(Messages)
           /\ Head(s2c) \in Messages /\ Head(s2c).kind = kind
           /\ kind = "Block" => Head(s2c).block \in Blocks
  <1>1. s2c \in Seq(Messages) /\ s2c # <<>> /\ s2c' = Tail(s2c) /\ Head(s2c).kind = kind
    BY DEF TypeOK, ServerTypeOK, Take
  <1>2. Head(s2c) \in Messages /\ Tail(s2c) \in Seq(Messages)
    BY <1>1, TakeOne, Zenon
  <1>3. kind = "Block" => Head(s2c).block \in Blocks
    BY <1>1, <1>2 DEF Messages
  <1> QED
    BY <1>1, <1>2, <1>3, Zenon

\* The constants of the step, and its chunks, as the type invariant has them.
LEMMA PointsType ==
    ASSUME TypeOK
    PROVE  /\ points \in Seq(Blocks \cup {Origin}) /\ Len(points) \in Nat
           /\ batch_size \in Nat /\ batches_done \in Nat
           /\ effective_batch \in Nat \ {0} /\ Offset \in Nat
  <1>1. points \in Seq(Blocks \cup {Origin}) /\ batch_size \in Nat /\ batches_done \in 0..Len(points)
    BY FetchAssumption DEF TypeOK
  <1>2. Len(points) \in Nat /\ batches_done \in Nat
    BY <1>1
  <1> QED
    BY <1>1, <1>2, EffectiveBatch, BatchFacts, Zenon

\* A request of the client.
LEMMA RequestType ==
    ASSUME TypeOK, Batch # <<>>
    PROVE  /\ Offset < Len(points)
           /\ RequestRange(Batch[1], Last(Batch)) \in BfRequests
  <1>1. ~(Offset >= Len(points))
    BY PointsType, BatchFacts, Zenon
  <1>2. Offset < Len(points)
    BY <1>1, PointsType
  <1>3. Batch[1] \in Blocks \cup {Origin} /\ Last(Batch) \in Blocks \cup {Origin}
    <2>1. Batch \in Seq(Blocks \cup {Origin}) /\ Batch # <<>> /\ Len(Batch) \in 1..(Len(points) - Offset)
      BY <1>2, PointsType, BatchFacts, Zenon
    <2> HIDE DEF Batch
    <2> QED
      BY <2>1, PointsType DEF Last
  <1> QED
    BY <1>2, <1>3, Zenon DEF RequestRange, BfRequests, Ends

\* The types, and that a request is open only for a chunk, are kept.
LEMMA BatchInvStep ==
    ASSUME BatchInv, [Next]_vars
    PROVE  BatchInv'
  <1>0. TypeOK /\ OpenBatch /\ ServerTypeOK
    BY DEF BatchInv, TypeOK
  <1> USE DEF Fail
  <1>1. CASE ServerNext /\ UNCHANGED clientVars
    <2>1. ServerTypeOK'
      BY <1>0, <1>1, ServerTypeStep
    <2> QED
      BY <1>0, <1>1, <2>1
      DEF BatchInv, TypeOK, OpenBatch, Offset, effective_batch, clientVars
  <1>2. CASE UNCHANGED vars
    BY <1>0, <1>2 DEF BatchInv, TypeOK, OpenBatch, Offset, effective_batch, vars, wireVars,
       serverVars, clientVars, ServerTypeOK
  <1>3. CASE Close
    <2>1. /\ c2s' \in Seq(BfRequests) /\ s2c' \in Seq(Messages) /\ closed' \in BOOLEAN
      BY <1>0, <1>3, EmptyChannel, Zenon DEF Close, ServerTypeOK
    <2>2. UNCHANGED <<serverVars, clientVars>>
      BY <1>3 DEF Close
    <2> QED
      BY <1>0, <2>1, <2>2 DEF BatchInv, TypeOK, OpenBatch, Offset, effective_batch, serverVars,
         clientVars, ServerTypeOK
  <1>4. CASE ClientNext /\ UNCHANGED serverVars
    <2>0. UNCHANGED <<script, spc, rule_idx, request, todo, state, blocks_served>>
      BY <1>4 DEF serverVars
    <2>1. CASE ClientRequestRange
      <3>1. Offset < Len(points) /\ RequestRange(Batch[1], Last(Batch)) \in BfRequests
        BY <1>0, <2>1, RequestType, Zenon DEF ClientRequestRange
      <3>2. c2s' \in Seq(BfRequests)
        BY <1>0, <2>1, <3>1, DeliverType, Zenon DEF ClientRequestRange, ServerTypeOK
      <3>3. /\ UNCHANGED <<s2c, closed, points, batch_size, batches_done, blocks_received,
                           captured_blocks>>
            /\ cpc' = "busy"
        BY <2>1 DEF ClientRequestRange
      <3> QED
        BY <1>0, <2>0, <3>1, <3>2, <3>3
        DEF BatchInv, TypeOK, OpenBatch, Offset, effective_batch, ServerTypeOK
    <2>2. CASE ClientNoBlocks \/ ClientBatchDone
      <3>1. s2c' \in Seq(Messages)
        BY <1>0, <2>2, TakeFacts, Zenon DEF ClientNoBlocks, ClientBatchDone
      <3>2. /\ UNCHANGED <<c2s, closed, points, batch_size, blocks_received, captured_blocks>>
            /\ cpc \in {"busy", "streaming"} /\ cpc' = "idle" /\ batches_done' = batches_done + 1
        BY <2>2 DEF ClientNoBlocks, ClientBatchDone
      <3>3. batches_done' \in 0..Len(points)
        <4>1. Offset < Len(points)
          BY <1>0, <3>2 DEF OpenBatch
        <4>2. batches_done <= Offset
          BY <1>0, PointsType, BatchFacts, Zenon
        <4> QED
          BY <1>0, <3>2, <4>1, <4>2, PointsType
      <3> QED
        BY <1>0, <2>0, <3>1, <3>2, <3>3 DEF BatchInv, TypeOK, OpenBatch, ServerTypeOK
    <2>3. CASE ClientStartBatch
      <3>1. s2c' \in Seq(Messages)
        BY <1>0, <2>3, TakeFacts, Zenon DEF ClientStartBatch
      <3> QED
        BY <1>0, <2>0, <2>3, <3>1
        DEF BatchInv, TypeOK, OpenBatch, Offset, effective_batch, ServerTypeOK, ClientStartBatch
    <2>4. CASE ClientBlock
      <3>1. s2c' \in Seq(Messages) /\ Head(s2c).block \in Blocks
        BY <1>0, <2>4, TakeFacts, Zenon DEF ClientBlock
      <3>2. Offset < Len(points)
        BY <1>0, <2>4 DEF OpenBatch, ClientBlock
      <3>3. Batch[1] # Origin => Batch[1] \in Blocks
        <4>1. Batch \in Seq(Blocks \cup {Origin}) /\ Batch # <<>>
          BY <1>0, <3>2, PointsType, BatchFacts, Zenon
        <4> HIDE DEF Batch
        <4> QED
          BY <4>1
      <3>4. blocks_received' \in Seq(Blocks)
        BY <1>0, <2>4, <3>1 DEF TypeOK, ClientBlock
      <3>5. captured_blocks' \in Seq(Blocks \X Blocks)
        <4>1. Batch[1] # Origin => <<Batch[1], Head(s2c).block>> \in Blocks \X Blocks
          BY <3>1, <3>3
        <4>2. ASSUME NEW x \in Blocks \X Blocks
              PROVE  Append(captured_blocks, x) \in Seq(Blocks \X Blocks)
          BY <1>0 DEF TypeOK
        <4> QED
          BY <1>0, <2>4, <4>1, <4>2, Zenon DEF TypeOK, ClientBlock
      <3>6. UNCHANGED <<c2s, closed, points, batch_size, cpc, batches_done>>
        BY <2>4 DEF ClientBlock
      <3> QED
        BY <1>0, <2>0, <3>1, <3>4, <3>5, <3>6
        DEF BatchInv, TypeOK, OpenBatch, Offset, effective_batch, ServerTypeOK
    <2>5. CASE ClientUnexpected
      <3>1. s2c' \in Seq(Messages)
        BY <1>0, <2>5, TakeOne, Zenon DEF ClientUnexpected, ServerTypeOK
      <3> QED
        BY <1>0, <2>0, <2>5, <3>1 DEF BatchInv, TypeOK, OpenBatch, ServerTypeOK, ClientUnexpected
    <2>6. CASE ClientPartialBytes
      <3>1. s2c' \in Seq(Messages)
        BY <1>0, <2>6, TakeFacts, Zenon DEF ClientPartialBytes
      <3> QED
        BY <1>0, <2>0, <2>6, <3>1
        DEF BatchInv, TypeOK, OpenBatch, Offset, effective_batch, ServerTypeOK, clientVars,
            ClientPartialBytes
    <2>7. CASE ClientConnError
      BY <1>0, <2>0, <2>7 DEF BatchInv, TypeOK, OpenBatch, ServerTypeOK, ClientConnError
    <2>8. CASE ClientSendDone
      <3>1. ClientDone \in BfRequests
        BY DEF ClientDone, BfRequests, Ends
      <3>2. c2s' \in Seq(BfRequests)
        BY <1>0, <2>8, <3>1, DeliverType, Zenon DEF ClientSendDone, ServerTypeOK
      <3> QED
        BY <1>0, <2>0, <2>8, <3>2 DEF BatchInv, TypeOK, OpenBatch, ServerTypeOK, ClientSendDone
    <2> QED
      BY <1>4, <2>1, <2>2, <2>3, <2>4, <2>5, <2>6, <2>7, <2>8, Zenon DEF ClientNext
  <1> QED
    BY <1>1, <1>2, <1>3, <1>4, Zenon DEF Next

\* The types hold at the start.
LEMMA BatchInvInit == Init => BatchInv
  <1> SUFFICES ASSUME Init PROVE BatchInv
    OBVIOUS
  <1>1. script \in Seq(BfRules) /\ Len(script) \in Nat
    BY FixtureAssumption DEF Init, ServerInit
  <1>2. points \in Seq(Blocks \cup {Origin}) /\ Len(points) \in Nat
    BY FetchAssumption DEF Init
  <1>3. ServerTypeOK
    <2>1. ClientDone \in BfRequests
      BY DEF ClientDone, BfRequests, Ends
    <2>2. /\ c2s \in Seq(BfRequests) /\ s2c \in Seq(Messages) /\ todo \in Seq(BfSends)
      BY EmptyChannel, Zenon DEF Init, ServerInit
    <2>3. rule_idx \in 1..(Len(script) + 1) /\ blocks_served \in Nat
      BY <1>1 DEF Init, ServerInit
    <2>4. closed \in BOOLEAN
      BY Zenon DEF Init, ServerInit
    <2> QED
      BY <2>1, <2>2, <2>3, <2>4, Zenon DEF Init, ServerInit, ServerTypeOK
  <1> QED
    BY <1>2, <1>3 DEF Init, BatchInv, TypeOK, OpenBatch

(***************************************************************************)
(* Every state of run_block_fetch and of the serve loop is well typed,     *)
(* whatever the script sends: in particular the loop over the chunks       *)
(* (blockfetch.rs) never counts past the points it was given.              *)
(***************************************************************************)
THEOREM BlockFetchTypeCorrect == Spec => []TypeOK
  <1>1. Init => BatchInv
    BY BatchInvInit
  <1>2. BatchInv /\ [Next]_vars => BatchInv'
    BY BatchInvStep
  <1>3. BatchInv => TypeOK
    BY DEF BatchInv
  <1> QED
    BY <1>1, <1>2, <1>3, PTL DEF Spec

-----------------------------------------------------------------------------
(* The answer to one request.                                              *)

\* The answer is no_blocks, or start_batch, the blocks asked for and
\* batch_done.
LEMMA AnswerFacts ==
    /\ Asked \in Seq(Blocks) /\ Len(Asked) \in Nat
    /\ Answer \in Seq(BfSends) /\ Len(Answer) \in Nat /\ Len(Answer) >= 1
    /\ Asked = <<>> => Len(Answer) = 1 /\ Answer[1] = BfSend("NoBlocks", <<>>)
    /\ Asked # <<>> =>
         /\ Len(Asked) >= 1 /\ Len(Answer) = Len(Asked) + 2
         /\ Answer[1] = BfSend("StartBatch", <<>>)
         /\ Answer[Len(Answer)] = BfSend("BatchDone", <<>>)
         /\ \A i \in 2..(Len(Answer) - 1) : Answer[i] = BfSend("Block", <<Asked[i - 1]>>)
  <1>1. Asked \in Seq(Blocks)
    BY RangeFacts, Zenon DEF Asked
  <1> HIDE DEF Asked
  <1>2. Len(Asked) \in Nat /\ (Asked # <<>> => Len(Asked) >= 1)
    BY <1>1
  <1>3. Answer \in Seq(BfSends)
    BY <1>1, StreamFacts, Zenon DEF Answer
  <1>4. Asked = <<>> => Len(Answer) = 1 /\ Answer[1] = BfSend("NoBlocks", <<>>)
    BY <1>1, StreamFacts, Zenon DEF Answer
  <1>5. Asked # <<>> =>
          /\ Len(Answer) = Len(Asked) + 2
          /\ Answer[1] = BfSend("StartBatch", <<>>)
          /\ Answer[Len(Asked) + 2] = BfSend("BatchDone", <<>>)
          /\ \A i \in 1..Len(Asked) : Answer[i + 1] = BfSend("Block", <<Asked[i]>>)
    BY <1>1, StreamFacts, Zenon DEF Answer
  <1> HIDE DEF Answer
  <1>6. ASSUME Asked # <<>>, NEW i \in 2..(Len(Answer) - 1)
        PROVE  Answer[i] = BfSend("Block", <<Asked[i - 1]>>)
    <2>1. i - 1 \in 1..Len(Asked) /\ (i - 1) + 1 = i
      BY <1>2, <1>5, <1>6
    <2>2. Answer[(i - 1) + 1] = BfSend("Block", <<Asked[i - 1]>>)
      BY <1>5, <1>6, <2>1, Zenon
    <2> QED
      BY <2>1, <2>2
  <1>7. Len(Answer) \in Nat /\ Len(Answer) >= 1
    BY <1>2, <1>4, <1>5
  <1> QED
    BY <1>1, <1>2, <1>3, <1>4, <1>5, <1>6, <1>7, Zenon

\* Every answer has a first message.
LEMMA AnswerLength == Len(Answer) \in Nat /\ Len(Answer) >= 1
  BY AnswerFacts

\* The messages of the answer on the wire, by their place in it.
LEMMA AnswerKinds ==
    ASSUME NEW i \in 1..Len(Answer)
    PROVE  /\ Answer[i] \in BfSends /\ Answer[i].kind \in WireKinds
           /\ Answer[i].kind # "RawBytes"
           /\ OnWire(Answer[i]).kind = Answer[i].kind
           /\ i = 1 <=> Answer[i].kind \in {"NoBlocks", "StartBatch"}
           /\ Answer[i].kind = "NoBlocks" => Asked = <<>>
           /\ Answer[i].kind = "StartBatch" => Asked # <<>>
           /\ Answer[i].kind = "BatchDone" => Asked # <<>> /\ i = Len(Answer)
           /\ Answer[i].kind = "Block" =>
                /\ Asked # <<>> /\ i \in 2..(Len(Answer) - 1) /\ i - 1 \in 1..Len(Asked)
                /\ OnWire(Answer[i]).block = Asked[i - 1]
  <1> USE AnswerFacts
  <1> HIDE DEF Asked, Answer
  <1>1. Answer[i] \in BfSends
    BY ElementOfSeq
  <1>2. OnWire(Answer[i]).kind = Answer[i].kind
    BY Zenon DEF OnWire, Msg
  <1>3. CASE Asked = <<>>
    <2>0. Len(Answer) = 1 /\ Answer[1] = BfSend("NoBlocks", <<>>)
      BY <1>3, Zenon
    <2>1. i = 1 /\ Answer[i] = BfSend("NoBlocks", <<>>)
      BY <2>0
    <2> QED
      BY <1>1, <1>2, <1>3, <2>1 DEF BfSend, WireKinds
  <1>4. CASE Asked # <<>> /\ i = 1
    BY <1>1, <1>2, <1>4 DEF BfSend, WireKinds
  <1>5. CASE Asked # <<>> /\ i = Len(Answer)
    BY <1>1, <1>2, <1>5 DEF BfSend, WireKinds
  <1>6. CASE Asked # <<>> /\ i # 1 /\ i # Len(Answer)
    <2>1. i \in 2..(Len(Answer) - 1) /\ i - 1 \in 1..Len(Asked)
      BY <1>6
    <2>2. Answer[i] = BfSend("Block", <<Asked[i - 1]>>)
      BY <1>6, <2>1
    <2>3. Answer[i].kind = "Block" /\ Answer[i].blocks = <<Asked[i - 1]>>
      BY <2>2 DEF BfSend
    <2>4. OnWire(Answer[i]).block = Asked[i - 1]
      BY <2>3 DEF OnWire, Msg
    <2> QED
      BY <1>1, <1>2, <1>6, <2>1, <2>3, <2>4 DEF WireKinds
  <1> QED
    BY <1>3, <1>4, <1>5, <1>6

\* A block is counted when its message is.
LEMMA BlocksInStep ==
    ASSUME NEW i \in 0..(Len(Answer) - 1)
    PROVE  /\ BlocksIn(i) \in Nat /\ BlocksIn(i + 1) \in Nat
           /\ BlocksIn(i + 1) =
                IF Answer[i + 1].kind = "Block" THEN BlocksIn(i) + 1 ELSE BlocksIn(i)
           /\ i <= 1 => BlocksIn(i) = 0
           /\ Asked # <<>> /\ i >= 1 => BlocksIn(i) = i - 1
  <1>1. i + 1 \in 1..Len(Answer) /\ i \in Nat
    BY AnswerFacts
  <1>2. Answer[i + 1].kind = "Block" <=> Asked # <<>> /\ i + 1 # 1 /\ i + 1 # Len(Answer)
    <2> HIDE DEF Asked, Answer
    <2>1. CASE Answer[i + 1].kind = "Block"
      BY <1>1, <2>1, AnswerKinds, AnswerFacts
    <2>2. CASE Answer[i + 1].kind # "Block"
      <3>1. Answer[i + 1].kind \in WireKinds \ {"RawBytes"}
        BY <1>1, AnswerKinds, Zenon
      <3>2. Answer[i + 1].kind \in {"NoBlocks", "StartBatch", "BatchDone"}
        BY <2>2, <3>1 DEF WireKinds
      <3>3. i + 1 = 1 \/ i + 1 = Len(Answer)
        BY <1>1, <3>2, AnswerKinds, Zenon
      <3> QED
        BY <2>2, <3>3
    <2> QED
      BY <2>1, <2>2
  <1> HIDE DEF Asked, Answer
  <1> QED
    BY <1>1, <1>2, AnswerFacts DEF BlocksIn

\* A chunk of consecutive points is answered with exactly those blocks.
LEMMA AskedIsBatch ==
    ASSUME TypeOK, Contiguous, Offset < Len(points),
           request = RequestRange(Batch[1], Last(Batch))
    PROVE  Asked = Batch
  <1> DEFINE o == Offset
             n == Len(points)
             b == Len(Batch)
  <1>1. /\ o \in Nat /\ n \in Nat /\ Len(Fixture) \in Nat
        /\ b \in 1..(n - o) /\ Batch \in Seq(Blocks \cup {Origin})
        /\ \A i \in 1..b : Batch[i] = points[o + i]
        /\ Last(Batch) = points[o + b]
    BY PointsType, BatchFacts, FixtureAssumption
  <1>2. PICK k \in 0..Len(Fixture) : \A i \in 1..n :
            /\ k + i <= Len(Fixture) /\ points[i] = Fixture[k + i]
            /\ \A j \in 1..(k + i - 1) : Fixture[j] # points[i]
    BY Zenon DEF Contiguous
  <1> HIDE DEF o, n, b
  <1>3. ASSUME NEW i \in 1..n
        PROVE  find_entry_idx(points[i]) = k + i
    <2>1. /\ k + i \in 1..Len(Fixture) /\ Fixture[k + i] = points[i]
          /\ \A j \in 1..(k + i - 1) : Fixture[j] # points[i]
      <3>1. /\ k + i <= Len(Fixture) /\ points[i] = Fixture[k + i]
            /\ \A j \in 1..(k + i - 1) : Fixture[j] # points[i]
        BY <1>2, Zenon
      <3>2. k + i \in 1..Len(Fixture)
        BY <1>1, <3>1
      <3> QED
        BY <3>1, <3>2, Zenon
    <2>2. \A x \in 1..Len(Fixture) :
            Fixture[x] = points[i] /\ (\A j \in 1..(x - 1) : Fixture[j] # points[i])
                => find_entry_idx(points[i]) = x
      BY EntryFacts
    <2> DEFINE y == k + i
    <2>3. /\ y \in 1..Len(Fixture) /\ Fixture[y] = points[i]
          /\ \A j \in 1..(y - 1) : Fixture[j] # points[i]
      BY <2>1
    <2> HIDE DEF y
    <2>4. find_entry_idx(points[i]) = y
      BY <2>2, <2>3
    <2> QED
      BY <2>4 DEF y
  <1>4. o + 1 \in 1..n /\ o + b \in 1..n /\ b \in Nat /\ 1 \in 1..b
    BY <1>1
  <1>5. find_entry_idx(Batch[1]) = k + (o + 1) /\ find_entry_idx(Last(Batch)) = k + (o + b)
    BY <1>1, <1>3, <1>4
  <1>6. Asked = find_range(Batch[1], Last(Batch))
    BY Zenon DEF Asked, RequestRange
  <1>7. k + (o + 1) \in Nat \ {0} /\ k + (o + b) >= k + (o + 1) /\ k + (o + b) <= Len(Fixture)
    BY <1>1, <1>2, <1>4
  <1>8. Asked = SubSeq(Fixture, k + (o + 1), k + (o + b))
    <2>1. find_range(Batch[1], Last(Batch)) =
            IF k + (o + 1) = 0 \/ k + (o + b) < k + (o + 1) THEN <<>>
            ELSE SubSeq(Fixture, k + (o + 1), k + (o + b))
      BY <1>5, Zenon DEF find_range
    <2>2. ~(k + (o + 1) = 0) /\ ~(k + (o + b) < k + (o + 1))
      BY <1>1, <1>2, <1>7
    <2> QED
      BY <1>6, <2>1, <2>2, Zenon
  <1>9. Asked \in Seq(Blocks \cup {Origin}) /\ Len(Asked) = b
    <2>1. Fixture \in Seq(Blocks \cup {Origin})
      BY FixtureAssumption
    <2> HIDE DEF Asked
    <2> QED
      BY <1>1, <1>7, <1>8, <2>1
  <1>10. ASSUME NEW i \in 1..b
         PROVE  Asked[i] = Batch[i]
    <2>1. o + i \in 1..n
      BY <1>1
    <2>2. Batch[i] = Fixture[k + (o + i)]
      BY <1>1, <1>2, <2>1
    <2> HIDE DEF Asked
    <2>3. Asked[i] = Fixture[k + (o + i)]
      <3> DEFINE u == k + (o + 1)
                 v == k + (o + b)
      <3>1. u \in Nat \ {0} /\ v \in Nat /\ i \in 1..(v - u + 1) /\ u + i - 1 = k + (o + i)
        BY <1>1, <1>2, <1>7
      <3>2. Asked = SubSeq(Fixture, u, v) /\ v <= Len(Fixture)
        BY <1>7, <1>8
      <3> HIDE DEF u, v
      <3>3. Asked[i] = Fixture[u + i - 1]
        BY <3>1, <3>2, FixtureAssumption
      <3> QED
        BY <3>1, <3>3
    <2> QED
      BY <2>2, <2>3
  <1> QED
    <2> HIDE DEF Asked, Batch
    <2> QED
      BY <1>1, <1>9, <1>10, SeqEqual DEF b

\* An honest server's next message is the next one of the answer.
LEMMA SendFacts ==
    ASSUME TypeOK, AnswersInOrder, spc = "send"
    PROVE  /\ Sent \in 0..(Len(Answer) - 1)
           /\ Len(Plan) = Len(Answer) - Sent
           /\ \A i \in 1..Len(Plan) : Plan[i] = Answer[Sent + i]
           /\ Plan[1] = Answer[Sent + 1] /\ Plan[1].kind \in WireKinds \ {"RawBytes"}
  <1>1. todo \in Seq(BfSends) /\ todo # <<>>
    BY DEF TypeOK, ServerTypeOK
  <1>2. CASE NothingSent
    <2>1. Head(todo).kind = "StreamRequested" /\ Tail(todo) = <<>>
      BY <1>2 DEF NothingSent, BfSend
    <2>2. Plan = Answer \o <<>>
      BY <2>1 DEF Plan, Answer, Asked
    <2>3. Answer \o <<>> = Answer
      BY AnswerFacts, ConcatEmptySeq, Zenon
    <2>4. Plan = Answer /\ Sent = 0
      BY <1>2, <2>2, <2>3, Zenon DEF Sent
    <2>5. Answer[1].kind \in WireKinds \ {"RawBytes"}
      BY AnswerFacts, AnswerKinds
    <2> HIDE DEF Answer, Plan
    <2> QED
      BY <2>4, <2>5, AnswerFacts
  <1>3. CASE ~NothingSent
    <2>1. /\ Len(todo) \in 1..(Len(Answer) - 1)
          /\ \A i \in 1..Len(todo) : todo[i] = Answer[Len(Answer) - Len(todo) + i]
      BY <1>3, Zenon DEF AnswersInOrder
    <2>2. Sent = Len(Answer) - Len(todo)
      BY <1>3, Zenon DEF Sent
    <2> HIDE DEF Answer
    <2>3. Sent + 1 \in 1..Len(Answer) /\ Sent \in 0..(Len(Answer) - 1) /\ 1 \in 1..Len(todo)
      BY <2>1, <2>2, AnswerFacts
    <2>4. \A i \in 1..Len(todo) : todo[i] = Answer[Sent + i]
      BY <2>1, <2>2, Zenon
    <2>5. Head(todo) = Answer[Sent + 1]
      <3>1. Head(todo) = todo[1]
        BY <1>1
      <3> QED
        BY <2>3, <2>4, <3>1, Zenon
    <2>6. Head(todo).kind \in WireKinds \ {"RawBytes"}
      BY <2>3, <2>5, AnswerKinds, Zenon
    <2>7. Plan = todo
      BY <2>6 DEF Plan, WireKinds
    <2>8. Len(todo) = Len(Answer) - Sent /\ todo[1] = Head(todo)
      BY <1>1, <2>1, <2>2, AnswerFacts
    <2> QED
      BY <2>3, <2>4, <2>5, <2>6, <2>7, <2>8, Zenon
  <1> QED
    BY <1>2, <1>3

-----------------------------------------------------------------------------
(* What a step leaves alone.                                               *)

\* The answer is a matter of the request alone.
LEMMA SameRequest ==
    ASSUME UNCHANGED request
    PROVE  Asked' = Asked /\ Answer' = Answer /\ \A i : BlocksIn(i)' = BlocksIn(i)
  BY DEF Asked, Answer, BlocksIn

\* The chunk is a matter of the step's points and of the chunks done.
LEMMA SameBatch ==
    ASSUME UNCHANGED <<points, batch_size, batches_done>>
    PROVE  Batch' = Batch /\ Offset' = Offset
  BY DEF Batch, Offset, effective_batch

\* Whether the points are contiguous is a matter of the points.
LEMMA SamePoints ==
    ASSUME UNCHANGED points
    PROVE  Contiguous' <=> Contiguous
  BY DEF Contiguous

\* An open request whose answer is on the channel is one under way.
LEMMA AnswerOnChannel ==
    ASSUME ClientInStep, s2c # <<>>, cpc \in {"busy", "streaming"}
    PROVE  UnderWay
  BY Zenon DEF ClientInStep, Untaken, Unanswered

\* The message the client takes next is the next one of the answer.
LEMMA HeadFacts ==
    ASSUME TypeOK, s2c # <<>>, NEW m \in 0..Len(Answer), Delivered(m)
    PROVE  LET got == m - Len(s2c) IN
           /\ got \in 0..(Len(Answer) - 1) /\ got + 1 \in 1..Len(Answer)
           /\ m - Len(Tail(s2c)) = got + 1 /\ got + 1 <= m
           /\ Head(s2c) = OnWire(Answer[got + 1])
           /\ Head(s2c).kind = Answer[got + 1].kind
           /\ \A i \in 1..Len(Tail(s2c)) : Tail(s2c)[i] = OnWire(Answer[got + 1 + i])
           /\ cpc = "busy" => got = 0
           /\ cpc # "busy" => got >= 1
  <1> DEFINE got == m - Len(s2c)
  <1>1. s2c \in Seq(Messages) /\ Len(s2c) \in Nat /\ Len(s2c) >= 1
    BY DEF TypeOK, ServerTypeOK
  <1>2. /\ got \in 0..(Len(Answer) - 1) /\ Len(Answer) \in Nat
        /\ \A i \in 1..Len(s2c) : s2c[i] = OnWire(Answer[got + i])
        /\ cpc = "busy" <=> got = 0
    BY AnswerFacts, Zenon DEF Delivered
  <1> HIDE DEF Answer
  <1>3. m - Len(Tail(s2c)) = got + 1 /\ got + 1 <= m /\ got + 1 \in 1..Len(Answer)
    BY <1>1, <1>2
  <1>4. Head(s2c) = OnWire(Answer[got + 1])
    BY <1>1, <1>2
  <1>5. ASSUME NEW i \in 1..Len(Tail(s2c))
        PROVE  Tail(s2c)[i] = OnWire(Answer[got + 1 + i])
    <2>1. i + 1 \in 1..Len(s2c) /\ Tail(s2c)[i] = s2c[i + 1]
      BY <1>1
    <2>2. s2c[i + 1] = OnWire(Answer[got + (i + 1)])
      BY <1>2, <2>1, Zenon
    <2>3. got + (i + 1) = got + 1 + i
      BY <1>2, <2>1
    <2> QED
      BY <2>1, <2>2, <2>3
  <1>6. Head(s2c).kind = Answer[got + 1].kind
    BY <1>3, <1>4, AnswerKinds, Zenon
  <1>7. (cpc = "busy" => got = 0) /\ (cpc # "busy" => got >= 1)
    BY <1>2
  <1> QED
    BY <1>2, <1>3, <1>4, <1>5, <1>6, <1>7, Zenon

-----------------------------------------------------------------------------
(* The steps of an honest server.                                          *)

\* The blocks received do not change while the server runs.
LEMMA ReceivedByServerStep ==
    ASSUME ReceivedInOrder, CapturedUnderOwnPoint, UNCHANGED clientVars, UNCHANGED script
    PROVE  ReceivedInOrder' /\ CapturedUnderOwnPoint'
  <1>1. UNCHANGED <<points, batch_size, cpc, batches_done, blocks_received, captured_blocks>>
    BY DEF clientVars
  <1>2. Offset' = Offset /\ (Contiguous' <=> Contiguous)
    BY <1>1, SameBatch, SamePoints
  <1>3. Honest' <=> Honest
    BY DEF Honest
  <1> QED
    BY <1>1, <1>2, <1>3 DEF ReceivedInOrder, CapturedUnderOwnPoint

\* A request is taken: the server ends, has no rule for it, or has the whole
\* answer before it.
LEMMA HonestReceive ==
    ASSUME TypeOK, Honest, AnswersInOrder, ClientInStep, ServerReceive, UNCHANGED clientVars
    PROVE  AnswersInOrder' /\ ClientInStep'
  <1>1. /\ c2s # <<>> /\ Len(c2s) = 1 /\ s2c = <<>> /\ spc = "recv"
        /\ IF Head(c2s).kind = "Done" THEN cpc = "completed"
           ELSE cpc \in {"busy", "error"} /\ Head(c2s) = RequestRange(Batch[1], Last(Batch))
    BY Zenon DEF ServerReceive, ClientInStep
  <1>2. c2s' = <<>>
    <2>1. c2s \in Seq(BfRequests) /\ c2s' = Tail(c2s)
      BY DEF TypeOK, ServerTypeOK, ServerReceive
    <2> QED
      BY <1>1, <2>1
  <1>3. /\ UNCHANGED <<s2c, closed, script, blocks_served>>
        /\ UNCHANGED <<points, batch_size, cpc, batches_done, blocks_received, captured_blocks>>
        /\ request' = Head(c2s)
    BY DEF ServerReceive, clientVars
  <1>4. Batch' = Batch /\ Offset' = Offset /\ (Contiguous' <=> Contiguous)
    BY <1>3, SameBatch, SamePoints
  <1>5. cpc = "error" => closed
    BY DEF ClientInStep
  <1>6. CASE spc' \in {"done", "failed"} /\ (Head(c2s).kind = "Done" \/ spc' = "failed")
    <2>1. AnswersInOrder'
      BY <1>6 DEF AnswersInOrder
    <2>2. cpc = "busy" => spc' = "failed"
      BY <1>1, <1>6
    <2>3. cpc' \in {"busy", "completed", "error"}
      BY <1>1, <1>3
    <2>4. cpc' = "busy" => Unanswered'
      BY <1>1, <1>3, <2>2 DEF Unanswered
    <2>5. ClientInStep'
      BY <1>1, <1>2, <1>3, <1>5, <1>6, <2>3, <2>4, Zenon DEF ClientInStep
    <2> QED
      BY <2>1, <2>5
  <1>7. CASE /\ Head(c2s).kind # "Done"
             /\ Candidates(script, rule_idx, Head(c2s).kind) # {}
             /\ todo' = script[RulePos(script, rule_idx, Head(c2s).kind)].sends
             /\ spc' = After(todo')
    <2> DEFINE pos == RulePos(script, rule_idx, Head(c2s).kind)
    <2>1. pos \in 1..Len(script)
      <3>1. script \in Seq(BfRules) /\ rule_idx \in Nat \ {0}
        BY FixtureAssumption DEF TypeOK, ServerTypeOK
      <3> QED
        BY <1>7, <3>1, RulePosIsFirst, Zenon
    <2>2. todo' = <<BfSend("StreamRequested", <<>>)>>
      BY <1>7, <2>1, Zenon DEF Honest
    <2>3. spc' = "send" /\ NothingSent'
      <3>1. <<BfSend("StreamRequested", <<>>)>> # <<>>
        OBVIOUS
      <3> QED
        BY <1>7, <2>2, <3>1, AfterFacts, Zenon DEF NothingSent
    <2>4. AnswersInOrder'
      BY <2>3 DEF AnswersInOrder
    <2>5. ASSUME cpc' = "busy"
          PROVE  Unanswered' \/ UnderWay'
      <3>1. CASE closed
        BY <1>1, <1>3, <3>1, Zenon DEF Unanswered
      <3>2. CASE ~closed
        <4>1. Untaken
          BY <1>1, <1>3, <2>5, <3>2, Zenon DEF ClientInStep, Unanswered, UnderWay
        <4>2. Sent' = 0
          BY <2>3, Zenon DEF Sent
        <4>3. Len(Answer') \in Nat /\ Len(Answer') >= 1
          <5>1. (Len(Answer) \in Nat /\ Len(Answer) >= 1)'
            BY AnswerLength, PTL
          <5> QED
            BY <5>1
        <4>4. BlocksIn(0)' = 0
          BY DEF BlocksIn
        <4>5. Len(s2c') = 0 /\ s2c' = <<>>
          BY <1>1, <1>3
        <4>6. blocks_served' = Len(blocks_received') /\ blocks_served \in Nat
          BY <1>3, <4>1 DEF Untaken, TypeOK, ServerTypeOK
        <4>7. Contiguous' => Len(blocks_received') = Offset'
          BY <1>3, <1>4, <4>1, Zenon DEF Untaken
        <4>8. Offset' \in Nat
          BY <1>4, PointsType
        <4> HIDE DEF Answer, BlocksIn, Contiguous, Offset
        <4>9. Delivered(0)'
          BY <2>5, <4>2, <4>3, <4>4, <4>5, <4>6, <4>7, <4>8 DEF Delivered
        <4>10. request' = RequestRange(Batch'[1], Last(Batch'))
          BY <1>1, <1>3, <1>4, <1>7
        <4>11. 0 \in 0..Len(Answer')
          BY <4>3
        <4> QED
          BY <1>2, <4>9, <4>10, <4>11, Zenon DEF UnderWay
      <3> QED
        BY <3>1, <3>2
    <2>6. cpc' \in {"busy", "error"}
      BY <1>1, <1>3, <1>7
    <2>7. ClientInStep'
      BY <1>2, <1>3, <1>5, <2>5, <2>6, Zenon DEF ClientInStep
    <2> QED
      BY <2>4, <2>7
  <1> QED
    BY <1>6, <1>7, Zenon DEF ServerReceive

\* The server sends the next message of the answer.
LEMMA HonestSend ==
    ASSUME TypeOK, AnswersInOrder, ClientInStep, SendMessage, UNCHANGED clientVars
    PROVE  AnswersInOrder' /\ ClientInStep'
  <1> DEFINE L == Len(Answer)
             k == Sent
  <1>1. spc = "send"
    BY DEF SendMessage
  <1>2. /\ k \in 0..(L - 1) /\ Len(Plan) = L - k
        /\ \A i \in 1..Len(Plan) : Plan[i] = Answer[k + i]
        /\ Plan[1] = Answer[k + 1] /\ L \in Nat
    BY <1>1, SendFacts, AnswerLength, Zenon
  <1>3. Plan \in Seq(BfSends) /\ Plan # <<>>
    BY <1>1, PlanFacts, Zenon DEF TypeOK, ServerTypeOK
  <1>4. /\ UNCHANGED <<c2s, closed, script, rule_idx, request>>
        /\ UNCHANGED <<points, batch_size, cpc, batches_done, blocks_received, captured_blocks>>
        /\ todo' = Tail(Plan) /\ spc' = After(todo')
    BY DEF SendMessage, clientVars
  <1>5. /\ Asked' = Asked /\ Answer' = Answer /\ \A i : BlocksIn(i)' = BlocksIn(i)
        /\ Batch' = Batch /\ Offset' = Offset /\ (Contiguous' <=> Contiguous)
    BY <1>4, SameRequest, SameBatch, SamePoints, Zenon
  <1>6. /\ Len(todo') = L - k - 1
        /\ \A i \in 1..Len(todo') : todo'[i] = Answer[k + 1 + i]
        /\ todo' # <<>> <=> k + 1 < L
    <2> HIDE DEF L, k, Plan, Answer
    <2>1. Len(todo') = L - k - 1 /\ (todo' # <<>> <=> k + 1 < L)
      BY <1>2, <1>3, <1>4, SMTT(30)
    <2>2. ASSUME NEW i \in 1..Len(todo')
          PROVE  todo'[i] = Answer[k + 1 + i]
      <3>1. i + 1 \in 1..Len(Plan) /\ todo'[i] = Plan[i + 1]
        BY <1>2, <1>3, <1>4
      <3>2. Plan[i + 1] = Answer[k + (i + 1)]
        BY <1>2, <3>1, Zenon
      <3>3. k + (i + 1) = k + 1 + i
        BY <1>2, <3>1
      <3> QED
        BY <3>1, <3>2, <3>3
    <2> QED
      BY <2>1, <2>2
  <1>7. spc' \in {"recv", "send"} /\ (spc' = "send" <=> k + 1 < L)
    BY <1>4, <1>6, AfterFacts, Zenon
  <1>8. spc' = "send" => ~NothingSent'
    <2> SUFFICES ASSUME spc' = "send", NothingSent' PROVE FALSE
      OBVIOUS
    <2> HIDE DEF L, k, Answer
    <2>1. Len(todo') = 1 /\ todo'[1].kind = "StreamRequested"
      BY DEF NothingSent, BfSend
    <2>2. 1 \in 1..Len(todo') /\ k + 1 + 1 \in 1..L
      BY <1>2, <1>6, <2>1
    <2>3. todo'[1] = Answer[k + 1 + 1]
      BY <1>6, <2>2, Zenon
    <2>4. Answer[k + 1 + 1].kind \in WireKinds
      BY <2>2, AnswerKinds, Zenon DEF L
    <2> QED
      BY <2>1, <2>3, <2>4 DEF WireKinds
  <1>9. Sent' = k + 1
    <2>1. CASE spc' = "send"
      <3>1. Sent' = L - Len(todo')
        BY <1>5, <1>8, <2>1, Zenon DEF Sent
      <3> HIDE DEF L, k
      <3> QED
        BY <1>2, <1>6, <3>1
    <2>2. CASE spc' # "send"
      <3>1. Sent' = L
        BY <1>5, <2>2, Zenon DEF Sent
      <3> HIDE DEF L, k
      <3> QED
        BY <1>2, <1>7, <2>2, <3>1
    <2> QED
      BY <2>1, <2>2
  <1>10. AnswersInOrder'
    <2>1. spc' # "hold"
      BY <1>7
    <2>2. ASSUME spc' = "send"
          PROVE  /\ Len(todo') \in 1..(Len(Answer') - 1)
                 /\ \A i \in 1..Len(todo') : todo'[i] = Answer'[Len(Answer') - Len(todo') + i]
      <3>1. Len(todo') \in 1..(L - 1) /\ L - Len(todo') = k + 1
        <4> HIDE DEF L, k
        <4> QED
          BY <1>2, <1>6, <1>7, <2>2
      <3>2. Len(Answer') = L
        BY <1>5
      <3> QED
        BY <1>5, <1>6, <3>1, <3>2, Zenon
    <2> QED
      BY <2>1, <2>2, Zenon DEF AnswersInOrder
  <1>11. c2s = <<>> /\ cpc \in {"busy", "streaming", "error"}
    BY <1>1 DEF ClientInStep, TypeOK
  <1>12. ASSUME cpc \in {"busy", "streaming"}
         PROVE  Unanswered' \/ UnderWay'
    <2>1. CASE Unanswered
      <3>1. s2c = <<>> /\ closed
        BY <1>1, <2>1 DEF Unanswered
      <3>2. s2c' = <<>> /\ closed'
        BY <1>4, <3>1, Zenon DEF SendMessage, Deliver
      <3> QED
        BY <3>2 DEF Unanswered
    <2>2. CASE UnderWay
      <3>1. PICK m \in 0..Len(Answer) : Delivered(m)
        BY <2>2, Zenon DEF UnderWay
      <3>2. request' = RequestRange(Batch'[1], Last(Batch')) /\ c2s' = <<>>
        BY <1>4, <1>5, <2>2, Zenon DEF UnderWay
      <3>3. s2c \in Seq(Messages) /\ blocks_served \in Nat /\ blocks_received \in Seq(Blocks)
        BY DEF TypeOK, ServerTypeOK
      <3>4. m < L
        <4>1. m # L
          BY <1>1, <3>1, Zenon DEF Delivered
        <4>2. m \in 0..L /\ L \in Nat
          BY <3>1, AnswerLength, Zenon
        <4> HIDE DEF L
        <4> QED
          BY <4>1, <4>2
      <3>5. CASE closed
        <4>1. s2c' = s2c /\ closed'
          BY <1>4, <3>5, Zenon DEF SendMessage, Deliver
        <4>2. Delivered(m)'
          <5> HIDE DEF L, Answer, BlocksIn, Offset, Contiguous
          <5> QED
            BY <1>4, <1>5, <3>1, <3>4, <4>1 DEF Delivered, L
        <4> QED
          BY <1>5, <3>2, <4>2, Zenon DEF UnderWay
      <3>6. CASE ~closed
        <4>1. m = k
          BY <3>1, <3>6, Zenon DEF Delivered
        <4>2. s2c' = Append(s2c, OnWire(Answer[m + 1]))
          BY <1>2, <3>6, <4>1, Zenon DEF SendMessage, Deliver
        <4> DEFINE got == m - Len(s2c)
        <4>3. /\ got \in 0..(L - 1)
              /\ \A i \in 1..Len(s2c) : s2c[i] = OnWire(Answer[got + i])
              /\ cpc = "busy" <=> got = 0
              /\ blocks_served + BlocksIn(got) = Len(blocks_received) + BlocksIn(m)
              /\ Contiguous => Len(blocks_received) = Offset + BlocksIn(got)
          BY <3>1, <3>6, Zenon DEF Delivered
        <4>4. Len(s2c') = Len(s2c) + 1 /\ Len(s2c) \in Nat
          BY <3>3, <4>2
        <4>5. (m + 1) - Len(s2c') = got
          <5> HIDE DEF Answer
          <5> QED
            BY <3>1, <4>4
        <4> HIDE DEF L, k
        <4>6. \A i \in 1..Len(s2c') : s2c'[i] = OnWire(Answer[got + i])
          <5> HIDE DEF Answer, OnWire
          <5> SUFFICES ASSUME NEW i \in 1..Len(s2c') PROVE s2c'[i] = OnWire(Answer[got + i])
            OBVIOUS
          <5>1. CASE i <= Len(s2c)
            <6>1. i \in 1..Len(s2c) /\ s2c'[i] = s2c[i]
              BY <3>3, <4>2, <4>4, <5>1
            <6> QED
              BY <4>3, <6>1, Zenon
          <5>2. CASE i = Len(s2c) + 1
            <6>1. s2c'[i] = OnWire(Answer[m + 1]) /\ got + i = m + 1
              BY <3>1, <3>3, <4>2, <4>4, <5>2
            <6> QED
              BY <6>1
          <5> QED
            BY <4>4, <5>1, <5>2
        <4>7. blocks_served' + BlocksIn(got) = Len(blocks_received) + BlocksIn(m + 1)
          <5>1. /\ BlocksIn(m) \in Nat /\ BlocksIn(m + 1) \in Nat
                /\ BlocksIn(m + 1) =
                     IF Answer[m + 1].kind = "Block" THEN BlocksIn(m) + 1 ELSE BlocksIn(m)
            <6>1. m \in 0..(Len(Answer) - 1)
              BY <1>2, <4>1 DEF L
            <6> QED
              BY <6>1, BlocksInStep, Zenon
          <5>2. BlocksIn(got) \in Nat
            BY <4>3, BlocksInStep, Zenon DEF L
          <5>3. blocks_served' =
                  IF Answer[m + 1].kind = "Block" THEN blocks_served + 1 ELSE blocks_served
            BY <1>2, <4>1, Zenon DEF SendMessage
          <5>4. Len(blocks_received) \in Nat
            BY <3>3
          <5>5. blocks_served + BlocksIn(got) = Len(blocks_received) + BlocksIn(m)
            BY <4>3, Zenon
          <5> HIDE DEF BlocksIn, Answer, got
          <5>6. CASE Answer[m + 1].kind = "Block"
            <6>1. BlocksIn(m + 1) = BlocksIn(m) + 1 /\ blocks_served' = blocks_served + 1
              BY <5>1, <5>3, <5>6, Zenon
            <6>2. (blocks_served + 1) + BlocksIn(got) = Len(blocks_received) + (BlocksIn(m) + 1)
              <7>1. blocks_served \in Nat /\ BlocksIn(m) \in Nat
                BY <3>3, <5>1, Zenon
              <7> QED
                BY ONLY <5>2, <5>4, <5>5, <7>1, OneMoreEach
            <6> QED
              BY <6>1, <6>2, Zenon
          <5>7. CASE Answer[m + 1].kind # "Block"
            BY <5>1, <5>3, <5>5, <5>7, Zenon
          <5> QED
            BY <5>6, <5>7, Zenon
        <4>8. m + 1 \in 0..L /\ (m + 1 = L => spc' # "send")
          BY <1>2, <1>7, <4>1
        <4>9. Delivered(m + 1)'
          <5>1. Sent' = m + 1
            BY <1>9, <4>1
          <5>2. (m + 1) - Len(s2c') = got /\ Answer' = Answer /\ Len(Answer') = L
            BY <1>5, <4>5 DEF L
          <5> HIDE DEF got, Answer, BlocksIn, Sent, Offset, Contiguous
          <5> QED
            BY <1>4, <1>5, <4>3, <4>6, <4>7, <4>8, <5>1, <5>2, Zenon DEF Delivered
        <4>10. m + 1 \in 0..Len(Answer')
          BY <1>5, <4>8 DEF L
        <4> QED
          BY <3>2, <4>9, <4>10, Zenon DEF UnderWay
      <3> QED
        BY <3>5, <3>6
    <2>3. ~Untaken
      BY <1>11 DEF Untaken
    <2> QED
      BY <1>12, <2>1, <2>2, <2>3, Zenon DEF ClientInStep
  <1>13. ClientInStep'
    <2>1. cpc' = cpc /\ closed' = closed /\ c2s' = <<>>
      BY <1>4, <1>11
    <2>2. cpc = "error" => closed
      BY DEF ClientInStep
    <2>3. cpc' \notin {"idle", "completed"} /\ cpc' # "idle"
      BY <1>11, <2>1
    <2> QED
      BY <1>12, <2>1, <2>2, <2>3, Zenon DEF ClientInStep
  <1> QED
    BY <1>10, <1>13

\* The serve loop ends because the connection is down.
LEMMA HonestServerEnds ==
    ASSUME TypeOK, AnswersInOrder, ClientInStep, ServerRecvError \/ ServerSendError,
           UNCHANGED clientVars
    PROVE  AnswersInOrder' /\ ClientInStep'
  <1>1. /\ closed /\ spc' \in {"done", "failed"}
        /\ UNCHANGED <<c2s, s2c, closed, script, rule_idx, request, todo, state, blocks_served>>
        /\ UNCHANGED <<points, batch_size, cpc, batches_done, blocks_received, captured_blocks>>
    BY DEF ServerRecvError, ServerSendError, clientVars, wireVars
  <1>2. /\ Asked' = Asked /\ Answer' = Answer /\ \A i : BlocksIn(i)' = BlocksIn(i)
        /\ Batch' = Batch /\ Offset' = Offset /\ (Contiguous' <=> Contiguous)
    BY <1>1, SameRequest, SameBatch, SamePoints, Zenon
  <1>3. spc' # "hold" /\ spc' # "send"
    BY <1>1
  <1>4. AnswersInOrder'
    BY <1>3 DEF AnswersInOrder
  <1>5. UnderWay => UnderWay'
    <2> SUFFICES ASSUME UnderWay PROVE UnderWay'
      OBVIOUS
    <2>1. PICK m \in 0..Len(Answer) : Delivered(m)
      BY Zenon DEF UnderWay
    <2> HIDE DEF Answer, BlocksIn, Offset, Contiguous
    <2>2. Delivered(m)'
      BY <1>1, <1>2, <1>3, <2>1, Zenon DEF Delivered
    <2> QED
      BY <1>1, <1>2, <2>1, <2>2, Zenon DEF UnderWay
  <1>6. (Untaken => Untaken') /\ (Unanswered => Unanswered')
    BY <1>1, <1>2, Zenon DEF Untaken, Unanswered
  <1> QED
    BY <1>1, <1>2, <1>3, <1>4, <1>5, <1>6, Zenon DEF ClientInStep

\* An honest server does nothing else.
LEMMA HonestServerStep ==
    ASSUME TypeOK, Honest, HonestParts, ServerNext, UNCHANGED clientVars
    PROVE  HonestParts'
  <1>0. AnswersInOrder /\ ClientInStep /\ ReceivedInOrder /\ CapturedUnderOwnPoint
    BY DEF HonestParts
  <1>1. UNCHANGED script
    BY DEF ServerNext, ServerReceive, ServerRecvError, SendMessage, SendWait, ServerWake,
       SendDisconnect, SendUnsupported, ServerSendError
  <1>2. ReceivedInOrder' /\ CapturedUnderOwnPoint'
    BY <1>0, <1>1, ReceivedByServerStep
  <1>3. spc # "hold"
    BY <1>0 DEF AnswersInOrder
  <1>4. spc = "send" => Plan[1].kind \notin {"Wait", "Disconnect", "CursorRange"}
    <2> SUFFICES ASSUME spc = "send" PROVE Plan[1].kind \notin {"Wait", "Disconnect", "CursorRange"}
      OBVIOUS
    <2>1. Plan[1].kind \in WireKinds
      BY <1>0, SendFacts, Zenon
    <2> QED
      BY <2>1 DEF WireKinds
  <1>5. ServerReceive \/ SendMessage \/ ServerRecvError \/ ServerSendError
    BY <1>3, <1>4 DEF ServerNext, SendWait, ServerWake, SendDisconnect, SendUnsupported
  <1>6. AnswersInOrder' /\ ClientInStep'
    BY <1>0, <1>5, HonestReceive, HonestSend, HonestServerEnds, Zenon
  <1> QED
    BY <1>2, <1>6 DEF HonestParts

-----------------------------------------------------------------------------
(* The steps of its client.                                                *)

\* A request goes out for the chunk that is next.
LEMMA HonestRequest ==
    ASSUME TypeOK, HonestParts, ClientRequestRange, UNCHANGED serverVars
    PROVE  HonestParts'
  <1>0. AnswersInOrder /\ ClientInStep /\ ReceivedInOrder /\ CapturedUnderOwnPoint
    BY DEF HonestParts
  <1>1. /\ UNCHANGED <<script, spc, rule_idx, request, todo, state, blocks_served>>
        /\ UNCHANGED <<s2c, closed, points, batch_size, batches_done, blocks_received,
                       captured_blocks>>
        /\ cpc = "idle" /\ cpc' = "busy" /\ Batch # <<>>
    BY DEF ClientRequestRange, serverVars
  <1>2. /\ Answer' = Answer /\ Batch' = Batch /\ Offset' = Offset
        /\ Contiguous' <=> Contiguous
    BY <1>1, SameRequest, SameBatch, SamePoints
  <1>3. c2s = <<>> /\ s2c = <<>> /\ spc # "send" /\ blocks_served = Len(blocks_received)
    BY <1>0, <1>1 DEF ClientInStep
  <1>4. Offset < Len(points)
    BY <1>1, RequestType
  <1>5. Contiguous => Len(blocks_received) = Offset
    <2>1. Offset <= Len(points)
      BY <1>4, PointsType
    <2> QED
      BY <1>0, <1>1, <2>1, Zenon DEF ReceivedInOrder
  <1>6. AnswersInOrder'
    BY <1>0, <1>1, <1>2 DEF AnswersInOrder, NothingSent
  <1>7. ReceivedInOrder' /\ CapturedUnderOwnPoint'
    BY <1>0, <1>1, <1>2 DEF ReceivedInOrder, CapturedUnderOwnPoint, Honest
  <1>8. ClientInStep'
    <2>1. CASE closed
      <3>1. c2s' = <<>> /\ Unanswered'
        BY <1>1, <1>3, <2>1, Zenon DEF ClientRequestRange, Deliver, Unanswered
      <3> QED
        BY <1>1, <3>1 DEF ClientInStep
    <2>2. CASE ~closed
      <3> DEFINE r == RequestRange(Batch[1], Last(Batch))
      <3>1. r \in BfRequests
        BY <1>1, RequestType
      <3>2. c2s' = Append(<<>>, r)
        BY <1>3, <2>2, Zenon DEF ClientRequestRange, Deliver
      <3>3. c2s' # <<>> /\ Len(c2s') = 1 /\ Head(c2s') = r
        <4> HIDE DEF r
        <4> QED
          BY <3>1, <3>2, PutOne, Zenon
      <3>4. r.kind # "Done"
        BY DEF RequestRange
      <3>5. Untaken'
        BY <1>1, <1>2, <1>3, <1>5, <3>3, Zenon DEF Untaken
      <3> QED
        BY <1>1, <1>2, <1>3, <3>3, <3>4, <3>5 DEF ClientInStep
    <2> QED
      BY <2>1, <2>2
  <1> QED
    BY <1>6, <1>7, <1>8 DEF HonestParts

\* The client is at the next message of the answer: what it may be.
LEMMA HonestHead ==
    ASSUME TypeOK, ClientInStep, s2c # <<>>, cpc \in {"busy", "streaming"}
    PROVE  /\ cpc = "busy" => Head(s2c).kind \in {"NoBlocks", "StartBatch"}
           /\ cpc = "streaming" => Head(s2c).kind \in {"Block", "BatchDone"}
  <1>1. PICK m \in 0..Len(Answer) : Delivered(m)
    BY AnswerOnChannel, Zenon DEF UnderWay
  <1> DEFINE got == m - Len(s2c)
  <1>2. /\ got + 1 \in 1..Len(Answer) /\ Head(s2c).kind = Answer[got + 1].kind
        /\ cpc = "busy" => got = 0
        /\ cpc # "busy" => got >= 1
        /\ got \in 0..(Len(Answer) - 1)
    BY <1>1, HeadFacts, Zenon
  <1>3. /\ Answer[got + 1].kind \in WireKinds /\ Answer[got + 1].kind # "RawBytes"
        /\ got + 1 = 1 <=> Answer[got + 1].kind \in {"NoBlocks", "StartBatch"}
    BY <1>2, AnswerKinds, Zenon
  <1> HIDE DEF got
  <1>4. cpc = "busy" <=> got + 1 = 1
    BY <1>2, AnswerLength
  <1> QED
    BY <1>2, <1>3, <1>4 DEF WireKinds

\* no_blocks ends the chunk; contiguous points never get it.
LEMMA HonestNoBlocks ==
    ASSUME TypeOK, OpenBatch, HonestParts, ClientNoBlocks, UNCHANGED serverVars
    PROVE  HonestParts'
  <1>0. AnswersInOrder /\ ClientInStep /\ ReceivedInOrder /\ CapturedUnderOwnPoint
    BY DEF HonestParts
  <1>1. /\ UNCHANGED <<script, spc, rule_idx, request, todo, state, blocks_served>>
        /\ UNCHANGED <<c2s, closed, points, batch_size, blocks_received, captured_blocks>>
        /\ cpc = "busy" /\ cpc' = "idle" /\ s2c # <<>> /\ s2c' = Tail(s2c)
        /\ Head(s2c).kind = "NoBlocks"
    BY DEF ClientNoBlocks, serverVars, Take
  <1>2. Answer' = Answer /\ (Contiguous' <=> Contiguous)
    BY <1>1, SameRequest, SamePoints
  <1>3. UnderWay /\ Offset < Len(points)
    BY <1>0, <1>1, AnswerOnChannel DEF OpenBatch
  <1>4. PICK m \in 0..Len(Answer) : Delivered(m)
    BY <1>3, Zenon DEF UnderWay
  <1> DEFINE got == m - Len(s2c)
  <1>5. /\ got = 0 /\ got + 1 \in 1..Len(Answer) /\ Head(s2c).kind = Answer[got + 1].kind
        /\ got + 1 <= m /\ m - Len(Tail(s2c)) = got + 1
    BY <1>1, <1>4, HeadFacts, Zenon
  <1>6. Asked = <<>>
    BY <1>1, <1>5, AnswerKinds, Zenon
  <1>7. Len(Answer) = 1
    BY <1>6, AnswerFacts, Zenon
  <1>8. m = Len(Answer) /\ m = 1
    <2> HIDE DEF got, Answer
    <2> QED
      BY <1>4, <1>5, <1>7
  <1>9. s2c' = <<>> /\ Len(s2c) = 1
    <2>1. s2c \in Seq(Messages)
      BY DEF TypeOK, ServerTypeOK
    <2>2. Len(s2c) = 1
      BY <1>5, <1>8, <2>1
    <2> QED
      BY <1>1, <2>1, <2>2
  <1>10. spc # "send" /\ blocks_served + BlocksIn(got) = Len(blocks_received) + BlocksIn(m)
    BY <1>4, <1>8, Zenon DEF Delivered
  <1>11. BlocksIn(got) = 0 /\ BlocksIn(m) = 0
    BY <1>5, <1>8 DEF BlocksIn
  <1>12. blocks_served = Len(blocks_received)
    <2>1. blocks_served \in Nat /\ Len(blocks_received) \in Nat
      BY DEF TypeOK, ServerTypeOK
    <2> HIDE DEF BlocksIn, got
    <2>2. blocks_served + 0 = Len(blocks_received) + 0
      BY <1>10, <1>11, Zenon
    <2> QED
      BY <2>1, <2>2
  <1>13. ~Contiguous
    <2> SUFFICES ASSUME Contiguous PROVE FALSE
      OBVIOUS
    <2>1. Asked = Batch
      BY <1>3, AskedIsBatch DEF UnderWay
    <2>2. Batch # <<>>
      BY <1>3, PointsType, BatchFacts, Zenon
    <2> QED
      BY <1>6, <2>1, <2>2, Zenon
  <1>14. AnswersInOrder'
    BY <1>0, <1>1, <1>2 DEF AnswersInOrder, NothingSent
  <1>15. ReceivedInOrder' /\ CapturedUnderOwnPoint'
    BY <1>0, <1>1, <1>2, <1>13 DEF ReceivedInOrder, CapturedUnderOwnPoint, Honest
  <1>16. ClientInStep'
    <2>1. c2s' = <<>>
      BY <1>1, <1>3 DEF UnderWay
    <2> QED
      BY <1>1, <1>9, <1>10, <1>12, <2>1, Zenon DEF ClientInStep
  <1> QED
    BY <1>14, <1>15, <1>16 DEF HonestParts

\* start_batch opens the batch.
LEMMA HonestStartBatch ==
    ASSUME TypeOK, OpenBatch, HonestParts, ClientStartBatch, UNCHANGED serverVars
    PROVE  HonestParts'
  <1>0. AnswersInOrder /\ ClientInStep /\ ReceivedInOrder /\ CapturedUnderOwnPoint
    BY DEF HonestParts
  <1>1. /\ UNCHANGED <<script, spc, rule_idx, request, todo, state, blocks_served>>
        /\ UNCHANGED <<c2s, closed, points, batch_size, batches_done, blocks_received,
                       captured_blocks>>
        /\ cpc = "busy" /\ cpc' = "streaming" /\ s2c # <<>> /\ s2c' = Tail(s2c)
        /\ Head(s2c).kind = "StartBatch"
    BY DEF ClientStartBatch, serverVars, Take
  <1>2. /\ Asked' = Asked /\ Answer' = Answer /\ \A i : BlocksIn(i)' = BlocksIn(i)
        /\ Batch' = Batch /\ Offset' = Offset /\ (Contiguous' <=> Contiguous)
    BY <1>1, SameRequest, SameBatch, SamePoints, Zenon
  <1>3. UnderWay
    BY <1>0, <1>1, AnswerOnChannel
  <1>4. PICK m \in 0..Len(Answer) : Delivered(m)
    BY <1>3, Zenon DEF UnderWay
  <1> DEFINE got == m - Len(s2c)
  <1>5. /\ got = 0 /\ got + 1 \in 1..Len(Answer) /\ Head(s2c).kind = Answer[got + 1].kind
        /\ m - Len(Tail(s2c)) = got + 1
        /\ \A i \in 1..Len(Tail(s2c)) : Tail(s2c)[i] = OnWire(Answer[got + 1 + i])
    BY <1>1, <1>4, HeadFacts, Zenon
  <1>6. Asked # <<>>
    BY <1>1, <1>5, AnswerKinds, Zenon
  <1>7. Len(Answer) >= 3
    <2> HIDE DEF Asked, Answer
    <2> QED
      BY <1>6, AnswerFacts
  <1>8. BlocksIn(got) = 0 /\ BlocksIn(1) = 0
    BY <1>5 DEF BlocksIn
  <1>9. Delivered(m)'
    <2>1. /\ ~closed => m = Sent
          /\ m = Len(Answer) => spc # "send"
          /\ ~closed \/ m = Len(Answer) =>
               blocks_served + 0 = Len(blocks_received) + BlocksIn(m)
          /\ Contiguous => Len(blocks_received) = Offset + 0
      BY <1>4, <1>8, Zenon DEF Delivered
    <2>2. Sent' = Sent
      BY <1>1, <1>2, Zenon DEF Sent, NothingSent
    <2>3. m - Len(s2c') = 1
      BY <1>1, <1>5
    <2>4. \A i \in 1..Len(s2c') : s2c'[i] = OnWire(Answer[1 + i])
      <3>1. got + 1 = 1
        BY <1>5
      <3> HIDE DEF got, Answer
      <3> QED
        BY <1>1, <1>5, <3>1, Zenon
    <2>5. 1 \in 0..(Len(Answer) - 1)
      BY <1>7, AnswerLength
    <2> HIDE DEF got, Answer, BlocksIn, Sent, Offset, Contiguous
    <2>6. m - Len(s2c') # 0 /\ cpc' # "busy"
      BY <1>1, <2>3
    <2> QED
      BY <1>1, <1>2, <1>8, <2>1, <2>2, <2>3, <2>4, <2>5, <2>6, Zenon DEF Delivered
  <1>10. UnderWay'
    BY <1>1, <1>2, <1>3, <1>4, <1>9, Zenon DEF UnderWay
  <1>11. AnswersInOrder'
    BY <1>0, <1>1, <1>2 DEF AnswersInOrder, NothingSent
  <1>12. ReceivedInOrder' /\ CapturedUnderOwnPoint'
    BY <1>0, <1>1, <1>2 DEF ReceivedInOrder, CapturedUnderOwnPoint, Honest
  <1>13. ClientInStep'
    <2>1. c2s' = <<>> /\ cpc' = "streaming"
      BY <1>1, <1>3 DEF UnderWay
    <2> QED
      BY <1>10, <2>1 DEF ClientInStep
  <1> QED
    BY <1>11, <1>12, <1>13 DEF HonestParts

\* A block: the next of the answer, which for contiguous points is the next
\* of the points, and for a chunk of one point is the block of that point.
LEMMA HonestBlock ==
    ASSUME TypeOK, OpenBatch, Honest, HonestParts, ClientBlock, UNCHANGED serverVars
    PROVE  HonestParts'
  <1>0. AnswersInOrder /\ ClientInStep /\ ReceivedInOrder /\ CapturedUnderOwnPoint
    BY DEF HonestParts
  <1> DEFINE block == Head(s2c).block
  <1>1. /\ UNCHANGED <<script, spc, rule_idx, request, todo, state, blocks_served>>
        /\ UNCHANGED <<c2s, closed, points, batch_size, cpc, batches_done>>
        /\ cpc = "streaming" /\ s2c # <<>> /\ s2c' = Tail(s2c)
        /\ Head(s2c).kind = "Block"
        /\ blocks_received' = Append(blocks_received, block)
    BY DEF ClientBlock, serverVars, Take
  <1>2. /\ Asked' = Asked /\ Answer' = Answer /\ \A i : BlocksIn(i)' = BlocksIn(i)
        /\ Batch' = Batch /\ Offset' = Offset /\ (Contiguous' <=> Contiguous)
    BY <1>1, SameRequest, SameBatch, SamePoints, Zenon
  <1>3. UnderWay /\ Offset < Len(points)
    BY <1>0, <1>1, AnswerOnChannel DEF OpenBatch
  <1>4. PICK m \in 0..Len(Answer) : Delivered(m)
    BY <1>3, Zenon DEF UnderWay
  <1> DEFINE got == m - Len(s2c)
  <1>5. /\ got \in 0..(Len(Answer) - 1) /\ got + 1 \in 1..Len(Answer)
        /\ got >= 1 /\ Head(s2c).kind = Answer[got + 1].kind
        /\ m - Len(Tail(s2c)) = got + 1 /\ Head(s2c) = OnWire(Answer[got + 1])
        /\ \A i \in 1..Len(Tail(s2c)) : Tail(s2c)[i] = OnWire(Answer[got + 1 + i])
    <2>1. cpc # "busy"
      BY <1>1
    <2> QED
      BY <1>1, <1>4, <2>1, HeadFacts, Zenon
  <1>6. /\ Asked # <<>> /\ got + 1 \in 2..(Len(Answer) - 1)
        /\ (got + 1) - 1 \in 1..Len(Asked) /\ block = Asked[(got + 1) - 1]
    BY <1>1, <1>5, AnswerKinds, Zenon
  <1>7. (got + 1) - 1 = got
    BY <1>5, AnswerLength
  <1>8. got \in 1..Len(Asked) /\ block = Asked[got]
    BY <1>6, <1>7, Zenon
  <1>9. /\ BlocksIn(got) \in Nat /\ BlocksIn(got) = got - 1
        /\ BlocksIn(got + 1) = BlocksIn(got) + 1
    BY <1>1, <1>5, <1>6, BlocksInStep, Zenon
  <1>10. /\ blocks_received \in Seq(Blocks) /\ block \in Blocks /\ blocks_served \in Nat
         /\ Len(blocks_received) \in Nat /\ Len(blocks_received') = Len(blocks_received) + 1
    <2>1. block \in Blocks
      BY <1>1, TakeFacts, Zenon DEF ClientBlock
    <2>2. blocks_received \in Seq(Blocks) /\ blocks_served \in Nat
      BY DEF TypeOK, ServerTypeOK
    <2> HIDE DEF block
    <2> QED
      BY <1>1, <2>1, <2>2
  <1>11. /\ ~closed => m = Sent
         /\ m = Len(Answer) => spc # "send"
         /\ ~closed \/ m = Len(Answer) =>
              blocks_served + BlocksIn(got) = Len(blocks_received) + BlocksIn(m)
         /\ Contiguous => Len(blocks_received) = Offset + BlocksIn(got)
    BY <1>4, Zenon DEF Delivered
  <1>12. Delivered(m)'
    <2>1. Sent' = Sent
      BY <1>1, <1>2, Zenon DEF Sent, NothingSent
    <2>2. m - Len(s2c') = got + 1
      BY <1>1, <1>5
    <2>3. \A i \in 1..Len(s2c') : s2c'[i] = OnWire(Answer[got + 1 + i])
      BY <1>1, <1>5, Zenon
    <2>4. got + 1 \in 0..(Len(Answer) - 1) /\ got + 1 # 0 /\ cpc' # "busy"
      BY <1>1, <1>5, <1>6, AnswerLength
    <2>5. ASSUME ~closed \/ m = Len(Answer)
          PROVE  blocks_served + BlocksIn(got + 1) = Len(blocks_received') + BlocksIn(m)
      <3>1. blocks_served + BlocksIn(got) = Len(blocks_received) + BlocksIn(m)
        BY <1>11, <2>5, Zenon
      <3>2. BlocksIn(m) \in Nat
        <4>1. Len(Asked) \in Nat /\ m \in Nat
          BY <1>4, AnswerFacts
        <4> QED
          BY <4>1 DEF BlocksIn
      <3>3. blocks_served + (BlocksIn(got) + 1) = (Len(blocks_received) + 1) + BlocksIn(m)
        <4>1. blocks_served \in Nat /\ BlocksIn(got) \in Nat /\ Len(blocks_received) \in Nat
          BY <1>9, <1>10, Zenon
        <4> QED
          BY ONLY <3>1, <3>2, <4>1, OneMoreEach
      <3> QED
        BY <1>9, <1>10, <3>3, Zenon
    <2>6. Contiguous => Len(blocks_received') = Offset + BlocksIn(got + 1)
      <3>1. Offset \in Nat
        BY PointsType
      <3> HIDE DEF BlocksIn, got, Contiguous, Offset
      <3> QED
        BY <1>9, <1>10, <1>11, <3>1
    <2> HIDE DEF got, Answer, BlocksIn, Sent, Offset, Contiguous
    <2> QED
      BY <1>1, <1>2, <1>11, <2>1, <2>2, <2>3, <2>4, <2>5, <2>6, Zenon DEF Delivered
  <1>13. UnderWay'
    BY <1>1, <1>2, <1>3, <1>4, <1>12, Zenon DEF UnderWay
  <1>14. AnswersInOrder'
    BY <1>0, <1>1, <1>2 DEF AnswersInOrder, NothingSent
  <1>15. ReceivedInOrder'
    <2> SUFFICES ASSUME Contiguous
                 PROVE  /\ Len(blocks_received') <= Len(points)
                        /\ \A i \in 1..Len(blocks_received') : blocks_received'[i] = points[i]
      BY <1>1, <1>2 DEF ReceivedInOrder
    <2>1. Asked = Batch
      BY <1>3, AskedIsBatch DEF UnderWay
    <2>2. /\ Len(Batch) \in 1..(Len(points) - Offset)
          /\ \A i \in 1..Len(Batch) : Batch[i] = points[Offset + i]
          /\ Offset \in Nat /\ Len(points) \in Nat
      BY <1>3, PointsType, BatchFacts, Zenon
    <2>3. block = points[Offset + got]
      BY <1>8, <2>1, <2>2, Zenon
    <2>4. Len(blocks_received) = Offset + (got - 1)
      BY <1>9, <1>11, Zenon
    <2>5. got \in 1..Len(Batch)
      BY <1>8, <2>1, Zenon
    <2>6. Len(blocks_received) + 1 = Offset + got /\ Offset + got <= Len(points)
      <3> HIDE DEF got, Offset, Batch
      <3> QED
        BY <2>2, <2>4, <2>5
    <2>7. \A i \in 1..Len(blocks_received) : blocks_received[i] = points[i]
      BY <1>0, Zenon DEF ReceivedInOrder
    <2>8. ASSUME NEW i \in 1..Len(blocks_received')
          PROVE  blocks_received'[i] = points[i]
      <3> HIDE DEF block
      <3>1. CASE i <= Len(blocks_received)
        <4>1. i \in 1..Len(blocks_received) /\ blocks_received'[i] = blocks_received[i]
          BY <1>1, <1>10, <3>1
        <4> QED
          BY <2>7, <4>1, Zenon
      <3>2. CASE i = Len(blocks_received) + 1
        <4>1. blocks_received'[i] = block
          BY <1>1, <1>10, <3>2
        <4> QED
          BY <2>3, <2>6, <3>2, <4>1, Zenon
      <3> QED
        BY <1>10, <3>1, <3>2
    <2> QED
      BY <1>10, <2>6, <2>8
  <1>16. CapturedUnderOwnPoint'
    <2>1. \A i \in 1..Len(captured_blocks) : captured_blocks[i][1] = captured_blocks[i][2]
      BY <1>0 DEF CapturedUnderOwnPoint
    <2>2. captured_blocks \in Seq(Blocks \X Blocks)
      BY DEF TypeOK
    <2>3. CASE captured_blocks' = captured_blocks
      BY <2>1, <2>3 DEF CapturedUnderOwnPoint
    <2>4. CASE /\ Len(Batch) = 1
               /\ captured_blocks' = Append(captured_blocks, <<Batch[1], block>>)
      <3>1. Last(Batch) = Batch[1]
        BY <2>4, Zenon DEF Last
      <3>2. Asked = find_range(Batch[1], Batch[1])
        BY <1>3, <3>1, Zenon DEF UnderWay, Asked, RequestRange
      <3>3. Asked = <<Batch[1]>>
        BY <1>6, <3>2, RangeFacts, Zenon
      <3>4. block = Batch[1]
        <4> HIDE DEF Asked, block, got, Batch
        <4> QED
          BY <1>8, <3>3
      <3>5. <<Batch[1], block>> \in Blocks \X Blocks /\ <<Batch[1], block>>[1] = <<Batch[1], block>>[2]
        BY <1>10, <3>4
      <3> DEFINE x == <<Batch[1], block>>
      <3>6. x \in Blocks \X Blocks /\ x[1] = x[2] /\ captured_blocks' = Append(captured_blocks, x)
        BY <2>4, <3>5
      <3> HIDE DEF x
      <3> QED
        BY <2>1, <2>2, <3>6 DEF CapturedUnderOwnPoint
    <2> QED
      BY <2>3, <2>4, <1>1, Zenon DEF ClientBlock
  <1>17. ClientInStep'
    <2>1. c2s' = <<>> /\ cpc' = "streaming"
      BY <1>1, <1>3 DEF UnderWay
    <2> QED
      BY <1>13, <2>1 DEF ClientInStep
  <1> QED
    BY <1>14, <1>15, <1>16, <1>17 DEF HonestParts

\* batch_done ends the chunk with everything it was asked for.
LEMMA HonestBatchDone ==
    ASSUME TypeOK, OpenBatch, HonestParts, ClientBatchDone, UNCHANGED serverVars
    PROVE  HonestParts'
  <1>0. AnswersInOrder /\ ClientInStep /\ ReceivedInOrder /\ CapturedUnderOwnPoint
    BY DEF HonestParts
  <1>1. /\ UNCHANGED <<script, spc, rule_idx, request, todo, state, blocks_served>>
        /\ UNCHANGED <<c2s, closed, points, batch_size, blocks_received, captured_blocks>>
        /\ cpc = "streaming" /\ cpc' = "idle" /\ batches_done' = batches_done + 1
        /\ s2c # <<>> /\ s2c' = Tail(s2c) /\ Head(s2c).kind = "BatchDone"
    BY DEF ClientBatchDone, serverVars, Take
  <1>2. Answer' = Answer /\ (Contiguous' <=> Contiguous)
    BY <1>1, SameRequest, SamePoints
  <1>3. UnderWay /\ Offset < Len(points)
    BY <1>0, <1>1, AnswerOnChannel DEF OpenBatch
  <1>4. PICK m \in 0..Len(Answer) : Delivered(m)
    BY <1>3, Zenon DEF UnderWay
  <1> DEFINE got == m - Len(s2c)
  <1>5. /\ got \in 0..(Len(Answer) - 1) /\ got + 1 \in 1..Len(Answer)
        /\ got >= 1 /\ Head(s2c).kind = Answer[got + 1].kind
        /\ got + 1 <= m /\ m - Len(Tail(s2c)) = got + 1
    <2>1. cpc # "busy"
      BY <1>1
    <2> QED
      BY <1>1, <1>4, <2>1, HeadFacts, Zenon
  <1>6. Asked # <<>> /\ got + 1 = Len(Answer)
    BY <1>1, <1>5, AnswerKinds, Zenon
  <1>7. m = Len(Answer) /\ m = got + 1
    <2>1. m \in 0..Len(Answer) /\ Len(Answer) <= m
      BY <1>4, <1>5, <1>6, Zenon
    <2>2. m = Len(Answer)
      <3> HIDE DEF Answer
      <3> QED
        BY <2>1, AnswerLength
    <2> QED
      BY <1>6, <2>2, Zenon
  <1>8. s2c' = <<>>
    <2>1. s2c \in Seq(Messages)
      BY DEF TypeOK, ServerTypeOK
    <2>2. Len(s2c) = 1
      BY <1>7, <1>4, <2>1, AnswerLength
    <2> QED
      BY <1>1, <2>1, <2>2
  <1>9. /\ spc # "send" /\ blocks_served + BlocksIn(got) = Len(blocks_received) + BlocksIn(m)
        /\ Contiguous => Len(blocks_received) = Offset + BlocksIn(got)
    BY <1>4, <1>7, Zenon DEF Delivered
  <1>10. BlocksIn(got) = Len(Asked) /\ BlocksIn(m) = BlocksIn(got) /\ BlocksIn(got) \in Nat
    <2>1. /\ BlocksIn(got) \in Nat /\ BlocksIn(got) = got - 1
          /\ BlocksIn(got + 1) = IF Answer[got + 1].kind = "Block" THEN BlocksIn(got) + 1
                                 ELSE BlocksIn(got)
      BY <1>1, <1>5, <1>6, BlocksInStep, Zenon
    <2>2. Answer[got + 1].kind # "Block"
      BY <1>1, <1>5
    <2>3. BlocksIn(m) = BlocksIn(got)
      BY <1>7, <2>1, <2>2, Zenon
    <2>4. got - 1 = Len(Asked)
      <3> HIDE DEF got, Answer, Asked
      <3> QED
        BY <1>5, <1>6, AnswerFacts
    <2> QED
      BY <2>1, <2>3, <2>4, Zenon
  <1>11. blocks_served = Len(blocks_received)
    <2>1. blocks_served \in Nat /\ Len(blocks_received) \in Nat
      BY DEF TypeOK, ServerTypeOK
    <2>2. blocks_served + BlocksIn(got) = Len(blocks_received) + BlocksIn(got)
      BY <1>9, <1>10, Zenon
    <2> HIDE DEF BlocksIn, got
    <2> QED
      BY <1>10, <2>1, <2>2
  <1>12. AnswersInOrder'
    BY <1>0, <1>1, <1>2 DEF AnswersInOrder, NothingSent
  <1>13. ReceivedInOrder'
    <2> SUFFICES ASSUME Contiguous
                 PROVE  /\ Len(blocks_received) <= Len(points)
                        /\ \A i \in 1..Len(blocks_received) : blocks_received[i] = points[i]
                        /\ Len(blocks_received) =
                             IF Offset' <= Len(points) THEN Offset' ELSE Len(points)
      BY <1>1, <1>2 DEF ReceivedInOrder
    <2>1. Asked = Batch
      BY <1>3, AskedIsBatch DEF UnderWay
    <2>2. /\ Len(Batch) = IF Offset + effective_batch <= Len(points)
                          THEN effective_batch ELSE Len(points) - Offset
          /\ (batches_done + 1) * effective_batch = Offset + effective_batch
      BY <1>3, PointsType, BatchFacts, Zenon
    <2>3. Len(blocks_received) = Offset + Len(Batch)
      BY <1>9, <1>10, <2>1, Zenon
    <2>4. Offset' = Offset + effective_batch
      <3>1. effective_batch' = effective_batch
        BY <1>1 DEF effective_batch
      <3>2. Offset' = (batches_done + 1) * effective_batch
        BY <1>1, <3>1, Zenon DEF Offset
      <3> QED
        BY <2>2, <3>2, Zenon
    <2>5. Len(blocks_received) = IF Offset' <= Len(points) THEN Offset' ELSE Len(points)
      <3>1. Offset \in Nat /\ effective_batch \in Nat /\ Len(points) \in Nat
        BY PointsType
      <3> DEFINE o == Offset
                 e == effective_batch
                 b == Len(Batch)
                 n == Len(points)
                 p == Offset'
      <3>2. /\ o \in Nat /\ e \in Nat /\ n \in Nat
            /\ b = IF o + e <= n THEN e ELSE n - o
            /\ Len(blocks_received) = o + b /\ p = o + e
        BY <2>2, <2>3, <2>4, <3>1
      <3> HIDE DEF o, e, b, n, p
      <3>3. Len(blocks_received) = IF p <= n THEN p ELSE n
        BY <3>2
      <3> QED
        BY <3>3, Zenon DEF p, n
    <2> QED
      BY <1>0, <2>5, Zenon DEF ReceivedInOrder
  <1>14. CapturedUnderOwnPoint'
    BY <1>0, <1>1 DEF CapturedUnderOwnPoint, Honest
  <1>15. ClientInStep'
    <2>1. c2s' = <<>>
      BY <1>1, <1>3 DEF UnderWay
    <2> QED
      BY <1>1, <1>8, <1>9, <1>11, <2>1, Zenon DEF ClientInStep
  <1> QED
    BY <1>12, <1>13, <1>14, <1>15 DEF HonestParts

\* The client fails only when the connection is down.
LEMMA HonestConnError ==
    ASSUME TypeOK, HonestParts, ClientConnError, UNCHANGED serverVars
    PROVE  HonestParts'
  <1>0. AnswersInOrder /\ ClientInStep /\ ReceivedInOrder /\ CapturedUnderOwnPoint
    BY DEF HonestParts
  <1>1. /\ UNCHANGED <<script, spc, rule_idx, request, todo, state, blocks_served>>
        /\ UNCHANGED <<c2s, s2c, closed, points, batch_size, batches_done, blocks_received,
                       captured_blocks>>
        /\ cpc' = "error" /\ closed /\ cpc \in {"idle", "busy", "streaming"}
    BY DEF ClientConnError, serverVars, Fail
  <1>2. Answer' = Answer /\ Batch' = Batch /\ (Contiguous' <=> Contiguous)
    BY <1>1, SameRequest, SameBatch, SamePoints
  <1>3. AnswersInOrder'
    BY <1>0, <1>1, <1>2 DEF AnswersInOrder, NothingSent
  <1>4. ReceivedInOrder' /\ CapturedUnderOwnPoint'
    BY <1>0, <1>1, <1>2 DEF ReceivedInOrder, CapturedUnderOwnPoint, Honest
  <1>5. ClientInStep'
    BY <1>0, <1>1, <1>2 DEF ClientInStep
  <1> QED
    BY <1>3, <1>4, <1>5 DEF HonestParts

\* After the last chunk the client says that it is done.
LEMMA HonestDone ==
    ASSUME TypeOK, HonestParts, ClientSendDone, UNCHANGED serverVars
    PROVE  HonestParts'
  <1>0. AnswersInOrder /\ ClientInStep /\ ReceivedInOrder /\ CapturedUnderOwnPoint
    BY DEF HonestParts
  <1>1. /\ UNCHANGED <<script, spc, rule_idx, request, todo, state, blocks_served>>
        /\ UNCHANGED <<s2c, closed, points, batch_size, batches_done, blocks_received,
                       captured_blocks>>
        /\ cpc = "idle" /\ cpc' = "completed" /\ Batch = <<>>
    BY DEF ClientSendDone, serverVars
  <1>2. /\ Answer' = Answer /\ Batch' = Batch /\ Offset' = Offset
        /\ Contiguous' <=> Contiguous
    BY <1>1, SameRequest, SameBatch, SamePoints
  <1>3. c2s = <<>> /\ s2c = <<>> /\ spc # "send"
    BY <1>0, <1>1 DEF ClientInStep
  <1>4. Offset >= Len(points)
    <2>1. ~(Offset < Len(points))
      BY <1>1, PointsType, BatchFacts, Zenon
    <2> QED
      BY <2>1, PointsType
  <1>5. AnswersInOrder'
    BY <1>0, <1>1, <1>2 DEF AnswersInOrder, NothingSent
  <1>6. ReceivedInOrder' /\ CapturedUnderOwnPoint'
    BY <1>0, <1>1, <1>2, <1>4 DEF ReceivedInOrder, CapturedUnderOwnPoint, Honest
  <1>7. ClientInStep'
    <2>1. c2s' \in {<<>>, Append(<<>>, ClientDone)}
      BY <1>3, Zenon DEF ClientSendDone, Deliver
    <2>2. ClientDone \in BfRequests /\ ClientDone.kind = "Done"
      BY DEF ClientDone, BfRequests, Ends
    <2>3. c2s' # <<>> => Len(c2s') = 1 /\ Head(c2s').kind = "Done"
      BY <2>1, <2>2, PutOne, Zenon
    <2> QED
      BY <1>1, <1>3, <2>3 DEF ClientInStep
  <1> QED
    BY <1>5, <1>6, <1>7 DEF HonestParts

\* An honest server keeps its client in step.
LEMMA HonestClientStep ==
    ASSUME TypeOK, OpenBatch, Honest, HonestParts, ClientNext, UNCHANGED serverVars
    PROVE  HonestParts'
  <1>1. ClientInStep
    BY DEF HonestParts
  <1>2. ~ClientUnexpected
    BY <1>1, HonestHead DEF ClientUnexpected, Expected
  <1>3. ~ClientPartialBytes
    BY <1>1, HonestHead DEF ClientPartialBytes, Take
  <1> QED
    BY <1>2, <1>3, HonestRequest, HonestNoBlocks, HonestStartBatch, HonestBlock,
       HonestBatchDone, HonestConnError, HonestDone, Zenon DEF ClientNext

\* The connection goes down.
LEMMA HonestClose ==
    ASSUME TypeOK, HonestParts, Close
    PROVE  HonestParts'
  <1>0. AnswersInOrder /\ ClientInStep /\ ReceivedInOrder /\ CapturedUnderOwnPoint
    BY DEF HonestParts
  <1>1. /\ UNCHANGED <<script, spc, rule_idx, request, todo, state, blocks_served>>
        /\ UNCHANGED clientVars
        /\ UNCHANGED <<points, batch_size, cpc, batches_done, blocks_received, captured_blocks>>
        /\ closed' = TRUE /\ c2s' \in {c2s, <<>>} /\ s2c' \in {s2c, <<>>}
    BY DEF Close, serverVars, clientVars
  <1>2. /\ Asked' = Asked /\ Answer' = Answer /\ \A i : BlocksIn(i)' = BlocksIn(i)
        /\ Batch' = Batch /\ Offset' = Offset /\ (Contiguous' <=> Contiguous)
    BY <1>1, SameRequest, SameBatch, SamePoints, Zenon
  <1>3. ReceivedInOrder' /\ CapturedUnderOwnPoint'
    BY <1>0, <1>1, ReceivedByServerStep
  <1>4. AnswersInOrder'
    BY <1>0, <1>1, <1>2 DEF AnswersInOrder, NothingSent
  <1>5. ASSUME cpc \in {"busy", "streaming"}
        PROVE  Unanswered' \/ UnderWay'
    <2>1. CASE s2c' = <<>>
      BY <1>1, <2>1, Zenon DEF Unanswered
    <2>2. CASE s2c' # <<>>
      <3>1. s2c' = s2c /\ s2c # <<>>
        BY <1>1, <2>2
      <3>2. UnderWay
        BY <1>0, <1>5, <3>1, AnswerOnChannel, Zenon
      <3>3. PICK m \in 0..Len(Answer) : Delivered(m)
        BY <3>2, Zenon DEF UnderWay
      <3>4. Delivered(m)'
        <4> HIDE DEF Answer, BlocksIn, Offset, Contiguous
        <4> QED
          BY <1>1, <1>2, <3>1, <3>3, Zenon DEF Delivered
      <3>5. c2s' = <<>>
        BY <1>1, <3>2 DEF UnderWay
      <3> QED
        BY <1>1, <1>2, <3>2, <3>3, <3>4, <3>5, Zenon DEF UnderWay
    <2> QED
      BY <2>1, <2>2
  <1>6. ClientInStep'
    <2>1. (s2c = <<>> => s2c' = <<>>) /\ (c2s' # <<>> => c2s' = c2s)
      BY <1>1
    <2> QED
      BY <1>0, <1>1, <1>2, <1>5, <2>1, Zenon DEF ClientInStep
  <1> QED
    BY <1>3, <1>4, <1>6 DEF HonestParts

\* Nothing happens.
LEMMA HonestStutter ==
    ASSUME HonestParts, UNCHANGED vars
    PROVE  HonestParts'
  <1>1. /\ UNCHANGED <<script, spc, request, todo, blocks_served, c2s, s2c, closed>>
        /\ UNCHANGED clientVars
        /\ UNCHANGED <<points, batch_size, cpc, batches_done, blocks_received>>
    BY DEF vars, wireVars, serverVars, clientVars
  <1>2. /\ Asked' = Asked /\ Answer' = Answer /\ \A i : BlocksIn(i)' = BlocksIn(i)
        /\ Batch' = Batch /\ Offset' = Offset /\ (Contiguous' <=> Contiguous)
    BY <1>1, SameRequest, SameBatch, SamePoints, Zenon
  <1>3. ReceivedInOrder' /\ CapturedUnderOwnPoint'
    BY <1>1, ReceivedByServerStep DEF HonestParts
  <1>4. AnswersInOrder'
    BY <1>1, <1>2 DEF HonestParts, AnswersInOrder, NothingSent
  <1>5. Sent' = Sent
    BY <1>1, <1>2 DEF Sent, NothingSent
  <1>6. ASSUME NEW m
        PROVE  Delivered(m) => Delivered(m)'
    <2> HIDE DEF Answer, BlocksIn, Offset, Contiguous, Sent
    <2> QED
      BY <1>1, <1>2, <1>5, Zenon DEF Delivered
  <1>7. UnderWay => UnderWay'
    BY <1>1, <1>2, <1>6, Zenon DEF UnderWay
  <1>8. (Untaken => Untaken') /\ (Unanswered => Unanswered')
    BY <1>1, <1>2, Zenon DEF Untaken, Unanswered
  <1>9. ClientInStep'
    BY <1>1, <1>2, <1>7, <1>8, Zenon DEF HonestParts, ClientInStep
  <1> QED
    BY <1>3, <1>4, <1>9 DEF HonestParts

-----------------------------------------------------------------------------
(* The theorems about an honest server.                                    *)

\* The inductive invariant at the start: nothing was asked, sent or received.
LEMMA BlockFetchInvInit == Init => BlockFetchInv
  <1> SUFFICES ASSUME Init PROVE BlockFetchInv
    OBVIOUS
  <1>1. BatchInv /\ TypeOK
    BY BatchInvInit DEF BatchInv
  <1>2. /\ c2s = <<>> /\ s2c = <<>> /\ spc = "recv" /\ blocks_served = 0
        /\ cpc = "idle" /\ batches_done = 0 /\ blocks_received = <<>> /\ captured_blocks = <<>>
    BY DEF Init, ServerInit
  <1>3. Len(blocks_received) = 0 /\ Len(captured_blocks) = 0
    BY <1>2
  <1>4. Offset = 0 /\ Len(points) \in Nat
    <2>1. effective_batch \in Nat /\ Len(points) \in Nat
      BY <1>1, PointsType
    <2> HIDE DEF effective_batch
    <2> QED
      BY <1>2, <2>1 DEF Offset
  <1>5. AnswersInOrder /\ ClientInStep
    BY <1>2, <1>3 DEF AnswersInOrder, ClientInStep
  <1>6. ReceivedInOrder /\ CapturedUnderOwnPoint
    <2> HIDE DEF Offset
    <2> QED
      BY <1>2, <1>3, <1>4 DEF ReceivedInOrder, CapturedUnderOwnPoint
  <1> QED
    BY <1>1, <1>5, <1>6 DEF BlockFetchInv, HonestParts

\* Every step keeps the inductive invariant.
LEMMA BlockFetchInvStep ==
    ASSUME BlockFetchInv, [Next]_vars
    PROVE  BlockFetchInv'
  <1>1. BatchInv' /\ TypeOK /\ OpenBatch
    BY BatchInvStep DEF BlockFetchInv, BatchInv
  <1>2. script' = script
    BY DEF Next, vars, serverVars, Close, ServerNext, ServerReceive, ServerRecvError,
       SendMessage, SendWait, ServerWake, SendDisconnect, SendUnsupported, ServerSendError
  <1>3. Honest' => Honest
    BY <1>2 DEF Honest
  <1>4. ASSUME Honest
        PROVE  HonestParts'
    <2>1. HonestParts
      BY <1>4 DEF BlockFetchInv
    <2>2. CASE UNCHANGED vars
      BY <2>1, <2>2, HonestStutter
    <2> QED
      BY <1>1, <1>4, <2>1, <2>2, HonestServerStep, HonestClientStep, HonestClose, Zenon DEF Next
  <1> QED
    BY <1>1, <1>3, <1>4 DEF BlockFetchInv

\* The invariant holds throughout.
LEMMA BlockFetchInvariant == Spec => []BlockFetchInv
  <1>1. Init => BlockFetchInv
    BY BlockFetchInvInit
  <1>2. BlockFetchInv /\ [Next]_vars => BlockFetchInv'
    BY BlockFetchInvStep
  <1> QED
    BY <1>1, <1>2, PTL DEF Spec

(***************************************************************************)
(* run_block_fetch against an honest script: whatever the fixture, the     *)
(* points and batch_size, consecutive points are received exactly, and     *)
(* between two requests both sides have counted the same blocks.           *)
(***************************************************************************)
THEOREM BlockFetchedExactly == Spec => []FetchedExactly
  <1>1. BlockFetchInv => FetchedExactly
    <2> SUFFICES ASSUME BlockFetchInv, Honest PROVE FetchedExactly
      BY DEF FetchedExactly
    <2>1. TypeOK /\ ClientInStep /\ ReceivedInOrder
      BY DEF BlockFetchInv, BatchInv, HonestParts
    <2>2. /\ blocks_received \in Seq(Blocks \cup {Origin}) /\ points \in Seq(Blocks \cup {Origin})
          /\ Len(blocks_received) \in Nat /\ Len(points) \in Nat /\ Offset \in Nat
      <3>1. blocks_received \in Seq(Blocks)
        BY <2>1 DEF TypeOK
      <3> QED
        BY <2>1, <3>1, PointsType
    <2>3. ASSUME Contiguous
          PROVE  /\ IsPrefix(blocks_received, points)
                 /\ cpc = "completed" => blocks_received = points
      <3> DEFINE r == blocks_received
                 n == Len(blocks_received)
      <3>1. /\ n <= Len(points) /\ \A i \in 1..n : r[i] = points[i]
            /\ cpc \in {"idle", "completed"} =>
                 n = IF Offset <= Len(points) THEN Offset ELSE Len(points)
            /\ cpc = "completed" => Offset >= Len(points)
        BY <2>1, <2>3, Zenon DEF ReceivedInOrder
      <3>2. SubSeq(r, 1, n) = SubSeq(points, 1, n)
        <4> DEFINE s == SubSeq(r, 1, n)
                   t == SubSeq(points, 1, n)
        <4>1. /\ s \in Seq(Blocks \cup {Origin}) /\ t \in Seq(Blocks \cup {Origin})
              /\ Len(s) = n /\ Len(t) = n
          BY <2>2, <3>1
        <4>2. \A i \in 1..n : s[i] = r[i] /\ t[i] = points[i]
          BY <2>2, <3>1
        <4> HIDE DEF s, t
        <4>3. Len(s) = Len(t) /\ \A i \in 1..Len(s) : s[i] = t[i]
          BY <3>1, <4>1, <4>2, Zenon
        <4>4. s = t
          BY <4>1, <4>3, SeqEqual, Zenon
        <4> QED
          BY <4>4 DEF s, t
      <3>3. ASSUME cpc = "completed"
            PROVE  r = points
        <4>1. n = Len(points)
          <5> HIDE DEF Offset, n
          <5> QED
            BY <2>2, <3>1, <3>3
        <4> QED
          BY <2>2, <3>1, <4>1, SeqEqual, Zenon
      <3> QED
        BY <3>1, <3>2, <3>3, Zenon DEF IsPrefix
    <2>4. cpc = "idle" => s2c = <<>> /\ blocks_served = Len(blocks_received)
      BY <2>1 DEF ClientInStep
    <2> QED
      BY <2>3, <2>4, Zenon DEF FetchedExactly
  <1> QED
    BY <1>1, BlockFetchInvariant, PTL

(***************************************************************************)
(* A body that run_block_fetch captures from an honest server is the body  *)
(* of the point it is stored under.                                        *)
(***************************************************************************)
THEOREM BlocksCapturedUnderOwnPoint == Spec => []CapturedUnderOwnPoint
  <1>1. BlockFetchInv => CapturedUnderOwnPoint
    BY DEF BlockFetchInv, HonestParts, CapturedUnderOwnPoint
  <1> QED
    BY <1>1, BlockFetchInvariant, PTL

(***************************************************************************)
(* The typed client of net_core never rejects a message of an honest       *)
(* execute_block_fetch_script: it fails only when the connection is down.  *)
(***************************************************************************)
THEOREM HonestServerIsWellTyped == Spec => []HonestIsWellTyped
  <1>1. BlockFetchInv => HonestIsWellTyped
    BY DEF BlockFetchInv, HonestParts, ClientInStep, HonestIsWellTyped
  <1> QED
    BY <1>1, BlockFetchInvariant, PTL
=============================================================================
