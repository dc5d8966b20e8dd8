--------------------------- MODULE ParallelProofs ----------------------------
(***************************************************************************)
(* Safety of a parallel step, for any number of branches, steps, events    *)
(* and workers: the tracer's queue, the verdicts in the trace and the      *)
(* slots it is stamped with.                                               *)
(***************************************************************************)
EXTENDS ParallelStep, FiniteSetTheorems, FunctionTheorems, WellFoundedInduction, TLAPS

-----------------------------------------------------------------------------
(* Queues.                                                                 *)

\* The numbers from 1 to n are n numbers.
LEMMA UpTo ==
    ASSUME NEW n \in Nat
    PROVE  IsFiniteSet(1..n) /\ Cardinality(1..n) = n
  <1>1. IsFiniteSet(1..n) /\ Cardinality(1..n) = IF 1 > n THEN 0 ELSE n - 1 + 1
    BY FS_Interval
  <1> HIDE DEF Cardinality
  <1> QED
    BY <1>1

\* The task at the head of a queue leaves it.
LEMMA QueueTail ==
    ASSUME NEW S, NEW q, Queue(q, S), q # <<>>
    PROVE  Head(q) \in S /\ Queue(Tail(q), S \ {Head(q)})
  <1>1. /\ q \in Seq(S) /\ \A i, j \in 1..Len(q) : q[i] = q[j] => i = j
        /\ \A t \in S : \E i \in 1..Len(q) : q[i] = t
    BY DEF Queue
  <1> DEFINE h == Head(q)
             r == Tail(q)
  <1>2. /\ Len(q) \in Nat /\ Len(q) >= 1 /\ h = q[1] /\ h \in S
        /\ r \in Seq(S) /\ Len(r) = Len(q) - 1
        /\ \A i \in 1..Len(r) : r[i] = q[i + 1]
    BY <1>1
  <1> HIDE DEF h, r
  <1>3. ASSUME NEW i \in 1..Len(r)
        PROVE  r[i] \in S \ {h} /\ i + 1 \in 1..Len(q) /\ r[i] = q[i + 1]
    <2>1. i + 1 \in 1..Len(q) /\ 1 \in 1..Len(q) /\ i + 1 # 1 /\ r[i] = q[i + 1]
      BY <1>2
    <2>2. q[i + 1] # q[1]
      BY <1>1, <2>1, Zenon
    <2> QED
      BY <1>2, <2>1, <2>2
  <1>4. r \in Seq(S \ {h})
    BY <1>2, <1>3
  <1>5. ASSUME NEW i \in 1..Len(r), NEW j \in 1..Len(r), r[i] = r[j]
        PROVE  i = j
    <2>1. i + 1 = j + 1
      BY <1>1, <1>3, <1>5, Zenon
    <2> QED
      BY <1>2, <2>1
  <1>6. ASSUME NEW t \in S \ {h}
        PROVE  \E i \in 1..Len(r) : r[i] = t
    <2>1. PICK i \in 1..Len(q) : q[i] = t
      BY <1>1, Zenon
    <2>2. i # 1
      BY <1>2, <2>1
    <2>3. i - 1 \in 1..Len(r) /\ (i - 1) + 1 = i
      BY <1>2, <2>2
    <2>4. r[i - 1] = q[(i - 1) + 1]
      BY <1>2, <2>3, Zenon
    <2>5. r[i - 1] = t
      BY <2>1, <2>3, <2>4
    <2> QED
      BY <2>3, <2>5, Zenon
  <1> QED
    BY <1>2, <1>4, <1>5, <1>6, Zenon DEF Queue, h, r

\* A task that is not in a queue joins it.
LEMMA QueueAppend ==
    ASSUME NEW S, NEW q, Queue(q, S), NEW t, t \notin S
    PROVE  Queue(Append(q, t), S \cup {t})
  <1>1. /\ q \in Seq(S) /\ \A i, j \in 1..Len(q) : q[i] = q[j] => i = j
        /\ \A u \in S : \E i \in 1..Len(q) : q[i] = u
    BY DEF Queue
  <1> DEFINE r == Append(q, t)
             n == Len(q)
  <1>2. /\ n \in Nat /\ r \in Seq(S \cup {t}) /\ Len(r) = n + 1 /\ r[n + 1] = t
        /\ \A i \in 1..n : r[i] = q[i] /\ q[i] \in S
    <2>1. q \in Seq(S \cup {t})
      BY <1>1
    <2> QED
      BY <1>1, <2>1
  <1> HIDE DEF r, n
  <1>3. ASSUME NEW i \in 1..(n + 1), NEW j \in 1..(n + 1), r[i] = r[j]
        PROVE  i = j
    <2>1. CASE i \in 1..n /\ j \in 1..n
      <3>1. q[i] = q[j]
        BY <1>2, <1>3, <2>1
      <3> QED
        BY <1>1, <2>1, <3>1, Zenon DEF n
    <2>2. CASE i \notin 1..n \/ j \notin 1..n
      <3>1. i \notin 1..n => i = n + 1
        BY <1>2
      <3>2. j \notin 1..n => j = n + 1
        BY <1>2
      <3> QED
        BY <1>2, <1>3, <2>2, <3>1, <3>2
    <2> QED
      BY <2>1, <2>2
  <1>4. ASSUME NEW u \in S \cup {t}
        PROVE  \E i \in 1..(n + 1) : r[i] = u
    <2>1. CASE u = t
      <3>1. n + 1 \in 1..(n + 1)
        BY <1>2
      <3> QED
        BY <1>2, <2>1, <3>1, Zenon
    <2>2. CASE u \in S
      <3>1. PICK i \in 1..n : q[i] = u
        BY <1>1, <2>2, Zenon DEF n
      <3>2. i \in 1..(n + 1) /\ r[i] = u
        BY <1>2, <3>1
      <3> QED
        BY <3>2, Zenon
    <2> QED
      BY <2>1, <2>2
  <1> QED
    BY <1>2, <1>3, <1>4, Zenon DEF Queue, r, n

\* Two queues one behind the other.
LEMMA QueueConcat ==
    ASSUME NEW S, NEW q, Queue(q, S), NEW T, NEW r, Queue(r, T), S \cap T = {}
    PROVE  Queue(q \o r, S \cup T)
  <1> DEFINE n == Len(q)
             m == Len(r)
             c == q \o r
  <1>1. /\ q \in Seq(S) /\ \A i, j \in 1..n : q[i] = q[j] => i = j
        /\ \A u \in S : \E i \in 1..n : q[i] = u
        /\ r \in Seq(T) /\ \A i, j \in 1..m : r[i] = r[j] => i = j
        /\ \A u \in T : \E i \in 1..m : r[i] = u
    BY DEF Queue
  <1>2. /\ n \in Nat /\ m \in Nat /\ c \in Seq(S \cup T) /\ Len(c) = n + m
        /\ \A i \in 1..n : c[i] = q[i] /\ q[i] \in S
        /\ \A i \in (n + 1)..(n + m) : c[i] = r[i - n] /\ i - n \in 1..m /\ r[i - n] \in T
    <2>1. q \in Seq(S \cup T) /\ r \in Seq(S \cup T)
      BY <1>1
    <2>2. n \in Nat /\ m \in Nat /\ c \in Seq(S \cup T) /\ Len(c) = n + m
      BY <2>1
    <2>3. \A i \in 1..n : c[i] = q[i] /\ q[i] \in S
      BY <1>1, <2>1, <2>2
    <2>4. \A i \in (n + 1)..(n + m) : c[i] = r[i - n] /\ i - n \in 1..m
      BY <2>1, <2>2
    <2>5. \A i \in 1..m : r[i] \in T
      BY <1>1
    <2> QED
      BY <2>2, <2>3, <2>4, <2>5, Zenon
  <1> HIDE DEF n, m, c
  <1>3. ASSUME NEW i \in 1..(n + m)
        PROVE  i \in 1..n \/ i \in (n + 1)..(n + m)
    BY <1>2
  <1>4. ASSUME NEW i \in 1..(n + m), NEW j \in 1..(n + m), c[i] = c[j]
        PROVE  i = j
    <2>1. CASE i \in 1..n /\ j \in 1..n
      <3>1. q[i] = q[j]
        BY <1>2, <1>4, <2>1
      <3> QED
        BY <1>1, <2>1, <3>1, Zenon
    <2>2. CASE i \in (n + 1)..(n + m) /\ j \in (n + 1)..(n + m)
      <3> DEFINE a == i - n
                 b == j - n
      <3>1. c[i] = r[a] /\ a \in 1..m /\ c[j] = r[b] /\ b \in 1..m
        BY <1>2, <2>2, Zenon
      <3>2. r[a] = r[b]
        BY <1>4, <3>1, Zenon
      <3>3. a = b => i = j
        BY <1>2, <2>2
      <3> HIDE DEF a, b
      <3>4. a = b
        BY <1>1, <3>1, <3>2, Zenon
      <3> QED
        BY <3>3, <3>4
    <2>3. CASE i \in 1..n /\ j \in (n + 1)..(n + m)
      BY <1>2, <1>4, <2>3
    <2>4. CASE j \in 1..n /\ i \in (n + 1)..(n + m)
      BY <1>2, <1>4, <2>4
    <2> QED
      BY <1>3, <2>1, <2>2, <2>3, <2>4, Zenon
  <1>5. ASSUME NEW u \in S \cup T
        PROVE  \E i \in 1..(n + m) : c[i] = u
    <2>1. CASE u \in S
      <3>1. PICK i \in 1..n : q[i] = u
        BY <1>1, <2>1, Zenon
      <3>2. i \in 1..(n + m) /\ c[i] = u
        BY <1>2, <3>1
      <3> QED
        BY <3>2, Zenon
    <2>2. CASE u \in T
      <3>1. PICK i \in 1..m : r[i] = u
        BY <1>1, <2>2, Zenon
      <3>2. n + i \in (n + 1)..(n + m) /\ n + i \in 1..(n + m) /\ (n + i) - n = i
        BY <1>2, <3>1
      <3>3. c[n + i] = r[(n + i) - n]
        BY <1>2, <3>2, Zenon
      <3> QED
        BY <3>1, <3>2, <3>3
    <2> QED
      BY <2>1, <2>2
  <1> QED
    BY <1>2, <1>4, <1>5, Zenon DEF Queue, n, m, c

\* The length of a queue is the number of its tasks.
LEMMA QueueLength ==
    ASSUME NEW S, NEW q, Queue(q, S)
    PROVE  ToSet(q) = S /\ Len(q) = Cardinality(S)
  <1>1. /\ q \in Seq(S) /\ Len(q) \in Nat /\ DOMAIN q = 1..Len(q)
        /\ \A i, j \in 1..Len(q) : q[i] = q[j] => i = j
        /\ \A t \in S : \E i \in 1..Len(q) : q[i] = t
    BY DEF Queue
  <1>2. q \in [1..Len(q) -> S]
    BY <1>1
  <1>3. q \in Bijection(1..Len(q), S)
    BY <1>1, <1>2 DEF Bijection, Injection, Surjection, IsInjective
  <1>4. IsFiniteSet(1..Len(q)) /\ Cardinality(1..Len(q)) = Len(q)
    <2> DEFINE n == Len(q)
    <2>1. n \in Nat
      BY <1>1
    <2> HIDE DEF n
    <2>2. IsFiniteSet(1..n) /\ Cardinality(1..n) = n
      BY <2>1, UpTo
    <2> QED
      BY <2>2 DEF n
  <1>5. Cardinality(S) = Cardinality(1..Len(q))
    <2>1. ExistsBijection(1..Len(q), S)
      BY <1>3, Zenon DEF ExistsBijection
    <2> QED
      BY <1>4, <2>1, FS_Bijection, Zenon
  <1>6. ToSet(q) = S
    BY <1>1, <1>2 DEF ToSet
  <1> QED
    BY <1>4, <1>5, <1>6

\* Some tasks leave a queue, wherever they are in it.
LEMMA QueueWithout ==
    ASSUME NEW S, NEW q, Queue(q, S), NEW gone
    PROVE  Queue(Without(q, gone), S \ gone)
  <1> DEFINE l == Len(q)
             K == {i \in 1..Len(q) : q[i] \notin gone}
             P(i) == {j \in K : j <= i}
             place(i) == Cardinality(P(i))
             c == Cardinality(K)
             pick(n) == CHOOSE i \in K : place(i) = n
             w == Without(q, gone)
  <1>1. /\ q \in Seq(S) /\ l \in Nat
        /\ \A i, j \in 1..l : q[i] = q[j] => i = j
        /\ \A t \in S : \E i \in 1..l : q[i] = t
        /\ \A i \in 1..l : q[i] \in S
    BY DEF Queue
  <1>2. IsFiniteSet(K) /\ c \in Nat /\ K \subseteq 1..l
    <2>1. IsFiniteSet(1..l)
      <3> HIDE DEF l
      <3> QED
        BY <1>1, UpTo
    <2>2. K \in SUBSET (1..l)
      OBVIOUS
    <2> HIDE DEF K, l
    <2>3. IsFiniteSet(K)
      BY <2>1, <2>2, FS_Subset
    <2> QED
      BY <2>2, <2>3, FS_CardinalityType
  <1>3. ASSUME NEW i \in K
        PROVE  /\ IsFiniteSet(P(i)) /\ place(i) \in 1..c /\ P(i) \subseteq K /\ i \in P(i)
    <2>0. i <= i
      <3>1. i \in 1..l
        BY <1>2, <1>3, Zenon
      <3> HIDE DEF K, P, l, w, pick
      <3> QED
        BY <1>1, <3>1
    <2>1. P(i) \in SUBSET K /\ i \in P(i)
      <3> HIDE DEF K
      <3> QED
        BY <1>3, <2>0, Zenon
    <2> HIDE DEF K, P
    <2>2. IsFiniteSet(P(i)) /\ place(i) <= c
      <3> DEFINE Q == P(i)
      <3>1. IsFiniteSet(K) /\ Q \in SUBSET K
        BY <1>2, <2>1
      <3> HIDE DEF Q
      <3>2. IsFiniteSet(Q) /\ Cardinality(Q) <= Cardinality(K)
        BY <3>1, FS_Subset, Zenon
      <3> QED
        BY <3>2, Zenon DEF Q
    <2>3. place(i) \in Nat
      BY <2>2, FS_CardinalityType
    <2>4. place(i) # 0
      BY <2>1, <2>2, FS_EmptySet
    <2> HIDE DEF place, c
    <2> QED
      BY <1>2, <2>1, <2>2, <2>3, <2>4
  <1>4. ASSUME NEW i \in K, NEW j \in K, i < j
        PROVE  place(i) < place(j)
    <2>1. P(i) \cup {j} \in SUBSET P(j) /\ j \notin P(i)
      <3>1. i \in Nat /\ j \in Nat /\ \A k \in K : k \in Nat
        BY <1>1, <1>2
      <3> HIDE DEF K
      <3>2. \A k \in P(i) : k \in P(j)
        BY <1>4, <3>1
      <3>3. j \in P(j) /\ j \notin P(i)
        BY <1>4, <3>1
      <3> QED
        BY <3>2, <3>3
    <2>2. IsFiniteSet(P(i)) /\ IsFiniteSet(P(j)) /\ place(i) \in 1..c /\ place(j) \in 1..c
      BY <1>3
    <2> HIDE DEF P, K
    <2>3. Cardinality(P(i) \cup {j}) = Cardinality(P(i)) + 1
      BY <2>1, <2>2, FS_AddElement
    <2>4. Cardinality(P(i) \cup {j}) <= Cardinality(P(j))
      BY <2>1, <2>2, FS_Subset
    <2>5. place(i) + 1 <= place(j)
      BY <2>3, <2>4
    <2> HIDE DEF place, c
    <2> QED
      BY <1>2, <2>2, <2>5
  <1>5. ASSUME NEW i \in K, NEW j \in K, place(i) = place(j)
        PROVE  i = j
    <2>1. i \in Nat /\ j \in Nat
      BY <1>1, <1>2
    <2>2. place(i) \in Nat /\ place(j) \in Nat
      <3>1. place(i) \in 1..c /\ place(j) \in 1..c
        BY <1>3
      <3> HIDE DEF place, c
      <3> QED
        BY <1>2, <3>1
    <2> HIDE DEF place, K
    <2>3. ~(i < j) /\ ~(j < i)
      BY <1>4, <1>5, <2>2
    <2> QED
      BY <2>1, <2>3
  <1> DEFINE f == [i \in K |-> place(i)]
  <1>6. f \in Surjection(K, 1..c)
    <2> HIDE DEF K, place
    <2>1. f \in Injection(K, 1..c)
      BY <1>3, <1>5 DEF Injection, IsInjective
    <2> HIDE DEF f
    <2>2. IsFiniteSet(1..c) /\ Cardinality(1..c) = c
      <3> HIDE DEF c
      <3> QED
        BY <1>2, UpTo
    <2> QED
      BY <2>1, <2>2, FS_Injection
  <1>7. ASSUME NEW n \in 1..c
        PROVE  pick(n) \in K /\ place(pick(n)) = n
    <2>1. \E i \in K : place(i) = n
      <3> HIDE DEF K, place, c
      <3> QED
        BY <1>6 DEF Surjection
    <2> HIDE DEF K, place
    <2> QED
      BY <2>1, Zenon
  <1>8. w = [n \in 1..c |-> q[pick(n)]]
    BY Zenon DEF Without
  <1>9. ASSUME NEW i \in K
        PROVE  i \in 1..l /\ q[i] \in S \ gone
    BY <1>1
  <1> HIDE DEF K, place, pick, w, c, l
  <1>10. \A n \in 1..c : w[n] = q[pick(n)] /\ w[n] \in S \ gone
    BY <1>7, <1>8, <1>9
  <1>11. w \in Seq(S \ gone) /\ Len(w) = c
    <2>1. w \in [1..c -> S \ gone]
      BY <1>8, <1>10
    <2> QED
      BY <1>2, <2>1
  <1>12. ASSUME NEW m \in 1..c, NEW n \in 1..c, w[m] = w[n]
         PROVE  m = n
    <2>1. pick(m) \in 1..l /\ pick(n) \in 1..l /\ q[pick(m)] = q[pick(n)]
      BY <1>7, <1>9, <1>10, <1>12, Zenon
    <2>2. pick(m) = pick(n)
      BY <1>1, <2>1, Zenon
    <2> QED
      BY <1>7, <2>2
  <1>13. ASSUME NEW t \in S \ gone
         PROVE  \E n \in 1..c : w[n] = t
    <2>1. PICK i \in 1..l : q[i] = t
      BY <1>1, Zenon
    <2>2. i \in K
      BY <2>1 DEF K, l
    <2>3. place(i) \in 1..c
      BY <1>3, <2>2, Zenon
    <2>4. pick(place(i)) = i
      BY <1>5, <1>7, <2>2, <2>3, Zenon
    <2>5. w[place(i)] = t
      BY <1>10, <2>1, <2>3, <2>4
    <2> QED
      BY <2>3, <2>5, Zenon
  <1> QED
    BY <1>11, <1>12, <1>13, Zenon DEF Queue, w

-----------------------------------------------------------------------------
(* Tasks, where they are, and the queue as they move.                      *)

Places == AtLock \cup {"idle", "exec", "ok", "err", "dropped", "join", "done", "error"}

\* The parent, the branches and the workers are different tasks.
LEMMA TaskKinds ==
    /\ Parent \in Tasks /\ Parent \notin Branches /\ Parent \notin Workers
    /\ \A b \in Branches : b \in Tasks /\ b \in Nat /\ b \notin Workers /\ b # Parent
    /\ \A w \in Workers : w \in Tasks /\ w \notin Branches /\ w # Parent
    /\ \A t \in Tasks : t = Parent \/ t \in Branches \/ t \in Workers
  BY ParallelAssumption DEF Tasks, Branches, Parent

\* An event that a task tells about itself.
LEMMA EventTypes ==
    ASSUME NEW t \in Tasks, NEW kind \in Kinds, NEW s \in Nat, NEW about \in Tasks
    PROVE  Event(kind, t, s) \in EventType /\ EventAbout(kind, t, s, about) \in EventType
  BY DEF Event, EventAbout, EventType

\* One task moves.
LEMMA OneMoves ==
    ASSUME pc \in [Tasks -> Places], NEW t \in Tasks, NEW p \in Places,
           pc' = [pc EXCEPT ![t] = p]
    PROVE  /\ pc' \in [Tasks -> Places] /\ pc'[t] = p
           /\ \A u \in Tasks \ {t} : pc'[u] = pc[u]
           /\ p \in AtLock => Waiting' = Waiting \cup {t}
           /\ p \notin AtLock => Waiting' = Waiting \ {t}
  <1>1. /\ pc' \in [Tasks -> Places] /\ pc'[t] = p
        /\ \A u \in Tasks \ {t} : pc'[u] = pc[u]
    OBVIOUS
  <1>2. Tasks' = Tasks /\ AtLock' = AtLock
    BY DEF Tasks, Branches, Parent, AtLock
  <1>3. Waiting' = {u \in Tasks : pc'[u] \in AtLock}
    BY <1>2 DEF Waiting
  <1> QED
    BY <1>1, <1>3 DEF Waiting

\* The holder of the mutex goes to the back of the queue, ...
LEMMA GoesBack ==
    ASSUME pc \in [Tasks -> Places], Queue(lock, Waiting), NEW t \in Tasks, Holds(t),
           NEW p \in AtLock, pc' = [pc EXCEPT ![t] = p],
           lock' = Enqueue(Tail(lock), t)
    PROVE  pc' \in [Tasks -> Places] /\ Queue(lock', Waiting')
  <1>1. pc' \in [Tasks -> Places] /\ Waiting' = Waiting \cup {t}
    BY OneMoves DEF Places
  <1>2. t \in Waiting /\ Queue(Tail(lock), Waiting \ {t})
    BY QueueTail DEF Holds
  <1>3. Queue(Append(Tail(lock), t), (Waiting \ {t}) \cup {t})
    BY <1>2, QueueAppend
  <1>4. (Waiting \ {t}) \cup {t} = Waiting'
    BY <1>1, <1>2
  <1> QED
    BY <1>1, <1>3, <1>4 DEF Enqueue

\* ... or leaves it, ...
LEMMA LeavesQueue ==
    ASSUME pc \in [Tasks -> Places], Queue(lock, Waiting), NEW t \in Tasks, Holds(t),
           NEW p \in Places \ AtLock, pc' = [pc EXCEPT ![t] = p], lock' = Tail(lock)
    PROVE  pc' \in [Tasks -> Places] /\ Queue(lock', Waiting')
  <1>1. pc' \in [Tasks -> Places] /\ Waiting' = Waiting \ {t}
    BY OneMoves
  <1>2. Queue(Tail(lock), Waiting \ {t})
    BY QueueTail DEF Holds
  <1> QED
    BY <1>1, <1>2

\* ... and a task that is elsewhere joins it.
LEMMA JoinsQueue ==
    ASSUME pc \in [Tasks -> Places], Queue(lock, Waiting), NEW t \in Tasks,
           pc[t] \notin AtLock, NEW p \in AtLock, pc' = [pc EXCEPT ![t] = p],
           lock' = Enqueue(lock, t)
    PROVE  pc' \in [Tasks -> Places] /\ Queue(lock', Waiting')
  <1>1. pc' \in [Tasks -> Places] /\ Waiting' = Waiting \cup {t}
    BY OneMoves DEF Places
  <1>2. Queue(Append(lock, t), Waiting \cup {t})
    BY QueueAppend DEF Waiting
  <1> QED
    BY <1>1, <1>2 DEF Enqueue

\* What is written is an event, and it is written by the holder of the mutex.
LEMMA WriteTypes ==
    ASSUME ParallelTypes, NEW t \in Tasks, NEW written, Write(t, written)
    PROVE  /\ Holds(t) /\ written \in BOOLEAN
           /\ event_buffer' \in Seq(EventType) /\ trace' \in Seq(EventType)
           /\ trace' = IF written THEN Append(trace, evt[t]) ELSE trace
           /\ "write" \notin MayFail => written
  <1>1. evt[t] \in EventType /\ event_buffer \in Seq(EventType) /\ trace \in Seq(EventType)
    BY DEF ParallelTypes
  <1>2. written \in BOOLEAN /\ ("write" \notin MayFail => written)
    BY DEF Write
  <1> QED
    BY <1>1, <1>2 DEF Write

LEMMA DrainTypes ==
    ASSUME ParallelTypes, NEW t \in Tasks, Drain(t)
    PROVE  /\ Holds(t) /\ trace' = trace
           /\ event_buffer' \in Seq(EventType) /\ trace' \in Seq(EventType)
  BY DEF ParallelTypes, Drain

\* The three ways in which the holder of the mutex goes on.
LEMMA ToEmitTypes ==
    ASSUME ParallelTypes, NEW t \in Tasks, Holds(t), NEW p \in AtLock, NEW kind \in Kinds,
           ToEmit(t, p, kind)
    PROVE  /\ pc' \in [Tasks -> Places] /\ Queue(lock', Waiting')
           /\ evt' \in [Tasks -> EventType]
           /\ pc' = [pc EXCEPT ![t] = p] /\ evt'[t] = Event(kind, t, slot)
           /\ \A u \in Tasks \ {t} : evt'[u] = evt[u]
  <1>1. pc \in [Tasks -> Places] /\ Queue(lock, Waiting) /\ evt \in [Tasks -> EventType]
        /\ slot \in Nat
    BY DEF ParallelTypes, Places
  <1>2. Event(kind, t, slot) \in EventType
    BY <1>1, EventTypes
  <1>3. pc' \in [Tasks -> Places] /\ Queue(lock', Waiting')
    BY <1>1, GoesBack DEF ToEmit
  <1> QED
    BY <1>1, <1>2, <1>3 DEF ToEmit

LEMMA ToDrainTypes ==
    ASSUME ParallelTypes, NEW t \in Tasks, Holds(t), NEW p \in AtLock, ToDrain(t, p)
    PROVE  /\ pc' \in [Tasks -> Places] /\ Queue(lock', Waiting')
           /\ evt' \in [Tasks -> EventType] /\ evt' = evt /\ pc' = [pc EXCEPT ![t] = p]
  <1>1. pc \in [Tasks -> Places] /\ Queue(lock, Waiting) /\ evt \in [Tasks -> EventType]
    BY DEF ParallelTypes, Places
  <1>2. pc' \in [Tasks -> Places] /\ Queue(lock', Waiting')
    BY <1>1, GoesBack DEF ToDrain
  <1> QED
    BY <1>1, <1>2 DEF ToDrain

LEMMA LeaveTypes ==
    ASSUME ParallelTypes, NEW t \in Tasks, Holds(t), NEW p \in Places \ AtLock, Leave(t, p)
    PROVE  /\ pc' \in [Tasks -> Places] /\ Queue(lock', Waiting')
           /\ evt' \in [Tasks -> EventType] /\ evt' = evt /\ pc' = [pc EXCEPT ![t] = p]
  <1>1. pc \in [Tasks -> Places] /\ Queue(lock, Waiting) /\ evt \in [Tasks -> EventType]
    BY DEF ParallelTypes, Places
  <1>2. pc' \in [Tasks -> Places] /\ Queue(lock', Waiting')
    BY <1>1, LeavesQueue DEF Leave
  <1> QED
    BY <1>1, <1>2 DEF Leave

\* The first of some branches is one of them.
LEMMA FirstBranch ==
    ASSUME NEW S \in SUBSET Branches, S # {}
    PROVE  Min(S) \in S
  <1> DEFINE R == OpToRel(<, Nat)
  <1>1. IsWellFoundedOn(R, Nat)
    BY NatLessThanWellFounded, Zenon
  <1>2. ASSUME NEW y \in Nat, NEW x \in Nat, ~(<<y, x>> \in R)
        PROVE  x <= y
    BY <1>2 DEF OpToRel
  <1>3. S \subseteq Nat
    BY TaskKinds
  <1>4. PICK x \in S : \A y \in S : ~(<<y, x>> \in R)
    <2> HIDE DEF R
    <2> QED
      BY <1>1, <1>3, WFMin
  <1>5. \A y \in S : x <= y
    BY <1>2, <1>3, <1>4
  <1> QED
    BY <1>5 DEF Min

\* What the parent emits next is about a branch without a flag, further on
\* than the last one, or it is the end.
LEMMA AfterJoinTypes ==
    ASSUME ParallelTypes, NEW after, NEW queue, AfterJoin(after, queue)
    PROVE  /\ lock' = Enqueue(queue, Parent)
           /\ evt' \in [Tasks -> EventType]
           /\ \A u \in Tasks \ {Parent} : evt'[u] = evt[u]
           /\ \/ evt'[Parent] = Event("ParallelCompleted", Parent, slot)
              \/ \E c \in Branches :
                   /\ evt'[Parent] = EventAbout("ParallelBranchAborted", Parent, slot, c)
                   /\ c > after /\ ~completed[c] /\ ~failed[c]
  <1> DEFINE left == Unfinished(after)
  <1>1. evt \in [Tasks -> EventType] /\ slot \in Nat
    BY DEF ParallelTypes
  <1>2. CASE left = {}
    <2>1. evt' = [evt EXCEPT ![Parent] = Event("ParallelCompleted", Parent, slot)]
      BY <1>2 DEF AfterJoin
    <2>2. Event("ParallelCompleted", Parent, slot) \in EventType
      BY <1>1, EventTypes, TaskKinds DEF Kinds
    <2> QED
      BY <1>1, <2>1, <2>2, TaskKinds DEF AfterJoin
  <1>3. CASE left # {}
    <2>1. PICK c : c = Min(left)
      OBVIOUS
    <2>2. left \in SUBSET Branches
      BY DEF Unfinished
    <2>3. c \in left
      BY <1>3, <2>1, <2>2, FirstBranch
    <2>4. c \in Branches /\ c > after /\ ~completed[c] /\ ~failed[c]
      BY <2>3 DEF Unfinished
    <2>5. evt' = [evt EXCEPT ![Parent] = EventAbout("ParallelBranchAborted", Parent, slot, c)]
      BY <1>3, <2>1, Zenon DEF AfterJoin
    <2>6. EventAbout("ParallelBranchAborted", Parent, slot, c) \in EventType
      BY <1>1, <2>4, EventTypes, TaskKinds DEF Kinds, Verdict
    <2> HIDE DEF left
    <2> QED
      BY <1>1, <2>4, <2>5, <2>6, TaskKinds DEF AfterJoin
  <1> QED
    BY <1>2, <1>3

\* When a branch fails, the others leave the queue and the parent joins it.
LEMMA JoinErrTypes ==
    ASSUME ParallelTypes, pc[Parent] = "join", NEW b \in Branches, Holds(b), JoinErr(b)
    PROVE  /\ pc' \in [Tasks -> Places] /\ Queue(lock', Waiting')
           /\ evt' \in [Tasks -> EventType]
  <1>1. pc \in [Tasks -> Places] /\ Queue(lock, Waiting)
    BY DEF ParallelTypes, Places
  <1>2. /\ pc' = [t \in Tasks |-> IF t = Parent THEN "verdicts"
                                  ELSE IF t = b THEN "err"
                                  ELSE IF t \in Branches /\ pc[t] # "ok" THEN "dropped"
                                  ELSE pc[t]]
        /\ lock' = Enqueue(Without(Tail(lock), Branches), Parent)
        /\ evt' \in [Tasks -> EventType]
    BY AfterJoinTypes DEF JoinErr
  <1>3. pc' \in [Tasks -> Places]
    BY <1>1, <1>2 DEF Places, AtLock
  <1>4. Queue(Tail(lock), Waiting \ {b})
    BY <1>1, QueueTail DEF Holds
  <1> DEFINE W == (Waiting \ {b}) \ Branches
  <1>5. Queue(Without(Tail(lock), Branches), W)
    BY <1>4, QueueWithout
  <1>6. Parent \notin W
    BY DEF Waiting, AtLock
  <1>7. Queue(lock', W \cup {Parent})
    <2> HIDE DEF W
    <2> QED
      BY <1>2, <1>5, <1>6, QueueAppend DEF Enqueue
  <1>8. Waiting' = W \cup {Parent}
    <2>1. Waiting' = {u \in Tasks : pc'[u] \in AtLock}
      BY DEF Waiting, Tasks, Branches, Parent, AtLock
    <2>2. ASSUME NEW u \in Tasks
          PROVE  pc'[u] \in AtLock <=> u \in W \cup {Parent}
      <3>1. pc'[u] = IF u = Parent THEN "verdicts"
                     ELSE IF u = b THEN "err"
                     ELSE IF u \in Branches /\ pc[u] # "ok" THEN "dropped"
                     ELSE pc[u]
        BY <1>2
      <3> QED
        BY <3>1, TaskKinds DEF Waiting, AtLock
    <2>3. W \cup {Parent} \subseteq Tasks
      BY TaskKinds DEF Waiting
    <2> HIDE DEF W
    <2> QED
      BY <2>1, <2>2, <2>3
  <1> HIDE DEF W
  <1> QED
    BY <1>2, <1>3, <1>7, <1>8

-----------------------------------------------------------------------------
(* The steps of a branch.                                                  *)

\* The event a branch is about to write, stamped as it asks for the mutex.
NextEvent(b, p) ==
    /\ evt'[b] = Event(evt'[b].kind, b, slot')
    /\ evt'[b].kind \notin {"ParallelBranchAborted", "ParallelCompleted"}
    /\ evt'[b].kind = "ParallelBranchCompleted" <=> p = "branchCompleted"
    /\ evt'[b].kind = "ParallelBranchFailed" <=> p = "branchFailed"
    /\ IF evt'[b].kind = "SlotAdvanced" THEN slot' = slot + 1 ELSE slot' = slot

FlagsKept(b, p) ==
    /\ \A c \in Branches \ {b} : completed'[c] = completed[c] /\ failed'[c] = failed[c]
    /\ p = "branchCompleted" => completed'[b]
    /\ p = "branchFailed" => failed'[b]
    /\ p = "ok" => completed' = completed

\* A branch goes on: to p, writing its event if it was at an emit.
BranchMove(b) ==
    \E p \in Running \cup {"ok"} :
        /\ pc[b] \in Running \ {"branchFailed"}
        /\ pc' = [pc EXCEPT ![b] = p]
        /\ p = "ok" <=> pc[b] = "branchCompleted"
        /\ \A t \in Tasks \ {b} : evt'[t] = evt[t]
        /\ IF p \in Emits THEN NextEvent(b, p) ELSE slot' = slot
        /\ FlagsKept(b, p)
        /\ \/ trace' = trace
           \/ pc[b] \in Emits /\ trace' = Append(trace, evt[b])
        /\ pc[b] \in Emits /\ ("write" \notin MayFail \/ pc[b] = "branchCompleted") =>
             trace' = Append(trace, evt[b])
        /\ pc[b] # "exec" => Holds(b)
        /\ lock' = LET rest == IF pc[b] = "exec" THEN lock ELSE Tail(lock)
                   IN  IF p \in {"exec", "ok"} THEN rest ELSE Append(rest, b)

\* A branch returns Err.
BranchErr(b) ==
    /\ pc[b] \in {"branchStarted", "branchFailed", "branchCompleted"}
    /\ Holds(b) /\ JoinErr(b)
    /\ UNCHANGED <<slot, completed, failed>>
    /\ \/ trace' = trace
       \/ pc[b] = "branchFailed" /\ trace' = Append(trace, evt[b])
    /\ "write" \notin MayFail => pc[b] = "branchFailed" /\ trace' = Append(trace, evt[b])

\* A branch under way is waited for.
LEMMA RunningIsJoined ==
    ASSUME Roles, NEW b \in Branches, pc[b] \in Running
    PROVE  pc[Parent] = "join"
  BY DEF Roles, Running, Emits

LEMMA BranchStartedStep ==
    ASSUME ParallelTypes, Roles, NEW b \in Branches, BranchStarted(b)
    PROVE  ParallelTypes' /\ (BranchMove(b) \/ BranchErr(b))
  <1>1. b \in Tasks /\ b # Parent /\ pc[b] = "branchStarted" /\ pc[Parent] = "join"
    BY TaskKinds, RunningIsJoined DEF BranchStarted, Running, Emits
  <1>2. PICK written \in BOOLEAN :
          Write(b, written) /\ IF written THEN ToDrain(b, "clear") ELSE JoinErr(b)
    BY DEF BranchStarted
  <1>3. Holds(b) /\ event_buffer' \in Seq(EventType) /\ trace' \in Seq(EventType)
        /\ trace' = (IF written THEN Append(trace, evt[b]) ELSE trace)
        /\ ("write" \notin MayFail => written)
    BY <1>1, <1>2, WriteTypes
  <1>4. UNCHANGED <<slot, last_step, emitted, seen, ok, completed, failed, pings>>
    BY DEF BranchStarted, branchVars
  <1>5. CASE written
    <2>1. ToDrain(b, "clear")
      BY <1>2, <1>5
    <2>2. /\ pc' \in [Tasks -> Places] /\ Queue(lock', Waiting') /\ evt' \in [Tasks -> EventType]
          /\ evt' = evt /\ pc' = [pc EXCEPT ![b] = "clear"]
      BY <1>1, <1>3, <2>1, ToDrainTypes DEF AtLock
    <2>3. ParallelTypes'
      BY <1>3, <1>4, <2>2 DEF ParallelTypes, Places
    <2>4. lock' = Append(Tail(lock), b)
      BY <2>1 DEF ToDrain, Enqueue
    <2>5. BranchMove(b)
      BY <1>1, <1>3, <1>4, <1>5, <2>2, <2>4 DEF BranchMove, FlagsKept, Running, Emits
    <2> QED
      BY <2>3, <2>5
  <1>6. CASE ~written
    <2>1. JoinErr(b)
      BY <1>2, <1>6
    <2>2. pc' \in [Tasks -> Places] /\ Queue(lock', Waiting') /\ evt' \in [Tasks -> EventType]
      BY <1>1, <1>3, <2>1, JoinErrTypes
    <2>3. ParallelTypes'
      BY <1>3, <1>4, <2>2 DEF ParallelTypes, Places
    <2>4. BranchErr(b)
      BY <1>1, <1>3, <1>4, <1>6, <2>1 DEF BranchErr
    <2> QED
      BY <2>3, <2>4
  <1> QED
    BY <1>5, <1>6

LEMMA ClearBufferStep ==
    ASSUME ParallelTypes, Roles, NEW b \in Branches, ClearBuffer(b)
    PROVE  ParallelTypes' /\ BranchMove(b)
  <1>1. b \in Tasks /\ pc[b] = "clear" /\ Drain(b) /\ ToEmit(b, "stepStarted", "StepStarted")
        /\ UNCHANGED <<slot, last_step, emitted, seen, ok, completed, failed, pings>>
    BY TaskKinds DEF ClearBuffer, branchVars
  <1>2. Holds(b) /\ trace' = trace /\ event_buffer' \in Seq(EventType)
        /\ trace' \in Seq(EventType)
    BY <1>1, DrainTypes
  <1>3. /\ pc' \in [Tasks -> Places] /\ Queue(lock', Waiting') /\ evt' \in [Tasks -> EventType]
        /\ pc' = [pc EXCEPT ![b] = "stepStarted"] /\ evt'[b] = Event("StepStarted", b, slot)
        /\ \A u \in Tasks \ {b} : evt'[u] = evt[u]
    BY <1>1, <1>2, ToEmitTypes DEF AtLock, Kinds
  <1>4. ParallelTypes'
    BY <1>1, <1>2, <1>3 DEF ParallelTypes, Places
  <1>5. lock' = Append(Tail(lock), b)
    BY <1>1 DEF ToEmit, Enqueue
  <1>6. NextEvent(b, "stepStarted")
    BY <1>1, <1>3 DEF NextEvent, Event, EventAbout
  <1>7. BranchMove(b)
    BY <1>1, <1>2, <1>3, <1>5, <1>6 DEF BranchMove, FlagsKept, Running, Emits
  <1> QED
    BY <1>4, <1>7

\* What a branch that goes on has written.
Wrote(b) ==
    /\ \/ trace' = trace
       \/ pc[b] \in Emits /\ trace' = Append(trace, evt[b])
    /\ pc[b] \in Emits /\ ("write" \notin MayFail \/ pc[b] = "branchCompleted") =>
         trace' = Append(trace, evt[b])

LEMMA WriteWrote ==
    ASSUME ParallelTypes, NEW b \in Branches, pc[b] \in Emits \ {"branchCompleted"},
           NEW written, Write(b, written)
    PROVE  Holds(b) /\ Wrote(b) /\ event_buffer' \in Seq(EventType) /\ trace' \in Seq(EventType)
           /\ written \in BOOLEAN /\ ("write" \notin MayFail => written)
  <1>1. b \in Tasks
    BY TaskKinds
  <1>2. Holds(b) /\ event_buffer' \in Seq(EventType) /\ trace' \in Seq(EventType)
        /\ trace' = (IF written THEN Append(trace, evt[b]) ELSE trace)
        /\ written \in BOOLEAN /\ ("write" \notin MayFail => written)
    BY <1>1, WriteTypes
  <1> QED
    BY <1>2 DEF Wrote

LEMMA DrainWrote ==
    ASSUME ParallelTypes, NEW b \in Branches, pc[b] \notin Emits, Drain(b)
    PROVE  Holds(b) /\ Wrote(b) /\ event_buffer' \in Seq(EventType) /\ trace' \in Seq(EventType)
  BY DrainTypes, TaskKinds DEF Wrote

\* A branch goes on to an emit, ...
LEMMA MoveToEmit ==
    ASSUME ParallelTypes, NEW b \in Branches, Holds(b),
           pc[b] \in Running \ {"branchFailed", "branchCompleted", "exec"},
           NEW p \in Emits,
           NEW kind \in Kinds \ {"ParallelBranchAborted", "ParallelCompleted", "SlotAdvanced"},
           kind = "ParallelBranchCompleted" <=> p = "branchCompleted",
           kind = "ParallelBranchFailed" <=> p = "branchFailed",
           ToEmit(b, p, kind), slot' = slot, FlagsKept(b, p), Wrote(b)
    PROVE  /\ pc' \in [Tasks -> Places] /\ Queue(lock', Waiting')
           /\ evt' \in [Tasks -> EventType] /\ BranchMove(b)
  <1>1. b \in Tasks /\ p \in AtLock /\ p \in Running /\ p # "ok"
    BY TaskKinds DEF AtLock, Emits, Running
  <1>2. /\ pc' \in [Tasks -> Places] /\ Queue(lock', Waiting') /\ evt' \in [Tasks -> EventType]
        /\ pc' = [pc EXCEPT ![b] = p] /\ evt'[b] = Event(kind, b, slot)
        /\ \A u \in Tasks \ {b} : evt'[u] = evt[u]
    BY <1>1, ToEmitTypes
  <1>3. lock' = Append(Tail(lock), b)
    BY DEF ToEmit, Enqueue
  <1>4. NextEvent(b, p)
    BY <1>2 DEF NextEvent, Event, EventAbout
  <1>5. p \notin {"exec", "ok"}
    BY DEF Emits
  <1>6. BranchMove(b)
    BY <1>1, <1>2, <1>3, <1>4, <1>5 DEF BranchMove, Wrote
  <1> QED
    BY <1>2, <1>6

\* ... to a drain, ...
LEMMA MoveToDrain ==
    ASSUME ParallelTypes, NEW b \in Branches, Holds(b),
           pc[b] \in Running \ {"branchFailed", "branchCompleted", "exec"},
           NEW p \in {"clear", "clearStarted", "collect"},
           ToDrain(b, p), slot' = slot, FlagsKept(b, p), Wrote(b)
    PROVE  /\ pc' \in [Tasks -> Places] /\ Queue(lock', Waiting')
           /\ evt' \in [Tasks -> EventType] /\ BranchMove(b)
  <1>1. b \in Tasks /\ p \in AtLock /\ p \in Running /\ p \notin Emits /\ p \notin {"exec", "ok"}
    BY TaskKinds DEF AtLock, Emits, Running
  <1>2. /\ pc' \in [Tasks -> Places] /\ Queue(lock', Waiting') /\ evt' \in [Tasks -> EventType]
        /\ pc' = [pc EXCEPT ![b] = p] /\ evt' = evt
    BY <1>1, ToDrainTypes
  <1>3. lock' = Append(Tail(lock), b)
    BY DEF ToDrain, Enqueue
  <1>4. BranchMove(b)
    BY <1>1, <1>2, <1>3 DEF BranchMove, Wrote
  <1> QED
    BY <1>2, <1>4

\* ... or executes its step.
LEMMA MoveToExec ==
    ASSUME ParallelTypes, NEW b \in Branches, Holds(b),
           pc[b] \in Running \ {"branchFailed", "branchCompleted", "exec"},
           Leave(b, "exec"), slot' = slot, FlagsKept(b, "exec"), Wrote(b)
    PROVE  /\ pc' \in [Tasks -> Places] /\ Queue(lock', Waiting')
           /\ evt' \in [Tasks -> EventType] /\ BranchMove(b)
  <1>1. b \in Tasks /\ "exec" \in Places \ AtLock /\ "exec" \in Running /\ "exec" \notin Emits
    BY TaskKinds DEF AtLock, Emits, Running, Places
  <1>2. /\ pc' \in [Tasks -> Places] /\ Queue(lock', Waiting') /\ evt' \in [Tasks -> EventType]
        /\ pc' = [pc EXCEPT ![b] = "exec"] /\ evt' = evt
    BY <1>1, LeaveTypes
  <1>3. lock' = Tail(lock)
    BY DEF Leave
  <1>4. BranchMove(b)
    BY <1>1, <1>2, <1>3 DEF BranchMove, Wrote
  <1> QED
    BY <1>2, <1>4

\* A step that fails flags its branch.
LEMMA MoveToErr ==
    ASSUME ParallelTypes, NEW b \in Branches, Holds(b),
           pc[b] \in Running \ {"branchFailed", "branchCompleted", "exec"},
           StepErr(b), slot' = slot, Wrote(b)
    PROVE  /\ pc' \in [Tasks -> Places] /\ Queue(lock', Waiting')
           /\ evt' \in [Tasks -> EventType] /\ BranchMove(b)
           /\ completed' \in [Branches -> BOOLEAN] /\ failed' \in [Branches -> BOOLEAN]
  <1>1. completed \in [Branches -> BOOLEAN] /\ failed \in [Branches -> BOOLEAN]
    BY DEF ParallelTypes
  <1>2. /\ failed' = [failed EXCEPT ![b] = TRUE] /\ completed' = completed
        /\ ToEmit(b, "branchFailed", "ParallelBranchFailed")
    BY DEF StepErr
  <1>3. FlagsKept(b, "branchFailed")
    BY <1>1, <1>2 DEF FlagsKept
  <1>4. "branchFailed" \in Emits /\ "ParallelBranchFailed" \in
          Kinds \ {"ParallelBranchAborted", "ParallelCompleted", "SlotAdvanced"}
    BY DEF Emits, Kinds, Verdict
  <1> QED
    BY <1>1, <1>2, <1>3, <1>4, MoveToEmit

LEMMA StepStartedStep ==
    ASSUME ParallelTypes, Roles, NEW b \in Branches, StepStarted(b)
    PROVE  ParallelTypes' /\ BranchMove(b)
  <1>1. pc[b] = "stepStarted" /\ UNCHANGED <<slot, last_step, emitted, seen, ok, pings>>
        /\ pc[b] \in Emits \ {"branchCompleted"}
        /\ pc[b] \in Running \ {"branchFailed", "branchCompleted", "exec"}
    BY DEF StepStarted, Emits, Running
  <1>2. PICK written \in BOOLEAN :
          /\ Write(b, written)
          /\ IF written THEN ToDrain(b, "clearStarted") /\ UNCHANGED <<completed, failed>>
             ELSE StepErr(b)
    BY DEF StepStarted
  <1>3. Holds(b) /\ Wrote(b) /\ event_buffer' \in Seq(EventType) /\ trace' \in Seq(EventType)
    BY <1>1, <1>2, WriteWrote
  <1>4. CASE written
    <2>1. ToDrain(b, "clearStarted") /\ UNCHANGED <<completed, failed>>
      BY <1>2, <1>4
    <2>2. FlagsKept(b, "clearStarted")
      BY <2>1 DEF FlagsKept
    <2>3. /\ pc' \in [Tasks -> Places] /\ Queue(lock', Waiting')
          /\ evt' \in [Tasks -> EventType] /\ BranchMove(b)
      BY <1>1, <1>3, <2>1, <2>2, MoveToDrain
    <2> QED
      BY <1>1, <1>3, <2>1, <2>3 DEF ParallelTypes, Places
  <1>5. CASE ~written
    <2>1. /\ pc' \in [Tasks -> Places] /\ Queue(lock', Waiting')
          /\ evt' \in [Tasks -> EventType] /\ BranchMove(b)
          /\ completed' \in [Branches -> BOOLEAN] /\ failed' \in [Branches -> BOOLEAN]
      BY <1>1, <1>2, <1>3, <1>5, MoveToErr
    <2> QED
      BY <1>1, <1>3, <2>1 DEF ParallelTypes, Places
  <1> QED
    BY <1>4, <1>5

LEMMA ClearStartedStep ==
    ASSUME ParallelTypes, Roles, NEW b \in Branches, ClearStarted(b)
    PROVE  ParallelTypes' /\ BranchMove(b)
  <1>1. pc[b] = "clearStarted" /\ Drain(b) /\ UNCHANGED <<slot, last_step, seen, pings>>
        /\ emitted' = [emitted EXCEPT ![b] = 0] /\ ok' = [ok EXCEPT ![b] = TRUE]
        /\ pc[b] \notin Emits
        /\ pc[b] \in Running \ {"branchFailed", "branchCompleted", "exec"}
    BY DEF ClearStarted, Emits, Running
  <1>2. Holds(b) /\ Wrote(b) /\ event_buffer' \in Seq(EventType) /\ trace' \in Seq(EventType)
    BY <1>1, DrainWrote
  <1>3. emitted' \in [Branches -> 0..MaxEvents] /\ ok' \in [Branches -> BOOLEAN]
    BY <1>1, ParallelAssumption DEF ParallelTypes
  <1>4. CASE Leave(b, "exec") /\ UNCHANGED <<completed, failed>>
    <2>1. FlagsKept(b, "exec")
      BY <1>4 DEF FlagsKept
    <2>2. /\ pc' \in [Tasks -> Places] /\ Queue(lock', Waiting')
          /\ evt' \in [Tasks -> EventType] /\ BranchMove(b)
      BY <1>1, <1>2, <1>4, <2>1, MoveToExec
    <2> QED
      BY <1>1, <1>2, <1>3, <1>4, <2>2 DEF ParallelTypes, Places
  <1>5. CASE StepErr(b)
    <2>1. /\ pc' \in [Tasks -> Places] /\ Queue(lock', Waiting')
          /\ evt' \in [Tasks -> EventType] /\ BranchMove(b)
          /\ completed' \in [Branches -> BOOLEAN] /\ failed' \in [Branches -> BOOLEAN]
      BY <1>1, <1>2, <1>5, MoveToErr
    <2> QED
      BY <1>1, <1>2, <1>3, <2>1 DEF ParallelTypes, Places
  <1> QED
    BY <1>4, <1>5 DEF ClearStarted

LEMMA EmitEventStep ==
    ASSUME ParallelTypes, Roles, NEW b \in Branches, EmitEvent(b)
    PROVE  ParallelTypes' /\ BranchMove(b)
  <1>1. /\ b \in Tasks /\ pc[b] = "exec" /\ emitted[b] < MaxEvents
        /\ pc' = [pc EXCEPT ![b] = "event"] /\ lock' = Enqueue(lock, b)
        /\ UNCHANGED <<event_buffer, trace, last_step, seen, ok, completed, failed, pings>>
    BY TaskKinds DEF EmitEvent
  <1>2. PICK tick \in BOOLEAN :
          LET e == IF tick THEN Event("SlotAdvanced", b, slot + 1)
                   ELSE Event("WireEvent", b, slot)
          IN  /\ slot' = IF tick THEN slot + 1 ELSE slot
              /\ evt' = [evt EXCEPT ![b] = e]
              /\ emitted' = [emitted EXCEPT ![b] = @ + 1]
    BY DEF EmitEvent
  <1>3. pc \in [Tasks -> Places] /\ Queue(lock, Waiting) /\ evt \in [Tasks -> EventType]
        /\ slot \in Nat /\ emitted \in [Branches -> 0..MaxEvents]
    BY DEF ParallelTypes, Places
  <1>4. pc' \in [Tasks -> Places] /\ Queue(lock', Waiting')
    BY <1>1, <1>3, JoinsQueue DEF AtLock
  <1>5. slot' \in Nat /\ emitted' \in [Branches -> 0..MaxEvents]
    BY <1>1, <1>2, <1>3, ParallelAssumption
  <1>6. PICK kind \in {"SlotAdvanced", "WireEvent"} :
          /\ evt' = [evt EXCEPT ![b] = Event(kind, b, slot')]
          /\ IF kind = "SlotAdvanced" THEN slot' = slot + 1 ELSE slot' = slot
    BY <1>2
  <1>7. evt' \in [Tasks -> EventType] /\ evt'[b] = Event(kind, b, slot')
        /\ \A u \in Tasks \ {b} : evt'[u] = evt[u]
    <2>1. Event(kind, b, slot') \in EventType
      BY <1>1, <1>5, EventTypes DEF Kinds
    <2> QED
      BY <1>1, <1>3, <1>6, <2>1
  <1>8. NextEvent(b, "event")
    BY <1>6, <1>7 DEF NextEvent, Event, EventAbout
  <1>9. lock' = Append(lock, b)
    BY <1>1 DEF Enqueue
  <1>10. BranchMove(b)
    BY <1>1, <1>7, <1>8, <1>9 DEF BranchMove, FlagsKept, Running, Emits
  <1> QED
    BY <1>1, <1>4, <1>5, <1>7, <1>10 DEF ParallelTypes, Places

LEMMA EventWrittenStep ==
    ASSUME ParallelTypes, Roles, NEW b \in Branches, EventWritten(b)
    PROVE  ParallelTypes' /\ BranchMove(b)
  <1>1. pc[b] = "event"
        /\ UNCHANGED <<slot, last_step, emitted, seen, completed, failed, pings>>
        /\ pc[b] \in Emits \ {"branchCompleted"}
        /\ pc[b] \in Running \ {"branchFailed", "branchCompleted", "exec"}
    BY DEF EventWritten, Emits, Running
  <1>2. PICK written \in BOOLEAN :
          /\ Write(b, written) /\ ok' = [ok EXCEPT ![b] = written]
          /\ IF written THEN Leave(b, "exec") ELSE ToDrain(b, "collect")
    BY DEF EventWritten
  <1>3. Holds(b) /\ Wrote(b) /\ event_buffer' \in Seq(EventType) /\ trace' \in Seq(EventType)
    BY <1>1, <1>2, WriteWrote
  <1>4. ok' \in [Branches -> BOOLEAN]
    BY <1>2 DEF ParallelTypes
  <1>5. FlagsKept(b, "exec") /\ FlagsKept(b, "collect")
    BY <1>1 DEF FlagsKept
  <1>6. /\ pc' \in [Tasks -> Places] /\ Queue(lock', Waiting')
        /\ evt' \in [Tasks -> EventType] /\ BranchMove(b)
    <2>1. CASE written
      BY <1>1, <1>2, <1>3, <1>5, <2>1, MoveToExec
    <2>2. CASE ~written
      BY <1>1, <1>2, <1>3, <1>5, <2>2, MoveToDrain
    <2> QED
      BY <2>1, <2>2
  <1> QED
    BY <1>1, <1>3, <1>4, <1>6 DEF ParallelTypes, Places

LEMMA StepReturnsStep ==
    ASSUME ParallelTypes, Roles, NEW b \in Branches, StepReturns(b)
    PROVE  ParallelTypes' /\ BranchMove(b)
  <1>1. /\ b \in Tasks /\ pc[b] = "exec" /\ pc' = [pc EXCEPT ![b] = "collect"]
        /\ lock' = Enqueue(lock, b)
        /\ UNCHANGED <<evt, event_buffer, trace, slot, last_step, emitted, seen, completed,
                       failed, pings>>
    BY TaskKinds DEF StepReturns
  <1>2. PICK result \in BOOLEAN : ok' = [ok EXCEPT ![b] = result]
    BY DEF StepReturns
  <1>3. pc \in [Tasks -> Places] /\ Queue(lock, Waiting)
    BY DEF ParallelTypes, Places
  <1>4. pc' \in [Tasks -> Places] /\ Queue(lock', Waiting')
    BY <1>1, <1>3, JoinsQueue DEF AtLock
  <1>5. ok' \in [Branches -> BOOLEAN]
    BY <1>2 DEF ParallelTypes
  <1>6. lock' = Append(lock, b)
    BY <1>1 DEF Enqueue
  <1>7. BranchMove(b)
    BY <1>1, <1>6 DEF BranchMove, FlagsKept, Running, Emits
  <1> QED
    BY <1>1, <1>4, <1>5, <1>7 DEF ParallelTypes, Places

LEMMA CollectStep ==
    ASSUME ParallelTypes, Roles, NEW b \in Branches, Collect(b)
    PROVE  ParallelTypes' /\ BranchMove(b)
  <1>1. pc[b] = "collect" /\ Drain(b) /\ seen' = [seen EXCEPT ![b] = event_buffer]
        /\ UNCHANGED <<slot, last_step, emitted, ok, completed, failed, pings>>
        /\ pc[b] \notin Emits
        /\ pc[b] \in Running \ {"branchFailed", "branchCompleted", "exec"}
    BY DEF Collect, Emits, Running
  <1>2. Holds(b) /\ Wrote(b) /\ event_buffer' \in Seq(EventType) /\ trace' \in Seq(EventType)
    BY <1>1, DrainWrote
  <1>3. seen' \in [Branches -> Seq(EventType)]
    BY <1>1 DEF ParallelTypes
  <1>4. PICK p \in {"assertion", "stepCompleted"},
             kind \in {"AssertionPassed", "AssertionFailed", "StepCompleted"} :
          ToEmit(b, p, kind)
    BY DEF Collect
  <1>5. p \in Emits /\ FlagsKept(b, p)
        /\ kind \in Kinds \ {"ParallelBranchAborted", "ParallelCompleted", "SlotAdvanced"}
    BY <1>1 DEF Emits, Kinds, FlagsKept
  <1>6. /\ pc' \in [Tasks -> Places] /\ Queue(lock', Waiting')
        /\ evt' \in [Tasks -> EventType] /\ BranchMove(b)
    BY <1>1, <1>2, <1>4, <1>5, MoveToEmit
  <1> QED
    BY <1>1, <1>2, <1>3, <1>6 DEF ParallelTypes, Places

LEMMA AssertionStep ==
    ASSUME ParallelTypes, Roles, NEW b \in Branches, Assertion(b)
    PROVE  ParallelTypes' /\ BranchMove(b)
  <1>1. pc[b] = "assertion" /\ ok' = [ok EXCEPT ![b] = @ /\ evt[b].kind = "AssertionPassed"]
        /\ ToEmit(b, "stepCompleted", "StepCompleted")
        /\ UNCHANGED <<slot, last_step, emitted, seen, completed, failed, pings>>
        /\ pc[b] \in Emits \ {"branchCompleted"}
        /\ pc[b] \in Running \ {"branchFailed", "branchCompleted", "exec"}
    BY DEF Assertion, Emits, Running
  <1>2. PICK written \in BOOLEAN : Write(b, written)
    BY DEF Assertion
  <1>3. Holds(b) /\ Wrote(b) /\ event_buffer' \in Seq(EventType) /\ trace' \in Seq(EventType)
    BY <1>1, <1>2, WriteWrote
  <1>4. ok' \in [Branches -> BOOLEAN]
    <2>1. ok \in [Branches -> BOOLEAN]
      BY DEF ParallelTypes
    <2> QED
      BY <1>1, <2>1
  <1>5. "stepCompleted" \in Emits /\ FlagsKept(b, "stepCompleted") /\ "StepCompleted" \in
          Kinds \ {"ParallelBranchAborted", "ParallelCompleted", "SlotAdvanced"}
    BY <1>1 DEF Emits, Kinds, FlagsKept
  <1>6. /\ pc' \in [Tasks -> Places] /\ Queue(lock', Waiting')
        /\ evt' \in [Tasks -> EventType] /\ BranchMove(b)
    BY <1>1, <1>3, <1>5, MoveToEmit
  <1> QED
    BY <1>1, <1>3, <1>4, <1>6 DEF ParallelTypes, Places

LEMMA StepCompletedStep ==
    ASSUME ParallelTypes, Roles, NEW b \in Branches, StepCompleted(b)
    PROVE  ParallelTypes' /\ BranchMove(b)
  <1>1. pc[b] = "stepCompleted" /\ UNCHANGED <<slot, emitted, seen, ok, pings>>
        /\ pc[b] \in Emits \ {"branchCompleted"}
        /\ pc[b] \in Running \ {"branchFailed", "branchCompleted", "exec"}
    BY DEF StepCompleted, Emits, Running
  <1>2. PICK written \in BOOLEAN :
          /\ Write(b, written)
          /\ \/ /\ last_step[b] < Steps /\ last_step' = [last_step EXCEPT ![b] = @ + 1]
                /\ ToDrain(b, "clear") /\ UNCHANGED <<completed, failed>>
             \/ /\ completed' = [completed EXCEPT ![b] = TRUE]
                /\ ToEmit(b, "branchCompleted", "ParallelBranchCompleted")
                /\ UNCHANGED <<last_step, failed>>
             \/ StepErr(b) /\ UNCHANGED last_step
    BY Zenon DEF StepCompleted
  <1>3. Holds(b) /\ Wrote(b) /\ event_buffer' \in Seq(EventType) /\ trace' \in Seq(EventType)
    BY <1>1, <1>2, WriteWrote
  <1>4. /\ last_step \in [Branches -> 1..Steps] /\ completed \in [Branches -> BOOLEAN]
        /\ failed \in [Branches -> BOOLEAN]
    BY DEF ParallelTypes
  <1>5. CASE /\ last_step[b] < Steps /\ last_step' = [last_step EXCEPT ![b] = @ + 1]
             /\ ToDrain(b, "clear") /\ UNCHANGED <<completed, failed>>
    <2>1. FlagsKept(b, "clear")
      BY <1>5 DEF FlagsKept
    <2>2. /\ pc' \in [Tasks -> Places] /\ Queue(lock', Waiting')
          /\ evt' \in [Tasks -> EventType] /\ BranchMove(b)
      BY <1>1, <1>3, <1>5, <2>1, MoveToDrain
    <2>3. last_step' \in [Branches -> 1..Steps]
      BY <1>4, <1>5, ParallelAssumption
    <2> QED
      BY <1>1, <1>3, <1>5, <2>2, <2>3 DEF ParallelTypes, Places
  <1>6. CASE /\ completed' = [completed EXCEPT ![b] = TRUE]
             /\ ToEmit(b, "branchCompleted", "ParallelBranchCompleted")
             /\ UNCHANGED <<last_step, failed>>
    <2>1. FlagsKept(b, "branchCompleted") /\ completed' \in [Branches -> BOOLEAN]
      BY <1>4, <1>6 DEF FlagsKept
    <2>2. "branchCompleted" \in Emits /\ "ParallelBranchCompleted" \in
            Kinds \ {"ParallelBranchAborted", "ParallelCompleted", "SlotAdvanced"}
      BY DEF Emits, Kinds, Verdict
    <2>3. /\ pc' \in [Tasks -> Places] /\ Queue(lock', Waiting')
          /\ evt' \in [Tasks -> EventType] /\ BranchMove(b)
      BY <1>1, <1>3, <1>6, <2>1, <2>2, MoveToEmit
    <2> QED
      BY <1>1, <1>3, <1>6, <2>1, <2>3 DEF ParallelTypes, Places
  <1>7. CASE StepErr(b) /\ UNCHANGED last_step
    <2>1. /\ pc' \in [Tasks -> Places] /\ Queue(lock', Waiting')
          /\ evt' \in [Tasks -> EventType] /\ BranchMove(b)
          /\ completed' \in [Branches -> BOOLEAN] /\ failed' \in [Branches -> BOOLEAN]
      BY <1>1, <1>3, <1>7, MoveToErr
    <2> QED
      BY <1>1, <1>3, <1>7, <2>1 DEF ParallelTypes, Places
  <1> QED
    BY <1>2, <1>5, <1>6, <1>7

LEMMA BranchFailedStep ==
    ASSUME ParallelTypes, Roles, NEW b \in Branches, BranchFailed(b)
    PROVE  ParallelTypes' /\ BranchErr(b)
  <1>1. b \in Tasks /\ pc[b] = "branchFailed" /\ JoinErr(b) /\ pc[Parent] = "join"
        /\ UNCHANGED <<slot, last_step, emitted, seen, ok, completed, failed, pings>>
    BY TaskKinds, RunningIsJoined DEF BranchFailed, branchVars, Running, Emits
  <1>2. PICK written \in BOOLEAN : Write(b, written)
    BY DEF BranchFailed
  <1>3. Holds(b) /\ event_buffer' \in Seq(EventType) /\ trace' \in Seq(EventType)
        /\ trace' = (IF written THEN Append(trace, evt[b]) ELSE trace)
        /\ ("write" \notin MayFail => written)
    BY <1>1, <1>2, WriteTypes
  <1>4. pc' \in [Tasks -> Places] /\ Queue(lock', Waiting') /\ evt' \in [Tasks -> EventType]
    BY <1>1, <1>3, JoinErrTypes
  <1>5. BranchErr(b)
    BY <1>1, <1>3 DEF BranchErr
  <1> QED
    BY <1>1, <1>3, <1>4, <1>5 DEF ParallelTypes, Places

LEMMA BranchCompletedStep ==
    ASSUME ParallelTypes, Roles, NEW b \in Branches, BranchCompleted(b)
    PROVE  ParallelTypes' /\ (BranchMove(b) \/ BranchErr(b))
  <1>1. b \in Tasks /\ pc[b] = "branchCompleted" /\ pc[Parent] = "join"
        /\ UNCHANGED <<slot, last_step, emitted, seen, ok, completed, failed, pings>>
    BY TaskKinds, RunningIsJoined DEF BranchCompleted, branchVars, Running, Emits
  <1>2. PICK written \in BOOLEAN :
          Write(b, written) /\ IF written THEN Leave(b, "ok") ELSE JoinErr(b)
    BY DEF BranchCompleted
  <1>3. Holds(b) /\ event_buffer' \in Seq(EventType) /\ trace' \in Seq(EventType)
        /\ trace' = (IF written THEN Append(trace, evt[b]) ELSE trace)
        /\ ("write" \notin MayFail => written)
    BY <1>1, <1>2, WriteTypes
  <1>4. CASE written
    <2>1. Leave(b, "ok")
      BY <1>2, <1>4
    <2>2. /\ pc' \in [Tasks -> Places] /\ Queue(lock', Waiting') /\ evt' \in [Tasks -> EventType]
          /\ evt' = evt /\ pc' = [pc EXCEPT ![b] = "ok"]
      BY <1>1, <1>3, <2>1, LeaveTypes DEF Places, AtLock
    <2>3. lock' = Tail(lock)
      BY <2>1 DEF Leave
    <2>4. BranchMove(b)
      BY <1>1, <1>3, <1>4, <2>2, <2>3 DEF BranchMove, FlagsKept, Running, Emits
    <2> QED
      BY <1>1, <1>3, <2>2, <2>4 DEF ParallelTypes, Places
  <1>5. CASE ~written
    <2>1. pc' \in [Tasks -> Places] /\ Queue(lock', Waiting') /\ evt' \in [Tasks -> EventType]
      BY <1>1, <1>2, <1>3, <1>5, JoinErrTypes
    <2>2. BranchErr(b)
      BY <1>1, <1>2, <1>3, <1>5 DEF BranchErr
    <2> QED
      BY <1>1, <1>3, <2>1, <2>2 DEF ParallelTypes, Places
  <1> QED
    BY <1>4, <1>5

\* Every step of a branch is one of the two.
LEMMA BranchSteps ==
    ASSUME ParallelTypes, Roles, NEW b \in Branches, BranchNext(b)
    PROVE  ParallelTypes' /\ (BranchMove(b) \/ BranchErr(b))
  BY BranchStartedStep, ClearBufferStep, StepStartedStep, ClearStartedStep, EmitEventStep,
     EventWrittenStep, StepReturnsStep, CollectStep, AssertionStep, StepCompletedStep,
     BranchFailedStep, BranchCompletedStep, Zenon DEF BranchNext

-----------------------------------------------------------------------------
(* The steps of the parent and of the workers.                             *)

LEMMA ParallelStartedStep ==
    ASSUME ParallelTypes, Roles, ParallelStarted
    PROVE  ParallelTypes'
  <1>1. pc[Parent] = "parallelStarted" /\ Parent \in Tasks
        /\ UNCHANGED <<slot, last_step, emitted, seen, ok, completed, failed, pings>>
    BY TaskKinds DEF ParallelStarted, branchVars
  <1>2. PICK written \in BOOLEAN :
          /\ Write(Parent, written)
          /\ IF written
             THEN /\ pc' = [t \in Tasks |-> IF t = Parent THEN "join"
                                            ELSE IF t \in Branches THEN "branchStarted"
                                            ELSE pc[t]]
                  /\ evt' = [t \in Tasks |-> IF t \in Branches
                                 THEN Event("ParallelBranchStarted", t, slot) ELSE evt[t]]
                  /\ lock' = Tail(lock) \o [i \in 1..N |-> i]
             ELSE Leave(Parent, "error")
    BY DEF ParallelStarted
  <1>3. Holds(Parent) /\ event_buffer' \in Seq(EventType) /\ trace' \in Seq(EventType)
    BY <1>1, <1>2, WriteTypes
  <1>4. pc \in [Tasks -> Places] /\ Queue(lock, Waiting) /\ evt \in [Tasks -> EventType]
        /\ slot \in Nat
    BY DEF ParallelTypes, Places
  <1>5. CASE written
    <2>1. /\ pc' = [t \in Tasks |-> IF t = Parent THEN "join"
                                    ELSE IF t \in Branches THEN "branchStarted"
                                    ELSE pc[t]]
          /\ evt' = [t \in Tasks |-> IF t \in Branches
                         THEN Event("ParallelBranchStarted", t, slot) ELSE evt[t]]
          /\ lock' = Tail(lock) \o [i \in 1..N |-> i]
      BY <1>2, <1>5
    <2>2. pc' \in [Tasks -> Places]
      BY <1>4, <2>1 DEF Places, AtLock
    <2>3. evt' \in [Tasks -> EventType]
      <3>1. ASSUME NEW t \in Tasks
            PROVE  Event("ParallelBranchStarted", t, slot) \in EventType
        BY <1>4, EventTypes DEF Kinds
      <3> QED
        BY <1>4, <2>1, <3>1
    <2>4. Queue(Tail(lock), Waiting \ {Parent})
      BY <1>4, <1>3, QueueTail DEF Holds
    <2> DEFINE all == [i \in 1..N |-> i]
    <2>5. Queue(all, Branches)
      <3>1. N \in Nat
        BY ParallelAssumption
      <3>2. all \in Seq(Branches) /\ Len(all) = N /\ \A i \in 1..N : all[i] = i
        BY <3>1 DEF Branches
      <3> HIDE DEF all
      <3> QED
        BY <3>1, <3>2 DEF Queue, Branches
    <2> HIDE DEF all
    <2>6. (Waiting \ {Parent}) \cap Branches = {}
      BY <1>1 DEF Roles, Waiting, AtLock
    <2>7. Queue(lock', (Waiting \ {Parent}) \cup Branches)
      <3>1. Queue(Tail(lock) \o all, (Waiting \ {Parent}) \cup Branches)
        BY <2>4, <2>5, <2>6, QueueConcat
      <3> QED
        BY <2>1, <3>1 DEF all
    <2>8. Waiting' = (Waiting \ {Parent}) \cup Branches
      <3>1. Waiting' = {u \in Tasks : pc'[u] \in AtLock}
        BY DEF Waiting, Tasks, Branches, Parent, AtLock
      <3>2. ASSUME NEW u \in Tasks
            PROVE  pc'[u] \in AtLock <=> u \in (Waiting \ {Parent}) \cup Branches
        <4>1. pc'[u] = IF u = Parent THEN "join"
                       ELSE IF u \in Branches THEN "branchStarted" ELSE pc[u]
          BY <2>1
        <4> QED
          BY <4>1, TaskKinds DEF Waiting, AtLock
      <3>3. (Waiting \ {Parent}) \cup Branches \subseteq Tasks
        BY TaskKinds DEF Waiting
      <3> QED
        BY <3>1, <3>2, <3>3
    <2> QED
      BY <1>1, <1>3, <2>2, <2>3, <2>7, <2>8 DEF ParallelTypes, Places
  <1>6. CASE ~written
    <2>1. /\ pc' \in [Tasks -> Places] /\ Queue(lock', Waiting')
          /\ evt' \in [Tasks -> EventType]
      BY <1>1, <1>2, <1>3, <1>6, LeaveTypes DEF Places, AtLock
    <2> QED
      BY <1>1, <1>3, <2>1 DEF ParallelTypes, Places
  <1> QED
    BY <1>5, <1>6

LEMMA AllJoinedStep ==
    ASSUME ParallelTypes, AllJoined
    PROVE  ParallelTypes'
  <1>1. /\ pc[Parent] = "join" /\ Parent \in Tasks
        /\ pc' = [pc EXCEPT ![Parent] = "parallelCompleted"]
        /\ evt' = [evt EXCEPT ![Parent] = Event("ParallelCompleted", Parent, slot)]
        /\ lock' = Enqueue(lock, Parent)
        /\ UNCHANGED <<event_buffer, trace, slot, last_step, emitted, seen, ok, completed,
                       failed, pings>>
    BY TaskKinds DEF AllJoined, branchVars
  <1>2. pc \in [Tasks -> Places] /\ Queue(lock, Waiting) /\ evt \in [Tasks -> EventType]
        /\ slot \in Nat
    BY DEF ParallelTypes, Places
  <1>3. pc' \in [Tasks -> Places] /\ Queue(lock', Waiting')
    BY <1>1, <1>2, JoinsQueue DEF AtLock
  <1>4. Event("ParallelCompleted", Parent, slot) \in EventType
    BY <1>1, <1>2, EventTypes DEF Kinds
  <1>5. evt' \in [Tasks -> EventType]
    BY <1>1, <1>2, <1>4
  <1> QED
    BY <1>1, <1>3, <1>5 DEF ParallelTypes, Places

LEMMA VerdictsStep ==
    ASSUME ParallelTypes, Verdicts
    PROVE  ParallelTypes'
  <1>1. pc[Parent] = "verdicts" /\ Parent \in Tasks
        /\ UNCHANGED <<slot, last_step, emitted, seen, ok, completed, failed, pings>>
    BY TaskKinds DEF Verdicts, branchVars
  <1>2. PICK written \in BOOLEAN : Write(Parent, written)
    BY DEF Verdicts
  <1>3. Holds(Parent) /\ event_buffer' \in Seq(EventType) /\ trace' \in Seq(EventType)
    BY <1>1, <1>2, WriteTypes
  <1>4. pc \in [Tasks -> Places] /\ Queue(lock, Waiting)
    BY DEF ParallelTypes, Places
  <1>5. CASE AfterJoin(evt[Parent].about, Tail(lock)) /\ UNCHANGED pc
    <2>1. lock' = Enqueue(Tail(lock), Parent) /\ evt' \in [Tasks -> EventType]
      BY <1>5, AfterJoinTypes
    <2>2. pc' = [pc EXCEPT ![Parent] = "verdicts"]
      BY <1>1, <1>4, <1>5
    <2>3. pc' \in [Tasks -> Places] /\ Queue(lock', Waiting')
      BY <1>1, <1>3, <1>4, <2>1, <2>2, GoesBack DEF AtLock
    <2> QED
      BY <1>1, <1>3, <2>1, <2>3 DEF ParallelTypes, Places
  <1>6. CASE Leave(Parent, "error")
    <2>1. /\ pc' \in [Tasks -> Places] /\ Queue(lock', Waiting')
          /\ evt' \in [Tasks -> EventType]
      BY <1>1, <1>3, <1>6, LeaveTypes DEF Places, AtLock
    <2> QED
      BY <1>1, <1>3, <2>1 DEF ParallelTypes, Places
  <1> QED
    BY <1>5, <1>6 DEF Verdicts

LEMMA ParallelCompletedStep ==
    ASSUME ParallelTypes, ParallelCompleted
    PROVE  ParallelTypes'
  <1>1. pc[Parent] = "parallelCompleted" /\ Parent \in Tasks
        /\ UNCHANGED <<slot, last_step, emitted, seen, ok, completed, failed, pings>>
    BY TaskKinds DEF ParallelCompleted, branchVars
  <1>2. PICK written \in BOOLEAN :
          Write(Parent, written) /\ Leave(Parent, IF written THEN "done" ELSE "error")
    BY DEF ParallelCompleted
  <1>3. Holds(Parent) /\ event_buffer' \in Seq(EventType) /\ trace' \in Seq(EventType)
    BY <1>1, <1>2, WriteTypes
  <1>4. PICK p \in {"done", "error"} : Leave(Parent, p)
    BY <1>2
  <1>5. p \in Places \ AtLock
    BY DEF Places, AtLock
  <1>6. /\ pc' \in [Tasks -> Places] /\ Queue(lock', Waiting')
        /\ evt' \in [Tasks -> EventType]
    BY <1>1, <1>3, <1>4, <1>5, LeaveTypes
  <1> QED
    BY <1>1, <1>3, <1>6 DEF ParallelTypes, Places

LEMMA WorkerEmitsStep ==
    ASSUME ParallelTypes, NEW w \in Workers, WorkerEmits(w)
    PROVE  ParallelTypes'
  <1>1. /\ pc[w] = "idle" /\ w \in Tasks /\ pings < MaxPings /\ pings' = pings + 1
        /\ pc' = [pc EXCEPT ![w] = "event"]
        /\ evt' = [evt EXCEPT ![w] = Event("WireEvent", w, slot)]
        /\ lock' = Enqueue(lock, w)
        /\ UNCHANGED <<event_buffer, trace, slot, last_step, emitted, seen, ok, completed,
                       failed>>
    BY TaskKinds DEF WorkerEmits, branchVars
  <1>2. pc \in [Tasks -> Places] /\ Queue(lock, Waiting) /\ evt \in [Tasks -> EventType]
        /\ slot \in Nat /\ pings \in 0..MaxPings
    BY DEF ParallelTypes, Places
  <1>3. pc' \in [Tasks -> Places] /\ Queue(lock', Waiting')
    BY <1>1, <1>2, JoinsQueue DEF AtLock
  <1>4. Event("WireEvent", w, slot) \in EventType
    BY <1>1, <1>2, EventTypes DEF Kinds
  <1>5. evt' \in [Tasks -> EventType]
    BY <1>1, <1>2, <1>4
  <1>6. pings' \in 0..MaxPings
    BY <1>1, <1>2, ParallelAssumption
  <1> QED
    BY <1>1, <1>3, <1>5, <1>6 DEF ParallelTypes, Places

LEMMA WorkerWrittenStep ==
    ASSUME ParallelTypes, NEW w \in Workers, WorkerWritten(w)
    PROVE  ParallelTypes'
  <1>1. pc[w] = "event" /\ w \in Tasks /\ Leave(w, "idle")
        /\ UNCHANGED <<slot, last_step, emitted, seen, ok, completed, failed, pings>>
    BY TaskKinds DEF WorkerWritten, branchVars
  <1>2. PICK written \in BOOLEAN : Write(w, written)
    BY DEF WorkerWritten
  <1>3. Holds(w) /\ event_buffer' \in Seq(EventType) /\ trace' \in Seq(EventType)
    BY <1>1, <1>2, WriteTypes
  <1>4. /\ pc' \in [Tasks -> Places] /\ Queue(lock', Waiting')
        /\ evt' \in [Tasks -> EventType]
    BY <1>1, <1>3, LeaveTypes DEF Places, AtLock
  <1> QED
    BY <1>1, <1>3, <1>4 DEF ParallelTypes, Places

LEMMA TypesStep ==
    ASSUME ParallelTypes, Roles, [Next]_vars
    PROVE  ParallelTypes'
  <1>1. CASE UNCHANGED vars
    <2>1. UNCHANGED <<pc, lock, evt, event_buffer, trace, slot, last_step, emitted, seen, ok,
                      completed, failed, pings>>
      BY <1>1 DEF vars, branchVars
    <2>2. Waiting' = Waiting
      BY <2>1 DEF Waiting, Tasks, Branches, Parent, AtLock
    <2>3. Queue(lock', Waiting')
      BY <2>1, <2>2 DEF ParallelTypes
    <2> QED
      BY <2>1, <2>3 DEF ParallelTypes
  <1> QED
    BY <1>1, BranchSteps, ParallelStartedStep, AllJoinedStep, VerdictsStep,
       ParallelCompletedStep, WorkerEmitsStep, WorkerWrittenStep, Zenon
    DEF Next, ParentNext, WorkerNext

-----------------------------------------------------------------------------
(* Where the tasks are.                                                    *)

LEMMA InitTypes ==
    ASSUME Init
    PROVE  ParallelTypes /\ Roles
  <1>1. /\ pc = [t \in Tasks |-> IF t = Parent THEN "parallelStarted" ELSE "idle"]
        /\ lock = <<Parent>>
        /\ evt = [t \in Tasks |-> IF t = Parent THEN Event("ParallelStarted", Parent, 0)
                                  ELSE NoEvent]
    BY DEF Init
  <1>2. pc \in [Tasks -> Places]
    BY <1>1 DEF Places, AtLock
  <1>3. Waiting = {Parent}
    BY <1>1, TaskKinds DEF Waiting, AtLock
  <1>4. Queue(lock, Waiting)
    BY <1>1, <1>3 DEF Queue
  <1>5. evt \in [Tasks -> EventType]
    <2>1. Event("ParallelStarted", Parent, 0) \in EventType /\ NoEvent \in EventType
      BY EventTypes, TaskKinds DEF Kinds, NoEvent
    <2> QED
      BY <1>1, <2>1
  <1>6. ParallelTypes
    BY <1>2, <1>4, <1>5, ParallelAssumption DEF Init, ParallelTypes, Places
  <1>7. Roles
    BY <1>1, TaskKinds DEF Roles, Running, Emits
  <1> QED
    BY <1>6, <1>7

\* What one task's move leaves of the others.
LEMMA MovedPc ==
    ASSUME ParallelTypes, NEW t \in Tasks, NEW p, pc' = [pc EXCEPT ![t] = p]
    PROVE  pc'[t] = p /\ \A u \in Tasks \ {t} : pc'[u] = pc[u]
  BY DEF ParallelTypes

LEMMA MoveRoles ==
    ASSUME ParallelTypes, Roles, NEW b \in Branches, BranchMove(b)
    PROVE  Roles'
  <1>1. PICK p \in Running \cup {"ok"} : pc' = [pc EXCEPT ![b] = p]
    BY DEF BranchMove
  <1>2. pc[b] \in Running
    BY DEF BranchMove
  <1>3. pc[Parent] = "join" /\ b \in Tasks /\ b # Parent
    BY <1>2, RunningIsJoined, TaskKinds
  <1>4. pc'[b] = p /\ \A u \in Tasks \ {b} : pc'[u] = pc[u]
    BY <1>1, <1>3, MovedPc
  <1>5. pc'[Parent] = "join"
    BY <1>3, <1>4, TaskKinds
  <1>6. \A w \in Workers : pc'[w] \in {"idle", "event"}
    BY <1>4, TaskKinds DEF Roles
  <1>7. \A c \in Branches : pc'[c] \in Running \cup {"ok"}
    BY <1>3, <1>4, TaskKinds DEF Roles
  <1> QED
    BY <1>5, <1>6, <1>7 DEF Roles, Running, Emits, Branches, Parent

LEMMA ErrPlaces ==
    ASSUME ParallelTypes, Roles, NEW b \in Branches, pc[b] \in Running, JoinErr(b)
    PROVE  /\ pc[Parent] = "join" /\ pc'[Parent] = "verdicts" /\ pc'[b] = "err"
           /\ \A c \in Branches \ {b} : pc'[c] = IF pc[c] = "ok" THEN "ok" ELSE "dropped"
           /\ \A w \in Workers : pc'[w] = pc[w]
  <1>1. pc[Parent] = "join"
    BY RunningIsJoined
  <1>2. pc' = [t \in Tasks |-> IF t = Parent THEN "verdicts"
                               ELSE IF t = b THEN "err"
                               ELSE IF t \in Branches /\ pc[t] # "ok" THEN "dropped"
                               ELSE pc[t]]
    BY DEF JoinErr
  <1> QED
    BY <1>1, <1>2, TaskKinds

LEMMA ErrRoles ==
    ASSUME ParallelTypes, Roles, NEW b \in Branches, BranchErr(b)
    PROVE  Roles'
  <1>1. pc[b] \in Running /\ JoinErr(b)
    BY DEF BranchErr, Running, Emits
  <1>2. /\ pc'[Parent] = "verdicts" /\ pc'[b] = "err"
        /\ \A c \in Branches \ {b} : pc'[c] = IF pc[c] = "ok" THEN "ok" ELSE "dropped"
        /\ \A w \in Workers : pc'[w] = pc[w]
    BY <1>1, ErrPlaces
  <1>3. \A c \in Branches : pc'[c] \in {"ok", "err", "dropped"}
    BY <1>2
  <1>4. \A w \in Workers : pc'[w] \in {"idle", "event"}
    BY <1>2 DEF Roles
  <1> QED
    BY <1>2, <1>3, <1>4 DEF Roles, Running, Emits, Branches, Parent

LEMMA ParentRoles ==
    ASSUME ParallelTypes, Roles, ParentNext
    PROVE  Roles'
  <1>1. Parent \in Tasks /\ pc \in [Tasks -> Places]
    BY TaskKinds DEF ParallelTypes, Places
  <1>2. CASE ParallelStarted
    <2>1. pc[Parent] = "parallelStarted"
      BY <1>2 DEF ParallelStarted
    <2>2. \/ pc' = [t \in Tasks |-> IF t = Parent THEN "join"
                                    ELSE IF t \in Branches THEN "branchStarted"
                                    ELSE pc[t]]
          \/ pc' = [pc EXCEPT ![Parent] = "error"]
      BY <1>2 DEF ParallelStarted, Leave
    <2>3. CASE pc' = [t \in Tasks |-> IF t = Parent THEN "join"
                                      ELSE IF t \in Branches THEN "branchStarted"
                                      ELSE pc[t]]
      <3>1. /\ pc'[Parent] = "join" /\ \A c \in Branches : pc'[c] = "branchStarted"
            /\ \A w \in Workers : pc'[w] = pc[w]
        BY <2>3, TaskKinds
      <3> QED
        BY <3>1 DEF Roles, Running, Emits, Branches, Parent
    <2>4. CASE pc' = [pc EXCEPT ![Parent] = "error"]
      <3>1. pc'[Parent] = "error" /\ \A u \in Tasks \ {Parent} : pc'[u] = pc[u]
        BY <1>1, <2>4, MovedPc
      <3>2. (\A c \in Branches : pc'[c] = "idle") /\ \A w \in Workers : pc'[w] = pc[w]
        BY <2>1, <3>1, TaskKinds DEF Roles
      <3> QED
        BY <3>1, <3>2 DEF Roles, Running, Emits, Branches, Parent
    <2> QED
      BY <2>2, <2>3, <2>4
  <1>3. CASE AllJoined
    <2>1. pc' = [pc EXCEPT ![Parent] = "parallelCompleted"] /\ \A c \in Branches : pc[c] = "ok"
      BY <1>3 DEF AllJoined
    <2>2. pc'[Parent] = "parallelCompleted" /\ \A u \in Tasks \ {Parent} : pc'[u] = pc[u]
      BY <1>1, <2>1, MovedPc
    <2>3. (\A c \in Branches : pc'[c] = "ok") /\ \A w \in Workers : pc'[w] = pc[w]
      BY <2>1, <2>2, TaskKinds
    <2> QED
      BY <2>2, <2>3 DEF Roles, Running, Emits, Branches, Parent
  <1>4. CASE Verdicts
    <2>1. pc[Parent] = "verdicts" /\ (pc' = pc \/ pc' = [pc EXCEPT ![Parent] = "error"])
      BY <1>4 DEF Verdicts, Leave
    <2>2. CASE pc' = pc
      BY <2>2 DEF Roles, Running, Emits, Branches, Parent
    <2>3. CASE pc' = [pc EXCEPT ![Parent] = "error"]
      <3>1. pc'[Parent] = "error" /\ \A u \in Tasks \ {Parent} : pc'[u] = pc[u]
        BY <1>1, <2>3, MovedPc
      <3>2. (\A c \in Branches : pc'[c] = pc[c] /\ pc[c] \notin Running)
            /\ \A w \in Workers : pc'[w] = pc[w]
        BY <2>1, <3>1, TaskKinds DEF Roles
      <3> QED
        BY <3>1, <3>2 DEF Roles, Running, Emits, Branches, Parent
    <2> QED
      BY <2>1, <2>2, <2>3
  <1>5. CASE ParallelCompleted
    <2>1. pc[Parent] = "parallelCompleted" /\
          \E p \in {"done", "error"} : pc' = [pc EXCEPT ![Parent] = p]
      BY <1>5 DEF ParallelCompleted, Leave
    <2>2. PICK p \in {"done", "error"} : pc' = [pc EXCEPT ![Parent] = p]
      BY <2>1
    <2>3. pc'[Parent] = p /\ \A u \in Tasks \ {Parent} : pc'[u] = pc[u]
      BY <1>1, <2>2, MovedPc
    <2>4. (\A c \in Branches : pc'[c] = "ok") /\ \A w \in Workers : pc'[w] = pc[w]
      BY <2>1, <2>3, TaskKinds DEF Roles
    <2> QED
      BY <2>3, <2>4 DEF Roles, Running, Emits, Branches, Parent
  <1> QED
    BY <1>2, <1>3, <1>4, <1>5 DEF ParentNext

LEMMA WorkerRoles ==
    ASSUME ParallelTypes, Roles, NEW w \in Workers, WorkerNext(w)
    PROVE  Roles'
  <1>1. \E p \in {"idle", "event"} : pc' = [pc EXCEPT ![w] = p]
    BY DEF WorkerNext, WorkerEmits, WorkerWritten, Leave
  <1>2. PICK p \in {"idle", "event"} : pc' = [pc EXCEPT ![w] = p]
    BY <1>1
  <1>3. pc'[w] = p /\ \A u \in Tasks \ {w} : pc'[u] = pc[u]
    BY <1>2, MovedPc, TaskKinds
  <1>4. /\ pc'[Parent] = pc[Parent] /\ \A c \in Branches : pc'[c] = pc[c]
        /\ \A v \in Workers : pc'[v] \in {"idle", "event"}
    BY <1>3, TaskKinds DEF Roles
  <1> QED
    BY <1>4 DEF Roles, Running, Emits, Branches, Parent

LEMMA RolesStep ==
    ASSUME ParallelTypes, Roles, [Next]_vars
    PROVE  Roles'
  <1>1. CASE UNCHANGED vars
    BY <1>1 DEF vars, Roles, Running, Emits, Branches, Parent
  <1> QED
    BY <1>1, BranchSteps, MoveRoles, ErrRoles, ParentRoles, WorkerRoles, Zenon DEF Next

LEMMA TypesImply ==
    ASSUME ParallelTypes
    PROVE  TypeOK
  <1>1. ToSet(lock) = Waiting /\ Len(lock) = Cardinality(Waiting)
    BY QueueLength DEF ParallelTypes
  <1>2. ASSUME NEW s \in Seq(EventType)
        PROVE  ToSet(s) \subseteq EventType
    BY DEF ToSet
  <1>3. ToSet(event_buffer) \cup ToSet(trace) \subseteq EventType
    BY <1>2 DEF ParallelTypes
  <1>4. ToSet(lock) = {t \in Tasks : pc[t] \in AtLock} /\ Len(lock) = Cardinality(ToSet(lock))
    BY <1>1, Zenon DEF Waiting
  <1>5. \A t \in Tasks : evt[t] \in EventType
    BY DEF ParallelTypes
  <1> QED
    BY <1>3, <1>4, <1>5, Zenon DEF ParallelTypes, TypeOK

\* The state of a parallel step is well typed, and the tracer's mutex is
\* queued for by exactly the tasks that are at an emit or a drain, each once:
\* a branch that try_join_all drops leaves nothing behind in the queue.
THEOREM ParallelTypeCorrect == Spec => []TypeOK
  <1> DEFINE I == ParallelTypes /\ Roles
  <1>1. Init => I
    BY InitTypes
  <1>2. I /\ [Next]_vars => I'
    BY TypesStep, RolesStep
  <1>3. I => TypeOK
    BY TypesImply
  <1> QED
    BY <1>1, <1>2, <1>3, PTL DEF Spec

-----------------------------------------------------------------------------
(* The trace as it grows.                                                  *)

\* Positions of a trace that has grown by one event.
LEMMA AppendPositions ==
    ASSUME NEW s \in Seq(EventType), NEW x \in EventType
    PROVE  /\ Len(s) \in Nat /\ Len(Append(s, x)) = Len(s) + 1
           /\ Append(s, x)[Len(s) + 1] = x
           /\ \A i \in 1..Len(s) : i \in 1..(Len(s) + 1) /\ Append(s, x)[i] = s[i]
           /\ \A i \in 1..(Len(s) + 1) : i \in 1..Len(s) \/ i = Len(s) + 1
  OBVIOUS

\* The verdicts stay final when nothing is written ...
LEMMA FinalSame ==
    ASSUME VerdictIsFinal, trace' = trace
    PROVE  VerdictIsFinal'
  BY DEF VerdictIsFinal, VerdictsOf, At, Branches, Verdict

\* ... and when what is written is news about its branch.
LEMMA FinalAppend ==
    ASSUME trace \in Seq(EventType), NEW x \in EventType, trace' = Append(trace, x),
           VerdictIsFinal,
           \A i \in At : trace[i].kind \in Verdict /\ x.kind \in Verdict =>
                            trace[i].about # x.about,
           \A i \in At : trace[i].kind \in Verdict \cup {"ParallelCompleted"} =>
                            ~(x.by \in Branches /\ x.by = trace[i].about),
           \A i \in At : trace[i].kind = "ParallelCompleted" => x.by \in Workers
    PROVE  VerdictIsFinal'
  <1> DEFINE n == Len(trace)
  <1>1. /\ n \in Nat /\ Len(trace') = n + 1 /\ trace'[n + 1] = x
        /\ \A i \in 1..n : i \in 1..(n + 1) /\ trace'[i] = trace[i]
        /\ \A i \in 1..(n + 1) : i \in 1..n \/ i = n + 1
    BY AppendPositions
  <1>2. At = 1..n /\ At' = 1..(n + 1)
    BY <1>1 DEF At
  <1> HIDE DEF n
  <1>3. ASSUME NEW b \in Branches, NEW i \in 1..(n + 1), NEW j \in 1..(n + 1),
               trace'[i].kind \in Verdict, trace'[i].about = b,
               trace'[j].kind \in Verdict, trace'[j].about = b
        PROVE  i = j
    <2>1. CASE i \in 1..n /\ j \in 1..n
      <3>1. i \in VerdictsOf(b) /\ j \in VerdictsOf(b)
        BY <1>1, <1>2, <1>3, <2>1 DEF VerdictsOf
      <3> QED
        BY <3>1 DEF VerdictIsFinal
    <2>2. CASE i \in 1..n /\ j = n + 1
      BY <1>1, <1>2, <1>3, <2>2
    <2>3. CASE j \in 1..n /\ i = n + 1
      BY <1>1, <1>2, <1>3, <2>3
    <2>4. CASE i = n + 1 /\ j = n + 1
      BY <2>4
    <2> QED
      BY <1>1, <2>1, <2>2, <2>3, <2>4, Zenon
  <1>4. ASSUME NEW i \in 1..(n + 1), NEW j \in 1..(n + 1), i < j
        PROVE  /\ i \in 1..n /\ trace'[i] = trace[i]
               /\ \/ j \in 1..n /\ trace'[j] = trace[j]
                  \/ trace'[j] = x
    BY <1>1, <1>4
  <1>5. ASSUME NEW i \in 1..(n + 1), NEW j \in 1..(n + 1), i < j,
               trace'[i].kind \in Verdict \cup {"ParallelCompleted"}
        PROVE  ~(trace'[j].by \in Branches /\ trace'[j].by = trace'[i].about)
    <2>0. i \in 1..n /\ trace'[i] = trace[i] /\ trace[i].kind \in Verdict \cup {"ParallelCompleted"}
      BY <1>4, <1>5
    <2>1. CASE j \in 1..n /\ trace'[j] = trace[j]
      BY <1>1, <1>2, <1>5, <2>0, <2>1, SMTT(30) DEF VerdictIsFinal
    <2>2. CASE trace'[j] = x
      BY <1>2, <1>4, <1>5, <2>2
    <2> QED
      BY <1>4, <1>5, <2>1, <2>2
  <1>6. ASSUME NEW i \in 1..(n + 1), NEW j \in 1..(n + 1), i < j,
               trace'[i].kind = "ParallelCompleted"
        PROVE  trace'[j].by \in Workers
    <2>1. CASE j \in 1..n /\ trace'[j] = trace[j]
      BY <1>2, <1>4, <1>6, <2>1 DEF VerdictIsFinal
    <2>2. CASE trace'[j] = x
      BY <1>2, <1>4, <1>6, <2>2
    <2> QED
      BY <1>4, <1>6, <2>1, <2>2
  <1>7. Branches' = Branches /\ Verdict' = Verdict
    BY DEF Branches, Verdict
  <1>8. (\A b \in Branches : \A i, j \in VerdictsOf(b) : i = j)'
    <2>1. ASSUME NEW b
          PROVE  VerdictsOf(b)' =
                   {i \in 1..(n + 1) : trace'[i].kind \in Verdict /\ trace'[i].about = b}
      BY <1>2, <1>7 DEF VerdictsOf
    <2>2. ASSUME NEW b \in Branches, NEW i \in VerdictsOf(b)', NEW j \in VerdictsOf(b)'
          PROVE  i = j
      BY <1>3, <2>1, <2>2, Zenon
    <2> QED
      BY <1>7, <2>2, Zenon
  <1>9. (\A i, j \in At :
            i < j /\ trace[i].kind \in Verdict \cup {"ParallelCompleted"} =>
                ~(trace[j].by \in Branches /\ trace[j].by = trace[i].about))'
    BY <1>2, <1>5, <1>7
  <1>10. (\A i, j \in At : i < j /\ trace[i].kind = "ParallelCompleted" =>
            trace[j].by \in Workers)'
    BY <1>2, <1>6
  <1> QED
    BY <1>8, <1>9, <1>10 DEF VerdictIsFinal

\* What the trace tells stays true when each event's tasks stay as it says.
LEMMA ToldSame ==
    ASSUME trace \in Seq(EventType), AllTold, trace' = trace,
           \A e \in EventType : Told(e) => Told(e)'
    PROVE  AllTold'
  <1>1. \A i \in At : trace[i] \in EventType /\ Told(trace[i])
    BY DEF AllTold, At
  <1>2. At' = At
    BY DEF At
  <1> QED
    BY <1>1, <1>2 DEF AllTold, Told

LEMMA ToldAppend ==
    ASSUME trace \in Seq(EventType), AllTold, NEW x \in EventType, trace' = Append(trace, x),
           \A e \in EventType : Told(e) => Told(e)', Told(x)'
    PROVE  AllTold'
  <1> DEFINE n == Len(trace)
  <1>1. /\ n \in Nat /\ Len(trace') = n + 1 /\ trace'[n + 1] = x
        /\ \A i \in 1..n : i \in 1..(n + 1) /\ trace'[i] = trace[i]
        /\ \A i \in 1..(n + 1) : i \in 1..n \/ i = n + 1
    BY AppendPositions
  <1>2. At = 1..n /\ At' = 1..(n + 1)
    BY <1>1 DEF At
  <1>3. \A i \in 1..n : trace[i] \in EventType /\ Told(trace[i])
    BY DEF AllTold, At
  <1> HIDE DEF n
  <1>4. ASSUME NEW e, e = x
        PROVE  Told(e)'
    BY <1>4
  <1> QED
    BY <1>1, <1>2, <1>3, <1>4 DEF AllTold, Told

\* While the parent waits, the trace holds no verdict but those of branches
\* that have returned Ok.
LEMMA ToldWhileJoined ==
    ASSUME ParallelTypes, Roles, AllTold, pc[Parent] = "join", NEW i \in At,
           trace[i].kind \in Verdict \cup {"ParallelCompleted"}
    PROVE  /\ trace[i].kind = "ParallelBranchCompleted" /\ trace[i].by \in Branches
           /\ trace[i].about = trace[i].by /\ pc[trace[i].by] = "ok"
  <1>1. Told(trace[i])
    BY DEF AllTold
  <1>2. trace[i].kind # "ParallelBranchFailed"
    BY <1>1 DEF Told, Roles, Running, Emits
  <1>3. trace[i].kind \notin {"ParallelBranchAborted", "ParallelCompleted"}
    BY <1>1 DEF Told
  <1> QED
    BY <1>1, <1>2, <1>3 DEF Told, Verdict

\* A branch that goes on keeps the invariant: what it writes is the first that
\* is said of how it ends.
LEMMA MoveOwnEvents ==
    ASSUME ParallelTypes, Roles, OwnEvents, NEW b \in Branches, BranchMove(b)
    PROVE  OwnEvents'
  <1>1. PICK p \in Running \cup {"ok"} :
          /\ pc[b] \in Running \ {"branchFailed"}
          /\ pc' = [pc EXCEPT ![b] = p]
          /\ p = "ok" <=> pc[b] = "branchCompleted"
          /\ \A t \in Tasks \ {b} : evt'[t] = evt[t]
          /\ p \in Emits => NextEvent(b, p)
          /\ FlagsKept(b, p)
    BY DEF BranchMove
  <1>2. pc[Parent] = "join" /\ b \in Tasks
    BY <1>1, RunningIsJoined, TaskKinds
  <1>3. pc'[b] = p /\ \A u \in Tasks \ {b} : pc'[u] = pc[u]
    BY <1>1, <1>2, MovedPc
  <1>4. pc'[Parent] = "join"
    BY <1>2, <1>3, TaskKinds
  <1>5. ASSUME NEW w \in Workers, pc'[w] = "event"
        PROVE  evt'[w] = Event("WireEvent", w, evt'[w].slot)
    BY <1>1, <1>3, <1>5, TaskKinds DEF OwnEvents
  <1>6. ASSUME NEW c \in Branches, pc'[c] \in Emits
        PROVE  /\ evt'[c] = Event(evt'[c].kind, c, evt'[c].slot)
               /\ evt'[c].kind \notin {"ParallelBranchAborted", "ParallelCompleted"}
               /\ evt'[c].kind = "ParallelBranchCompleted" <=> pc'[c] = "branchCompleted"
               /\ evt'[c].kind = "ParallelBranchFailed" <=> pc'[c] = "branchFailed"
    <2>1. CASE c = b
      BY <1>1, <1>3, <1>6, <2>1 DEF NextEvent, Event, EventAbout
    <2>2. CASE c # b
      <3>1. evt'[c] = evt[c] /\ pc'[c] = pc[c]
        BY <1>1, <1>3, <2>2, TaskKinds
      <3> QED
        BY <1>6, <3>1 DEF OwnEvents
    <2> QED
      BY <2>1, <2>2
  <1>7. ASSUME NEW c \in Branches
        PROVE  /\ pc'[c] \in {"branchCompleted", "ok"} => completed'[c]
               /\ pc'[c] = "branchFailed" => failed'[c]
    <2>1. CASE c = b
      BY <1>1, <1>3, <2>1 DEF FlagsKept, OwnEvents
    <2>2. CASE c # b
      <3>1. pc'[c] = pc[c] /\ completed'[c] = completed[c] /\ failed'[c] = failed[c]
        BY <1>1, <1>3, <2>2, TaskKinds DEF FlagsKept
      <3> QED
        BY <3>1 DEF OwnEvents
    <2> QED
      BY <2>1, <2>2
  <1>8. Branches' = Branches /\ Emits' = Emits /\ Parent' = Parent
    BY DEF Branches, Emits, Parent
  <1> QED
    BY <1>4, <1>5, <1>6, <1>7, <1>8 DEF OwnEvents, Event, EventAbout

\* Nothing that the trace tells is about a branch that is under way.
LEMMA RunningIsNews ==
    ASSUME ParallelTypes, Roles, OwnEvents, AllTold, NEW b \in Branches, pc[b] \in Emits
    PROVE  /\ evt[b] \in EventType /\ evt[b].by = b /\ evt[b].about = b
           /\ \A i \in At : trace[i].kind \in Verdict => trace[i].about # b
           /\ \A i \in At : trace[i].kind # "ParallelCompleted"
  <1>1. pc[Parent] = "join" /\ b \in Tasks
    BY RunningIsJoined, TaskKinds DEF Running
  <1>2. evt[b] \in EventType /\ evt[b].by = b /\ evt[b].about = b
    <2>1. evt[b] \in EventType
      BY <1>1 DEF ParallelTypes
    <2>2. PICK k, s : evt[b] = Event(k, b, s)
      BY DEF OwnEvents
    <2>3. Event(k, b, s).by = b /\ Event(k, b, s).about = b
      BY DEF Event, EventAbout
    <2> QED
      BY <2>1, <2>2, <2>3
  <1>3. pc[b] # "ok"
    BY DEF Emits
  <1>4. ASSUME NEW i \in At, trace[i].kind \in Verdict \cup {"ParallelCompleted"}
        PROVE  trace[i].kind # "ParallelCompleted" /\ trace[i].about # b
    <2>1. /\ trace[i].kind = "ParallelBranchCompleted"
          /\ trace[i].about = trace[i].by /\ pc[trace[i].by] = "ok"
      BY <1>1, <1>4, ToldWhileJoined
    <2> QED
      BY <1>3, <2>1
  <1> QED
    BY <1>2, <1>4

LEMMA MoveTrace ==
    ASSUME VerdictInv, NEW b \in Branches, BranchMove(b)
    PROVE  AllTold' /\ OkIsTold' /\ VerdictIsFinal'
  <1>1. PICK p \in Running \cup {"ok"} :
          /\ pc[b] \in Running \ {"branchFailed"}
          /\ pc' = [pc EXCEPT ![b] = p]
          /\ p = "ok" <=> pc[b] = "branchCompleted"
          /\ \A t \in Tasks \ {b} : evt'[t] = evt[t]
          /\ FlagsKept(b, p)
          /\ \/ trace' = trace
             \/ pc[b] \in Emits /\ trace' = Append(trace, evt[b])
          /\ pc[b] \in Emits /\ pc[b] = "branchCompleted" => trace' = Append(trace, evt[b])
    BY DEF BranchMove
  <1>2. /\ ParallelTypes /\ Roles /\ OwnEvents /\ AllTold /\ OkIsTold /\ VerdictIsFinal
        /\ trace \in Seq(EventType)
    BY DEF VerdictInv, ParallelTypes
  <1>3. pc[Parent] = "join" /\ b \in Tasks /\ pc[b] \notin {"ok", "err"}
    BY <1>1, <1>2, RunningIsJoined, TaskKinds DEF Running, Emits
  <1>4. pc'[b] = p /\ \A u \in Tasks \ {b} : pc'[u] = pc[u]
    BY <1>1, <1>2, <1>3, MovedPc
  <1>5. ASSUME NEW e \in EventType, Told(e)
        PROVE  Told(e)'
    <2>1. e.kind \notin {"ParallelBranchAborted", "ParallelCompleted", "ParallelBranchFailed"}
      BY <1>2, <1>3, <1>5 DEF Told, Roles, Running, Emits
    <2>2. e.kind = "ParallelBranchCompleted" => e.by \in Branches /\ pc'[e.by] = "ok"
      BY <1>3, <1>4, <1>5, TaskKinds DEF Told
    <2> QED
      BY <1>5, <2>1, <2>2 DEF Told, Branches
  <1>6. CASE trace' = trace
    <2>1. AllTold' /\ VerdictIsFinal'
      BY <1>2, <1>5, <1>6, ToldSame, FinalSame
    <2>2. pc[b] # "branchCompleted"
      <3>1. ASSUME pc[b] = "branchCompleted"
            PROVE  FALSE
        <4>1. Append(trace, evt[b]) = trace
          BY <1>1, <1>6, <3>1 DEF Emits
        <4>2. evt[b] \in EventType
          BY <1>2, <1>3 DEF ParallelTypes
        <4>3. Len(Append(trace, evt[b])) = Len(trace) + 1 /\ Len(trace) \in Nat
          BY <1>2, <4>2
        <4> QED
          BY <4>1, <4>3
      <3> QED
        BY <3>1
    <2>3. OkIsTold'
      <3>1. \A c \in Branches : pc'[c] = "ok" => pc[c] = "ok"
        BY <1>1, <1>4, <2>2, TaskKinds
      <3> QED
        BY <1>2, <1>6, <3>1 DEF OkIsTold, At, Branches
    <2> QED
      BY <2>1, <2>3
  <1>7. CASE pc[b] \in Emits /\ trace' = Append(trace, evt[b])
    <2>1. /\ evt[b] \in EventType /\ evt[b].by = b /\ evt[b].about = b
          /\ \A i \in At : trace[i].kind \in Verdict => trace[i].about # b
          /\ \A i \in At : trace[i].kind # "ParallelCompleted"
      BY <1>2, <1>7, RunningIsNews
    <2>2. VerdictIsFinal'
      <3> DEFINE x == evt[b]
      <3>1. x \in EventType /\ trace' = Append(trace, x) /\ x.by = b /\ x.about = b
        BY <1>7, <2>1
      <3> HIDE DEF x
      <3>2. \A i \in At : trace[i].kind \in Verdict /\ x.kind \in Verdict =>
                            trace[i].about # x.about
        BY <2>1, <3>1
      <3>3. \A i \in At : trace[i].kind \in Verdict \cup {"ParallelCompleted"} =>
                            ~(x.by \in Branches /\ x.by = trace[i].about)
        BY <2>1, <3>1
      <3>4. \A i \in At : trace[i].kind = "ParallelCompleted" => x.by \in Workers
        BY <2>1
      <3> QED
        BY <1>2, <3>1, <3>2, <3>3, <3>4, FinalAppend
    <2>3. /\ evt[b].kind \notin {"ParallelBranchAborted", "ParallelCompleted"}
          /\ evt[b].kind = "ParallelBranchCompleted" <=> pc[b] = "branchCompleted"
          /\ evt[b].kind # "ParallelBranchFailed"
      BY <1>1, <1>2, <1>7 DEF OwnEvents
    <2>4. PICK x : x = evt[b]
      OBVIOUS
    <2>5. Told(x)'
      BY <1>1, <1>4, <2>1, <2>3, <2>4 DEF Told, Branches
    <2>6. AllTold'
      BY <1>2, <1>5, <1>7, <2>1, <2>4, <2>5, ToldAppend
    <2>7. OkIsTold'
      <3> DEFINE n == Len(trace)
      <3>1. /\ n \in Nat /\ Len(trace') = n + 1 /\ trace'[n + 1] = evt[b]
            /\ \A i \in 1..n : i \in 1..(n + 1) /\ trace'[i] = trace[i]
        BY <1>2, <1>7, <2>1, AppendPositions
      <3>2. At = 1..n /\ At' = 1..(n + 1) /\ Branches' = Branches
        BY <3>1 DEF At, Branches
      <3> HIDE DEF n
      <3>3. ASSUME NEW c \in Branches, pc'[c] = "ok"
            PROVE  \E i \in 1..(n + 1) :
                     trace'[i].kind = "ParallelBranchCompleted" /\ trace'[i].by = c
        <4>1. CASE c = b
          <5>1. n + 1 \in 1..(n + 1)
            BY <3>1
          <5> QED
            BY <1>1, <1>4, <2>1, <2>3, <3>1, <3>3, <4>1, <5>1
        <4>2. CASE c # b
          <5>1. pc[c] = "ok"
            BY <1>4, <3>3, <4>2, TaskKinds
          <5>2. PICK i \in At : trace[i].kind = "ParallelBranchCompleted" /\ trace[i].by = c
            BY <1>2, <5>1 DEF OkIsTold
          <5> QED
            BY <3>1, <3>2, <5>2
        <4> QED
          BY <4>1, <4>2
      <3> QED
        BY <3>2, <3>3 DEF OkIsTold
    <2> QED
      BY <2>2, <2>6, <2>7
  <1> QED
    BY <1>1, <1>6, <1>7

\* A step in which no branch returns Ok, and the event it may write.
LEMMA WriteKeeps ==
    ASSUME VerdictInv, NEW x \in EventType, trace' = trace \/ trace' = Append(trace, x),
           \A e \in EventType : Told(e) => Told(e)', Told(x)',
           \A i \in At : trace[i].kind \in Verdict /\ x.kind \in Verdict =>
                            trace[i].about # x.about,
           \A i \in At : trace[i].kind \in Verdict \cup {"ParallelCompleted"} =>
                            ~(x.by \in Branches /\ x.by = trace[i].about),
           \A i \in At : trace[i].kind = "ParallelCompleted" => x.by \in Workers,
           \A c \in Branches : pc'[c] = "ok" => pc[c] = "ok"
    PROVE  AllTold' /\ OkIsTold' /\ VerdictIsFinal'
  <1>1. trace \in Seq(EventType) /\ AllTold /\ OkIsTold /\ VerdictIsFinal
    BY DEF VerdictInv, ParallelTypes
  <1>2. AllTold'
    BY <1>1, ToldSame, ToldAppend
  <1>3. VerdictIsFinal'
    BY <1>1, FinalSame, FinalAppend
  <1>4. \A i \in At : i \in At' /\ trace'[i] = trace[i]
    <2>1. CASE trace' = trace
      BY <2>1 DEF At
    <2>2. CASE trace' = Append(trace, x)
      <3>1. /\ Len(trace') = Len(trace) + 1
            /\ \A i \in 1..Len(trace) : i \in 1..(Len(trace) + 1) /\ trace'[i] = trace[i]
        BY <1>1, <2>2, AppendPositions
      <3> QED
        BY <3>1 DEF At
    <2> QED
      BY <2>1, <2>2
  <1>5. OkIsTold'
    <2>1. ASSUME NEW c \in Branches, pc'[c] = "ok"
          PROVE  \E i \in At' : trace'[i].kind = "ParallelBranchCompleted" /\ trace'[i].by = c
      <3>1. PICK i \in At : trace[i].kind = "ParallelBranchCompleted" /\ trace[i].by = c
        BY <1>1, <2>1 DEF OkIsTold
      <3> QED
        BY <1>4, <3>1
    <2>2. Branches' = Branches
      BY DEF Branches
    <2> QED
      BY <2>1, <2>2 DEF OkIsTold
  <1> QED
    BY <1>2, <1>3, <1>5

\* A branch that fails: its verdict is the first on it, and the parent goes on
\* to the branches without a flag.
LEMMA ErrVerdicts ==
    ASSUME VerdictInv, NEW b \in Branches, BranchErr(b)
    PROVE  OwnEvents' /\ AllTold' /\ OkIsTold' /\ VerdictIsFinal'
  <1>1. /\ ParallelTypes /\ Roles /\ OwnEvents /\ AllTold /\ OkIsTold /\ VerdictIsFinal
    BY DEF VerdictInv
  <1>2. /\ pc[b] \in {"branchStarted", "branchFailed", "branchCompleted"} /\ JoinErr(b)
        /\ completed' = completed /\ failed' = failed
        /\ \/ trace' = trace
           \/ pc[b] = "branchFailed" /\ trace' = Append(trace, evt[b])
    BY DEF BranchErr
  <1>3. pc[b] \in Running /\ pc[b] \in Emits
    BY <1>2 DEF Running, Emits
  <1>4. /\ pc[Parent] = "join" /\ pc'[Parent] = "verdicts" /\ pc'[b] = "err"
        /\ \A c \in Branches \ {b} : pc'[c] = IF pc[c] = "ok" THEN "ok" ELSE "dropped"
        /\ \A w \in Workers : pc'[w] = pc[w]
    BY <1>1, <1>2, <1>3, ErrPlaces
  <1>5. /\ \A u \in Tasks \ {Parent} : evt'[u] = evt[u]
        /\ \/ evt'[Parent] = Event("ParallelCompleted", Parent, slot)
           \/ \E c \in Branches :
                /\ evt'[Parent] = EventAbout("ParallelBranchAborted", Parent, slot, c)
                /\ c > 0 /\ ~completed[c] /\ ~failed[c]
    <2>1. AfterJoin(0, Without(Tail(lock), Branches))
      BY <1>2 DEF JoinErr
    <2> QED
      BY <1>1, <2>1, AfterJoinTypes
  <1>6. /\ evt[b] \in EventType /\ evt[b].by = b /\ evt[b].about = b
        /\ \A i \in At : trace[i].kind \in Verdict => trace[i].about # b
        /\ \A i \in At : trace[i].kind # "ParallelCompleted"
    BY <1>1, <1>3, RunningIsNews
  <1>7. OwnEvents'
    <2>1. ASSUME NEW w \in Workers, pc'[w] = "event"
          PROVE  evt'[w] = Event("WireEvent", w, evt'[w].slot)
      BY <1>1, <1>4, <1>5, <2>1, TaskKinds DEF OwnEvents
    <2>2. ASSUME NEW c \in Branches
          PROVE  pc'[c] \in {"ok", "err", "dropped"} /\ (pc'[c] = "ok" => completed'[c])
      BY <1>1, <1>2, <1>4 DEF OwnEvents
    <2>3. \/ evt'[Parent] = Event("ParallelCompleted", Parent, evt'[Parent].slot)
          \/ /\ evt'[Parent].kind = "ParallelBranchAborted" /\ evt'[Parent].by = Parent
             /\ evt'[Parent].about \in Branches
             /\ ~completed'[evt'[Parent].about] /\ ~failed'[evt'[Parent].about]
      <3>1. CASE evt'[Parent] = Event("ParallelCompleted", Parent, slot)
        BY <3>1 DEF Event, EventAbout
      <3>2. CASE \E c \in Branches :
                /\ evt'[Parent] = EventAbout("ParallelBranchAborted", Parent, slot, c)
                /\ c > 0 /\ ~completed[c] /\ ~failed[c]
        <4>1. PICK c \in Branches :
                /\ evt'[Parent] = EventAbout("ParallelBranchAborted", Parent, slot, c)
                /\ ~completed[c] /\ ~failed[c]
          BY <3>2
        <4>2. /\ evt'[Parent].kind = "ParallelBranchAborted" /\ evt'[Parent].by = Parent
              /\ evt'[Parent].about = c
          BY <4>1 DEF EventAbout
        <4> QED
          BY <1>2, <4>1, <4>2
      <3> QED
        BY <1>5, <3>1, <3>2
    <2>4. Branches' = Branches /\ Emits' = Emits /\ Parent' = Parent
      BY DEF Branches, Emits, Parent
    <2> QED
      BY <1>4, <2>1, <2>2, <2>3, <2>4 DEF OwnEvents, Event, EventAbout, Emits
  <1>8. ASSUME NEW e \in EventType, Told(e)
        PROVE  Told(e)'
    <2>1. e.kind \notin {"ParallelBranchAborted", "ParallelCompleted", "ParallelBranchFailed"}
      BY <1>1, <1>4, <1>8 DEF Told, Roles, Running, Emits
    <2>2. e.kind = "ParallelBranchCompleted" => e.by \in Branches /\ pc'[e.by] = "ok"
      BY <1>3, <1>4, <1>8 DEF Told, Running, Emits
    <2> QED
      BY <1>8, <2>1, <2>2 DEF Told, Branches
  <1>9. \A c \in Branches : pc'[c] = "ok" => pc[c] = "ok"
    BY <1>4
  <1>10. CASE trace' = trace
    <2>1. AllTold' /\ VerdictIsFinal'
      BY <1>1, <1>8, <1>10, ToldSame, FinalSame DEF ParallelTypes
    <2>2. OkIsTold'
      BY <1>1, <1>9, <1>10 DEF OkIsTold, At, Branches
    <2> QED
      BY <1>7, <2>1, <2>2
  <1>11. CASE pc[b] = "branchFailed" /\ trace' = Append(trace, evt[b])
    <2>1. PICK x : x = evt[b]
      OBVIOUS
    <2>2. /\ x \in EventType /\ x.by = b /\ x.about = b /\ x.kind = "ParallelBranchFailed"
          /\ failed'[b] /\ trace' = Append(trace, x)
      BY <1>1, <1>2, <1>3, <1>6, <1>11, <2>1 DEF OwnEvents
    <2>3. Told(x)'
      BY <1>4, <2>2 DEF Told, Branches
    <2>4. \A i \in At : trace[i].kind \in Verdict /\ x.kind \in Verdict =>
                            trace[i].about # x.about
      BY <1>6, <2>2
    <2>5. \A i \in At : trace[i].kind \in Verdict \cup {"ParallelCompleted"} =>
                            ~(x.by \in Branches /\ x.by = trace[i].about)
      BY <1>6, <2>2
    <2>6. AllTold' /\ OkIsTold' /\ VerdictIsFinal'
      BY <1>6, <1>8, <1>9, <2>2, <2>3, <2>4, <2>5, WriteKeeps
    <2> QED
      BY <1>7, <2>6
  <1> QED
    BY <1>2, <1>10, <1>11

\* The steps of the workers.
LEMMA WorkerVerdicts ==
    ASSUME VerdictInv, NEW w \in Workers, WorkerNext(w)
    PROVE  OwnEvents' /\ AllTold' /\ OkIsTold' /\ VerdictIsFinal'
  <1>1. /\ ParallelTypes /\ Roles /\ OwnEvents /\ AllTold /\ OkIsTold /\ VerdictIsFinal
    BY DEF VerdictInv
  <1>2. w \in Tasks /\ completed' = completed /\ failed' = failed
    BY TaskKinds DEF WorkerNext, WorkerEmits, WorkerWritten, branchVars
  <1>3. PICK p \in {"idle", "event"} :
          /\ pc' = [pc EXCEPT ![w] = p]
          /\ \/ p = "event" /\ trace' = trace
                /\ evt' = [evt EXCEPT ![w] = Event("WireEvent", w, slot)]
             \/ p = "idle" /\ evt' = evt
                /\ (trace' = trace \/ (pc[w] = "event" /\ trace' = Append(trace, evt[w])))
    <2>1. CASE WorkerEmits(w)
      BY <2>1 DEF WorkerEmits
    <2>2. CASE WorkerWritten(w)
      <3>1. pc[w] = "event" /\ pc' = [pc EXCEPT ![w] = "idle"] /\ evt' = evt
        BY <2>2 DEF WorkerWritten, Leave
      <3>2. trace' = trace \/ trace' = Append(trace, evt[w])
        BY <2>2 DEF WorkerWritten, Write
      <3>3. "idle" \in {"idle", "event"}
        OBVIOUS
      <3> QED
        BY <3>1, <3>2, <3>3, Zenon
    <2> QED
      BY <2>1, <2>2 DEF WorkerNext
  <1>4. pc'[w] = p /\ \A u \in Tasks \ {w} : pc'[u] = pc[u]
    BY <1>1, <1>2, <1>3, MovedPc
  <1>5. /\ \A u \in Tasks \ {w} : evt'[u] = evt[u]
        /\ p = "event" => evt'[w] = Event("WireEvent", w, slot)
    BY <1>1, <1>2, <1>3 DEF ParallelTypes
  <1>6. pc'[Parent] = pc[Parent] /\ evt'[Parent] = evt[Parent]
        /\ \A c \in Branches : pc'[c] = pc[c] /\ evt'[c] = evt[c]
    BY <1>4, <1>5, TaskKinds
  <1>7. OwnEvents'
    <2>1. ASSUME NEW v \in Workers, pc'[v] = "event"
          PROVE  evt'[v] = Event("WireEvent", v, evt'[v].slot)
      <3>1. CASE v = w
        BY <1>4, <1>5, <2>1, <3>1 DEF Event, EventAbout
      <3>2. CASE v # w
        BY <1>1, <1>4, <1>5, <2>1, <3>2, TaskKinds DEF OwnEvents
      <3> QED
        BY <3>1, <3>2
    <2>2. Branches' = Branches /\ Emits' = Emits /\ Parent' = Parent
      BY DEF Branches, Emits, Parent
    <2> QED
      BY <1>1, <1>2, <1>6, <2>1, <2>2 DEF OwnEvents, Event, EventAbout
  <1>8. ASSUME NEW e \in EventType, Told(e)
        PROVE  Told(e)'
    BY <1>2, <1>6, <1>8 DEF Told, Branches, Parent
  <1>9. CASE trace' = trace
    <2>1. AllTold' /\ VerdictIsFinal'
      BY <1>1, <1>8, <1>9, ToldSame, FinalSame DEF ParallelTypes
    <2>2. OkIsTold'
      BY <1>1, <1>6, <1>9 DEF OkIsTold, At, Branches
    <2> QED
      BY <1>7, <2>1, <2>2
  <1>10. CASE pc[w] = "event" /\ trace' = Append(trace, evt[w])
    <2>1. PICK x : x = evt[w]
      OBVIOUS
    <2>2. x \in EventType /\ trace' = Append(trace, x)
      BY <1>1, <1>2, <1>10, <2>1 DEF ParallelTypes
    <2>3. x.kind = "WireEvent" /\ x.by = w /\ x.by \notin Branches
      <3>1. evt[w] = Event("WireEvent", w, evt[w].slot)
        BY <1>1, <1>10 DEF OwnEvents
      <3>2. PICK s : x = Event("WireEvent", w, s)
        BY <2>1, <3>1
      <3>3. x.kind = "WireEvent" /\ x.by = w
        BY <3>2 DEF Event, EventAbout
      <3> QED
        BY <3>3, TaskKinds
    <2>4. Told(x)'
      BY <2>3 DEF Told, Branches
    <2>5. x.kind \notin Verdict
      BY <2>3 DEF Verdict
    <2>6. AllTold' /\ OkIsTold' /\ VerdictIsFinal'
      BY <1>6, <1>8, <2>2, <2>3, <2>4, <2>5, WriteKeeps
    <2> QED
      BY <1>7, <2>6
  <1> QED
    BY <1>3, <1>9, <1>10

\* The parent starts the branches, with no verdict written yet.
LEMMA StartVerdicts ==
    ASSUME VerdictInv, ParallelStarted
    PROVE  OwnEvents' /\ AllTold' /\ OkIsTold' /\ VerdictIsFinal'
  <1>1. /\ ParallelTypes /\ Roles /\ OwnEvents /\ AllTold /\ OkIsTold /\ VerdictIsFinal
    BY DEF VerdictInv
  <1>2. /\ Parent \in Tasks /\ pc[Parent] = "parallelStarted"
        /\ completed' = completed /\ failed' = failed
        /\ \A c \in Branches : pc[c] = "idle"
    BY <1>1, TaskKinds DEF ParallelStarted, branchVars, Roles
  <1>3. PICK x : x = evt[Parent]
    OBVIOUS
  <1>4. x \in EventType /\ x.kind = "ParallelStarted" /\ x.by = Parent /\ x.by \notin Branches
    <2>1. x \in EventType /\ x = Event("ParallelStarted", Parent, 0)
      BY <1>1, <1>2, <1>3 DEF ParallelTypes, OwnEvents
    <2>2. x.kind = "ParallelStarted" /\ x.by = Parent
      BY <2>1 DEF Event, EventAbout
    <2> QED
      BY <2>1, <2>2, TaskKinds
  <1>5. /\ trace' = trace \/ trace' = Append(trace, x)
        /\ \/ /\ pc' = [t \in Tasks |-> IF t = Parent THEN "join"
                                        ELSE IF t \in Branches THEN "branchStarted"
                                        ELSE pc[t]]
              /\ evt' = [t \in Tasks |-> IF t \in Branches
                             THEN Event("ParallelBranchStarted", t, slot) ELSE evt[t]]
           \/ pc' = [pc EXCEPT ![Parent] = "error"] /\ evt' = evt
    BY <1>3 DEF ParallelStarted, Write, Leave
  <1>6. /\ pc'[Parent] \in {"join", "error"}
        /\ \A w \in Workers : pc'[w] = pc[w] /\ evt'[w] = evt[w]
        /\ \A c \in Branches :
             \/ pc'[c] = "branchStarted" /\ evt'[c] = Event("ParallelBranchStarted", c, slot)
             \/ pc'[c] = "idle"
    <2>1. CASE /\ pc' = [t \in Tasks |-> IF t = Parent THEN "join"
                                         ELSE IF t \in Branches THEN "branchStarted"
                                         ELSE pc[t]]
               /\ evt' = [t \in Tasks |-> IF t \in Branches
                              THEN Event("ParallelBranchStarted", t, slot) ELSE evt[t]]
      BY <2>1, TaskKinds
    <2>2. CASE pc' = [pc EXCEPT ![Parent] = "error"] /\ evt' = evt
      <3>1. pc'[Parent] = "error" /\ \A u \in Tasks \ {Parent} : pc'[u] = pc[u]
        BY <1>1, <1>2, <2>2, MovedPc
      <3> QED
        BY <1>2, <2>2, <3>1, TaskKinds
    <2> QED
      BY <1>5, <2>1, <2>2
  <1>7. OwnEvents'
    <2>1. ASSUME NEW w \in Workers, pc'[w] = "event"
          PROVE  evt'[w] = Event("WireEvent", w, evt'[w].slot)
      BY <1>1, <1>6, <2>1 DEF OwnEvents
    <2>2. ASSUME NEW c \in Branches
          PROVE  /\ pc'[c] \in {"branchStarted", "idle"}
                 /\ pc'[c] = "branchStarted" =>
                      /\ evt'[c] = Event(evt'[c].kind, c, evt'[c].slot)
                      /\ evt'[c].kind = "ParallelBranchStarted"
      <3>1. CASE pc'[c] = "branchStarted"
                 /\ evt'[c] = Event("ParallelBranchStarted", c, slot)
        BY <3>1 DEF Event, EventAbout
      <3>2. CASE pc'[c] = "idle"
        BY <3>2
      <3> QED
        BY <1>6, <3>1, <3>2
    <2>3. Branches' = Branches /\ Emits' = Emits /\ Parent' = Parent
      BY DEF Branches, Emits, Parent
    <2> QED
      BY <1>6, <2>1, <2>2, <2>3 DEF OwnEvents, Event, EventAbout, Emits
  <1>8. ASSUME NEW e \in EventType, Told(e)
        PROVE  Told(e)'
    <2>1. e.kind \notin Verdict \cup {"ParallelCompleted"}
      BY <1>2, <1>8 DEF Told, Verdict
    <2> QED
      BY <1>8, <2>1 DEF Told, Branches, Verdict
  <1>9. Told(x)'
    BY <1>4 DEF Told, Branches
  <1>10. x.kind \notin Verdict
    BY <1>4 DEF Verdict
  <1>11. \A i \in At : trace[i].kind # "ParallelCompleted"
    BY <1>1, <1>2 DEF AllTold, Told
  <1>12. \A c \in Branches : pc'[c] # "ok"
    BY <1>6
  <1>13. AllTold' /\ OkIsTold' /\ VerdictIsFinal'
    BY <1>4, <1>5, <1>8, <1>9, <1>10, <1>11, <1>12, WriteKeeps
  <1> QED
    BY <1>7, <1>13

\* All branches have returned Ok.
LEMMA JoinedVerdicts ==
    ASSUME VerdictInv, AllJoined
    PROVE  OwnEvents' /\ AllTold' /\ OkIsTold' /\ VerdictIsFinal'
  <1>1. /\ ParallelTypes /\ Roles /\ OwnEvents /\ AllTold /\ OkIsTold /\ VerdictIsFinal
    BY DEF VerdictInv
  <1>2. /\ Parent \in Tasks /\ pc[Parent] = "join" /\ trace' = trace
        /\ completed' = completed /\ failed' = failed
        /\ pc' = [pc EXCEPT ![Parent] = "parallelCompleted"]
        /\ evt' = [evt EXCEPT ![Parent] = Event("ParallelCompleted", Parent, slot)]
        /\ \A c \in Branches : pc[c] = "ok"
    BY TaskKinds DEF AllJoined, branchVars
  <1>3. /\ pc'[Parent] = "parallelCompleted" /\ \A u \in Tasks \ {Parent} : pc'[u] = pc[u]
        /\ evt'[Parent] = Event("ParallelCompleted", Parent, slot)
        /\ \A u \in Tasks \ {Parent} : evt'[u] = evt[u]
    BY <1>1, <1>2 DEF ParallelTypes
  <1>4. OwnEvents'
    <2>1. ASSUME NEW w \in Workers, pc'[w] = "event"
          PROVE  evt'[w] = Event("WireEvent", w, evt'[w].slot)
      BY <1>1, <1>3, <2>1, TaskKinds DEF OwnEvents
    <2>2. \A c \in Branches : pc'[c] = "ok" /\ completed'[c]
      BY <1>1, <1>2, <1>3, TaskKinds DEF OwnEvents
    <2>3. evt'[Parent] = Event("ParallelCompleted", Parent, evt'[Parent].slot)
      BY <1>3 DEF Event, EventAbout
    <2>4. Branches' = Branches /\ Emits' = Emits /\ Parent' = Parent
      BY DEF Branches, Emits, Parent
    <2> QED
      BY <1>3, <2>1, <2>2, <2>3, <2>4 DEF OwnEvents, Event, EventAbout, Emits
  <1>5. ASSUME NEW e \in EventType, Told(e)
        PROVE  Told(e)'
    <2>1. e.kind \notin {"ParallelBranchAborted", "ParallelCompleted", "ParallelBranchFailed"}
      BY <1>2, <1>5 DEF Told
    <2>2. e.kind = "ParallelBranchCompleted" => e.by \in Branches /\ pc'[e.by] = "ok"
      BY <1>3, <1>5, TaskKinds DEF Told
    <2> QED
      BY <1>5, <2>1, <2>2 DEF Told, Branches
  <1>6. AllTold' /\ VerdictIsFinal'
    BY <1>1, <1>2, <1>5, ToldSame, FinalSame DEF ParallelTypes
  <1>7. OkIsTold'
    BY <1>1, <1>2, <1>3, TaskKinds DEF OkIsTold, At, Branches
  <1> QED
    BY <1>4, <1>6, <1>7

\* The parent's last event.
LEMMA EndVerdicts ==
    ASSUME VerdictInv, NEW p \in {"done", "error"}, Leave(Parent, p),
           pc[Parent] \in {"verdicts", "parallelCompleted"},
           evt[Parent] = Event("ParallelCompleted", Parent, evt[Parent].slot),
           trace' = trace \/ trace' = Append(trace, evt[Parent]),
           p = "done" => pc[Parent] = "parallelCompleted",
           UNCHANGED <<completed, failed>>
    PROVE  OwnEvents' /\ AllTold' /\ OkIsTold' /\ VerdictIsFinal'
  <1>1. /\ ParallelTypes /\ Roles /\ OwnEvents /\ AllTold /\ OkIsTold /\ VerdictIsFinal
    BY DEF VerdictInv
  <1>2. Parent \in Tasks /\ pc' = [pc EXCEPT ![Parent] = p] /\ evt' = evt
    BY TaskKinds DEF Leave
  <1>3. pc'[Parent] = p /\ \A u \in Tasks \ {Parent} : pc'[u] = pc[u]
    BY <1>1, <1>2, MovedPc
  <1>4. (\A c \in Branches : pc'[c] = pc[c]) /\ \A w \in Workers : pc'[w] = pc[w]
    BY <1>3, TaskKinds
  <1>5. OwnEvents'
    <2>1. Branches' = Branches /\ Emits' = Emits /\ Parent' = Parent
      BY DEF Branches, Emits, Parent
    <2> QED
      BY <1>1, <1>2, <1>3, <1>4, <2>1 DEF OwnEvents, Event, EventAbout
  <1>6. ASSUME NEW e \in EventType, Told(e)
        PROVE  Told(e)'
    <2>1. e.kind = "ParallelBranchAborted" => p = "error"
      BY <1>6 DEF Told
    <2>2. e.kind = "ParallelBranchCompleted" => e.by \in Branches /\ pc'[e.by] = "ok"
      BY <1>4, <1>6 DEF Told
    <2>3. e.kind = "ParallelBranchFailed" =>
            e.by \in Branches /\ pc'[e.by] = "err" /\ failed'[e.by]
      BY <1>4, <1>6 DEF Told
    <2> QED
      BY <1>3, <1>6, <2>1, <2>2, <2>3 DEF Told, Branches, Parent
  <1>7. PICK x : x = evt[Parent]
    OBVIOUS
  <1>8. x \in EventType /\ x.kind = "ParallelCompleted" /\ x.by = Parent /\ x.about = Parent
        /\ x.by \notin Branches
    <2>1. x \in EventType /\ \E s : x = Event("ParallelCompleted", Parent, s)
      BY <1>1, <1>2, <1>7 DEF ParallelTypes
    <2>2. x.kind = "ParallelCompleted" /\ x.by = Parent /\ x.about = Parent
      BY <2>1 DEF Event, EventAbout
    <2> QED
      BY <2>1, <2>2, TaskKinds
  <1>9. Told(x)'
    BY <1>3, <1>8 DEF Told, Branches, Parent
  <1>10. x.kind \notin Verdict
    BY <1>8 DEF Verdict
  <1>11. \A i \in At : trace[i].kind # "ParallelCompleted"
    BY <1>1 DEF AllTold, Told
  <1>12. AllTold' /\ OkIsTold' /\ VerdictIsFinal'
    BY <1>4, <1>6, <1>7, <1>8, <1>9, <1>10, <1>11, WriteKeeps
  <1> QED
    BY <1>5, <1>12

\* An abort verdict is the first on its branch, and the next one is about a
\* branch further on.
LEMMA AbortVerdicts ==
    ASSUME VerdictInv, Verdicts, evt[Parent].kind = "ParallelBranchAborted"
    PROVE  OwnEvents' /\ AllTold' /\ OkIsTold' /\ VerdictIsFinal'
  <1>1. /\ ParallelTypes /\ Roles /\ OwnEvents /\ AllTold /\ OkIsTold /\ VerdictIsFinal
    BY DEF VerdictInv
  <1>2. /\ Parent \in Tasks /\ pc[Parent] = "verdicts" /\ pc' = pc
        /\ completed' = completed /\ failed' = failed
        /\ AfterJoin(evt[Parent].about, Tail(lock))
    BY TaskKinds DEF Verdicts, branchVars
  <1>3. PICK x : x = evt[Parent]
    OBVIOUS
  <1>4. trace' = trace \/ trace' = Append(trace, x)
    BY <1>3 DEF Verdicts, Write
  <1>5. /\ x \in EventType /\ x.kind = "ParallelBranchAborted" /\ x.by = Parent
        /\ x.about \in Branches /\ ~completed[x.about] /\ ~failed[x.about]
    <2>1. x \in EventType /\ x.kind = "ParallelBranchAborted"
      BY <1>1, <1>2, <1>3 DEF ParallelTypes
    <2>2. \A s : Event("ParallelCompleted", Parent, s).kind = "ParallelCompleted"
      BY DEF Event, EventAbout
    <2>3. x # Event("ParallelCompleted", Parent, x.slot)
      BY <2>1, <2>2
    <2> QED
      BY <1>1, <1>2, <1>3, <2>1, <2>3 DEF OwnEvents
  <1>6. /\ \A u \in Tasks \ {Parent} : evt'[u] = evt[u]
        /\ \/ evt'[Parent] = Event("ParallelCompleted", Parent, slot)
           \/ \E c \in Branches :
                /\ evt'[Parent] = EventAbout("ParallelBranchAborted", Parent, slot, c)
                /\ c > x.about /\ ~completed[c] /\ ~failed[c]
    BY <1>1, <1>2, <1>3, AfterJoinTypes
  <1>7. \/ /\ evt'[Parent] = Event("ParallelCompleted", Parent, evt'[Parent].slot)
           /\ evt'[Parent].kind = "ParallelCompleted"
        \/ /\ evt'[Parent].kind = "ParallelBranchAborted" /\ evt'[Parent].by = Parent
           /\ evt'[Parent].about \in Branches /\ x.about < evt'[Parent].about
           /\ ~completed'[evt'[Parent].about] /\ ~failed'[evt'[Parent].about]
    <2>1. CASE evt'[Parent] = Event("ParallelCompleted", Parent, slot)
      BY <2>1 DEF Event, EventAbout
    <2>2. CASE \E c \in Branches :
                 /\ evt'[Parent] = EventAbout("ParallelBranchAborted", Parent, slot, c)
                 /\ c > x.about /\ ~completed[c] /\ ~failed[c]
      <3>1. PICK c \in Branches :
              /\ evt'[Parent] = EventAbout("ParallelBranchAborted", Parent, slot, c)
              /\ c > x.about /\ ~completed[c] /\ ~failed[c]
        BY <2>2
      <3>2. /\ evt'[Parent].kind = "ParallelBranchAborted" /\ evt'[Parent].by = Parent
            /\ evt'[Parent].about = c
        BY <3>1 DEF EventAbout
      <3>3. x.about < c
        BY <1>5, <3>1, TaskKinds
      <3> QED
        BY <1>2, <3>1, <3>2, <3>3
    <2> QED
      BY <1>6, <2>1, <2>2
  <1>8. OwnEvents'
    <2>1. (\A c \in Branches : evt'[c] = evt[c]) /\ \A w \in Workers : evt'[w] = evt[w]
      BY <1>6, TaskKinds
    <2>2. Branches' = Branches /\ Emits' = Emits /\ Parent' = Parent
      BY DEF Branches, Emits, Parent
    <2> QED
      BY <1>1, <1>2, <1>7, <2>1, <2>2 DEF OwnEvents, Event, EventAbout
  <1>9. ASSUME NEW e \in EventType, Told(e)
        PROVE  Told(e)'
    <2>1. ASSUME e.kind = "ParallelBranchAborted", evt'[Parent].kind = "ParallelBranchAborted"
          PROVE  e.about < evt'[Parent].about
      <3>1. e.about \in Branches /\ e.about < x.about
        BY <1>2, <1>3, <1>5, <1>9, <2>1 DEF Told
      <3>2. x.about < evt'[Parent].about /\ evt'[Parent].about \in Branches
        BY <1>7, <2>1
      <3> QED
        BY <1>5, <3>1, <3>2, TaskKinds
    <2> QED
      BY <1>2, <1>9, <2>1 DEF Told, Branches, Parent
  <1>10. Told(x)'
    BY <1>2, <1>5, <1>7, TaskKinds DEF Told, Branches, Parent
  <1>11. ASSUME NEW i \in At, trace[i].kind \in Verdict
         PROVE  trace[i].about # x.about
    <2>1. Told(trace[i])
      BY <1>1 DEF AllTold
    <2>2. CASE trace[i].kind = "ParallelBranchCompleted"
      BY <1>1, <1>5, <2>1, <2>2 DEF Told, OwnEvents
    <2>3. CASE trace[i].kind = "ParallelBranchFailed"
      BY <1>5, <2>1, <2>3 DEF Told
    <2>4. CASE trace[i].kind = "ParallelBranchAborted"
      <3>1. trace[i].about < x.about /\ trace[i].about \in Branches
        BY <1>2, <1>3, <1>5, <2>1, <2>4 DEF Told
      <3> QED
        BY <1>5, <3>1, TaskKinds
    <2> QED
      BY <1>11, <2>2, <2>3, <2>4 DEF Verdict
  <1>12. \A i \in At : trace[i].kind # "ParallelCompleted"
    BY <1>1, <1>2 DEF AllTold, Told
  <1>13. x.by \notin Branches
    BY <1>5, TaskKinds
  <1>14. AllTold' /\ OkIsTold' /\ VerdictIsFinal'
    BY <1>2, <1>4, <1>5, <1>9, <1>10, <1>11, <1>12, <1>13, WriteKeeps
  <1> QED
    BY <1>8, <1>14

LEMMA ParentVerdicts ==
    ASSUME VerdictInv, ParentNext
    PROVE  OwnEvents' /\ AllTold' /\ OkIsTold' /\ VerdictIsFinal'
  <1>1. OwnEvents
    BY DEF VerdictInv
  <1>2. CASE Verdicts /\ evt[Parent].kind # "ParallelBranchAborted"
    <2>1. pc[Parent] = "verdicts" /\ Leave(Parent, "error") /\ UNCHANGED <<completed, failed>>
      BY <1>2 DEF Verdicts, branchVars
    <2>2. trace' = trace \/ trace' = Append(trace, evt[Parent])
      BY <1>2 DEF Verdicts, Write
    <2>3. evt[Parent] = Event("ParallelCompleted", Parent, evt[Parent].slot)
      BY <1>1, <1>2, <2>1 DEF OwnEvents
    <2> QED
      BY <2>1, <2>2, <2>3, EndVerdicts
  <1>3. CASE ParallelCompleted
    <2>1. pc[Parent] = "parallelCompleted" /\ UNCHANGED <<completed, failed>>
      BY <1>3 DEF ParallelCompleted, branchVars
    <2>2. PICK p \in {"done", "error"} :
            Leave(Parent, p) /\ (trace' = trace \/ trace' = Append(trace, evt[Parent]))
      BY <1>3 DEF ParallelCompleted, Write
    <2>3. evt[Parent] = Event("ParallelCompleted", Parent, evt[Parent].slot)
      BY <1>1, <2>1 DEF OwnEvents
    <2> QED
      BY <2>1, <2>2, <2>3, EndVerdicts
  <1> QED
    BY <1>2, <1>3, StartVerdicts, JoinedVerdicts, AbortVerdicts DEF ParentNext

LEMMA StillVerdicts ==
    ASSUME VerdictInv, UNCHANGED vars
    PROVE  OwnEvents' /\ AllTold' /\ OkIsTold' /\ VerdictIsFinal'
  <1>1. UNCHANGED <<pc, evt, trace, completed, failed>>
    BY DEF vars, branchVars
  <1>2. OwnEvents'
    BY <1>1 DEF VerdictInv, OwnEvents, Event, EventAbout, Emits, Branches, Parent
  <1>3. \A e \in EventType : Told(e) => Told(e)'
    BY <1>1 DEF Told, Branches, Parent
  <1>4. AllTold' /\ VerdictIsFinal'
    BY <1>1, <1>3, ToldSame, FinalSame DEF VerdictInv, ParallelTypes
  <1>5. OkIsTold'
    BY <1>1 DEF VerdictInv, OkIsTold, At, Branches
  <1> QED
    BY <1>2, <1>4, <1>5

LEMMA VerdictStep ==
    ASSUME VerdictInv, [Next]_vars
    PROVE  VerdictInv'
  <1>1. ParallelTypes /\ Roles /\ OwnEvents
    BY DEF VerdictInv
  <1>2. ParallelTypes' /\ Roles'
    BY <1>1, TypesStep, RolesStep
  <1>3. CASE \E b \in Branches : BranchNext(b)
    <2>1. PICK b \in Branches : BranchNext(b)
      BY <1>3
    <2>2. BranchMove(b) \/ BranchErr(b)
      BY <1>1, <2>1, BranchSteps
    <2> QED
      BY <1>1, <1>2, <2>2, MoveOwnEvents, MoveTrace, ErrVerdicts DEF VerdictInv
  <1> QED
    BY <1>2, <1>3, ParentVerdicts, WorkerVerdicts, StillVerdicts DEF Next, VerdictInv

LEMMA InitVerdicts ==
    ASSUME Init
    PROVE  VerdictInv
  <1>1. ParallelTypes /\ Roles
    BY InitTypes
  <1>2. /\ trace = <<>> /\ At = {}
        /\ pc = [t \in Tasks |-> IF t = Parent THEN "parallelStarted" ELSE "idle"]
        /\ evt[Parent] = Event("ParallelStarted", Parent, 0)
    BY TaskKinds DEF Init, At
  <1>3. /\ pc[Parent] = "parallelStarted" /\ \A c \in Branches : pc[c] = "idle"
        /\ \A w \in Workers : pc[w] = "idle"
    BY <1>2, TaskKinds
  <1>4. OwnEvents
    BY <1>2, <1>3 DEF OwnEvents, Emits
  <1>5. AllTold /\ OkIsTold /\ VerdictIsFinal
    BY <1>2, <1>3 DEF AllTold, OkIsTold, VerdictIsFinal, VerdictsOf
  <1> QED
    BY <1>1, <1>4, <1>5 DEF VerdictInv

\* The trace never contradicts itself about a branch, whatever fails and
\* whoever waits for the tracer: at most one verdict on each, nothing from a
\* branch after its verdict, and nothing but the workers' events after
\* ParallelCompleted.  It holds for refused writes too.
THEOREM VerdictsAreFinal == Spec => []VerdictIsFinal
  <1>1. VerdictInv => VerdictIsFinal
    BY DEF VerdictInv
  <1> QED
    BY <1>1, InitVerdicts, VerdictStep, PTL DEF Spec

-----------------------------------------------------------------------------
(* The outcome of the step.                                                *)

\* What is in the trace stays there.
LEMMA TraceGrows ==
    ASSUME ParallelTypes, NEW t \in Tasks, trace' = trace \/ trace' = Append(trace, evt[t])
    PROVE  \A i \in At : i \in At' /\ trace'[i] = trace[i]
  <1>1. trace \in Seq(EventType) /\ evt[t] \in EventType
    BY DEF ParallelTypes
  <1>2. CASE trace' = trace
    BY <1>2 DEF At
  <1>3. CASE trace' = Append(trace, evt[t])
    <2>1. /\ Len(trace') = Len(trace) + 1
          /\ \A i \in 1..Len(trace) : i \in 1..(Len(trace) + 1) /\ trace'[i] = trace[i]
      BY <1>1, <1>3, AppendPositions
    <2> QED
      BY <2>1 DEF At
  <1> QED
    BY <1>2, <1>3

LEMMA FailureStays ==
    ASSUME ParallelTypes, FailureIsTold, pc[Parent] \in {"verdicts", "error"}, NEW t \in Tasks,
           trace' = trace \/ trace' = Append(trace, evt[t])
    PROVE  FailureIsTold'
  <1>1. PICK i \in At : trace[i].kind = "ParallelBranchFailed" /\ trace[i].by \in Branches
    BY DEF FailureIsTold
  <1>2. i \in At' /\ trace'[i] = trace[i]
    BY TraceGrows
  <1> QED
    BY <1>1, <1>2 DEF FailureIsTold, Branches

\* Without refused writes, the parent leaves the join for an error only with
\* a branch's failure in the trace.
LEMMA FailureStep ==
    ASSUME "write" \notin MayFail, OutcomeInv, [Next]_vars
    PROVE  FailureIsTold'
  <1>1. VerdictInv /\ ParallelTypes /\ Roles /\ OwnEvents /\ FailureIsTold
    BY DEF OutcomeInv, VerdictInv
  <1>2. CASE UNCHANGED vars
    <2>1. pc' = pc /\ trace' = trace
      BY <1>2 DEF vars
    <2> QED
      BY <1>1, <2>1 DEF FailureIsTold, At, Branches, Parent
  <1>3. ASSUME NEW b \in Branches, BranchMove(b)
        PROVE  FailureIsTold'
    <2>1. pc[Parent] = "join" /\ b # Parent
      BY <1>1, <1>3, RunningIsJoined, TaskKinds DEF BranchMove
    <2>2. pc'[Parent] = "join"
      BY <1>1, <1>3, <2>1, TaskKinds DEF BranchMove, ParallelTypes
    <2> QED
      BY <2>2 DEF FailureIsTold, Parent
  <1>4. ASSUME NEW b \in Branches, BranchErr(b)
        PROVE  FailureIsTold'
    <2>1. pc[b] = "branchFailed" /\ trace' = Append(trace, evt[b]) /\ b \in Tasks
      BY <1>4, TaskKinds DEF BranchErr
    <2>2. evt[b] \in EventType /\ trace \in Seq(EventType)
      BY <1>1, <2>1 DEF ParallelTypes
    <2>3. evt[b].kind = "ParallelBranchFailed" /\ evt[b].by = b
      BY <1>1, <2>1, RunningIsNews DEF VerdictInv, OwnEvents, Emits
    <2>4. Len(trace) \in Nat /\ Len(trace') = Len(trace) + 1 /\ trace'[Len(trace) + 1] = evt[b]
      BY <2>1, <2>2, AppendPositions
    <2>5. Len(trace) + 1 \in At'
      BY <2>4 DEF At
    <2> QED
      BY <2>3, <2>4, <2>5 DEF FailureIsTold, Branches
  <1>5. ASSUME NEW w \in Workers, WorkerNext(w)
        PROVE  FailureIsTold'
    <2>1. w \in Tasks /\ w # Parent /\ pc'[Parent] = pc[Parent]
      BY <1>1, <1>5, TaskKinds DEF WorkerNext, WorkerEmits, WorkerWritten, Leave, ParallelTypes
    <2>2. trace' = trace \/ trace' = Append(trace, evt[w])
      BY <1>5 DEF WorkerNext, WorkerEmits, WorkerWritten, Write
    <2>3. CASE pc[Parent] \in {"verdicts", "error"}
      BY <1>1, <2>1, <2>2, <2>3, FailureStays
    <2>4. CASE pc[Parent] \notin {"verdicts", "error"}
      BY <2>1, <2>4 DEF FailureIsTold, Parent
    <2> QED
      BY <2>3, <2>4
  <1>6. CASE ParallelStarted \/ AllJoined \/ ParallelCompleted
    <2>1. pc'[Parent] \in {"join", "parallelCompleted", "done"}
      <3>1. Parent \in Tasks
        BY TaskKinds
      <3>2. CASE ParallelStarted
        BY <1>1, <3>1, <3>2, WriteTypes DEF ParallelStarted
      <3>3. CASE AllJoined
        BY <1>1, <3>1, <3>3 DEF AllJoined, ParallelTypes
      <3>4. CASE ParallelCompleted
        <4>1. pc' = [pc EXCEPT ![Parent] = "done"]
          BY <1>1, <3>1, <3>4, WriteTypes DEF ParallelCompleted, Leave
        <4> QED
          BY <1>1, <3>1, <4>1, MovedPc
      <3> QED
        BY <1>6, <3>2, <3>3, <3>4
    <2> QED
      BY <2>1 DEF FailureIsTold, Parent
  <1>7. CASE Verdicts
    <2>1. pc[Parent] = "verdicts" /\ Parent \in Tasks
      BY <1>7, TaskKinds DEF Verdicts
    <2>2. trace' = trace \/ trace' = Append(trace, evt[Parent])
      BY <1>7 DEF Verdicts, Write
    <2> QED
      BY <1>1, <2>1, <2>2, FailureStays
  <1> QED
    BY <1>1, <1>2, <1>3, <1>4, <1>5, <1>6, <1>7, BranchSteps DEF Next, ParentNext

\* The outcome of a parallel step agrees with the verdicts in its trace, when
\* the trace file takes every write: it is ok only if every branch's
\* completion was written, and an error only if some branch's failure was.
THEOREM OutcomeIsTold ==
    ASSUME "write" \notin MayFail
    PROVE  Spec => []OutcomeMatchesVerdicts
  <1>1. Init => OutcomeInv
    <2> SUFFICES ASSUME Init PROVE OutcomeInv
      OBVIOUS
    <2>1. pc[Parent] = "parallelStarted"
      BY TaskKinds DEF Init
    <2> QED
      BY <2>1, InitVerdicts DEF OutcomeInv, FailureIsTold
  <1>2. OutcomeInv /\ [Next]_vars => OutcomeInv'
    BY VerdictStep, FailureStep DEF OutcomeInv
  <1>3. OutcomeInv => OutcomeMatchesVerdicts
    <2> SUFFICES ASSUME OutcomeInv PROVE OutcomeMatchesVerdicts
      OBVIOUS
    <2>1. Roles /\ AllTold /\ OkIsTold /\ FailureIsTold
      BY DEF OutcomeInv, VerdictInv
    <2>2. ASSUME NEW i \in At, NEW b \in Branches, trace[i].by = b,
                 trace[i].kind \in {"ParallelBranchCompleted", "ParallelBranchFailed"}
          PROVE  i \in VerdictsOf(b)
      <3>1. Told(trace[i])
        BY <2>1 DEF AllTold
      <3> QED
        BY <2>2, <3>1 DEF Told, VerdictsOf, Verdict
    <2>3. ASSUME pc[Parent] = "done", NEW b \in Branches
          PROVE  \E i \in VerdictsOf(b) : trace[i].kind = "ParallelBranchCompleted"
      <3>1. pc[b] = "ok"
        BY <2>1, <2>3 DEF Roles
      <3>2. PICK i \in At : trace[i].kind = "ParallelBranchCompleted" /\ trace[i].by = b
        BY <2>1, <3>1 DEF OkIsTold
      <3> QED
        BY <2>2, <3>2
    <2>4. ASSUME pc[Parent] = "error"
          PROVE  \E b \in Branches : \E i \in VerdictsOf(b) :
                   trace[i].kind = "ParallelBranchFailed"
      <3>1. PICK i \in At : trace[i].kind = "ParallelBranchFailed" /\ trace[i].by \in Branches
        BY <2>1, <2>4 DEF FailureIsTold
      <3> QED
        BY <2>2, <3>1
    <2> QED
      BY <2>3, <2>4 DEF OutcomeMatchesVerdicts
  <1> QED
    BY <1>1, <1>2, <1>3, PTL DEF Spec

-----------------------------------------------------------------------------
(* The slots in the trace.                                                 *)

\* Who is ahead of whom when the head of a queue leaves, ...
LEMMA BeforeTail ==
    ASSUME NEW S, NEW q, Queue(q, S), q # <<>>, NEW t, NEW u, Before(Tail(q), t, u)
    PROVE  Before(q, t, u)
  <1> DEFINE r == Tail(q)
  <1>1. /\ Len(q) \in Nat /\ Len(r) = Len(q) - 1
        /\ \A i \in 1..Len(r) : i + 1 \in 1..Len(q) /\ r[i] = q[i + 1]
    BY DEF Queue
  <1>2. PICK i \in 1..Len(r), j \in 1..Len(r) : i < j /\ r[i] = t /\ r[j] = u
    BY Zenon DEF Before
  <1> HIDE DEF r
  <1>3. /\ i + 1 \in 1..Len(q) /\ j + 1 \in 1..Len(q) /\ i + 1 < j + 1
        /\ q[i + 1] = t /\ q[j + 1] = u
    BY <1>1, <1>2
  <1> QED
    BY <1>3, Zenon DEF Before

\* ... a task joins it, ...
LEMMA BeforeAppend ==
    ASSUME NEW S, NEW q, Queue(q, S), NEW x, x \notin S, NEW t, NEW u,
           Before(Append(q, x), t, u)
    PROVE  Before(q, t, u) \/ (u = x /\ t \in S)
  <1> DEFINE r == Append(q, x)
             n == Len(q)
  <1>1. /\ n \in Nat /\ Len(r) = n + 1 /\ r[n + 1] = x
        /\ \A i \in 1..n : r[i] = q[i] /\ q[i] \in S
    BY DEF Queue
  <1>2. PICK i \in 1..Len(r), j \in 1..Len(r) : i < j /\ r[i] = t /\ r[j] = u
    BY Zenon DEF Before
  <1> HIDE DEF r, n
  <1>3. i \in 1..n /\ (j \in 1..n \/ j = n + 1) /\ i < j
    BY <1>1, <1>2
  <1>4. CASE j \in 1..n
    <2>1. q[i] = t /\ q[j] = u
      BY <1>1, <1>2, <1>3, <1>4
    <2> QED
      BY <1>3, <1>4, <2>1, Zenon DEF Before, n
  <1>5. CASE j = n + 1
    BY <1>1, <1>2, <1>3, <1>5
  <1> QED
    BY <1>3, <1>4, <1>5

\* ... or waits in it behind the holder.
LEMMA HeadBefore ==
    ASSUME NEW S, NEW q, Queue(q, S), q # <<>>, NEW u \in S, u # Head(q)
    PROVE  Before(q, Head(q), u)
  <1>1. PICK j \in 1..Len(q) : q[j] = u
    BY DEF Queue
  <1>2. Len(q) \in Nat /\ Head(q) = q[1]
    BY DEF Queue
  <1>3. j # 1
    BY <1>1, <1>2
  <1>4. 1 \in 1..Len(q) /\ 1 < j
    BY <1>1, <1>2, <1>3
  <1> QED
    BY <1>1, <1>2, <1>4 DEF Before

LEMMA BeforeIsIn ==
    ASSUME NEW S, NEW q, Queue(q, S), NEW t, NEW u, Before(q, t, u)
    PROVE  t \in S /\ u \in S
  <1>1. \A i \in 1..Len(q) : q[i] \in S
    BY DEF Queue
  <1> QED
    BY <1>1, Zenon DEF Before

\* The slot of an event is a number.
LEMMA StampTypes ==
    ASSUME ParallelTypes
    PROVE  /\ slot \in Nat /\ \A t \in Tasks : evt[t] \in EventType /\ evt[t].slot \in Nat
           /\ trace \in Seq(EventType) /\ \A i \in At : trace[i].slot \in Nat
  <1>1. slot \in Nat /\ trace \in Seq(EventType) /\ \A t \in Tasks : evt[t] \in EventType
    BY DEF ParallelTypes
  <1>2. \A e \in EventType : e.slot \in Nat
    BY DEF EventType
  <1>3. \A i \in At : trace[i] \in EventType
    BY <1>1 DEF At
  <1> QED
    BY <1>1, <1>2, <1>3

\* The records in a trace that grows by one event.
LEMMA RecordsAppend ==
    ASSUME ParallelTypes, NEW x \in EventType, trace' = Append(trace, x)
    PROVE  /\ \A i \in At : i \in At' /\ trace'[i] = trace[i]
           /\ Len(trace) + 1 \in At' /\ trace'[Len(trace) + 1] = x
           /\ At = 1..Len(trace) /\ At' = 1..(Len(trace) + 1) /\ Len(trace) \in Nat
           /\ \A i \in At' : \/ i \in At /\ trace'[i] = trace[i]
                             \/ i = Len(trace) + 1 /\ trace'[i] = x
  <1>1. trace \in Seq(EventType)
    BY DEF ParallelTypes
  <1> DEFINE n == Len(trace)
  <1>2. /\ n \in Nat /\ Len(trace') = n + 1 /\ trace'[n + 1] = x
        /\ \A i \in 1..n : i \in 1..(n + 1) /\ trace'[i] = trace[i]
        /\ \A i \in 1..(n + 1) : i \in 1..n \/ i = n + 1
    BY <1>1, AppendPositions
  <1>3. At = 1..n /\ At' = 1..(n + 1)
    BY <1>2 DEF At
  <1> HIDE DEF n
  <1>4. n + 1 \in 1..(n + 1)
    BY <1>2
  <1> QED
    BY <1>2, <1>3, <1>4 DEF n

\* A step of branch b, as far as slots and the order of the queue go.
StampMove(b) ==
    /\ pc[Parent] = "join" /\ pc'[Parent] = "join"
    /\ \A c \in Branches \ {b} : pc'[c] = pc[c] /\ evt'[c] = evt[c]
    /\ Stamped(b)' => evt'[b].slot = slot'
    /\ IF Records(b)' THEN slot' = slot + 1 ELSE slot' = slot
    /\ trace' = IF Stamped(b) THEN Append(trace, evt[b]) ELSE trace
    /\ Stamped(b) => Holds(b)
    /\ \A c, d \in Branches : Before(lock', c, d) =>
         c # b /\ (d = b \/ Before(lock, c, d))

LEMMA MoveStampMove ==
    ASSUME "write" \notin MayFail, ParallelTypes, Roles, NEW b \in Branches, BranchMove(b)
    PROVE  StampMove(b)
  <1>1. PICK p \in Running \cup {"ok"} :
          /\ pc[b] \in Running \ {"branchFailed"}
          /\ pc' = [pc EXCEPT ![b] = p]
          /\ \A t \in Tasks \ {b} : evt'[t] = evt[t]
          /\ IF p \in Emits THEN NextEvent(b, p) ELSE slot' = slot
          /\ \/ trace' = trace
             \/ pc[b] \in Emits /\ trace' = Append(trace, evt[b])
          /\ pc[b] \in Emits => trace' = Append(trace, evt[b])
          /\ pc[b] # "exec" => Holds(b)
          /\ lock' = LET rest == IF pc[b] = "exec" THEN lock ELSE Tail(lock)
                     IN  IF p \in {"exec", "ok"} THEN rest ELSE Append(rest, b)
    BY DEF BranchMove
  <1>2. pc[Parent] = "join" /\ b \in Tasks
    BY <1>1, RunningIsJoined, TaskKinds
  <1>3. pc'[b] = p /\ \A u \in Tasks \ {b} : pc'[u] = pc[u]
    BY <1>1, <1>2, MovedPc
  <1>4. pc'[Parent] = "join" /\ \A c \in Branches \ {b} : pc'[c] = pc[c] /\ evt'[c] = evt[c]
    BY <1>1, <1>2, <1>3, TaskKinds
  <1>5. Emits' = Emits
    BY DEF Emits
  <1>6. p \in Emits => evt'[b].slot = slot'
    <2>1. ASSUME p \in Emits
          PROVE  evt'[b].slot = slot'
      <3>1. PICK k : evt'[b] = Event(k, b, slot')
        BY <1>1, <2>1 DEF NextEvent
      <3> QED
        BY <3>1 DEF Event, EventAbout
    <2> QED
      BY <2>1
  <1>7. /\ Stamped(b)' => evt'[b].slot = slot'
        /\ IF Records(b)' THEN slot' = slot + 1 ELSE slot' = slot
    BY <1>1, <1>3, <1>5, <1>6 DEF Stamped, Records, NextEvent
  <1>8. trace' = IF Stamped(b) THEN Append(trace, evt[b]) ELSE trace
    BY <1>1 DEF Stamped
  <1>9. Stamped(b) => Holds(b)
    BY <1>1 DEF Stamped, Emits
  <1> DEFINE rest == IF pc[b] = "exec" THEN lock ELSE Tail(lock)
  <1>10. /\ Queue(rest, Waiting \ {b})
         /\ \A c, d : Before(rest, c, d) => Before(lock, c, d)
    <2>1. Queue(lock, Waiting)
      BY DEF ParallelTypes
    <2>2. CASE pc[b] = "exec"
      <3>1. Waiting \ {b} = Waiting
        BY <2>2 DEF Waiting, AtLock
      <3> QED
        BY <2>1, <2>2, <3>1
    <2>3. CASE pc[b] # "exec"
      <3>1. lock # <<>> /\ Head(lock) = b
        BY <1>1, <2>3 DEF Holds
      <3>2. Queue(Tail(lock), Waiting \ {b})
        BY <2>1, <3>1, QueueTail
      <3>3. \A c, d : Before(Tail(lock), c, d) => Before(lock, c, d)
        BY <2>1, <3>1, BeforeTail
      <3> QED
        BY <2>3, <3>2, <3>3
    <2> QED
      BY <2>2, <2>3
  <1>11. lock' = rest \/ lock' = Append(rest, b)
    BY <1>1
  <1> HIDE DEF rest
  <1>12. ASSUME NEW c \in Branches, NEW d \in Branches, Before(lock', c, d)
         PROVE  c # b /\ (d = b \/ Before(lock, c, d))
    <2>1. Before(rest, c, d) \/ (d = b /\ c \in Waiting \ {b})
      <3>1. CASE lock' = rest
        BY <1>12, <3>1
      <3>2. CASE lock' = Append(rest, b)
        <4>1. Before(Append(rest, b), c, d) /\ b \notin Waiting \ {b}
          BY <1>12, <3>2
        <4> QED
          BY <1>10, <4>1, BeforeAppend
      <3> QED
        BY <1>11, <3>1, <3>2
    <2>2. Before(rest, c, d) => c \in Waiting \ {b}
      BY <1>10, BeforeIsIn
    <2> QED
      BY <1>10, <2>1, <2>2
  <1> QED
    BY <1>2, <1>4, <1>7, <1>8, <1>9, <1>12 DEF StampMove

\* The order of the queue and of the records survives it.
LEMMA MoveStamps ==
    ASSUME StampInv, ParallelTypes', NEW b \in Branches, StampMove(b)
    PROVE  StampsQueued'
  <1>1. /\ ParallelTypes /\ StampsPast /\ StampsInOrder /\ RecordsAhead /\ TicksRecorded
    BY DEF StampInv, VerdictInv, StampsQueued, StampMove
  <1>2. /\ slot \in Nat /\ (\A t \in Tasks : evt[t] \in EventType /\ evt[t].slot \in Nat)
        /\ \A i \in At : trace[i].slot \in Nat
    BY <1>1, StampTypes
  <1>3. /\ pc[Parent] = "join" /\ pc'[Parent] = "join"
        /\ \A c \in Branches \ {b} : pc'[c] = pc[c] /\ evt'[c] = evt[c]
        /\ (Stamped(b)' => evt'[b].slot = slot')
        /\ (IF Records(b)' THEN slot' = slot + 1 ELSE slot' = slot)
        /\ trace' = (IF Stamped(b) THEN Append(trace, evt[b]) ELSE trace)
        /\ (Stamped(b) => Holds(b))
        /\ \A c, d \in Branches : Before(lock', c, d) => c # b /\ (d = b \/ Before(lock, c, d))
    BY DEF StampMove
  <1>4. slot' \in Nat /\ slot <= slot'
    BY <1>2, <1>3
  <1>5. b \in Tasks /\ evt[b] \in EventType /\ (\A c \in Branches : evt[c].slot \in Nat)
    BY <1>2, TaskKinds
  <1>6. \A c \in Branches \ {b} : (Stamped(c)' <=> Stamped(c)) /\ (Records(c)' <=> Records(c))
    BY <1>3 DEF Stamped, Records, Emits
  <1>7. \A i \in At' :
          \/ i \in At /\ trace'[i] = trace[i]
          \/ Stamped(b) /\ trace'[i] = evt[b]
    <2>1. CASE Stamped(b)
      <3>1. trace' = Append(trace, evt[b])
        BY <1>3, <2>1
      <3> QED
        BY <1>1, <1>5, <2>1, <3>1, RecordsAppend
    <2>2. CASE ~Stamped(b)
      BY <1>3, <2>2 DEF At
    <2> QED
      BY <2>1, <2>2
  <1>8. \A i \in At' : trace'[i].kind = "SlotAdvanced" => trace'[i].slot <= slot
    <2> SUFFICES ASSUME NEW i \in At', trace'[i].kind = "SlotAdvanced"
                 PROVE  trace'[i].slot <= slot
      OBVIOUS
    <2>1. CASE i \in At /\ trace'[i] = trace[i]
      BY <1>1, <2>1 DEF StampsPast, IsRecord
    <2>2. CASE Stamped(b) /\ trace'[i] = evt[b]
      BY <1>1, <2>2 DEF StampsPast
    <2> QED
      BY <1>7, <2>1, <2>2
  <1>9. \A i \in At' : trace'[i].kind = "SlotAdvanced" => trace'[i].slot \in Nat
    BY <1>2, <1>5, <1>7
  <1>10. StampsPast'
    <2>1. ASSUME NEW c \in Branches, Stamped(c)'
          PROVE  evt'[c].slot <= slot'
      <3>1. CASE c = b
        BY <1>3, <1>4, <2>1, <3>1
      <3>2. CASE c # b
        <4>1. Stamped(c) /\ evt'[c] = evt[c]
          BY <1>3, <1>6, <2>1, <3>2
        <4>2. evt[c].slot <= slot /\ evt[c].slot \in Nat
          BY <1>1, <1>5, <4>1 DEF StampsPast
        <4> QED
          BY <1>2, <1>4, <4>1, <4>2
      <3> QED
        BY <3>1, <3>2
    <2>2. \A i \in At' : trace'[i].kind = "SlotAdvanced" => trace'[i].slot <= slot'
      BY <1>2, <1>4, <1>8, <1>9
    <2>3. Branches' = Branches /\ Parent' = Parent
      BY DEF Branches, Parent
    <2> QED
      BY <1>3, <2>1, <2>2, <2>3 DEF StampsPast, IsRecord
  <1>11. StampsInOrder'
    <2>1. ASSUME NEW c \in Branches, NEW d \in Branches, Stamped(c)', Stamped(d)',
                 Before(lock', c, d)
          PROVE  /\ evt'[c].slot <= evt'[d].slot
                 /\ Records(d)' => evt'[c].slot < evt'[d].slot
      <3>1. c # b /\ (d = b \/ Before(lock, c, d))
        BY <1>3, <2>1
      <3>2. Stamped(c) /\ evt'[c] = evt[c] /\ evt[c].slot <= slot /\ evt[c].slot \in Nat
        BY <1>1, <1>3, <1>5, <1>6, <2>1, <3>1 DEF StampsPast
      <3>3. CASE d = b
        <4>1. evt'[d].slot = slot' /\ (Records(d)' => slot' = slot + 1)
          BY <1>3, <2>1, <3>3
        <4> QED
          BY <1>2, <1>4, <3>2, <4>1
      <3>4. CASE d # b /\ Before(lock, c, d)
        <4>1. Stamped(d) /\ evt'[d] = evt[d] /\ (Records(d)' <=> Records(d))
          BY <1>3, <1>6, <2>1, <3>4
        <4> QED
          BY <1>1, <3>2, <3>4, <4>1 DEF StampsInOrder
      <3> QED
        BY <3>1, <3>3, <3>4
    <2>2. Branches' = Branches
      BY DEF Branches
    <2> QED
      BY <2>1, <2>2 DEF StampsInOrder, Before
  <1>12. RecordsAhead'
    <2>1. ASSUME NEW c \in Branches, Records(c)', NEW i \in At', trace'[i].kind = "SlotAdvanced"
          PROVE  trace'[i].slot < evt'[c].slot
      <3>1. CASE c = b
        <4>1. evt'[c].slot = slot + 1
          BY <1>3, <2>1, <3>1 DEF Records
        <4> QED
          BY <1>2, <1>8, <1>9, <2>1, <4>1
      <3>2. CASE c # b
        <4>1. Records(c) /\ evt'[c] = evt[c]
          BY <1>3, <1>6, <2>1, <3>2
        <4>2. CASE i \in At /\ trace'[i] = trace[i]
          BY <1>1, <2>1, <4>1, <4>2 DEF RecordsAhead, IsRecord
        <4>3. CASE Stamped(b) /\ trace'[i] = evt[b]
          <5>1. lock # <<>> /\ Head(lock) = b /\ Queue(lock, Waiting)
            BY <1>1, <1>3, <4>3 DEF Holds, ParallelTypes
          <5>2. c \in Waiting
            BY <4>1, TaskKinds DEF Records, Stamped, Waiting, AtLock, Emits
          <5>3. Before(lock, b, c)
            BY <3>2, <5>1, <5>2, HeadBefore
          <5> QED
            BY <1>1, <4>1, <4>3, <5>3 DEF StampsInOrder, Records
        <4> QED
          BY <1>7, <2>1, <4>2, <4>3
      <3> QED
        BY <3>1, <3>2
    <2>2. Branches' = Branches
      BY DEF Branches
    <2> QED
      BY <2>1, <2>2 DEF RecordsAhead, IsRecord
  <1>13. TicksRecorded'
    <2>1. ASSUME NEW s \in 1..slot'
          PROVE  \/ \E i \in At' : trace'[i].kind = "SlotAdvanced" /\ trace'[i].slot = s
                 \/ \E c \in Branches : Records(c)' /\ evt'[c].slot = s
      <3>1. CASE s \in 1..slot
        <4>1. CASE \E i \in At : IsRecord(i) /\ trace[i].slot = s
          <5>1. PICK i \in At : trace[i].kind = "SlotAdvanced" /\ trace[i].slot = s
            BY <4>1 DEF IsRecord
          <5>2. i \in At' /\ trace'[i] = trace[i]
            <6>1. trace' = trace \/ trace' = Append(trace, evt[b])
              BY <1>3
            <6> QED
              BY <1>1, <1>5, <6>1, TraceGrows
          <5> QED
            BY <5>1, <5>2
        <4>2. CASE \E c \in Branches : Records(c) /\ evt[c].slot = s
          <5>1. PICK c \in Branches : Records(c) /\ evt[c].slot = s
            BY <4>2
          <5>2. CASE c = b
            <6>1. trace' = Append(trace, evt[b]) /\ evt[b].kind = "SlotAdvanced"
                  /\ evt[b].slot = s
              BY <1>3, <5>1, <5>2 DEF Records
            <6>2. Len(trace) + 1 \in At' /\ trace'[Len(trace) + 1] = evt[b]
              BY <1>1, <1>5, <6>1, RecordsAppend
            <6> QED
              BY <6>1, <6>2
          <5>3. CASE c # b
            BY <1>3, <1>6, <5>1, <5>3
          <5> QED
            BY <5>2, <5>3
        <4> QED
          BY <1>1, <3>1, <4>1, <4>2 DEF TicksRecorded
      <3>2. CASE s \notin 1..slot
        <4>1. slot' # slot /\ s \in Nat
          BY <1>4, <2>1, <3>2
        <4>2. Records(b)' /\ slot' = slot + 1
          BY <1>3, <4>1
        <4>3. evt'[b].slot = slot' /\ s = slot'
          BY <1>2, <1>3, <2>1, <3>2, <4>2 DEF Records
        <4> QED
          BY <4>2, <4>3
      <3> QED
        BY <3>1, <3>2
    <2>2. Branches' = Branches
      BY DEF Branches
    <2> QED
      BY <2>1, <2>2 DEF TicksRecorded, IsRecord
  <1> QED
    BY <1>10, <1>11, <1>12, <1>13 DEF StampsQueued

\* An event with a slot that is recorded, or that records it, keeps the trace
\* in order.
LEMMA FollowAppend ==
    ASSUME ParallelTypes, StampsFollowRecords, NEW x \in EventType, trace' = Append(trace, x),
           x.by \in Branches =>
             /\ x.slot > 0 => \/ x.kind = "SlotAdvanced"
                              \/ \E i \in At : IsRecord(i) /\ trace[i].slot = x.slot
             /\ x.kind = "SlotAdvanced" =>
                  \A i \in At : IsRecord(i) => trace[i].slot < x.slot
    PROVE  StampsFollowRecords'
  <1> DEFINE n == Len(trace)
  <1>1. /\ \A i \in At : i \in At' /\ trace'[i] = trace[i]
        /\ n + 1 \in At' /\ trace'[n + 1] = x
        /\ At = 1..n /\ At' = 1..(n + 1) /\ n \in Nat
        /\ \A i \in At' : \/ i \in At /\ trace'[i] = trace[i]
                          \/ i = n + 1 /\ trace'[i] = x
    BY RecordsAppend
  <1> HIDE DEF n
  <1>2. ASSUME NEW i \in At', trace'[i].by \in Branches
        PROVE  /\ trace'[i].slot > 0 =>
                    \E j \in 1..i : trace'[j].kind = "SlotAdvanced"
                                    /\ trace'[j].slot = trace'[i].slot
               /\ trace'[i].kind = "SlotAdvanced" =>
                    \A j \in 1..(i - 1) :
                        trace'[j].kind = "SlotAdvanced" => trace'[j].slot < trace'[i].slot
    <2>1. CASE i \in At /\ trace'[i] = trace[i]
      <3>1. \A j \in 1..i : j \in At /\ trace'[j] = trace[j]
        <4>1. \A j \in 1..i : j \in At
          BY <1>1, <2>1
        <4> QED
          BY <1>1, <4>1
      <3>2. \A j \in 1..(i - 1) : j \in 1..i
        BY <1>1, <2>1
      <3>3. /\ trace[i].slot > 0 => \E j \in 1..i : IsRecord(j) /\ trace[j].slot = trace[i].slot
            /\ IsRecord(i) =>
                 \A j \in 1..(i - 1) : IsRecord(j) => trace[j].slot < trace[i].slot
        BY <1>2, <2>1 DEF StampsFollowRecords
      <3>4. ASSUME trace'[i].slot > 0
            PROVE  \E j \in 1..i : trace'[j].kind = "SlotAdvanced"
                                   /\ trace'[j].slot = trace'[i].slot
        <4>1. PICK j \in 1..i : IsRecord(j) /\ trace[j].slot = trace[i].slot
          BY <2>1, <3>3, <3>4
        <4> QED
          BY <2>1, <3>1, <4>1 DEF IsRecord
      <3>5. ASSUME trace'[i].kind = "SlotAdvanced", NEW j \in 1..(i - 1),
                   trace'[j].kind = "SlotAdvanced"
            PROVE  trace'[j].slot < trace'[i].slot
        <4>1. IsRecord(i) /\ IsRecord(j)
          BY <2>1, <3>1, <3>2, <3>5 DEF IsRecord
        <4> QED
          BY <2>1, <3>1, <3>2, <3>3, <4>1
      <3> QED
        BY <3>4, <3>5
    <2>2. CASE i = n + 1 /\ trace'[i] = x
      <3>1. (\A j \in At : j \in 1..i) /\ i \in 1..i /\ \A j \in 1..(i - 1) : j \in At
        BY <1>1, <2>2
      <3>2. ASSUME x.slot > 0
            PROVE  \E j \in 1..i : trace'[j].kind = "SlotAdvanced" /\ trace'[j].slot = x.slot
        <4>1. CASE x.kind = "SlotAdvanced"
          BY <2>2, <3>1, <4>1
        <4>2. CASE \E j \in At : IsRecord(j) /\ trace[j].slot = x.slot
          <5>1. PICK j \in At : IsRecord(j) /\ trace[j].slot = x.slot
            BY <4>2
          <5> QED
            BY <1>1, <3>1, <5>1 DEF IsRecord
        <4> QED
          BY <1>2, <2>2, <3>2, <4>1, <4>2
      <3>3. ASSUME x.kind = "SlotAdvanced", NEW j \in 1..(i - 1), trace'[j].kind = "SlotAdvanced"
            PROVE  trace'[j].slot < x.slot
        <4>1. j \in At /\ trace'[j] = trace[j]
          BY <1>1, <3>1
        <4> QED
          BY <1>2, <2>2, <3>3, <4>1 DEF IsRecord
      <3> QED
        BY <2>2, <3>2, <3>3
    <2> QED
      BY <1>1, <2>1, <2>2
  <1>3. Branches' = Branches
    BY DEF Branches
  <1> QED
    BY <1>2, <1>3 DEF StampsFollowRecords, IsRecord

LEMMA FollowSame ==
    ASSUME StampsFollowRecords, trace' = trace
    PROVE  StampsFollowRecords'
  BY DEF StampsFollowRecords, IsRecord, At, Branches

\* What a branch writes has the slot of a record in the trace: were the record
\* still in the queue, the branch would not be ahead of it.
LEMMA MoveFollows ==
    ASSUME StampInv, pc[Parent] = "join", NEW b \in Branches, Stamped(b) => Holds(b),
           trace' = IF Stamped(b) THEN Append(trace, evt[b]) ELSE trace
    PROVE  StampsFollowRecords'
  <1>1. /\ ParallelTypes /\ StampsPast /\ StampsInOrder /\ RecordsAhead /\ TicksRecorded
        /\ StampsFollowRecords
    BY DEF StampInv, VerdictInv, StampsQueued
  <1>2. CASE ~Stamped(b)
    BY <1>1, <1>2, FollowSame
  <1>3. CASE Stamped(b)
    <2>1. /\ trace' = Append(trace, evt[b]) /\ lock # <<>> /\ Head(lock) = b
          /\ Queue(lock, Waiting)
      BY <1>1, <1>3 DEF Holds, ParallelTypes
    <2>2. b \in Tasks /\ evt[b] \in EventType /\ slot \in Nat /\ evt[b].slot \in Nat
          /\ evt[b].slot <= slot
      BY <1>1, <1>3, StampTypes, TaskKinds DEF StampsPast
    <2>3. ASSUME evt[b].slot > 0, evt[b].kind # "SlotAdvanced"
          PROVE  \E i \in At : IsRecord(i) /\ trace[i].slot = evt[b].slot
      <3>1. evt[b].slot \in 1..slot
        BY <2>2, <2>3
      <3>2. ASSUME NEW c \in Branches, Records(c), evt[c].slot = evt[b].slot
            PROVE  FALSE
        <4>1. c # b /\ c \in Waiting /\ Stamped(c)
          BY <2>3, <3>2, TaskKinds DEF Records, Stamped, Waiting, AtLock, Emits
        <4>2. Before(lock, b, c)
          BY <2>1, <4>1, HeadBefore
        <4>3. evt[b].slot < evt[c].slot
          BY <1>1, <1>3, <3>2, <4>1, <4>2 DEF StampsInOrder
        <4> QED
          BY <2>2, <3>2, <4>3
      <3> QED
        BY <1>1, <3>1, <3>2 DEF TicksRecorded
    <2>4. ASSUME evt[b].kind = "SlotAdvanced", NEW i \in At, IsRecord(i)
          PROVE  trace[i].slot < evt[b].slot
      BY <1>1, <1>3, <2>4 DEF RecordsAhead, Records
    <2>5. PICK x : x = evt[b]
      OBVIOUS
    <2> QED
      BY <1>1, <2>1, <2>2, <2>3, <2>4, <2>5, FollowAppend
  <1> QED
    BY <1>2, <1>3

\* A step that writes no record and leaves no branch with an event.
LEMMA QuietPast ==
    ASSUME ParallelTypes, StampsPast, slot' = slot, pc'[Parent] # "parallelStarted",
           NEW x \in EventType, x.kind # "SlotAdvanced",
           trace' = trace \/ trace' = Append(trace, x),
           \A c \in Branches : Stamped(c)' => Stamped(c) /\ evt'[c] = evt[c]
    PROVE  StampsPast' /\ \A i \in At' : trace'[i].kind = "SlotAdvanced" =>
                              i \in At /\ IsRecord(i) /\ trace'[i] = trace[i]
  <1>1. \A i \in At' : trace'[i].kind = "SlotAdvanced" =>
                              i \in At /\ IsRecord(i) /\ trace'[i] = trace[i]
    <2>1. CASE trace' = trace
      BY <2>1 DEF At, IsRecord
    <2>2. CASE trace' = Append(trace, x)
      <3>1. \A i \in At' : (i \in At /\ trace'[i] = trace[i]) \/ trace'[i] = x
        BY <2>2, RecordsAppend
      <3> QED
        BY <3>1 DEF IsRecord
    <2> QED
      BY <2>1, <2>2
  <1>2. \A i \in At' : trace'[i].kind = "SlotAdvanced" => trace'[i].slot <= slot'
    BY <1>1 DEF StampsPast
  <1>3. Branches' = Branches /\ Parent' = Parent
    BY DEF Branches, Parent
  <1>4. \A c \in Branches : Stamped(c)' => evt'[c].slot <= slot'
    BY DEF StampsPast
  <1> QED
    BY <1>1, <1>2, <1>3, <1>4 DEF StampsPast, IsRecord

LEMMA QuietFollows ==
    ASSUME ParallelTypes, StampsFollowRecords, NEW x \in EventType,
           trace' = trace \/ trace' = Append(trace, x),
           x.by \notin Branches
    PROVE  StampsFollowRecords'
  BY FollowSame, FollowAppend

LEMMA ErrStamps ==
    ASSUME "write" \notin MayFail, StampInv, NEW b \in Branches, BranchErr(b)
    PROVE  StampsQueued' /\ StampsFollowRecords'
  <1>1. /\ ParallelTypes /\ Roles /\ OwnEvents /\ AllTold /\ StampsPast /\ StampsFollowRecords
    BY DEF StampInv, VerdictInv, StampsQueued
  <1>2. /\ pc[b] = "branchFailed" /\ Holds(b) /\ JoinErr(b) /\ slot' = slot
        /\ trace' = Append(trace, evt[b]) /\ pc[b] \in Running /\ pc[b] \in Emits
    BY DEF BranchErr, Running, Emits
  <1>3. /\ pc[Parent] = "join" /\ pc'[Parent] = "verdicts" /\ pc'[b] = "err"
        /\ \A c \in Branches \ {b} : pc'[c] = IF pc[c] = "ok" THEN "ok" ELSE "dropped"
    BY <1>1, <1>2, ErrPlaces
  <1>4. \A c \in Branches : ~Stamped(c)'
    BY <1>3 DEF Stamped, Emits
  <1>5. evt[b] \in EventType /\ evt[b].kind = "ParallelBranchFailed"
    BY <1>1, <1>2, TaskKinds DEF ParallelTypes, OwnEvents
  <1>6. PICK x : x = evt[b]
    OBVIOUS
  <1>7. StampsPast'
    BY <1>1, <1>2, <1>3, <1>4, <1>5, <1>6, QuietPast
  <1>8. StampsFollowRecords'
    BY <1>2, <1>3, MoveFollows DEF Stamped
  <1> QED
    BY <1>3, <1>7, <1>8 DEF StampsQueued, Parent

LEMMA WorkerStamps ==
    ASSUME StampInv, NEW w \in Workers, WorkerNext(w)
    PROVE  StampsQueued' /\ StampsFollowRecords'
  <1>1. /\ ParallelTypes /\ Roles /\ OwnEvents /\ StampsPast /\ StampsFollowRecords
        /\ pc[Parent] = "join" => StampsInOrder /\ RecordsAhead /\ TicksRecorded
    BY DEF StampInv, VerdictInv, StampsQueued
  <1>2. w \in Tasks /\ slot' = slot /\ w \notin Branches /\ w # Parent
        /\ Queue(lock, Waiting)
    BY <1>1, TaskKinds DEF WorkerNext, WorkerEmits, WorkerWritten, ParallelTypes
  <1>3. /\ \A u \in Tasks \ {w} : pc'[u] = pc[u] /\ evt'[u] = evt[u]
        /\ trace' = trace \/ (pc[w] = "event" /\ trace' = Append(trace, evt[w]))
        /\ \A c, d \in Branches : Before(lock', c, d) => Before(lock, c, d)
    <2>1. CASE WorkerEmits(w)
      <3>1. /\ pc[w] = "idle" /\ lock' = Append(lock, w) /\ trace' = trace
            /\ \A u \in Tasks \ {w} : pc'[u] = pc[u] /\ evt'[u] = evt[u]
        BY <1>1, <2>1 DEF WorkerEmits, Enqueue, ParallelTypes
      <3>2. w \notin Waiting
        BY <3>1 DEF Waiting, AtLock
      <3>3. ASSUME NEW c \in Branches, NEW d \in Branches, Before(lock', c, d)
            PROVE  Before(lock, c, d)
        <4>1. Before(Append(lock, w), c, d) /\ d # w
          BY <1>2, <3>1, <3>3
        <4> QED
          BY <1>2, <3>2, <4>1, BeforeAppend
      <3> QED
        BY <3>1, <3>3
    <2>2. CASE WorkerWritten(w)
      <3>1. /\ pc[w] = "event" /\ lock' = Tail(lock) /\ lock # <<>>
            /\ \A u \in Tasks \ {w} : pc'[u] = pc[u] /\ evt'[u] = evt[u]
        BY <1>1, <2>2 DEF WorkerWritten, Write, Holds, Leave, ParallelTypes
      <3>2. trace' = trace \/ trace' = Append(trace, evt[w])
        BY <2>2 DEF WorkerWritten, Write
      <3>3. \A c, d \in Branches : Before(lock', c, d) => Before(lock, c, d)
        BY <1>2, <3>1, BeforeTail
      <3> QED
        BY <3>1, <3>2, <3>3
    <2> QED
      BY <2>1, <2>2 DEF WorkerNext
  <1>4. pc'[Parent] = pc[Parent] /\ \A c \in Branches : pc'[c] = pc[c] /\ evt'[c] = evt[c]
    BY <1>2, <1>3, TaskKinds
  <1>5. \A c \in Branches : (Stamped(c)' <=> Stamped(c)) /\ (Records(c)' <=> Records(c))
    BY <1>4 DEF Stamped, Records, Emits
  <1>6. \E x \in EventType : /\ x.kind = "WireEvent" /\ x.by = w
                             /\ trace' = trace \/ trace' = Append(trace, x)
    <2>1. CASE trace' = trace
      <3>1. Event("WireEvent", w, 0) \in EventType
        BY <1>2, EventTypes DEF Kinds
      <3>2. Event("WireEvent", w, 0).kind = "WireEvent" /\ Event("WireEvent", w, 0).by = w
        BY DEF Event, EventAbout
      <3> QED
        BY <2>1, <3>1, <3>2
    <2>2. CASE pc[w] = "event" /\ trace' = Append(trace, evt[w])
      <3>1. evt[w] \in EventType /\ evt[w] = Event("WireEvent", w, evt[w].slot)
        BY <1>1, <1>2, <2>2 DEF ParallelTypes, OwnEvents
      <3>2. \A s : Event("WireEvent", w, s).kind = "WireEvent" /\ Event("WireEvent", w, s).by = w
        BY DEF Event, EventAbout
      <3>3. evt[w].kind = "WireEvent" /\ evt[w].by = w
        BY <3>1, <3>2
      <3> QED
        BY <2>2, <3>1, <3>3
    <2> QED
      BY <1>3, <2>1, <2>2
  <1>7. PICK x \in EventType : /\ x.kind = "WireEvent" /\ x.by = w
                               /\ trace' = trace \/ trace' = Append(trace, x)
    BY <1>6
  <1>8. StampsFollowRecords'
    BY <1>1, <1>2, <1>7, QuietFollows
  <1>9. \A i \in At' : trace'[i].kind = "SlotAdvanced" =>
                          i \in At /\ IsRecord(i) /\ trace'[i] = trace[i]
    <2>1. CASE trace' = trace
      BY <2>1 DEF At, IsRecord
    <2>2. CASE trace' = Append(trace, x)
      <3>1. \A i \in At' : (i \in At /\ trace'[i] = trace[i]) \/ trace'[i] = x
        BY <1>1, <2>2, RecordsAppend
      <3> QED
        BY <1>7, <3>1 DEF IsRecord
    <2> QED
      BY <1>7, <2>1, <2>2
  <1>10. Branches' = Branches /\ Parent' = Parent
    BY DEF Branches, Parent
  <1>11. StampsPast'
    <2>1. \A i \in At' : trace'[i].kind = "SlotAdvanced" => trace'[i].slot <= slot'
      BY <1>1, <1>2, <1>9 DEF StampsPast
    <2>2. \A c \in Branches : Stamped(c)' => evt'[c].slot <= slot'
      BY <1>1, <1>2, <1>4, <1>5 DEF StampsPast
    <2> QED
      BY <1>1, <1>2, <1>4, <1>10, <2>1, <2>2 DEF StampsPast, IsRecord
  <1>12. ASSUME pc[Parent] = "join"
         PROVE  StampsInOrder' /\ RecordsAhead' /\ TicksRecorded'
    <2>1. StampsInOrder /\ RecordsAhead /\ TicksRecorded
      BY <1>1, <1>12
    <2>2. StampsInOrder'
      <3>1. ASSUME NEW c \in Branches, NEW d \in Branches, Stamped(c)', Stamped(d)',
                   Before(lock', c, d)
            PROVE  /\ evt'[c].slot <= evt'[d].slot
                   /\ Records(d)' => evt'[c].slot < evt'[d].slot
        BY <1>3, <1>4, <1>5, <2>1, <3>1 DEF StampsInOrder
      <3> QED
        BY <1>10, <3>1 DEF StampsInOrder, Before
    <2>3. RecordsAhead'
      <3>1. ASSUME NEW c \in Branches, Records(c)', NEW i \in At',
                   trace'[i].kind = "SlotAdvanced"
            PROVE  trace'[i].slot < evt'[c].slot
        BY <1>4, <1>5, <1>9, <2>1, <3>1 DEF RecordsAhead
      <3> QED
        BY <1>10, <3>1 DEF RecordsAhead, IsRecord
    <2>4. TicksRecorded'
      <3>1. \A i \in At : i \in At' /\ trace'[i] = trace[i]
        BY <1>1, <1>2, <1>3, TraceGrows
      <3>2. ASSUME NEW s \in 1..slot'
            PROVE  \/ \E i \in At' : trace'[i].kind = "SlotAdvanced" /\ trace'[i].slot = s
                   \/ \E c \in Branches : Records(c)' /\ evt'[c].slot = s
        <4>1. CASE \E i \in At : IsRecord(i) /\ trace[i].slot = s
          BY <3>1, <4>1 DEF IsRecord
        <4>2. CASE \E c \in Branches : Records(c) /\ evt[c].slot = s
          BY <1>4, <1>5, <4>2
        <4> QED
          BY <1>2, <2>1, <4>1, <4>2 DEF TicksRecorded
      <3> QED
        BY <1>10, <3>2 DEF TicksRecorded, IsRecord
    <2> QED
      BY <2>2, <2>3, <2>4
  <1> QED
    BY <1>4, <1>8, <1>10, <1>11, <1>12 DEF StampsQueued

\* The branches start with the clock where it was, all at once.
LEMMA StartStamps ==
    ASSUME "write" \notin MayFail, StampInv, ParallelStarted
    PROVE  StampsQueued' /\ StampsFollowRecords'
  <1>1. /\ ParallelTypes /\ Roles /\ OwnEvents /\ StampsPast /\ StampsFollowRecords
    BY DEF StampInv, VerdictInv, StampsQueued
  <1>2. Parent \in Tasks /\ pc[Parent] = "parallelStarted" /\ slot' = slot /\ slot = 0
    BY <1>1, TaskKinds DEF ParallelStarted, StampsPast
  <1>3. /\ trace' = Append(trace, evt[Parent])
        /\ pc' = [t \in Tasks |-> IF t = Parent THEN "join"
                                  ELSE IF t \in Branches THEN "branchStarted" ELSE pc[t]]
        /\ evt' = [t \in Tasks |-> IF t \in Branches
                       THEN Event("ParallelBranchStarted", t, slot) ELSE evt[t]]
    <2>1. PICK written \in BOOLEAN :
            /\ Write(Parent, written)
            /\ IF written
               THEN /\ pc' = [t \in Tasks |-> IF t = Parent THEN "join"
                                              ELSE IF t \in Branches THEN "branchStarted"
                                              ELSE pc[t]]
                    /\ evt' = [t \in Tasks |-> IF t \in Branches
                                   THEN Event("ParallelBranchStarted", t, slot) ELSE evt[t]]
               ELSE TRUE
      BY DEF ParallelStarted
    <2>2. written /\ trace' = Append(trace, evt[Parent])
      BY <1>1, <1>2, <2>1, WriteTypes
    <2> QED
      BY <2>1, <2>2
  <1>4. /\ pc'[Parent] = "join"
        /\ \A c \in Branches : evt'[c] = Event("ParallelBranchStarted", c, slot)
    BY <1>3, TaskKinds
  <1>5. \A c \in Branches : evt'[c].slot = 0 /\ evt'[c].kind = "ParallelBranchStarted"
    <2>1. \A c \in Branches : /\ Event("ParallelBranchStarted", c, slot).slot = slot
                              /\ Event("ParallelBranchStarted", c, slot).kind
                                   = "ParallelBranchStarted"
      BY DEF Event, EventAbout
    <2> QED
      BY <1>2, <1>4, <2>1
  <1>6. \A c \in Branches : ~Records(c)'
    BY <1>5 DEF Records
  <1>7. PICK x : x = evt[Parent]
    OBVIOUS
  <1>8. x \in EventType /\ x.kind = "ParallelStarted" /\ x.by \notin Branches
    <2>1. x \in EventType /\ x = Event("ParallelStarted", Parent, 0)
      BY <1>1, <1>2, <1>7 DEF ParallelTypes, OwnEvents
    <2>2. x.kind = "ParallelStarted" /\ x.by = Parent
      BY <2>1 DEF Event, EventAbout
    <2> QED
      BY <2>1, <2>2, TaskKinds
  <1>9. StampsFollowRecords'
    BY <1>1, <1>3, <1>7, <1>8, QuietFollows
  <1>10. Branches' = Branches /\ Parent' = Parent
    BY DEF Branches, Parent
  <1>11. StampsPast'
    <2>1. \A i \in At' : (i \in At /\ trace'[i] = trace[i]) \/ trace'[i] = x
      BY <1>1, <1>3, <1>7, <1>8, RecordsAppend
    <2>2. \A i \in At' : trace'[i].kind = "SlotAdvanced" => trace'[i].slot <= slot'
      BY <1>1, <1>2, <1>8, <2>1 DEF StampsPast, IsRecord
    <2>3. \A c \in Branches : evt'[c].slot <= slot'
      BY <1>2, <1>5
    <2> QED
      BY <1>4, <1>10, <2>2, <2>3 DEF StampsPast, IsRecord
  <1>12. StampsInOrder'
    BY <1>5, <1>6, <1>10 DEF StampsInOrder
  <1>13. RecordsAhead'
    BY <1>6, <1>10 DEF RecordsAhead
  <1>14. TicksRecorded'
    BY <1>2 DEF TicksRecorded
  <1> QED
    BY <1>9, <1>11, <1>12, <1>13, <1>14 DEF StampsQueued

\* Once the branches are gone, only the parent writes.
LEMMA ParentStamps ==
    ASSUME StampInv, Roles', AllJoined \/ Verdicts \/ ParallelCompleted
    PROVE  StampsQueued' /\ StampsFollowRecords'
  <1>1. /\ ParallelTypes /\ Roles /\ OwnEvents /\ StampsPast /\ StampsFollowRecords
    BY DEF StampInv, VerdictInv, StampsQueued
  <1>2. Parent \in Tasks /\ slot' = slot
    BY TaskKinds DEF AllJoined, Verdicts, ParallelCompleted
  <1>3. pc'[Parent] \in {"verdicts", "parallelCompleted", "done", "error"}
    <2>1. CASE AllJoined
      BY <1>1, <1>2, <2>1 DEF AllJoined, ParallelTypes
    <2>2. CASE Verdicts
      <3>1. pc[Parent] = "verdicts" /\ (pc' = pc \/ pc' = [pc EXCEPT ![Parent] = "error"])
        BY <2>2 DEF Verdicts, Leave
      <3> QED
        BY <1>1, <1>2, <3>1, MovedPc
    <2>3. CASE ParallelCompleted
      <3>1. PICK p \in {"done", "error"} : pc' = [pc EXCEPT ![Parent] = p]
        BY <2>3 DEF ParallelCompleted, Leave
      <3> QED
        BY <1>1, <1>2, <3>1, MovedPc
    <2> QED
      BY <2>1, <2>2, <2>3
  <1>4. \A c \in Branches : ~Stamped(c)'
    <2>1. pc'[Parent] \in {"verdicts", "error"} => \A c \in Branches : pc'[c] \notin Running
      BY DEF Roles, Branches, Parent, Running, Emits
    <2>2. pc'[Parent] \in {"parallelCompleted", "done"} => \A c \in Branches : pc'[c] = "ok"
      BY DEF Roles, Branches, Parent
    <2> QED
      BY <1>3, <2>1, <2>2 DEF Stamped, Running, Emits
  <1>5. \E x \in EventType : /\ x.kind # "SlotAdvanced" /\ x.by = Parent
                             /\ trace' = trace \/ trace' = Append(trace, x)
    <2>1. CASE AllJoined
      <3>1. trace' = trace
        BY <2>1 DEF AllJoined
      <3>2. Event("ParallelCompleted", Parent, 0) \in EventType
        BY <1>2, EventTypes DEF Kinds
      <3>3. /\ Event("ParallelCompleted", Parent, 0).kind # "SlotAdvanced"
            /\ Event("ParallelCompleted", Parent, 0).by = Parent
        BY DEF Event, EventAbout
      <3> QED
        BY <3>1, <3>2, <3>3
    <2>2. CASE Verdicts \/ ParallelCompleted
      <3>1. trace' = trace \/ trace' = Append(trace, evt[Parent])
        BY <2>2 DEF Verdicts, ParallelCompleted, Write
      <3>2. evt[Parent] \in EventType
        BY <1>1, <1>2 DEF ParallelTypes
      <3>3. pc[Parent] \in {"verdicts", "parallelCompleted"}
        BY <2>2 DEF Verdicts, ParallelCompleted
      <3>4. \/ evt[Parent] = Event("ParallelCompleted", Parent, evt[Parent].slot)
            \/ evt[Parent].kind = "ParallelBranchAborted" /\ evt[Parent].by = Parent
        BY <1>1, <3>3 DEF OwnEvents
      <3>5. \A s : /\ Event("ParallelCompleted", Parent, s).kind = "ParallelCompleted"
                   /\ Event("ParallelCompleted", Parent, s).by = Parent
        BY DEF Event, EventAbout
      <3>6. evt[Parent].kind # "SlotAdvanced" /\ evt[Parent].by = Parent
        BY <3>4, <3>5
      <3> QED
        BY <3>1, <3>2, <3>6
    <2> QED
      BY <2>1, <2>2
  <1>6. PICK x \in EventType : /\ x.kind # "SlotAdvanced" /\ x.by = Parent
                               /\ trace' = trace \/ trace' = Append(trace, x)
    BY <1>5
  <1>7. StampsPast'
    BY <1>1, <1>2, <1>3, <1>4, <1>6, QuietPast
  <1>8. StampsFollowRecords'
    BY <1>1, <1>6, QuietFollows, TaskKinds
  <1> QED
    BY <1>3, <1>7, <1>8 DEF StampsQueued, Parent

LEMMA StillStamps ==
    ASSUME StampInv, UNCHANGED vars
    PROVE  StampsQueued' /\ StampsFollowRecords'
  <1>1. UNCHANGED <<pc, lock, evt, trace, slot>>
    BY DEF vars
  <1>2. StampsFollowRecords'
    BY <1>1, FollowSame DEF StampInv
  <1>3. StampsPast => StampsPast'
    BY <1>1 DEF StampsPast, Stamped, IsRecord, At, Branches, Parent, Emits
  <1>4. StampsInOrder => StampsInOrder'
    BY <1>1 DEF StampsInOrder, Stamped, Records, Before, Branches, Emits
  <1>5. RecordsAhead => RecordsAhead'
    BY <1>1 DEF RecordsAhead, Stamped, Records, IsRecord, At, Branches, Emits
  <1>6. TicksRecorded => TicksRecorded'
    BY <1>1 DEF TicksRecorded, Stamped, Records, IsRecord, At, Branches, Emits
  <1> QED
    BY <1>1, <1>2, <1>3, <1>4, <1>5, <1>6 DEF StampInv, StampsQueued, Parent

LEMMA StampStep ==
    ASSUME "write" \notin MayFail, StampInv, [Next]_vars
    PROVE  StampInv'
  <1>1. VerdictInv /\ ParallelTypes /\ Roles
    BY DEF StampInv, VerdictInv
  <1>2. VerdictInv'
    BY <1>1, VerdictStep
  <1>3. ParallelTypes' /\ Roles'
    BY <1>2 DEF VerdictInv
  <1>4. CASE \E b \in Branches : BranchNext(b)
    <2>1. PICK b \in Branches : BranchNext(b)
      BY <1>4
    <2>2. BranchMove(b) \/ BranchErr(b)
      BY <1>1, <2>1, BranchSteps
    <2>3. CASE BranchMove(b)
      <3>1. StampMove(b)
        BY <1>1, <2>3, MoveStampMove
      <3>2. StampsQueued'
        BY <1>3, <3>1, MoveStamps
      <3>3. StampsFollowRecords'
        BY <3>1, MoveFollows DEF StampMove
      <3> QED
        BY <1>2, <3>2, <3>3 DEF StampInv
    <2>4. CASE BranchErr(b)
      BY <1>2, <2>4, ErrStamps DEF StampInv
    <2> QED
      BY <2>2, <2>3, <2>4
  <1> QED
    BY <1>2, <1>3, <1>4, StartStamps, ParentStamps, WorkerStamps, StillStamps
    DEF Next, ParentNext, StampInv

\* When the trace file takes every write, a branch's event carries a slot only
\* after the SlotAdvanced event that records how the clock got there, and the
\* records are in the order in which the clock moved, although each branch
\* reads the slot before it waits for the tracer.
THEOREM StampsAreRecorded ==
    ASSUME "write" \notin MayFail
    PROVE  Spec => []StampsFollowRecords
  <1>1. Init => StampInv
    <2> SUFFICES ASSUME Init PROVE StampInv
      OBVIOUS
    <2>1. /\ pc = [t \in Tasks |-> IF t = Parent THEN "parallelStarted" ELSE "idle"]
          /\ trace = <<>> /\ At = {} /\ slot = 0
      BY DEF Init, At
    <2>2. pc[Parent] = "parallelStarted" /\ \A c \in Branches : pc[c] = "idle"
      BY <2>1, TaskKinds
    <2>3. StampsQueued
      BY <2>1, <2>2 DEF StampsQueued, StampsPast, Stamped, Emits
    <2>4. StampsFollowRecords
      BY <2>1 DEF StampsFollowRecords
    <2> QED
      BY <2>3, <2>4, InitVerdicts DEF StampInv
  <1>2. StampInv => StampsFollowRecords
    BY DEF StampInv
  <1> QED
    BY <1>1, <1>2, StampStep, PTL DEF Spec
=============================================================================
