------------------------- MODULE ConnectionsProofs --------------------------
(***************************************************************************)
(* Who owns a connection, for every set of scenarios, names and variables, *)
(* every number of branches and of connections.                            *)
(***************************************************************************)
EXTENDS Connections, FiniteSetTheorems, TLAPS

-----------------------------------------------------------------------------
(* Steps and records.                                                      *)

\* The parts of a scenario.
LEMMA ScenarioParts ==
    ASSUME ControlTypes
    PROVE  /\ Len(scenario) \in Nat
           /\ \A k \in 1..Len(scenario) :
                /\ scenario[k].branches \in Seq(Seq(Steps))
                /\ scenario[k].times \in Nat
  <1>1. scenario \in Seq(Blocks)
    BY ScenariosAssumption DEF ControlTypes
  <1>2. \A x \in Blocks : x.branches \in Seq(Seq(Steps)) /\ x.times \in Nat
    BY DEF Blocks
  <1> QED
    BY <1>1, <1>2

\* A branch that is not done is in a step of the scenario.
LEMMA StepHere ==
    ASSUME ControlTypes, NEW b \in Branches, phase[b] # "done"
    PROVE  /\ blk \in 1..Len(scenario) /\ b \in DOMAIN scenario[blk].branches
           /\ Branch(b) \in Seq(Steps) /\ at[b] \in 1..Len(Branch(b))
           /\ Current(b) \in Steps
  <1>1. b \in BranchesHere /\ at[b] \in 1..Len(Branch(b))
    BY DEF ControlTypes, InStep
  <1>2. blk \in 1..Len(scenario)
    BY <1>1, ScenarioParts DEF BranchesHere, ControlTypes
  <1>3. b \in DOMAIN scenario[blk].branches
    BY <1>1, <1>2, ScenarioParts DEF BranchesHere
  <1>4. Branch(b) \in Seq(Steps)
    BY <1>2, <1>3, ScenarioParts DEF Branch
  <1> QED
    BY <1>1, <1>2, <1>3, <1>4 DEF Current

\* Its branch is one of the block's.
LEMMA BranchIndex ==
    ASSUME ControlTypes, NEW b \in Branches, phase[b] # "done"
    PROVE  b \in 1..Len(scenario[blk].branches)
  <1>1. blk \in 1..Len(scenario) /\ b \in DOMAIN scenario[blk].branches
    BY StepHere
  <1>2. scenario[blk].branches \in Seq(Seq(Steps))
    BY <1>1, ScenarioParts
  <1>3. PICK q \in Seq(Seq(Steps)) : q = scenario[blk].branches
    BY <1>2
  <1>4. DOMAIN q = 1..Len(q)
    OBVIOUS
  <1> QED
    BY <1>1, <1>3, <1>4

\* A step's fields.
LEMMA StepFields ==
    ASSUME NEW s \in Steps
    PROVE  s.name \in Names /\ s.on \in Names /\ s.output \in Vars \cup {NoVar}
  BY DEF Steps

\* Replacing one record.
LEMMA OneReplaced ==
    ASSUME NEW s \in Seq(ConnRecords), NEW c \in 1..Len(s), NEW r \in ConnRecords
    PROVE  /\ [s EXCEPT ![c] = r] \in Seq(ConnRecords)
           /\ Len([s EXCEPT ![c] = r]) = Len(s)
           /\ DOMAIN [s EXCEPT ![c] = r] = DOMAIN s
           /\ [s EXCEPT ![c] = r][c] = r
           /\ \A d \in DOMAIN s : d # c => [s EXCEPT ![c] = r][d] = s[d]
  OBVIOUS

\* An aborted connection.
LEMMA Aborted ==
    ASSUME NEW r \in ConnRecords
    PROVE  /\ Abort(r) \in ConnRecords
           /\ Abort(r).workers = {} /\ Abort(r).stage = r.stage
           /\ Abort(r).mux = "aborted" /\ Abort(r).used = r.used
  <1>1. r = [stage |-> r.stage, mux |-> r.mux, used |-> r.used, workers |-> r.workers]
    BY DEF ConnRecords
  <1>2. /\ r.stage \in {"open", "accepting", "probe"} /\ r.mux \in {"running", "closed", "aborted"}
        /\ r.used \subseteq Protocols /\ r.workers \subseteq {"keep-alive", "tx-submission"}
    BY DEF ConnRecords
  <1> QED
    BY <1>1, <1>2 DEF ConnRecords, Abort

\* A channel is taken.
LEMMA ChannelTaken ==
    ASSUME NEW r \in ConnRecords, NEW k \in Protocols
    PROVE  /\ [r EXCEPT !.used = @ \cup {k}] \in ConnRecords
           /\ [r EXCEPT !.used = @ \cup {k}].mux = r.mux
           /\ [r EXCEPT !.used = @ \cup {k}].stage = r.stage
           /\ [r EXCEPT !.used = @ \cup {k}].used = r.used \cup {k}
  <1>1. r = [stage |-> r.stage, mux |-> r.mux, used |-> r.used, workers |-> r.workers]
    BY DEF ConnRecords
  <1>2. /\ r.stage \in {"open", "accepting", "probe"} /\ r.mux \in {"running", "closed", "aborted"}
        /\ r.used \subseteq Protocols /\ r.workers \subseteq {"keep-alive", "tx-submission"}
    BY DEF ConnRecords
  <1> QED
    BY <1>1, <1>2 DEF ConnRecords

\* Workers are started, or one has ended.
LEMMA WorkersSet ==
    ASSUME NEW r \in ConnRecords, NEW w \in SUBSET {"keep-alive", "tx-submission"}
    PROVE  /\ [r EXCEPT !.workers = w] \in ConnRecords
           /\ [r EXCEPT !.workers = w].mux = r.mux /\ [r EXCEPT !.workers = w].stage = r.stage
           /\ [r EXCEPT !.workers = w].workers = w /\ [r EXCEPT !.workers = w].used = r.used
  <1>1. r = [stage |-> r.stage, mux |-> r.mux, used |-> r.used, workers |-> r.workers]
    BY DEF ConnRecords
  <1>2. /\ r.stage \in {"open", "accepting", "probe"} /\ r.mux \in {"running", "closed", "aborted"}
        /\ r.used \subseteq Protocols /\ r.workers \subseteq {"keep-alive", "tx-submission"}
    BY DEF ConnRecords
  <1> QED
    BY <1>1, <1>2 DEF ConnRecords

\* A connection has been set up.
LEMMA SetUp ==
    ASSUME NEW r \in ConnRecords
    PROVE  /\ [r EXCEPT !.stage = "open"] \in ConnRecords
           /\ [r EXCEPT !.stage = "open"].mux = r.mux
           /\ [r EXCEPT !.stage = "open"].used = r.used
  <1>1. r = [stage |-> r.stage, mux |-> r.mux, used |-> r.used, workers |-> r.workers]
    BY DEF ConnRecords
  <1>2. /\ r.stage \in {"open", "accepting", "probe"} /\ r.mux \in {"running", "closed", "aborted"}
        /\ r.used \subseteq Protocols /\ r.workers \subseteq {"keep-alive", "tx-submission"}
    BY DEF ConnRecords
  <1> QED
    BY <1>1, <1>2 DEF ConnRecords

\* The peer has closed it.
LEMMA PeerGone ==
    ASSUME NEW r \in ConnRecords
    PROVE  /\ [r EXCEPT !.mux = "closed"] \in ConnRecords
           /\ [r EXCEPT !.mux = "closed"].mux = "closed" /\ [r EXCEPT !.mux = "closed"].stage = r.stage
           /\ [r EXCEPT !.mux = "closed"].used = r.used
  <1>1. r = [stage |-> r.stage, mux |-> r.mux, used |-> r.used, workers |-> r.workers]
    BY DEF ConnRecords
  <1>2. /\ r.stage \in {"open", "accepting", "probe"} /\ r.mux \in {"running", "closed", "aborted"}
        /\ r.used \subseteq Protocols /\ r.workers \subseteq {"keep-alive", "tx-submission"}
    BY DEF ConnRecords
  <1> QED
    BY <1>1, <1>2 DEF ConnRecords

\* One more record.
LEMMA OneAppended ==
    ASSUME NEW s \in Seq(ConnRecords), NEW r \in ConnRecords
    PROVE  /\ Append(s, r) \in Seq(ConnRecords)
           /\ Len(Append(s, r)) = Len(s) + 1
           /\ DOMAIN Append(s, r) = 1..Len(s) + 1
           /\ Append(s, r)[Len(s) + 1] = r
           /\ \A d \in DOMAIN s : Append(s, r)[d] = s[d]
  OBVIOUS

\* The branch goes on, fails or waits: the control state keeps its type.
LEMMA Advances ==
    ASSUME ControlTypes, NEW b \in Branches, phase[b] # "done", UNCHANGED control,
           \/ Ok(b)
           \/ \E why \in Reasons : Err(b, why)
           \/ \E p \in Phases : Await(b, p)
    PROVE  /\ ControlTypes'
           /\ \A d \in Branches : d # b => phase'[d] = phase[d]
  <1>1. /\ Branch(b) \in Seq(Steps) /\ at[b] \in 1..Len(Branch(b)) /\ b \in BranchesHere
        /\ Len(Branch(b)) \in Nat
    BY StepHere DEF ControlTypes, InStep
  <1>2. /\ scenario' = scenario /\ blk' = blk /\ iter' = iter /\ run' = run
    BY DEF control
  <1>3. /\ BranchesHere' = BranchesHere /\ \A d : Branch(d)' = Branch(d)
    BY <1>2 DEF BranchesHere, Branch
  <1>4. /\ at' \in [Branches -> Nat] /\ phase' \in [Branches -> Phases] /\ errs' \subseteq Reasons
        /\ \A d \in Branches : d # b => at'[d] = at[d] /\ phase'[d] = phase[d]
        /\ at'[b] \in 1..Len(Branch(b))
    <2>1. CASE Ok(b)
      <3>1. /\ at \in [Branches -> Nat] /\ phase \in [Branches -> Phases]
            /\ "next" \in Phases /\ "done" \in Phases /\ errs \subseteq Reasons
        BY DEF ControlTypes, Phases
      <3>2. CASE at[b] < Len(Branch(b))
        BY <1>1, <2>1, <3>1, <3>2 DEF Ok
      <3>3. CASE ~(at[b] < Len(Branch(b)))
        BY <1>1, <2>1, <3>1, <3>3 DEF Ok
      <3> QED
        BY <3>2, <3>3
    <2>2. CASE \E why \in Reasons : Err(b, why)
      BY <1>1, <2>2 DEF Err, ControlTypes, Phases
    <2>3. CASE \E p \in Phases : Await(b, p)
      BY <1>1, <2>3 DEF Await, ControlTypes
    <2> QED
      BY <2>1, <2>2, <2>3
  <1>5. InStep'
    BY <1>1, <1>3, <1>4 DEF InStep, ControlTypes
  <1> QED
    BY <1>2, <1>4, <1>5 DEF ControlTypes
-----------------------------------------------------------------------------
(* How connections change hands.                                           *)

\* Nothing does.
LEMMA NothingMoves ==
    ASSUME TableTypes, Apart, UNCHANGED <<connections, server_connections, held>>
    PROVE  Apart' /\ \A c : Unowned(c) => Unowned(c)'
  BY DEF Apart, Unowned

\* A new connection goes into a map; what was under the name is dropped.
LEMMA PutFresh ==
    ASSUME TableTypes, Apart, NEW n \in Names, NEW side, Put(side, n, NewConn), UNCHANGED held
    PROVE  Apart' /\ \A c \in 1..Len(conns) : Unowned(c) => Unowned(c)'
  <1>1. Len(conns) \in Nat
    BY DEF TableTypes
  <1>2. CASE side = "client"
    BY <1>1, <1>2, SMTT(20) DEF TableTypes, Apart, Unowned, Put, NewConn, None
  <1>3. CASE side # "client"
    BY <1>1, <1>3 DEF TableTypes, Apart, Unowned, Put, NewConn, None
  <1> QED
    BY <1>2, <1>3

\* A connection is taken out of a map and is in the hand of a branch.
LEMMA TakeOut ==
    ASSUME TableTypes, Apart, NEW b \in Branches, NEW n \in Names, NEW side,
           Lookup(side, n) # None, Hold(b, Lookup(side, n)), Put(side, n, None)
    PROVE  Apart' /\ \A c \in 1..Len(conns) : Unowned(c) => Unowned(c)'
  <1>1. Len(conns) \in Nat
    BY DEF TableTypes
  <1>2. CASE side = "client"
    <2>1. /\ connections[n] # None /\ server_connections' = server_connections
          /\ connections' = [connections EXCEPT ![n] = None]
          /\ held' = [held EXCEPT ![b] = connections[n]]
      BY <1>2 DEF Put, Hold, Lookup
    <2>2. Apart'
      BY <1>1, <2>1 DEF TableTypes, Apart, None
    <2>3. \A c \in 1..Len(conns) : Unowned(c) => Unowned(c)'
      BY <1>1, <2>1 DEF TableTypes, Unowned, None
    <2> QED
      BY <2>2, <2>3
  <1>3. CASE side # "client"
    BY <1>1, <1>3 DEF TableTypes, Apart, Unowned, Put, Hold, Lookup, None
  <1> QED
    BY <1>2, <1>3

\* A connection goes from the hand of a branch into a map.
LEMMA GiveBack ==
    ASSUME TableTypes, Apart, NEW b \in Branches, NEW n \in Names, NEW side,
           Put(side, n, held[b]), Hold(b, None)
    PROVE  Apart' /\ \A c \in 1..Len(conns) : Unowned(c) => Unowned(c)'
  <1>1. Len(conns) \in Nat
    BY DEF TableTypes
  <1>2. CASE side = "client"
    BY <1>1, <1>2 DEF TableTypes, Apart, Unowned, Put, Hold, None
  <1>3. CASE side # "client"
    BY <1>1, <1>3 DEF TableTypes, Apart, Unowned, Put, Hold, None
  <1> QED
    BY <1>2, <1>3

\* A connection is removed from the client map, and is nowhere.
LEMMA PutNone ==
    ASSUME TableTypes, Apart, NEW n \in Names, Put("client", n, None), UNCHANGED held
    PROVE  Apart' /\ \A c \in 1..Len(conns) : Unowned(c) \/ c = connections[n] => Unowned(c)'
  <1>1. /\ Len(conns) \in Nat /\ server_connections' = server_connections
        /\ connections' = [connections EXCEPT ![n] = None]
    BY DEF TableTypes, Put
  <1>2. Apart'
    BY <1>1 DEF TableTypes, Apart, None
  <1>3. \A c \in 1..Len(conns) : Unowned(c) \/ c = connections[n] => Unowned(c)'
    <2> SUFFICES ASSUME NEW c \in 1..Len(conns), Unowned(c) \/ c = connections[n]
                 PROVE  Unowned(c)'
      OBVIOUS
    <2>1. c # None
      BY <1>1 DEF None
    <2>2. /\ \A m \in Names : connections'[m] \in {connections[m], None} /\ connections'[n] = None
          /\ \A m \in Names : m # n => connections'[m] = connections[m]
      BY <1>1 DEF TableTypes
    <2>3. CASE Unowned(c)
      BY <1>1, <2>1, <2>2, <2>3, Zenon DEF Unowned
    <2>4. CASE c = connections[n]
      BY <1>1, <2>1, <2>2, <2>4 DEF Unowned, Apart
    <2> QED
      BY <2>3, <2>4
  <1> QED
    BY <1>2, <1>3

\* A new connection is in the hand of a branch.
LEMMA HoldFresh ==
    ASSUME TableTypes, Apart, NEW b \in Branches, Hold(b, NewConn),
           UNCHANGED <<connections, server_connections>>
    PROVE  Apart' /\ \A c \in 1..Len(conns) : Unowned(c) => Unowned(c)'
  <1>1. Len(conns) \in Nat
    BY DEF TableTypes
  <1> QED
    BY <1>1 DEF TableTypes, Apart, Unowned, Hold, NewConn, None

\* A branch lets go of its connection, which is nowhere then.
LEMMA LetGo ==
    ASSUME TableTypes, Apart, NEW b \in Branches, Hold(b, None),
           UNCHANGED <<connections, server_connections>>
    PROVE  Apart' /\ \A c \in 1..Len(conns) : Unowned(c) \/ c = held[b] => Unowned(c)'
  <1>1. Len(conns) \in Nat
    BY DEF TableTypes
  <1> QED
    BY <1>1 DEF TableTypes, Apart, Unowned, Hold, None
\* The tables keep their types when entries are replaced.
LEMMA PutTyped ==
    ASSUME TableTypes, NEW n \in Names, NEW side, NEW x, Put(side, n, x),
           Len(conns') \in Nat, Len(conns) <= Len(conns'), x \in 0..Len(conns')
    PROVE  /\ connections' \in [Names -> 0..Len(conns')]
           /\ server_connections' \in [Names -> 0..Len(conns')]
  <1> DEFINE Ids == 0..Len(conns')
  <1>1. /\ connections \in [Names -> Ids] /\ server_connections \in [Names -> Ids]
        /\ x \in Ids
    <2>1. Len(conns) \in Nat
      BY DEF TableTypes
    <2>2. \A i \in 0..Len(conns) : i \in Ids
      BY <2>1
    <2> HIDE DEF Ids
    <2> QED
      BY <2>2 DEF TableTypes, Ids
  <1> HIDE DEF Ids
  <1>2. CASE side = "client"
    BY <1>1, <1>2 DEF Put, Ids
  <1>3. CASE side # "client"
    BY <1>1, <1>3 DEF Put, Ids
  <1> QED
    BY <1>2, <1>3

LEMMA HoldTyped ==
    ASSUME TableTypes, NEW b \in Branches, NEW x, Hold(b, x),
           Len(conns') \in Nat, Len(conns) <= Len(conns'), x \in 0..Len(conns')
    PROVE  /\ held' \in [Branches -> 0..Len(conns')]
           /\ held'[b] = x /\ \A d \in Branches : d # b => held'[d] = held[d]
  <1>1. Len(conns) \in Nat
    BY DEF TableTypes
  <1> QED
    BY <1>1 DEF TableTypes, Hold

\* A record changes; only an owner that lets go may abort the connection.
LEMMA RecordChanges ==
    ASSUME TableTypes, AbortedIsGone, \A c \in 1..Len(conns) : Unowned(c) => Unowned(c)',
           NEW d \in 1..Len(conns), NEW r \in ConnRecords, conns' = [conns EXCEPT ![d] = r],
           r.mux = "aborted" => r.workers = {} /\ \A c : c = d => Unowned(c)'
    PROVE  /\ AbortedIsGone' /\ conns' \in Seq(ConnRecords) /\ Len(conns') = Len(conns)
           /\ conns'[d] = r /\ \A c \in 1..Len(conns) : c # d => conns'[c] = conns[c]
  <1>1. conns \in Seq(ConnRecords) /\ DOMAIN conns = 1..Len(conns)
    BY DEF TableTypes
  <1>2. /\ conns' \in Seq(ConnRecords) /\ Len(conns') = Len(conns) /\ DOMAIN conns' = DOMAIN conns
        /\ conns'[d] = r /\ \A c \in DOMAIN conns : c # d => conns'[c] = conns[c]
    BY <1>1, OneReplaced
  <1>3. AbortedIsGone'
    BY <1>1, <1>2, Zenon DEF AbortedIsGone
  <1> QED
    BY <1>1, <1>2, <1>3

LEMMA NoRecordChanges ==
    ASSUME TableTypes, AbortedIsGone, \A c \in 1..Len(conns) : Unowned(c) => Unowned(c)',
           conns' = conns
    PROVE  /\ AbortedIsGone' /\ conns' \in Seq(ConnRecords) /\ Len(conns') = Len(conns)
           /\ \A c \in 1..Len(conns) : conns'[c].stage = conns[c].stage
  <1>1. conns \in Seq(ConnRecords) /\ DOMAIN conns = 1..Len(conns)
    BY DEF TableTypes
  <1> QED
    BY <1>1 DEF AbortedIsGone

\* A connection is opened.
LEMMA RecordAdded ==
    ASSUME TableTypes, AbortedIsGone, \A c \in 1..Len(conns) : Unowned(c) => Unowned(c)',
           NEW stage \in {"open", "accepting", "probe"}, Opened(stage)
    PROVE  /\ AbortedIsGone' /\ conns' \in Seq(ConnRecords) /\ Len(conns') <= MaxConns
           /\ Len(conns') = Len(conns) + 1 /\ Len(conns) \in Nat
           /\ conns'[NewConn].stage = stage /\ NewConn \in 1..Len(conns')
           /\ \A c \in 1..Len(conns) : conns'[c] = conns[c]
  <1>1. conns \in Seq(ConnRecords) /\ DOMAIN conns = 1..Len(conns) /\ Len(conns) \in Nat
    BY DEF TableTypes
  <1>2. Conn(stage) \in ConnRecords /\ Conn(stage).mux = "running" /\ Conn(stage).stage = stage
    BY DEF Conn, ConnRecords
  <1> DEFINE r == Conn(stage)
  <1> HIDE DEF r
  <1>3. conns' = Append(conns, r) /\ Len(conns) < MaxConns /\ r \in ConnRecords
    BY <1>2 DEF Opened, r
  <1>4. /\ conns' \in Seq(ConnRecords) /\ Len(conns') = Len(conns) + 1
        /\ DOMAIN conns' = 1..Len(conns) + 1
        /\ conns'[Len(conns) + 1] = r /\ \A c \in 1..Len(conns) : conns'[c] = conns[c]
    BY <1>1, <1>3, OneAppended
  <1>5. AbortedIsGone'
    <2> SUFFICES ASSUME NEW c \in DOMAIN conns', conns'[c].mux = "aborted"
                 PROVE  conns'[c].workers = {} /\ Unowned(c)'
      BY DEF AbortedIsGone
    <2>1. c # Len(conns) + 1
      BY <1>2, <1>4 DEF r
    <2>2. c \in 1..Len(conns)
      BY <1>1, <1>4, <2>1
    <2> QED
      BY <1>1, <1>4, <2>2 DEF AbortedIsGone
  <1> QED
    BY <1>1, <1>2, <1>3, <1>4, <1>5, ConnectionsAssumption DEF NewConn, r

\* One branch moves on, and the other hands stay as they are.
LEMMA HandsKept ==
    ASSUME HandsFull, NEW b \in Branches,
           \A d \in Branches : d # b => phase'[d] = phase[d] /\ held'[d] = held[d],
           \A d \in Branches : d # b /\ held[d] # None =>
                                 conns'[held[d]].stage = conns[held[d]].stage,
           held'[b] # None <=> phase'[b] \in Holding,
           phase'[b] = "probing" => conns'[held'[b]].stage = "probe",
           phase'[b] \in {"negotiating", "accepted"} => conns'[held'[b]].stage = "accepting"
    PROVE  HandsFull'
  <1> SUFFICES ASSUME NEW d \in Branches
               PROVE  /\ held'[d] # None <=> phase'[d] \in Holding
                      /\ phase'[d] = "probing" => conns'[held'[d]].stage = "probe"
                      /\ phase'[d] \in {"negotiating", "accepted"} =>
                           conns'[held'[d]].stage = "accepting"
    BY DEF HandsFull
  <1>1. CASE d = b
    BY <1>1
  <1>2. CASE d # b
    BY <1>2 DEF HandsFull, Holding
  <1> QED
    BY <1>1, <1>2

\* A branch whose step returns, or waits.
LEMMA Returned ==
    ASSUME ControlTypes, NEW b \in Branches, phase[b] # "done", UNCHANGED control,
           Ok(b) \/ \E why \in Reasons : Err(b, why)
    PROVE  /\ ControlTypes' /\ phase'[b] \notin Holding
           /\ phase'[b] \notin {"probing", "negotiating", "accepted"}
           /\ \A d \in Branches : d # b => phase'[d] = phase[d]
  <1>1. ControlTypes' /\ \A d \in Branches : d # b => phase'[d] = phase[d]
    BY Advances
  <1>2. phase'[b] \in {"next", "done", "err"}
    BY DEF Ok, Err, ControlTypes
  <1> QED
    BY <1>1, <1>2 DEF Holding

LEMMA Awaits ==
    ASSUME ControlTypes, NEW b \in Branches, phase[b] # "done", UNCHANGED control,
           NEW p \in Phases, Await(b, p)
    PROVE  /\ ControlTypes' /\ phase'[b] = p
           /\ \A d \in Branches : d # b => phase'[d] = phase[d]
  <1>1. ControlTypes' /\ \A d \in Branches : d # b => phase'[d] = phase[d]
    BY Advances
  <1> QED
    BY <1>1 DEF Await, ControlTypes
\* A step's result is stored.
LEMMA StoreTyped ==
    ASSUME ControlTypes, TableTypes, NEW b \in Branches, phase[b] # "done", Store(b)
    PROVE  store' \in [Vars -> Seq(Nat)]
  <1>1. Current(b).output \in Vars \cup {NoVar}
    BY StepHere, StepFields
  <1>2. blk \in Nat /\ iter \in Nat /\ b \in Nat /\ at[b] \in Nat
    BY StepHere, ScenarioParts, ConnectionsAssumption DEF ControlTypes, Branches
  <1>3. Site(blk, iter, b, at[b]) \in Seq(Nat)
    BY <1>2 DEF Site
  <1> QED
    BY <1>1, <1>3 DEF Store, TableTypes

\* What is to be shown of the step of a branch.
LEMMA BranchKeeps ==
    ASSUME run' = "running", ControlTypes', TableTypes', HandsFull', Apart', AbortedIsGone'
    PROVE  ConnectionTypes' /\ ConnectionInv'
  BY DEF ConnectionTypes, ConnectionInv, CleanedUp

-----------------------------------------------------------------------------
(* The steps that take no connection into the hand.                        *)

\* A step that only moves on in its branch, or changes the listeners.
LEMMA TouchesNothing ==
    ASSUME ConnectionTypes, ConnectionInv, NEW b \in Branches,
           run = "running", phase[b] \in {"next", "accepting"}, UNCHANGED control,
           \/ Ok(b)
           \/ \E why \in Reasons : Err(b, why)
           \/ Await(b, "accepting"),
           UNCHANGED <<held, connections, server_connections, store, conns>>,
           listeners' \subseteq Names
    PROVE  ConnectionTypes' /\ ConnectionInv'
  <1>1. ControlTypes /\ TableTypes /\ HandsFull /\ Apart /\ AbortedIsGone /\ phase[b] # "done"
    BY DEF ConnectionTypes, ConnectionInv
  <1>2. /\ ControlTypes' /\ phase'[b] \notin Holding
        /\ phase'[b] \notin {"probing", "negotiating", "accepted"}
        /\ \A d \in Branches : d # b => phase'[d] = phase[d]
    <2>1. CASE Await(b, "accepting")
      <3>1. "accepting" \in Phases
        BY DEF Phases
      <3> QED
        BY <1>1, <2>1, <3>1, Awaits DEF Holding
    <2>2. CASE Ok(b) \/ \E why \in Reasons : Err(b, why)
      BY <1>1, <2>2, Returned
    <2> QED
      BY <2>1, <2>2
  <1>3. held[b] = None
    BY <1>1 DEF HandsFull, Holding
  <1>4. HandsFull'
    BY <1>1, <1>2, <1>3, HandsKept
  <1>5. Apart' /\ AbortedIsGone'
    BY <1>1, NothingMoves DEF AbortedIsGone
  <1>6. TableTypes'
    BY <1>1 DEF TableTypes
  <1> QED
    BY <1>2, <1>4, <1>5, <1>6, BranchKeeps DEF control

LEMMA ConnectKeeps ==
    ASSUME ConnectionTypes, ConnectionInv, NEW b \in Branches, Connect(b)
    PROVE  ConnectionTypes' /\ ConnectionInv'
  <1>1. /\ ControlTypes /\ TableTypes /\ HandsFull /\ Apart /\ AbortedIsGone
        /\ phase[b] = "next" /\ run = "running" /\ run' = run
    BY DEF ConnectionTypes, ConnectionInv, Connect, In, control
  <1>2. /\ Opened("open") /\ Put("client", Current(b).name, NewConn)
        /\ UNCHANGED <<control, held, listeners, store>>
        /\ Ok(b) \/ \E why \in Reasons : Err(b, why)
    BY DEF Connect, Returns, Reasons
  <1>3. Current(b).name \in Names
    BY <1>1, StepHere, StepFields
  <1>4. Apart' /\ \A c \in 1..Len(conns) : Unowned(c) => Unowned(c)'
    BY <1>1, <1>2, <1>3, PutFresh
  <1>5. /\ AbortedIsGone' /\ conns' \in Seq(ConnRecords) /\ Len(conns') <= MaxConns
        /\ Len(conns') = Len(conns) + 1 /\ Len(conns) \in Nat
        /\ NewConn \in 1..Len(conns')
        /\ \A c \in 1..Len(conns) : conns'[c] = conns[c]
    BY <1>1, <1>2, <1>4, RecordAdded
  <1>6. /\ ControlTypes' /\ phase'[b] \notin Holding
        /\ phase'[b] \notin {"probing", "negotiating", "accepted"}
        /\ \A d \in Branches : d # b => phase'[d] = phase[d]
    BY <1>1, <1>2, Returned
  <1>7. held[b] = None /\ held' = held
    BY <1>1, <1>2 DEF HandsFull, Holding
  <1>8. \A d \in Branches : held[d] # None => conns'[held[d]] = conns[held[d]]
    BY <1>1, <1>5 DEF TableTypes, None
  <1>9. HandsFull'
    BY <1>1, <1>6, <1>7, <1>8, HandsKept
  <1>10. /\ connections' \in [Names -> 0..Len(conns')]
         /\ server_connections' \in [Names -> 0..Len(conns')]
    <2>1. NewConn \in 0..Len(conns') /\ Len(conns') \in Nat /\ Len(conns) <= Len(conns')
      BY <1>5
    <2> QED
      BY <1>1, <1>2, <1>3, <2>1, PutTyped
  <1>11. held' \in [Branches -> 0..Len(conns')]
    BY <1>1, <1>5, <1>7 DEF TableTypes
  <1>12. TableTypes'
    BY <1>1, <1>2, <1>5, <1>10, <1>11 DEF TableTypes
  <1> QED
    BY <1>1, <1>4, <1>5, <1>6, <1>9, <1>12, BranchKeeps

LEMMA DisconnectKeeps ==
    ASSUME ConnectionTypes, ConnectionInv, NEW b \in Branches, Disconnect(b)
    PROVE  ConnectionTypes' /\ ConnectionInv'
  <1> DEFINE n == Current(b).name
             c == connections[n]
  <1>1. /\ ControlTypes /\ TableTypes /\ HandsFull /\ Apart /\ AbortedIsGone
        /\ phase[b] = "next" /\ run = "running" /\ run' = run
    BY DEF ConnectionTypes, ConnectionInv, Disconnect, In, control
  <1>2. n \in Names
    BY <1>1, StepHere, StepFields
  <1>3. CASE c = None
    <2>1. Err(b, "not_found") /\ UNCHANGED <<control, held, tables, store, conns>>
      BY <1>3 DEF Disconnect, tables
    <2>2. "not_found" \in Reasons
      BY DEF Reasons
    <2> QED
      BY <1>1, <2>1, <2>2, TouchesNothing DEF tables, TableTypes
  <1>4. CASE c # None
    <2>1. /\ conns' = [conns EXCEPT ![c] = Abort(@)] /\ Put("client", n, None)
          /\ UNCHANGED <<control, held, listeners, store>>
          /\ Ok(b) \/ \E why \in Reasons : Err(b, why)
      BY <1>4 DEF Disconnect, Returns, Reasons
    <2> HIDE DEF n
    <2>2. c \in 1..Len(conns) /\ Len(conns) \in Nat
      BY <1>1, <1>2, <1>4 DEF TableTypes, None
    <2>3. /\ Apart' /\ \A x \in 1..Len(conns) : Unowned(x) => Unowned(x)'
          /\ \A x \in 1..Len(conns) : x = c => Unowned(x)'
      BY <1>1, <1>2, <2>1, PutNone
    <2> HIDE DEF c
    <2>4. /\ Abort(conns[c]) \in ConnRecords /\ Abort(conns[c]).workers = {}
          /\ Abort(conns[c]).stage = conns[c].stage
      <3>1. conns[c] \in ConnRecords
        BY <1>1, <2>2 DEF TableTypes
      <3> QED
        BY <3>1, Aborted
    <2>5. /\ AbortedIsGone' /\ conns' \in Seq(ConnRecords) /\ Len(conns') = Len(conns)
          /\ conns'[c] = Abort(conns[c])
          /\ \A x \in 1..Len(conns) : x # c => conns'[x] = conns[x]
      <3>1. \A x : x = c => Unowned(x)'
        BY <2>2, <2>3
      <3>2. conns' = [conns EXCEPT ![c] = Abort(conns[c])]
        BY <2>1
      <3> HIDE DEF Abort
      <3> QED
        BY <1>1, <2>2, <2>3, <2>4, <3>1, <3>2, RecordChanges
    <2>6. /\ ControlTypes' /\ phase'[b] \notin Holding
          /\ phase'[b] \notin {"probing", "negotiating", "accepted"}
          /\ \A d \in Branches : d # b => phase'[d] = phase[d]
      BY <1>1, <2>1, Returned
    <2>7. held[b] = None /\ held' = held
      BY <1>1, <2>1 DEF HandsFull, Holding
    <2>8. \A d \in Branches : held[d] # None => conns'[held[d]].stage = conns[held[d]].stage
      BY <1>1, <2>4, <2>5 DEF TableTypes, None
    <2>9. HandsFull'
      BY <1>1, <2>6, <2>7, <2>8, HandsKept
    <2>10. /\ connections' \in [Names -> 0..Len(conns')]
           /\ server_connections' \in [Names -> 0..Len(conns')]
      <3>1. None \in 0..Len(conns') /\ Len(conns') \in Nat /\ Len(conns) <= Len(conns')
        BY <2>2, <2>5 DEF None
      <3> QED
        BY <1>1, <1>2, <2>1, <3>1, PutTyped
    <2>11. TableTypes'
      BY <1>1, <2>1, <2>5, <2>7, <2>10 DEF TableTypes
    <2> QED
      BY <1>1, <2>3, <2>5, <2>6, <2>9, <2>11, BranchKeeps
  <1> QED
    BY <1>3, <1>4
-----------------------------------------------------------------------------
(* The steps that have a connection in hand.                               *)

\* The hand of a branch in these phases has one.
LEMMA InHand ==
    ASSUME TableTypes, HandsFull, NEW b \in Branches, phase[b] \in Holding
    PROVE  /\ held[b] \in 1..Len(conns) /\ Len(conns) \in Nat
           /\ conns[held[b]] \in ConnRecords /\ ~Unowned(held[b])
  <1>1. held[b] # None /\ held[b] \in 0..Len(conns) /\ Len(conns) \in Nat
    BY DEF HandsFull, TableTypes
  <1>2. held[b] \in 1..Len(conns)
    BY <1>1 DEF None
  <1>3. conns[held[b]] \in ConnRecords
    BY <1>2 DEF TableTypes
  <1> QED
    BY <1>1, <1>2, <1>3 DEF Unowned

\* The guard of the step is dropped as the step returns.
LEMMA ReinsertKeeps ==
    ASSUME ConnectionTypes, ConnectionInv, NEW b \in Branches,
           run = "running", phase[b] \in {"busy", "telling"},
           UNCHANGED <<control, listeners, conns>>, store' \in [Vars -> Seq(Nat)],
           Reinsert(b), Ok(b) \/ \E why \in Reasons : Err(b, why)
    PROVE  ConnectionTypes' /\ ConnectionInv'
  <1> DEFINE n == Current(b).name
             side == Side(Current(b).kind)
  <1>1. /\ ControlTypes /\ TableTypes /\ HandsFull /\ Apart /\ AbortedIsGone
        /\ phase[b] # "done" /\ run' = "running" /\ phase[b] \in Holding
    BY DEF ConnectionTypes, ConnectionInv, control, Holding
  <1>2. n \in Names
    BY <1>1, StepHere, StepFields
  <1>3. Put(side, n, held[b]) /\ Hold(b, None)
    BY DEF Reinsert
  <1> HIDE DEF n, side
  <1>4. Apart' /\ \A x \in 1..Len(conns) : Unowned(x) => Unowned(x)'
    BY <1>1, <1>2, <1>3, GiveBack
  <1>5. AbortedIsGone'
    BY <1>1, <1>4 DEF AbortedIsGone, TableTypes
  <1>6. /\ ControlTypes' /\ phase'[b] \notin Holding
        /\ phase'[b] \notin {"probing", "negotiating", "accepted"}
        /\ \A d \in Branches : d # b => phase'[d] = phase[d]
    BY <1>1, Returned
  <1>7. /\ held[b] \in 0..Len(conns') /\ None \in 0..Len(conns') /\ Len(conns') \in Nat
        /\ Len(conns) <= Len(conns')
    BY <1>1 DEF TableTypes, None
  <1>8. /\ connections' \in [Names -> 0..Len(conns')]
        /\ server_connections' \in [Names -> 0..Len(conns')]
    BY <1>1, <1>2, <1>3, <1>7, PutTyped
  <1>9. /\ held' \in [Branches -> 0..Len(conns')]
        /\ held'[b] = None /\ \A d \in Branches : d # b => held'[d] = held[d]
    BY <1>1, <1>3, <1>7, HoldTyped
  <1>10. HandsFull'
    BY <1>1, <1>6, <1>9, HandsKept
  <1>11. TableTypes'
    BY <1>1, <1>8, <1>9 DEF TableTypes
  <1> QED
    BY <1>1, <1>4, <1>5, <1>6, <1>10, <1>11, BranchKeeps

\* The branch keeps its connection, whose workers may be started.
LEMMA GoesOn ==
    ASSUME ConnectionTypes, ConnectionInv, NEW b \in Branches, run = "running",
           NEW p, NEW w \in SUBSET {"keep-alive", "tx-submission"},
           \/ phase[b] = "busy" /\ p = "telling"
           \/ phase[b] = "negotiating" /\ p = "accepted",
           Await(b, p), UNCHANGED <<control, held, tables>>, store' \in [Vars -> Seq(Nat)],
           conns' = conns \/ conns' = [conns EXCEPT ![held[b]].workers = w]
    PROVE  ConnectionTypes' /\ ConnectionInv'
  <1>1. /\ ControlTypes /\ TableTypes /\ HandsFull /\ Apart /\ AbortedIsGone
        /\ phase[b] # "done" /\ run' = "running" /\ phase[b] \in Holding
        /\ p \in Phases /\ p \in Holding
    BY DEF ConnectionTypes, ConnectionInv, control, Holding, Phases
  <1>2. /\ held[b] \in 1..Len(conns) /\ Len(conns) \in Nat
        /\ conns[held[b]] \in ConnRecords /\ ~Unowned(held[b]) /\ held[b] # None
    BY <1>1, InHand DEF HandsFull
  <1>3. /\ ControlTypes' /\ phase'[b] = p
        /\ \A d \in Branches : d # b => phase'[d] = phase[d]
    BY <1>1, Awaits
  <1>4. Apart' /\ \A x \in 1..Len(conns) : Unowned(x) => Unowned(x)'
    BY <1>1, NothingMoves DEF tables
  <1>5. /\ AbortedIsGone' /\ conns' \in Seq(ConnRecords) /\ Len(conns') = Len(conns)
        /\ \A x \in 1..Len(conns) : conns'[x].stage = conns[x].stage
    <2>1. CASE conns' = conns
      BY <1>1, <1>4, <2>1, NoRecordChanges
    <2>2. CASE conns' = [conns EXCEPT ![held[b]].workers = w]
      <3> DEFINE c == held[b]
                 r == [conns[c] EXCEPT !.workers = w]
      <3>1. /\ r \in ConnRecords /\ r.mux = conns[c].mux /\ r.stage = conns[c].stage
        BY <1>2, WorkersSet
      <3>2. conns' = [conns EXCEPT ![c] = r]
        BY <2>2
      <3>3. r.mux # "aborted"
        BY <1>1, <1>2, <3>1 DEF AbortedIsGone, TableTypes
      <3>4. c \in 1..Len(conns)
        BY <1>2
      <3> HIDE DEF c, r
      <3>5. /\ AbortedIsGone' /\ conns' \in Seq(ConnRecords) /\ Len(conns') = Len(conns)
            /\ conns'[c] = r /\ \A x \in 1..Len(conns) : x # c => conns'[x] = conns[x]
        BY <1>1, <1>4, <3>1, <3>2, <3>3, <3>4, RecordChanges
      <3> QED
        BY <3>1, <3>5
    <2> QED
      BY <2>1, <2>2
  <1>6. \A d \in Branches : held[d] # None => conns'[held[d]].stage = conns[held[d]].stage
    BY <1>1, <1>5 DEF TableTypes, None
  <1>7. held' = held
    OBVIOUS
  <1>8. HandsFull'
    <2>1. phase'[b] # "probing"
      BY <1>3
    <2>2. phase'[b] \in {"negotiating", "accepted"} => conns'[held'[b]].stage = "accepting"
      BY <1>1, <1>2, <1>3, <1>6, <1>7 DEF HandsFull
    <2> QED
      BY <1>1, <1>2, <1>3, <1>6, <1>7, <2>1, <2>2, HandsKept
  <1>9. TableTypes'
    BY <1>1, <1>5, <1>7 DEF TableTypes, tables
  <1> QED
    BY <1>1, <1>3, <1>4, <1>5, <1>8, <1>9, BranchKeeps

\* The branch gives up a connection that no map has seen.
LEMMA DropsHand ==
    ASSUME ConnectionTypes, ConnectionInv, NEW b \in Branches, run = "running",
           phase[b] \in {"probing", "negotiating", "accepted"}, Hold(b, None),
           UNCHANGED <<control, tables>>, store' \in [Vars -> Seq(Nat)],
           conns' \in {conns, [conns EXCEPT ![held[b]] = Abort(@)]},
           Ok(b) \/ \E why \in Reasons : Err(b, why)
    PROVE  ConnectionTypes' /\ ConnectionInv'
  <1>1. /\ ControlTypes /\ TableTypes /\ HandsFull /\ Apart /\ AbortedIsGone
        /\ phase[b] # "done" /\ run' = "running" /\ phase[b] \in Holding
    BY DEF ConnectionTypes, ConnectionInv, control, Holding
  <1>2. /\ held[b] \in 1..Len(conns) /\ Len(conns) \in Nat /\ conns[held[b]] \in ConnRecords
    BY <1>1, InHand
  <1>3. /\ ControlTypes' /\ phase'[b] \notin Holding
        /\ phase'[b] \notin {"probing", "negotiating", "accepted"}
        /\ \A d \in Branches : d # b => phase'[d] = phase[d]
    BY <1>1, Returned
  <1>4. /\ Apart' /\ \A x \in 1..Len(conns) : Unowned(x) => Unowned(x)'
        /\ \A x \in 1..Len(conns) : x = held[b] => Unowned(x)'
    BY <1>1, LetGo DEF tables
  <1>5. /\ AbortedIsGone' /\ conns' \in Seq(ConnRecords) /\ Len(conns') = Len(conns)
        /\ \A x \in 1..Len(conns) : conns'[x].stage = conns[x].stage
    <2>1. CASE conns' = conns
      BY <1>1, <1>4, <2>1, NoRecordChanges
    <2>2. CASE conns' = [conns EXCEPT ![held[b]] = Abort(@)]
      <3> DEFINE c == held[b]
                 r == Abort(conns[c])
      <3>1. /\ r \in ConnRecords /\ r.workers = {} /\ r.stage = conns[c].stage
        BY <1>2, Aborted
      <3>2. conns' = [conns EXCEPT ![c] = r]
        BY <2>2
      <3>3. \A x : x = c => Unowned(x)'
        BY <1>2, <1>4
      <3>4. c \in 1..Len(conns)
        BY <1>2
      <3> HIDE DEF c, r
      <3>5. /\ AbortedIsGone' /\ conns' \in Seq(ConnRecords) /\ Len(conns') = Len(conns)
            /\ conns'[c] = r /\ \A x \in 1..Len(conns) : x # c => conns'[x] = conns[x]
        BY <1>1, <1>4, <3>1, <3>2, <3>3, <3>4, RecordChanges
      <3> QED
        BY <3>1, <3>5
    <2> QED
      BY <2>1, <2>2
  <1>6. \A d \in Branches : held[d] # None => conns'[held[d]].stage = conns[held[d]].stage
    BY <1>1, <1>5 DEF TableTypes, None
  <1>7. /\ held' \in [Branches -> 0..Len(conns')]
        /\ held'[b] = None /\ \A d \in Branches : d # b => held'[d] = held[d]
    <2>1. None \in 0..Len(conns') /\ Len(conns') \in Nat /\ Len(conns) <= Len(conns')
      BY <1>2, <1>5 DEF None
    <2> QED
      BY <1>1, <2>1, HoldTyped
  <1>8. HandsFull'
    BY <1>1, <1>3, <1>6, <1>7, HandsKept
  <1>9. TableTypes'
    BY <1>1, <1>5, <1>7 DEF TableTypes, tables
  <1> QED
    BY <1>1, <1>3, <1>4, <1>5, <1>8, <1>9, BranchKeeps

\* The branch opens a connection and has it in hand.
LEMMA PicksUp ==
    ASSUME ConnectionTypes, ConnectionInv, NEW b \in Branches, run = "running",
           phase[b] # "done", NEW p, NEW stage,
           \/ p = "probing" /\ stage = "probe"
           \/ p = "negotiating" /\ stage = "accepting",
           Opened(stage), Hold(b, NewConn), Await(b, p), UNCHANGED <<control, tables, store>>
    PROVE  ConnectionTypes' /\ ConnectionInv'
  <1>1. /\ ControlTypes /\ TableTypes /\ HandsFull /\ Apart /\ AbortedIsGone
        /\ run' = "running" /\ p \in Phases /\ p \in Holding
        /\ stage \in {"open", "accepting", "probe"}
    BY DEF ConnectionTypes, ConnectionInv, control, Holding, Phases
  <1>2. /\ ControlTypes' /\ phase'[b] = p
        /\ \A d \in Branches : d # b => phase'[d] = phase[d]
    BY <1>1, Awaits
  <1>3. Apart' /\ \A c \in 1..Len(conns) : Unowned(c) => Unowned(c)'
    BY <1>1, HoldFresh DEF tables
  <1>4. /\ AbortedIsGone' /\ conns' \in Seq(ConnRecords) /\ Len(conns') <= MaxConns
        /\ Len(conns') = Len(conns) + 1 /\ Len(conns) \in Nat
        /\ conns'[NewConn].stage = stage /\ NewConn \in 1..Len(conns')
        /\ \A c \in 1..Len(conns) : conns'[c] = conns[c]
    BY <1>1, <1>3, RecordAdded
  <1>5. \A d \in Branches : held[d] # None => conns'[held[d]].stage = conns[held[d]].stage
    BY <1>1, <1>4 DEF TableTypes, None
  <1>6. /\ held' \in [Branches -> 0..Len(conns')]
        /\ held'[b] = NewConn /\ \A d \in Branches : d # b => held'[d] = held[d]
    <2>1. NewConn \in 0..Len(conns') /\ Len(conns') \in Nat /\ Len(conns) <= Len(conns')
      BY <1>4
    <2> QED
      BY <1>1, <2>1, HoldTyped
  <1>7. held'[b] # None
    BY <1>4, <1>6 DEF NewConn, None
  <1>8. HandsFull'
    <2>1. /\ phase'[b] = "probing" => conns'[held'[b]].stage = "probe"
          /\ phase'[b] \in {"negotiating", "accepted"} => conns'[held'[b]].stage = "accepting"
      BY <1>2, <1>4, <1>6
    <2> QED
      BY <1>1, <1>2, <1>5, <1>6, <1>7, <2>1, HandsKept
  <1>9. /\ connections' \in [Names -> 0..Len(conns')]
        /\ server_connections' \in [Names -> 0..Len(conns')]
    <2>1. \A i \in 0..Len(conns) : i \in 0..Len(conns')
      BY <1>4
    <2> QED
      BY <1>1, <2>1 DEF TableTypes, tables
  <1>10. TableTypes'
    BY <1>1, <1>4, <1>6, <1>9 DEF TableTypes, tables
  <1> QED
    BY <1>1, <1>2, <1>3, <1>4, <1>8, <1>10, BranchKeeps
\* CheckedOut::take.
LEMMA TakeKeeps ==
    ASSUME ConnectionTypes, ConnectionInv, NEW b \in Branches, run = "running",
           phase[b] = "next", Current(b).kind \in Protocols, Take(b),
           UNCHANGED <<control, listeners, store>>
    PROVE  ConnectionTypes' /\ ConnectionInv'
  <1> DEFINE n == Current(b).name
             k == Current(b).kind
             side == Side(k)
             c == Lookup(side, n)
             r == [conns[c] EXCEPT !.used = @ \cup {k}]
  <1>1. /\ ControlTypes /\ TableTypes /\ HandsFull /\ Apart /\ AbortedIsGone
        /\ phase[b] # "done" /\ run' = "running" /\ "busy" \in Phases /\ "busy" \in Holding
    BY DEF ConnectionTypes, ConnectionInv, control, Holding, Phases
  <1>2. n \in Names /\ k \in Protocols
    BY <1>1, StepHere, StepFields
  <1>3. /\ c # None /\ Hold(b, c) /\ conns' = [conns EXCEPT ![c] = r] /\ Put(side, n, None)
        /\ Await(b, "busy")
    BY DEF Take
  <1> HIDE DEF n, k, side
  <1>4. /\ c \in 1..Len(conns) /\ Len(conns) \in Nat /\ conns[c] \in ConnRecords /\ ~Unowned(c)
    <2>1. c \in 0..Len(conns) /\ Len(conns) \in Nat /\ ~Unowned(c)
      BY <1>1, <1>2 DEF Lookup, TableTypes, Unowned
    <2>2. c \in 1..Len(conns)
      BY <1>3, <2>1 DEF None
    <2> QED
      BY <1>1, <2>1, <2>2 DEF TableTypes
  <1>5. Apart' /\ \A x \in 1..Len(conns) : Unowned(x) => Unowned(x)'
    BY <1>1, <1>2, <1>3, TakeOut
  <1> HIDE DEF c
  <1>6. r \in ConnRecords /\ r.mux = conns[c].mux /\ r.stage = conns[c].stage
    BY <1>2, <1>4, ChannelTaken
  <1>7. r.mux # "aborted"
    BY <1>1, <1>4, <1>6 DEF AbortedIsGone, TableTypes
  <1> HIDE DEF r
  <1>8. /\ AbortedIsGone' /\ conns' \in Seq(ConnRecords) /\ Len(conns') = Len(conns)
        /\ conns'[c] = r /\ \A x \in 1..Len(conns) : x # c => conns'[x] = conns[x]
    BY <1>1, <1>3, <1>4, <1>5, <1>6, <1>7, RecordChanges
  <1>9. /\ ControlTypes' /\ phase'[b] = "busy"
        /\ \A d \in Branches : d # b => phase'[d] = phase[d]
    BY <1>1, <1>3, Awaits
  <1>10. /\ None \in 0..Len(conns') /\ c \in 0..Len(conns') /\ Len(conns') \in Nat
         /\ Len(conns) <= Len(conns')
    BY <1>4, <1>8 DEF None
  <1>11. /\ connections' \in [Names -> 0..Len(conns')]
         /\ server_connections' \in [Names -> 0..Len(conns')]
    BY <1>1, <1>2, <1>3, <1>10, PutTyped
  <1>12. /\ held' \in [Branches -> 0..Len(conns')]
         /\ held'[b] = c /\ \A d \in Branches : d # b => held'[d] = held[d]
    BY <1>1, <1>3, <1>10, HoldTyped
  <1>13. \A d \in Branches : held[d] # None => conns'[held[d]].stage = conns[held[d]].stage
    BY <1>1, <1>6, <1>8 DEF TableTypes, None
  <1>14. HandsFull'
    BY <1>1, <1>3, <1>9, <1>12, <1>13, HandsKept
  <1>15. TableTypes'
    BY <1>1, <1>8, <1>11, <1>12 DEF TableTypes
  <1> QED
    BY <1>1, <1>5, <1>8, <1>9, <1>14, <1>15, BranchKeeps

\* accept_handshake inserts the connection.
LEMMA InsertKeeps ==
    ASSUME ConnectionTypes, ConnectionInv, NEW b \in Branches, run = "running",
           phase[b] = "accepted", Hold(b, None), Put("server", Current(b).name, held[b]),
           conns' = [conns EXCEPT ![held[b]].stage = "open"],
           Ok(b) \/ \E why \in Reasons : Err(b, why),
           UNCHANGED <<control, listeners, store>>
    PROVE  ConnectionTypes' /\ ConnectionInv'
  <1> DEFINE n == Current(b).name
             c == held[b]
             r == [conns[c] EXCEPT !.stage = "open"]
  <1>1. /\ ControlTypes /\ TableTypes /\ HandsFull /\ Apart /\ AbortedIsGone
        /\ phase[b] # "done" /\ run' = "running" /\ phase[b] \in Holding
    BY DEF ConnectionTypes, ConnectionInv, control, Holding
  <1>2. n \in Names
    BY <1>1, StepHere, StepFields
  <1>3. Put("server", n, held[b]) /\ conns' = [conns EXCEPT ![c] = r]
    OBVIOUS
  <1> HIDE DEF n
  <1>4. /\ c \in 1..Len(conns) /\ Len(conns) \in Nat /\ conns[c] \in ConnRecords /\ ~Unowned(c)
        /\ c # None
    BY <1>1, InHand DEF HandsFull
  <1>5. Apart' /\ \A x \in 1..Len(conns) : Unowned(x) => Unowned(x)'
    BY <1>1, <1>2, <1>3, GiveBack
  <1>6. r \in ConnRecords /\ r.mux = conns[c].mux
    BY <1>4, SetUp
  <1>7. r.mux # "aborted"
    BY <1>1, <1>4, <1>6 DEF AbortedIsGone, TableTypes
  <1>8. \A d \in Branches : d # b /\ held[d] # None => held[d] # c /\ held[d] \in 1..Len(conns)
    BY <1>1, <1>4 DEF Apart, TableTypes, None
  <1> HIDE DEF r
  <1>9. /\ None \in 0..Len(conns) /\ c \in 0..Len(conns) /\ Len(conns) <= Len(conns)
    BY <1>4 DEF None
  <1>10. /\ AbortedIsGone' /\ conns' \in Seq(ConnRecords) /\ Len(conns') = Len(conns)
         /\ \A x \in 1..Len(conns) : x # c => conns'[x] = conns[x]
    <2> HIDE DEF c
    <2> QED
      BY <1>1, <1>3, <1>4, <1>5, <1>6, <1>7, RecordChanges
  <1>11. /\ ControlTypes' /\ phase'[b] \notin Holding
         /\ phase'[b] \notin {"probing", "negotiating", "accepted"}
         /\ \A d \in Branches : d # b => phase'[d] = phase[d]
    BY <1>1, Returned
  <1>12. /\ connections' \in [Names -> 0..Len(conns')]
         /\ server_connections' \in [Names -> 0..Len(conns')]
    BY <1>1, <1>2, <1>3, <1>4, <1>9, <1>10, PutTyped
  <1>13. /\ held' \in [Branches -> 0..Len(conns')]
         /\ held'[b] = None /\ \A d \in Branches : d # b => held'[d] = held[d]
    BY <1>1, <1>4, <1>9, <1>10, HoldTyped
  <1>14. HandsFull'
    BY <1>1, <1>8, <1>10, <1>11, <1>13, HandsKept
  <1>15. TableTypes'
    BY <1>1, <1>10, <1>12, <1>13 DEF TableTypes
  <1> QED
    BY <1>1, <1>5, <1>10, <1>11, <1>14, <1>15, BranchKeeps
-----------------------------------------------------------------------------
(* Every step of the specification.                                        *)

\* The steps of a branch.
LEMMA BranchStep ==
    ASSUME ConnectionTypes, ConnectionInv, NEW b \in Branches, BranchNext(b)
    PROVE  ConnectionTypes' /\ ConnectionInv'
  <1>1. /\ ControlTypes /\ TableTypes /\ "failed" \in Reasons /\ "unbound" \in Reasons
        /\ "not_found" \in Reasons /\ "no_channels" \in Reasons
        /\ listeners \subseteq Names /\ store \in [Vars -> Seq(Nat)]
    BY DEF ConnectionTypes, Reasons, TableTypes
  <1>2. Returns(b) => Ok(b) \/ \E why \in Reasons : Err(b, why)
    BY <1>1 DEF Returns
  <1>3. phase[b] # "done" => Current(b).name \in Names
    BY <1>1, StepHere, StepFields
  <1>4. CASE FailsEarly(b)
    <2>1. /\ run = "running" /\ phase[b] = "next" /\ \E why \in Reasons : Err(b, why)
          /\ UNCHANGED <<control, held, connections, server_connections, store, conns>>
          /\ listeners' \subseteq Names
      BY <1>1, <1>4 DEF FailsEarly, tables
    <2> QED
      BY <2>1, TouchesNothing
  <1>5. CASE Connect(b)
    BY <1>5, ConnectKeeps
  <1>6. CASE Begin(b)
    <2>1. /\ run = "running" /\ phase[b] = "next" /\ Current(b).kind \in Protocols
          /\ UNCHANGED <<control, listeners, store>>
      BY <1>6 DEF Begin, In
    <2>2. CASE Take(b)
      BY <2>1, <2>2, TakeKeeps
    <2>3. CASE ~Take(b)
      <3>1. /\ \E why \in Reasons : Err(b, why)
            /\ UNCHANGED <<held, connections, server_connections, conns>>
        BY <1>1, <1>6, <2>3 DEF Begin
      <3> QED
        BY <1>1, <2>1, <3>1, TouchesNothing
    <2> QED
      BY <2>2, <2>3
  <1>7. CASE Handshake(b)
    <2>1. /\ run = "running" /\ phase[b] = "busy" /\ UNCHANGED <<control, listeners, store>>
      BY <1>7 DEF Handshake, In
    <2>2. CASE MayFail /\ Err(b, "failed") /\ Reinsert(b) /\ UNCHANGED conns
      BY <1>1, <2>1, <2>2, ReinsertKeeps
    <2>3. CASE ~(MayFail /\ Err(b, "failed") /\ Reinsert(b) /\ UNCHANGED conns)
      <3>1. /\ conns' = [conns EXCEPT ![held[b]].workers = {"keep-alive", "tx-submission"}]
            /\ Await(b, "telling") /\ UNCHANGED <<control, held, tables>>
        BY <1>7, <2>1, <2>3 DEF Handshake, tables
      <3>2. {"keep-alive", "tx-submission"} \in SUBSET {"keep-alive", "tx-submission"}
        OBVIOUS
      <3> QED
        BY <1>1, <2>1, <3>1, <3>2, GoesOn
    <2> QED
      BY <2>2, <2>3
  <1>8. CASE Exchange(b)
    <2>1. /\ run = "running" /\ phase[b] = "busy" /\ UNCHANGED <<control, listeners, conns>>
      BY <1>8 DEF Exchange, In
    <2>2. CASE MayFail /\ Err(b, "failed") /\ Reinsert(b) /\ UNCHANGED store
      BY <1>1, <2>1, <2>2, ReinsertKeeps
    <2>3. CASE ~(MayFail /\ Err(b, "failed") /\ Reinsert(b) /\ UNCHANGED store)
      <3>1. Store(b) /\ Await(b, "telling") /\ UNCHANGED <<control, held, tables>>
        BY <1>8, <2>1, <2>3 DEF Exchange, tables
      <3>2. store' \in [Vars -> Seq(Nat)]
        BY <1>1, <2>1, <3>1, StoreTyped
      <3>3. {} \in SUBSET {"keep-alive", "tx-submission"}
        OBVIOUS
      <3> QED
        BY <2>1, <3>1, <3>2, <3>3, GoesOn
    <2> QED
      BY <2>2, <2>3
  <1>9. CASE End(b)
    <2>1. /\ run = "running" /\ phase[b] = "telling" /\ Reinsert(b) /\ Returns(b)
          /\ UNCHANGED <<control, listeners, store, conns>>
      BY <1>9 DEF End, In
    <2> QED
      BY <1>1, <1>2, <2>1, ReinsertKeeps
  <1>10. CASE Disconnect(b)
    BY <1>10, DisconnectKeeps
  <1>11. CASE Probe(b)
    <2>1. /\ run = "running" /\ phase[b] = "next" /\ UNCHANGED <<control, tables, store>>
          /\ Opened("probe") /\ Hold(b, NewConn) /\ Await(b, "probing")
      BY <1>11 DEF Probe, In
    <2> QED
      BY <2>1, PicksUp
  <1>12. CASE ProbeEnds(b)
    <2>1. /\ run = "running" /\ phase[b] = "probing" /\ UNCHANGED <<control, tables>>
          /\ Hold(b, None)
      BY <1>12 DEF ProbeEnds, In
    <2>2. /\ conns' \in {conns, [conns EXCEPT ![held[b]] = Abort(@)]}
          /\ Store(b) \/ UNCHANGED store
          /\ Ok(b) \/ \E why \in Reasons : Err(b, why)
      BY <1>1, <1>2, <1>12 DEF ProbeEnds
    <2>3. store' \in [Vars -> Seq(Nat)]
      BY <1>1, <2>1, <2>2, StoreTyped
    <2> QED
      BY <2>1, <2>2, <2>3, DropsHand
  <1>13. CASE Listen(b) \/ CloseListener(b)
    <2>1. /\ run = "running" /\ phase[b] = "next" /\ Returns(b)
          /\ UNCHANGED <<control, held, connections, server_connections, store, conns>>
          /\ \/ listeners' = listeners \cup {Current(b).name}
             \/ listeners' = listeners \ {Current(b).name}
      BY <1>13 DEF Listen, CloseListener, In
    <2>2. listeners' \subseteq Names
      BY <1>1, <1>3, <2>1
    <2> QED
      BY <1>2, <2>1, <2>2, TouchesNothing
  <1>14. CASE AwaitPeer(b)
    <2>1. /\ run = "running" /\ phase[b] = "next"
          /\ Await(b, "accepting") \/ Err(b, "not_found")
          /\ UNCHANGED <<control, held, connections, server_connections, store, conns>>
          /\ listeners' \subseteq Names
      BY <1>1, <1>14 DEF AwaitPeer, In, tables
    <2> QED
      BY <1>1, <2>1, TouchesNothing
  <1>15. CASE AcceptPeer(b)
    <2>1. /\ run = "running" /\ phase[b] = "accepting" /\ UNCHANGED <<control, tables, store>>
      BY <1>15 DEF AcceptPeer, In
    <2>2. CASE Opened("accepting") /\ Hold(b, NewConn) /\ Await(b, "negotiating")
      BY <2>1, <2>2, PicksUp
    <2>3. CASE Err(b, "failed") /\ UNCHANGED <<held, conns>>
      BY <1>1, <2>1, <2>3, TouchesNothing DEF tables
    <2> QED
      BY <1>15, <2>2, <2>3 DEF AcceptPeer
  <1>16. CASE Negotiate(b)
    <2>1. /\ run = "running" /\ phase[b] = "negotiating" /\ UNCHANGED <<control, tables, store>>
      BY <1>16 DEF Negotiate, In
    <2>2. CASE /\ conns' = [conns EXCEPT ![held[b]].workers = {"keep-alive"}]
               /\ Await(b, "accepted") /\ UNCHANGED held
      <3>1. {"keep-alive"} \in SUBSET {"keep-alive", "tx-submission"}
        OBVIOUS
      <3>2. UNCHANGED <<control, held, tables>> /\ store' \in [Vars -> Seq(Nat)]
        BY <1>1, <2>1, <2>2
      <3> QED
        BY <2>1, <2>2, <3>1, <3>2, GoesOn
    <2>3. CASE /\ Err(b, "failed") /\ Hold(b, None)
               /\ conns' \in {conns, [conns EXCEPT ![held[b]] = Abort(@)]}
      BY <1>1, <2>1, <2>3, DropsHand
    <2> QED
      BY <1>16, <2>2, <2>3 DEF Negotiate
  <1>17. CASE InsertServer(b)
    <2>1. /\ run = "running" /\ phase[b] = "accepted" /\ Hold(b, None)
          /\ UNCHANGED <<control, listeners, store>>
      BY <1>17 DEF InsertServer, In
    <2>2. CASE /\ Put("server", Current(b).name, held[b]) /\ Returns(b)
               /\ conns' = [conns EXCEPT ![held[b]].stage = "open"]
      BY <1>2, <2>1, <2>2, InsertKeeps
    <2>3. CASE Err(b, "failed") /\ UNCHANGED <<connections, server_connections, conns>>
      BY <1>1, <2>1, <2>3, DropsHand DEF tables
    <2> QED
      BY <1>17, <2>2, <2>3 DEF InsertServer
  <1>18. CASE Other(b)
    <2>1. /\ run = "running" /\ phase[b] = "next" /\ Returns(b)
          /\ UNCHANGED <<control, held, connections, server_connections, store, conns>>
          /\ listeners' \subseteq Names
      BY <1>1, <1>18 DEF Other, In, tables
    <2> QED
      BY <1>2, <2>1, TouchesNothing
  <1> QED
    BY <1>4, <1>5, <1>6, <1>7, <1>8, <1>9, <1>10, <1>11, <1>12, <1>13, <1>14, <1>15, <1>16,
       <1>17, <1>18 DEF BranchNext
\* The runner goes on to the next iteration or block, or stops.
LEMMA RunnerMoves ==
    ASSUME ConnectionTypes, ConnectionInv, BeginIteration \/ NextBlock \/ Complete \/ JoinErr
    PROVE  ConnectionTypes' /\ ConnectionInv'
  <1>1. /\ ControlTypes /\ TableTypes /\ HandsFull /\ Apart /\ AbortedIsGone
        /\ Len(scenario) \in Nat
        /\ \A k \in 1..Len(scenario) :
             scenario[k].branches \in Seq(Seq(Steps)) /\ scenario[k].times \in Nat
    BY ScenarioParts DEF ConnectionTypes, ConnectionInv
  <1>2. UNCHANGED <<scenario, held, connections, server_connections, listeners, store, conns, errs>>
    BY DEF BeginIteration, NextBlock, Complete, JoinErr, tables
  <1>3. TableTypes'
    BY <1>1, <1>2 DEF TableTypes
  <1>4. Apart' /\ \A c : Unowned(c) => Unowned(c)'
    BY <1>1, <1>2, NothingMoves
  <1>5. AbortedIsGone'
    BY <1>1, <1>2, <1>4 DEF AbortedIsGone
  <1>6. CleanedUp'
    BY DEF BeginIteration, NextBlock, Complete, JoinErr, CleanedUp
  <1>7. ControlTypes' /\ HandsFull'
    <2>1. CASE BeginIteration
      <3>1. /\ run' = run /\ blk' = blk /\ iter' = iter + 1 /\ blk <= Len(scenario)
            /\ iter < scenario[blk].times /\ \A b \in Branches : phase[b] = "done"
        BY <2>1 DEF BeginIteration, AllDone
      <3>2. blk \in 1..Len(scenario)
        BY <1>1, <3>1 DEF ControlTypes
      <3>3. iter' \in Nat /\ iter' \in 0..scenario[blk].times
        BY <1>1, <3>1, <3>2 DEF ControlTypes
      <3>4. /\ BranchesHere' = BranchesHere /\ \A b : Branch(b)' = Branch(b)
        BY <1>2, <3>1 DEF BranchesHere, Branch
      <3>5. /\ at' \in [Branches -> Nat] /\ \A b \in Branches : at'[b] = 1
            /\ phase' \in [Branches -> Phases]
            /\ \A b \in Branches :
                 \/ phase'[b] = "done"
                 \/ phase'[b] = "next" /\ b \in BranchesHere /\ Branch(b) # <<>>
        BY <2>1 DEF BeginIteration, Phases
      <3>6. ASSUME NEW b \in Branches, b \in BranchesHere, Branch(b) # <<>>
            PROVE  1 \in 1..Len(Branch(b))
        <4>1. b \in DOMAIN scenario[blk].branches
          BY <3>1, <3>6 DEF BranchesHere
        <4>2. Branch(b) \in Seq(Steps)
          BY <1>1, <3>2, <4>1 DEF Branch
        <4> QED
          BY <3>6, <4>2
      <3>7. InStep'
        BY <3>4, <3>5, <3>6 DEF InStep
      <3>8. ControlTypes'
        BY <1>1, <1>2, <3>1, <3>3, <3>5, <3>7 DEF ControlTypes
      <3>9. \A b \in Branches : held[b] = None
        BY <1>1, <3>1 DEF HandsFull, Holding
      <3>10. HandsFull'
        BY <1>2, <3>5, <3>9 DEF HandsFull, Holding
      <3> QED
        BY <3>8, <3>10
    <2>2. CASE NextBlock
      <3>1. /\ run' = run /\ blk' = blk + 1 /\ iter' = 0 /\ blk <= Len(scenario)
            /\ at' = at /\ phase' = phase /\ \A b \in Branches : phase[b] = "done"
        BY <2>2 DEF NextBlock, AllDone
      <3>2. blk' \in 1..Len(scenario) + 1
        BY <1>1, <3>1 DEF ControlTypes
      <3>3. blk' <= Len(scenario) => iter' \in 0..scenario[blk'].times
        BY <1>1, <3>1, <3>2
      <3>4. InStep'
        BY <3>1 DEF InStep
      <3>5. ControlTypes'
        BY <1>1, <1>2, <3>1, <3>2, <3>3, <3>4 DEF ControlTypes
      <3> QED
        BY <1>1, <1>2, <3>1, <3>5 DEF HandsFull
    <2>3. CASE Complete \/ JoinErr
      <3>1. /\ run' \in {"completed", "dropping"} /\ blk' = blk /\ iter' = iter
            /\ at' = at /\ phase' = phase
        BY <2>3 DEF Complete, JoinErr
      <3>2. InStep'
        BY <1>1, <1>2, <3>1 DEF ControlTypes, InStep, BranchesHere, Branch
      <3>3. ControlTypes'
        BY <1>1, <1>2, <3>1, <3>2 DEF ControlTypes
      <3> QED
        BY <1>1, <1>2, <3>1, <3>3 DEF HandsFull
    <2> QED
      BY <2>1, <2>2, <2>3
  <1> QED
    BY <1>3, <1>4, <1>5, <1>6, <1>7 DEF ConnectionTypes, ConnectionInv

\* A branch is dropped.
LEMMA DropKeeps ==
    ASSUME ConnectionTypes, ConnectionInv, NEW b \in Branches, DropBranch(b)
    PROVE  ConnectionTypes' /\ ConnectionInv'
  <1>1. /\ ControlTypes /\ TableTypes /\ HandsFull /\ Apart /\ AbortedIsGone
        /\ run = "dropping" /\ phase[b] # "done"
        /\ phase' = [phase EXCEPT ![b] = "dropped"]
        /\ scenario' = scenario /\ blk' = blk /\ iter' = iter /\ run' = run
        /\ UNCHANGED <<at, listeners, store, conns, errs>>
    BY DEF ConnectionTypes, ConnectionInv, DropBranch, control
  <1>2. /\ phase' \in [Branches -> Phases] /\ phase'[b] = "dropped"
        /\ \A d \in Branches : d # b => phase'[d] = phase[d]
    BY <1>1 DEF ControlTypes, Phases
  <1>3. InStep'
    <2>1. /\ BranchesHere' = BranchesHere /\ \A d : Branch(d)' = Branch(d) /\ at' = at
      BY <1>1 DEF BranchesHere, Branch
    <2> QED
      BY <1>1, <1>2, <2>1 DEF ControlTypes, InStep
  <1>4. ControlTypes'
    BY <1>1, <1>2, <1>3 DEF ControlTypes
  <1>5. Current(b).name \in Names
    BY <1>1, StepHere, StepFields
  <1>6. /\ None \in 0..Len(conns') /\ held[b] \in 0..Len(conns') /\ Len(conns') \in Nat
        /\ Len(conns) <= Len(conns')
    BY <1>1 DEF TableTypes, None
  <1>7. /\ Apart' /\ \A c \in 1..Len(conns) : Unowned(c) => Unowned(c)'
        /\ connections' \in [Names -> 0..Len(conns')]
        /\ server_connections' \in [Names -> 0..Len(conns')]
        /\ Hold(b, None)
    <2>1. CASE phase[b] \in {"busy", "telling"}
      <3>1. Put(Side(Current(b).kind), Current(b).name, held[b]) /\ Hold(b, None)
        BY <2>1 DEF DropBranch, Reinsert
      <3>2. Apart' /\ \A c \in 1..Len(conns) : Unowned(c) => Unowned(c)'
        BY <1>1, <1>5, <3>1, GiveBack
      <3> QED
        BY <1>1, <1>5, <1>6, <3>1, <3>2, PutTyped
    <2>2. CASE phase[b] \notin {"busy", "telling"}
      <3>1. Hold(b, None) /\ UNCHANGED <<connections, server_connections>>
        BY <2>2 DEF DropBranch
      <3>2. Apart' /\ \A c \in 1..Len(conns) : Unowned(c) => Unowned(c)'
        BY <1>1, <3>1, LetGo
      <3> QED
        BY <1>1, <3>1, <3>2 DEF TableTypes
    <2> QED
      BY <2>1, <2>2
  <1>8. /\ held' \in [Branches -> 0..Len(conns')]
        /\ held'[b] = None /\ \A d \in Branches : d # b => held'[d] = held[d]
    BY <1>1, <1>6, <1>7, HoldTyped
  <1>9. HandsFull'
    <2>1. phase'[b] \notin Holding /\ phase'[b] \notin {"probing", "negotiating", "accepted"}
      BY <1>2 DEF Holding
    <2> QED
      BY <1>1, <1>2, <1>8, <2>1, HandsKept
  <1>10. AbortedIsGone'
    BY <1>1, <1>7, NoRecordChanges
  <1>11. TableTypes'
    BY <1>1, <1>7, <1>8 DEF TableTypes
  <1>12. CleanedUp'
    BY <1>1 DEF CleanedUp
  <1> QED
    BY <1>4, <1>7, <1>9, <1>10, <1>11, <1>12 DEF ConnectionTypes, ConnectionInv

\* What cleanup leaves: the records of the drained are aborted, the others
\* are as they were, and nothing is owned.
LEMMA CleanupLeaves ==
    ASSUME ConnectionTypes, ConnectionInv, Cleanup
    PROVE  /\ conns' \in Seq(ConnRecords) /\ Len(conns') = Len(conns)
           /\ \A c \in 1..Len(conns) :
                conns'[c] = IF c \in Drained THEN Abort(conns[c]) ELSE conns[c]
           /\ \A b \in Branches : held[b] = None /\ held' = held
           /\ \A c \in 1..Len(conns) : Unowned(c)'
  <1>1. /\ ControlTypes /\ TableTypes /\ HandsFull /\ Apart /\ AbortedIsGone
        /\ conns \in Seq(ConnRecords) /\ Len(conns) \in Nat /\ DOMAIN conns = 1..Len(conns)
    BY DEF ConnectionTypes, ConnectionInv, TableTypes
  <1>2. /\ conns' = [c \in 1..Len(conns) |-> IF c \in Drained THEN Abort(conns[c]) ELSE conns[c]]
        /\ connections' = [n \in Names |-> None] /\ server_connections' = [n \in Names |-> None]
        /\ held' = held /\ \A b \in Branches : phase[b] \in {"err", "done", "dropped"}
    BY <1>1 DEF Cleanup
  <1>3. \A c \in 1..Len(conns) : Abort(conns[c]) \in ConnRecords /\ conns[c] \in ConnRecords
    BY <1>1, Aborted
  <1>4. conns' \in [1..Len(conns) -> ConnRecords]
    <2> HIDE DEF Abort, Drained, ConnRecords
    <2> QED
      BY <1>2, <1>3
  <1>5. conns' \in Seq(ConnRecords) /\ Len(conns') = Len(conns)
    BY <1>1, <1>4
  <1>6. \A b \in Branches : held[b] = None
    BY <1>1, <1>2 DEF HandsFull, Holding
  <1>7. \A c \in 1..Len(conns) : Unowned(c)'
    BY <1>1, <1>2, <1>6 DEF Unowned, None
  <1> QED
    BY <1>2, <1>5, <1>6, <1>7

LEMMA CleanupKeeps ==
    ASSUME ConnectionTypes, ConnectionInv, Cleanup
    PROVE  ConnectionTypes' /\ ConnectionInv'
  <1>1. /\ ControlTypes /\ TableTypes /\ HandsFull /\ AbortedIsGone
        /\ run' = "aborted" /\ listeners' = {}
        /\ UNCHANGED <<scenario, blk, iter, at, phase, held, store, errs>>
        /\ connections' = [n \in Names |-> None] /\ server_connections' = [n \in Names |-> None]
    BY DEF ConnectionTypes, ConnectionInv, Cleanup
  <1>2. /\ conns' \in Seq(ConnRecords) /\ Len(conns') = Len(conns) /\ Len(conns) \in Nat
        /\ DOMAIN conns = 1..Len(conns) /\ DOMAIN conns' = 1..Len(conns)
        /\ \A c \in 1..Len(conns) :
             conns'[c] = IF c \in Drained THEN Abort(conns[c]) ELSE conns[c]
        /\ \A b \in Branches : held[b] = None
        /\ \A c \in 1..Len(conns) : Unowned(c)'
    <2>1. /\ conns' \in Seq(ConnRecords) /\ Len(conns') = Len(conns)
          /\ \A c \in 1..Len(conns) :
               conns'[c] = IF c \in Drained THEN Abort(conns[c]) ELSE conns[c]
          /\ \A b \in Branches : held[b] = None
          /\ \A c \in 1..Len(conns) : Unowned(c)'
      BY CleanupLeaves, Zenon
    <2>2. Len(conns) \in Nat /\ DOMAIN conns = 1..Len(conns)
      BY <1>1 DEF TableTypes
    <2>3. DOMAIN conns' = 1..Len(conns)
      BY <2>1
    <2> QED
      BY <2>1, <2>2, <2>3, Zenon
  <1>3. InStep'
    BY <1>1 DEF ControlTypes, InStep, BranchesHere, Branch
  <1>4. ControlTypes'
    BY <1>1, <1>3 DEF ControlTypes
  <1>5. TableTypes'
    BY <1>1, <1>2 DEF TableTypes, None
  <1>6. HandsFull'
    BY <1>1, <1>2 DEF HandsFull, Holding
  <1>7. Apart'
    BY <1>1, <1>2 DEF Apart
  <1>8. \A c \in 1..Len(conns) : conns'[c].mux = "aborted" => conns'[c].workers = {}
    <2>1. \A c \in 1..Len(conns) : conns[c] \in ConnRecords /\ Abort(conns[c]).workers = {}
      BY <1>1, Aborted DEF TableTypes
    <2> HIDE DEF Abort, Drained, ConnRecords
    <2> QED
      BY <1>1, <1>2, <2>1 DEF AbortedIsGone
  <1>9. AbortedIsGone' /\ CleanedUp'
    BY <1>2, <1>8 DEF AbortedIsGone, CleanedUp
  <1> QED
    BY <1>4, <1>5, <1>6, <1>7, <1>9 DEF ConnectionTypes, ConnectionInv

\* The peer closes a connection, or a worker ends.
LEMMA PeerStep ==
    ASSUME ConnectionTypes, ConnectionInv, PeerCloses \/ \E c \in DOMAIN conns : WorkersNext(c)
    PROVE  /\ ConnectionTypes' /\ ConnectionInv'
           /\ \A c \in DOMAIN conns' :
                c \in DOMAIN conns /\ conns'[c].stage = conns[c].stage
                /\ (conns'[c].mux = "running" => conns[c].mux = "running")
  <1>1. /\ ControlTypes /\ TableTypes /\ HandsFull /\ Apart /\ AbortedIsGone /\ CleanedUp
        /\ conns \in Seq(ConnRecords) /\ DOMAIN conns = 1..Len(conns)
        /\ UNCHANGED <<control, at, phase, held, tables, store, errs>>
    BY DEF ConnectionTypes, ConnectionInv, TableTypes, PeerCloses, WorkersNext, KeepAliveEnds,
           TxSubmissionEnds, WorkerOver
  <1>2. PICK c \in 1..Len(conns) :
          \/ conns[c].mux = "running" /\ conns' = [conns EXCEPT ![c].mux = "closed"]
          \/ \E w : w \in conns[c].workers /\ conns' = [conns EXCEPT ![c].workers = @ \ {w}]
    BY <1>1 DEF PeerCloses, WorkersNext, KeepAliveEnds, TxSubmissionEnds, WorkerOver
  <1>3. conns[c] \in ConnRecords
    BY <1>1, <1>2
  <1>4. \E r \in ConnRecords :
          /\ conns' = [conns EXCEPT ![c] = r] /\ r.stage = conns[c].stage /\ r.mux # "aborted"
          /\ r.mux = "running" => conns[c].mux = "running"
    <2>1. CASE conns[c].mux = "running" /\ conns' = [conns EXCEPT ![c].mux = "closed"]
      <3> DEFINE r == [conns[c] EXCEPT !.mux = "closed"]
      <3>1. r \in ConnRecords /\ r.mux = "closed" /\ r.stage = conns[c].stage
        BY <1>3, PeerGone
      <3>2. conns' = [conns EXCEPT ![c] = r]
        BY <2>1
      <3> HIDE DEF r
      <3> QED
        BY <3>1, <3>2
    <2>2. CASE \E w : w \in conns[c].workers /\ conns' = [conns EXCEPT ![c].workers = @ \ {w}]
      <3>1. PICK w : w \in conns[c].workers /\ conns' = [conns EXCEPT ![c].workers = @ \ {w}]
        BY <2>2
      <3> DEFINE ws == conns[c].workers \ {w}
                 r == [conns[c] EXCEPT !.workers = ws]
      <3>2. ws \in SUBSET {"keep-alive", "tx-submission"}
        BY <1>3 DEF ConnRecords
      <3>3. conns' = [conns EXCEPT ![c] = r]
        BY <3>1
      <3>4. conns[c].mux # "aborted"
        BY <1>1, <1>2, <3>1 DEF AbortedIsGone
      <3> HIDE DEF ws
      <3>5. r \in ConnRecords /\ r.mux = conns[c].mux /\ r.stage = conns[c].stage
        BY <1>3, <3>2, WorkersSet
      <3> HIDE DEF r
      <3> QED
        BY <3>3, <3>4, <3>5
    <2> QED
      BY <1>2, <2>1, <2>2
  <1>5. PICK r \in ConnRecords :
          /\ conns' = [conns EXCEPT ![c] = r] /\ r.stage = conns[c].stage /\ r.mux # "aborted"
          /\ r.mux = "running" => conns[c].mux = "running"
    BY <1>4
  <1>6. Apart' /\ \A x \in 1..Len(conns) : Unowned(x) => Unowned(x)'
    BY <1>1, NothingMoves DEF tables
  <1>7. /\ AbortedIsGone' /\ conns' \in Seq(ConnRecords) /\ Len(conns') = Len(conns)
        /\ conns'[c] = r /\ \A x \in 1..Len(conns) : x # c => conns'[x] = conns[x]
        /\ DOMAIN conns' = 1..Len(conns)
    BY <1>1, <1>2, <1>5, <1>6, RecordChanges
  <1>8. \A x \in 1..Len(conns) : conns'[x].stage = conns[x].stage
                                 /\ (conns'[x].mux = "running" => conns[x].mux = "running")
    BY <1>5, <1>7
  <1>9. InStep'
    BY <1>1 DEF ControlTypes, InStep, BranchesHere, Branch, control
  <1>10. ControlTypes'
    BY <1>1, <1>9 DEF ControlTypes, control
  <1>11. TableTypes'
    BY <1>1, <1>7 DEF TableTypes, tables
  <1>12. \A b \in Branches : held[b] # None => conns'[held[b]].stage = conns[held[b]].stage
    BY <1>1, <1>8 DEF TableTypes, None
  <1>13. HandsFull'
    BY <1>1, <1>12 DEF HandsFull, Holding
  <1>14. CleanedUp'
    BY <1>1, <1>6, <1>7 DEF CleanedUp, control
  <1> QED
    BY <1>1, <1>6, <1>7, <1>8, <1>10, <1>11, <1>13, <1>14 DEF ConnectionTypes, ConnectionInv
\* The invariant holds initially and is kept by every step.
LEMMA ConnectionsInit == Init => ConnectionTypes /\ ConnectionInv
  <1> SUFFICES ASSUME Init
               PROVE  ConnectionTypes /\ ConnectionInv
    OBVIOUS
  <1>1. /\ scenario \in Scenarios /\ scenario \in Seq(Blocks) /\ Len(scenario) \in Nat
        /\ \A k \in 1..Len(scenario) : scenario[k].times \in Nat
    <2>1. scenario \in Scenarios
      BY DEF Init
    <2>2. \A x \in Blocks : x.times \in Nat
      BY DEF Blocks
    <2> QED
      BY <2>1, <2>2, ScenariosAssumption
  <1>2. InStep
    BY DEF Init, InStep
  <1>3. blk = 1 /\ iter = 0 /\ run = "running"
    BY DEF Init
  <1>4. ControlTypes
    BY <1>1, <1>2, <1>3 DEF Init, ControlTypes, Phases
  <1>5. /\ conns = <<>> /\ <<>> \in Seq(ConnRecords) /\ Len(conns) = 0 /\ DOMAIN conns = {}
    BY DEF Init
  <1>6. TableTypes
    <2>1. \A v : Initial(v) \in Seq(Nat)
      BY DEF Initial, BuiltIn, Site, Unset
    <2> QED
      BY <1>5, <2>1, ConnectionsAssumption DEF Init, TableTypes, None
  <1>7. HandsFull /\ Apart
    BY DEF Init, HandsFull, Holding, Apart
  <1>8. AbortedIsGone /\ CleanedUp
    BY <1>3, <1>5 DEF AbortedIsGone, CleanedUp
  <1> QED
    BY <1>4, <1>6, <1>7, <1>8 DEF ConnectionTypes, ConnectionInv

LEMMA ConnectionsNext ==
    ConnectionTypes /\ ConnectionInv /\ [Next]_vars => ConnectionTypes' /\ ConnectionInv'
  <1> SUFFICES ASSUME ConnectionTypes, ConnectionInv, [Next]_vars
               PROVE  ConnectionTypes' /\ ConnectionInv'
    OBVIOUS
  <1>1. CASE \E b \in Branches : BranchNext(b)
    BY <1>1, BranchStep
  <1>2. CASE RunnerNext
    BY <1>2, RunnerMoves, DropKeeps, CleanupKeeps DEF RunnerNext
  <1>3. CASE PeerCloses \/ \E c \in DOMAIN conns : WorkersNext(c)
    BY <1>3, PeerStep
  <1>4. CASE UNCHANGED vars
    <2>1. UNCHANGED <<scenario, blk, iter, run, at, phase, held, connections, server_connections,
                      listeners, store, conns, errs>>
      BY <1>4 DEF vars, control, tables
    <2>2. ConnectionTypes'
      BY <2>1 DEF ConnectionTypes, ControlTypes, TableTypes, InStep, BranchesHere, Branch
    <2>3. ConnectionInv'
      BY <2>1 DEF ConnectionInv, HandsFull, Apart, AbortedIsGone, CleanedUp, Unowned
    <2> QED
      BY <2>2, <2>3
  <1> QED
    BY <1>1, <1>2, <1>3, <1>4 DEF Next

LEMMA ConnectionsInvariant == Spec => [](ConnectionTypes /\ ConnectionInv)
  BY ConnectionsInit, ConnectionsNext, PTL DEF Spec

-----------------------------------------------------------------------------
(* The theorems.                                                           *)

(***************************************************************************)
(* Type correctness: a branch never looks beyond its steps, and no map and *)
(* no hand names a connection that was not opened.                         *)
(***************************************************************************)
THEOREM ConnectionsTypeCorrect == Spec => []TypeOK
  <1>1. ConnectionTypes => TypeOK
    <2> SUFFICES ASSUME ConnectionTypes
                 PROVE  TypeOK
      OBVIOUS
    <2>1. /\ ControlTypes /\ TableTypes /\ conns \in Seq(ConnRecords)
          /\ Len(conns) \in 0..MaxConns
      BY ConnectionsAssumption DEF ConnectionTypes, TableTypes
    <2>2. \A c \in 1..Len(conns) : conns[c] \in ConnRecords
      BY <2>1
    <2>3. \A r \in ConnRecords :
            /\ r.stage \in {"open", "accepting", "probe"}
            /\ r.mux \in {"running", "closed", "aborted"}
            /\ r.used \subseteq Protocols
            /\ r.workers \subseteq {"keep-alive", "tx-submission"}
      BY DEF ConnRecords
    <2>4. \A c \in 1..Len(conns) :
            /\ conns[c].stage \in {"open", "accepting", "probe"}
            /\ conns[c].mux \in {"running", "closed", "aborted"}
            /\ conns[c].used \subseteq Protocols
            /\ conns[c].workers \subseteq {"keep-alive", "tx-submission"}
      BY <2>2, <2>3, Zenon
    <2> QED
      BY <2>1, <2>4 DEF TypeOK, ControlTypes, TableTypes
  <1> QED
    BY <1>1, ConnectionsInvariant, PTL

\* The places of a connection, place by place.
LEMMA PlacesApart ==
    ASSUME Apart, NEW c, c # None
    PROVE  \A p, q \in Places(c) : p = q
  <1> SUFFICES ASSUME NEW p \in Places(c), NEW q \in Places(c)
               PROVE  p = q
    OBVIOUS
  <1>1. ASSUME NEW x \in Places(c)
        PROVE  \/ \E n \in Names : x = <<"client", n>> /\ connections[n] = c
               \/ \E n \in Names : x = <<"server", n>> /\ server_connections[n] = c
               \/ \E b \in Branches : x = <<"branch", b>> /\ held[b] = c
    BY <1>1 DEF Places
  <1>2. CASE \E n \in Names : p = <<"client", n>> /\ connections[n] = c
    BY <1>1, <1>2 DEF Apart
  <1>3. CASE \E n \in Names : p = <<"server", n>> /\ server_connections[n] = c
    BY <1>1, <1>3 DEF Apart
  <1>4. CASE \E b \in Branches : p = <<"branch", b>> /\ held[b] = c
    BY <1>1, <1>4 DEF Apart
  <1> QED
    BY <1>1, <1>2, <1>3, <1>4

LEMMA NoPlaces ==
    ASSUME NEW c
    PROVE  Places(c) = {} <=> Unowned(c)
  <1>1. ASSUME Unowned(c)
        PROVE  Places(c) = {}
    BY <1>1 DEF Places, Unowned
  <1>2. ASSUME ~Unowned(c)
        PROVE  Places(c) # {}
    <2>1. CASE \E n \in Names : connections[n] = c
      <3>1. PICK n \in Names : connections[n] = c
        BY <2>1
      <3>2. <<"client", n>> \in Places(c)
        BY <3>1 DEF Places
      <3> QED
        BY <3>2
    <2>2. CASE \E n \in Names : server_connections[n] = c
      <3>1. PICK n \in Names : server_connections[n] = c
        BY <2>2
      <3>2. <<"server", n>> \in Places(c)
        BY <3>1 DEF Places
      <3> QED
        BY <3>2
    <2>3. CASE \E b \in Branches : held[b] = c
      <3>1. PICK b \in Branches : held[b] = c
        BY <2>3
      <3>2. <<"branch", b>> \in Places(c)
        BY <3>1 DEF Places
      <3> QED
        BY <3>2
    <2> QED
      BY <1>2, <2>1, <2>2, <2>3 DEF Unowned
  <1> QED
    BY <1>1, <1>2

(***************************************************************************)
(* The check-out discipline of CheckedOut: whatever the scenarios do with  *)
(* names, a connection is under one name of one map or in the hand of one  *)
(* branch, so no two branches use it at a time.                            *)
(***************************************************************************)
THEOREM ConnectionHasOneOwner == Spec => []OneOwner
  <1>1. ConnectionTypes /\ ConnectionInv => OneOwner
    <2> SUFFICES ASSUME ConnectionTypes, ConnectionInv, NEW c \in DOMAIN conns
                 PROVE  Cardinality(Places(c)) <= 1
      BY DEF OneOwner
    <2>1. c # None
      BY DEF ConnectionTypes, TableTypes, None
    <2>2. \A p, q \in Places(c) : p = q
      BY <2>1, PlacesApart DEF ConnectionInv
    <2>3. CASE Places(c) = {}
      BY <2>3, FS_EmptySet
    <2>4. CASE Places(c) # {}
      <3>1. PICK p : Places(c) = {p}
        BY <2>2, <2>4
      <3>2. Cardinality(Places(c)) = 1
        BY <3>1, FS_Singleton, Zenon
      <3> QED
        BY <3>2
    <2> QED
      BY <2>3, <2>4
  <1> QED
    BY <1>1, ConnectionsInvariant, PTL
\* The part of AbortClosesAll that rests on NoneLost.
LEMMA StillOpenStep ==
    ASSUME ConnectionTypes, ConnectionInv, NoneLost, [Next]_vars,
           LeftBehindUnfinished
    PROVE  LeftBehindUnfinished'
  <1> SUFFICES ASSUME run' = "aborted", NEW c \in DOMAIN conns', WellNamed(scenario)',
                      conns'[c].mux = "running"
               PROVE  conns'[c].stage # "open"
    BY DEF LeftBehindUnfinished
  <1>1. CASE \E b \in Branches : BranchNext(b)
    <2>1. run' = "running"
      BY <1>1 DEF BranchNext, FailsEarly, Connect, Begin, Handshake, Exchange, End, Disconnect,
                  Probe, ProbeEnds, Listen, CloseListener, AwaitPeer, AcceptPeer, Negotiate,
                  InsertServer, Other, In, control
    <2> QED
      BY <2>1
  <1>2. CASE Cleanup
    <2>1. /\ conns \in Seq(ConnRecords) /\ Len(conns) \in Nat /\ DOMAIN conns = 1..Len(conns)
          /\ scenario' = scenario
      BY <1>2 DEF ConnectionTypes, TableTypes, Cleanup
    <2>2. /\ conns' \in Seq(ConnRecords) /\ Len(conns') = Len(conns)
          /\ \A x \in 1..Len(conns) :
               conns'[x] = IF x \in Drained THEN Abort(conns[x]) ELSE conns[x]
          /\ \A b \in Branches : held[b] = None
      BY <1>2, CleanupLeaves, Zenon
    <2>3. c \in 1..Len(conns)
      BY <2>2
    <2>4. Abort(conns[c]).mux = "aborted"
      BY <2>1, <2>3 DEF Abort, ConnRecords
    <2>5. c \notin Drained /\ conns'[c] = conns[c]
      <3> HIDE DEF Abort, Drained
      <3> QED
        BY <2>2, <2>3, <2>4
    <2>6. Unowned(c)
      <3>1. c # None
        BY <2>3 DEF None
      <3> QED
        BY <2>2, <2>5, <3>1 DEF Drained, Unowned
    <2>7. Places(c) = {}
      BY <2>6, NoPlaces
    <2>8. WellNamed(scenario)
      BY <2>1 DEF WellNamed
    <2> QED
      BY <2>1, <2>3, <2>5, <2>7, <2>8 DEF NoneLost
  <1>3. CASE BeginIteration \/ NextBlock \/ Complete \/ JoinErr \/ \E b \in Branches : DropBranch(b)
    <2>1. run' # "aborted"
      BY <1>3 DEF BeginIteration, NextBlock, Complete, JoinErr, DropBranch, control
    <2> QED
      BY <2>1
  <1>4. CASE PeerCloses \/ \E x \in DOMAIN conns : WorkersNext(x)
    <2>1. scenario' = scenario /\ run' = run
      BY <1>4 DEF PeerCloses, WorkersNext, KeepAliveEnds, TxSubmissionEnds, WorkerOver, control
    <2>2. c \in DOMAIN conns /\ conns'[c].stage = conns[c].stage /\ conns[c].mux = "running"
      BY <1>4, PeerStep
    <2>3. WellNamed(scenario)
      BY <2>1 DEF WellNamed
    <2> QED
      BY <2>1, <2>2, <2>3 DEF LeftBehindUnfinished
  <1>5. CASE UNCHANGED vars
    <2>1. scenario' = scenario /\ run' = run /\ conns' = conns
      BY <1>5 DEF vars, control
    <2>2. WellNamed(scenario)
      BY <2>1 DEF WellNamed
    <2> QED
      BY <2>1, <2>2 DEF LeftBehindUnfinished
  <1> QED
    BY <1>1, <1>2, <1>3, <1>4, <1>5 DEF Next, RunnerNext

\* How a connection can leave its place without another taking its name.
LEMMA Leaves ==
    ASSUME ConnectionTypes, ConnectionInv, NEW c \in DOMAIN conns, ~Unowned(c), ~Overwritten(c),
           Unowned(c)'
    PROVE  /\ ~UNCHANGED <<connections, server_connections, held>>
           /\ \A side : \A n \in Names, x \in Nat :
                Put(side, n, x) /\ UNCHANGED held => x = None /\ Lookup(side, n) = c
           /\ \A side : \A n \in Names, b \in Branches :
                phase[b] \in Holding => ~(Put(side, n, held[b]) /\ Hold(b, None))
           /\ \A b \in Branches : \A x :
                UNCHANGED <<connections, server_connections>> /\ Hold(b, x) => held[b] = c
  <1>1. /\ TableTypes /\ HandsFull /\ Apart /\ c \in 1..Len(conns) /\ Len(conns) \in Nat
        /\ c # None
    BY DEF ConnectionTypes, ConnectionInv, TableTypes, None
  <1>2. ~UNCHANGED <<connections, server_connections, held>>
    BY DEF Unowned
  <1>3. ASSUME NEW side, NEW n \in Names, NEW x \in Nat, Put(side, n, x), UNCHANGED held
        PROVE  x = None /\ Lookup(side, n) = c
    <2>1. CASE side = "client"
      <3>1. /\ server_connections' = server_connections /\ connections'[n] = x
            /\ \A m \in Names : m # n => connections'[m] = connections[m]
        BY <1>1, <1>3, <2>1 DEF Put, TableTypes
      <3>2. connections[n] = c /\ connections'[n] # c
        BY <1>3, <3>1 DEF Unowned
      <3> QED
        BY <2>1, <3>1, <3>2 DEF Overwritten, Lookup
    <2>2. CASE side # "client"
      <3>1. /\ connections' = connections /\ server_connections'[n] = x
            /\ \A m \in Names : m # n => server_connections'[m] = server_connections[m]
        BY <1>1, <1>3, <2>2 DEF Put, TableTypes
      <3>2. server_connections[n] = c /\ server_connections'[n] # c
        BY <1>3, <3>1 DEF Unowned
      <3> QED
        BY <2>2, <3>1, <3>2 DEF Overwritten, Lookup
    <2> QED
      BY <2>1, <2>2
  <1>4. ASSUME NEW side, NEW n \in Names, NEW b \in Branches, phase[b] \in Holding,
               Put(side, n, held[b]), Hold(b, None)
        PROVE  FALSE
    <2>1. /\ held[b] # None /\ \A d \in Branches : d # b => held'[d] = held[d]
      BY <1>1, <1>4 DEF HandsFull, Hold, TableTypes
    <2>2. CASE side = "client"
      <3>1. /\ server_connections' = server_connections /\ connections'[n] = held[b]
            /\ \A m \in Names : m # n => connections'[m] = connections[m]
        BY <1>1, <1>4, <2>2 DEF Put, TableTypes
      <3> QED
        BY <2>1, <3>1 DEF Unowned, Overwritten
    <2>3. CASE side # "client"
      <3>1. /\ connections' = connections /\ server_connections'[n] = held[b]
            /\ \A m \in Names : m # n => server_connections'[m] = server_connections[m]
        BY <1>1, <1>4, <2>3 DEF Put, TableTypes
      <3> QED
        BY <2>1, <3>1 DEF Unowned, Overwritten
    <2> QED
      BY <2>2, <2>3
  <1>5. ASSUME NEW b \in Branches, NEW x, UNCHANGED <<connections, server_connections>>,
               Hold(b, x)
        PROVE  held[b] = c
    <2>1. \A d \in Branches : d # b => held'[d] = held[d]
      BY <1>1, <1>5 DEF Hold, TableTypes
    <2> QED
      BY <1>5, <2>1 DEF Unowned
  <1> QED
    BY <1>2, <1>3, <1>4, <1>5
LEMMA LosesStep ==
    ASSUME ConnectionTypes, ConnectionInv, Next, NEW c \in DOMAIN conns,
           conns[c].stage = "open", ~Unowned(c), Unowned(c)', conns'[c].mux # "aborted"
    PROVE  Overwritten(c)
  <1> SUFFICES ASSUME ~Overwritten(c)
               PROVE  FALSE
    OBVIOUS
  <1>1. /\ TableTypes /\ ControlTypes /\ HandsFull /\ c \in 1..Len(conns) /\ Len(conns) \in Nat
        /\ c # None /\ conns[c] \in ConnRecords /\ conns \in Seq(ConnRecords)
    BY DEF ConnectionTypes, ConnectionInv, TableTypes, None
  <1>2. ~UNCHANGED <<connections, server_connections, held>>
    BY Leaves
  <1>3. \A side : \A n \in Names, x \in Nat :
          Put(side, n, x) /\ UNCHANGED held => x = None /\ Lookup(side, n) = c
    BY Leaves
  <1>4. \A side : \A n \in Names, b \in Branches :
          phase[b] \in Holding => ~(Put(side, n, held[b]) /\ Hold(b, None))
    BY Leaves
  <1>5. \A b \in Branches : \A x :
          UNCHANGED <<connections, server_connections>> /\ Hold(b, x) => held[b] = c
    BY Leaves
  <1>6. \A b \in Branches : held[b] = c => phase[b] \in {"busy", "telling"}
    BY <1>1 DEF HandsFull, Holding
  <1>7. \A b \in Branches : phase[b] \in Holding /\ phase[b] # "done" =>
                              ~(Reinsert(b) \/ (Put("server", Current(b).name, held[b]) /\ Hold(b, None)))
    <2>1. \A b \in Branches : phase[b] # "done" => Current(b).name \in Names
      BY <1>1, StepHere, StepFields
    <2> QED
      BY <1>4, <2>1 DEF Reinsert
  <1>8. CASE \E b \in Branches : BranchNext(b)
    <2>1. PICK b \in Branches : BranchNext(b)
      BY <1>8
    <2>2. phase[b] # "done" => Current(b).name \in Names
      BY <1>1, StepHere, StepFields
    <2>3. \/ FailsEarly(b) \/ Listen(b) \/ CloseListener(b) \/ AwaitPeer(b) \/ Other(b)
          \/ Connect(b) \/ Disconnect(b) \/ Begin(b)
          \/ Handshake(b) \/ Exchange(b) \/ End(b)
          \/ Probe(b) \/ ProbeEnds(b) \/ AcceptPeer(b) \/ Negotiate(b) \/ InsertServer(b)
      BY <2>1 DEF BranchNext
    <2>4. CASE FailsEarly(b) \/ Listen(b) \/ CloseListener(b) \/ AwaitPeer(b) \/ Other(b)
      BY <1>2, <2>4 DEF FailsEarly, Listen, CloseListener, AwaitPeer, Other, tables
    <2>5. CASE Connect(b)
      <3>1. /\ Put("client", Current(b).name, NewConn) /\ UNCHANGED held /\ phase[b] = "next"
            /\ NewConn \in Nat /\ NewConn # None
        BY <1>1, <2>5 DEF Connect, In, NewConn, None
      <3> QED
        BY <1>3, <2>2, <3>1
    <2>6. CASE Disconnect(b)
      <3> DEFINE n == Current(b).name
      <3>1. phase[b] = "next" /\ UNCHANGED held
        BY <2>6 DEF Disconnect, In
      <3>2. CASE connections[n] = None
        BY <1>2, <2>6, <3>1, <3>2 DEF Disconnect
      <3>3. CASE connections[n] # None
        <4>1. conns' = [conns EXCEPT ![connections[n]] = Abort(@)] /\ Put("client", n, None)
          BY <2>6, <3>3 DEF Disconnect
        <4>2. n \in Names /\ None \in Nat
          BY <2>2, <3>1 DEF None
        <4>3. connections[n] = c
          BY <1>3, <3>1, <4>1, <4>2 DEF Lookup
        <4>4. conns'[c] = Abort(conns[c]) /\ Abort(conns[c]).mux = "aborted"
          BY <1>1, <4>1, <4>3 DEF Abort, ConnRecords
        <4> QED
          BY <4>4
      <3> QED
        BY <3>2, <3>3
    <2>7. CASE Begin(b)
      <3>1. phase[b] = "next"
        BY <2>7 DEF Begin, In
      <3>2. CASE Take(b)
        <4> DEFINE n == Current(b).name
                   side == Side(Current(b).kind)
                   x == Lookup(side, n)
        <4>1. x # None /\ held' = [held EXCEPT ![b] = x] /\ Put(side, n, None)
          BY <3>2 DEF Take, Hold
        <4>2. n \in Names /\ held[b] = None
          BY <1>1, <2>2, <3>1 DEF HandsFull, Holding
        <4> HIDE DEF n, side
        <4>3. held'[b] = x /\ \A d \in Branches : d # b => held'[d] = held[d]
          BY <1>1, <4>1 DEF TableTypes
        <4>4. CASE side = "client"
          <5>1. /\ server_connections' = server_connections /\ x = connections[n]
                /\ \A m \in Names : m # n => connections'[m] = connections[m]
            BY <1>1, <4>1, <4>4 DEF Put, TableTypes, Lookup
          <5> QED
            BY <1>1, <4>2, <4>3, <5>1 DEF Unowned
        <4>5. CASE side # "client"
          <5>1. /\ connections' = connections /\ x = server_connections[n]
                /\ \A m \in Names : m # n => server_connections'[m] = server_connections[m]
            BY <1>1, <4>1, <4>5 DEF Put, TableTypes, Lookup
          <5> QED
            BY <1>1, <4>2, <4>3, <5>1 DEF Unowned
        <4> QED
          BY <4>4, <4>5
      <3>3. CASE ~Take(b)
        BY <1>2, <2>7, <3>3 DEF Begin
      <3> QED
        BY <3>2, <3>3
    <2>8. CASE Handshake(b) \/ Exchange(b) \/ End(b)
      <3>1. phase[b] \in {"busy", "telling"}
        BY <2>8 DEF Handshake, Exchange, End, In
      <3>2. Reinsert(b)
        BY <1>2, <2>8 DEF Handshake, Exchange, End
      <3> QED
        BY <1>7, <3>1, <3>2 DEF Holding
    <2>9. CASE Probe(b) \/ ProbeEnds(b) \/ AcceptPeer(b) \/ Negotiate(b)
      <3>1. phase[b] \notin {"busy", "telling"}
        BY <2>9 DEF Probe, ProbeEnds, AcceptPeer, Negotiate, In
      <3>2. UNCHANGED <<connections, server_connections>>
        BY <2>9 DEF Probe, ProbeEnds, AcceptPeer, Negotiate, tables
      <3>3. \E x : Hold(b, x)
        BY <1>2, <2>9, <3>2 DEF Probe, ProbeEnds, AcceptPeer, Negotiate
      <3> QED
        BY <1>5, <1>6, <3>1, <3>2, <3>3
    <2>10. CASE InsertServer(b)
      <3>1. phase[b] = "accepted" /\ Hold(b, None)
        BY <2>10 DEF InsertServer, In
      <3>2. CASE Put("server", Current(b).name, held[b])
        BY <1>7, <3>1, <3>2 DEF Holding
      <3>3. CASE UNCHANGED <<connections, server_connections>>
        BY <1>5, <1>6, <3>1, <3>3
      <3> QED
        BY <2>10, <3>2, <3>3 DEF InsertServer
    <2> QED
      BY <2>3, <2>4, <2>5, <2>6, <2>7, <2>8, <2>9, <2>10
  <1>9. CASE BeginIteration \/ NextBlock \/ Complete \/ JoinErr
    BY <1>2, <1>9 DEF BeginIteration, NextBlock, Complete, JoinErr, tables
  <1>10. CASE \E b \in Branches : DropBranch(b)
    <2>1. PICK b \in Branches : DropBranch(b)
      BY <1>10
    <2>2. CASE phase[b] \in {"busy", "telling"}
      BY <1>7, <2>1, <2>2 DEF DropBranch, Holding
    <2>3. CASE phase[b] \notin {"busy", "telling"}
      BY <1>5, <1>6, <2>1, <2>3 DEF DropBranch
    <2> QED
      BY <2>2, <2>3
  <1>11. CASE Cleanup
    <2>1. /\ conns'[c] = IF c \in Drained THEN Abort(conns[c]) ELSE conns[c]
          /\ \A b \in Branches : held[b] = None
      BY <1>1, <1>11, CleanupLeaves, Zenon
    <2>2. c \in Drained
      BY <1>1, <2>1 DEF Unowned, Drained
    <2>3. Abort(conns[c]).mux = "aborted"
      BY <1>1 DEF Abort, ConnRecords
    <2> HIDE DEF Abort, Drained
    <2> QED
      BY <2>1, <2>2, <2>3
  <1>12. CASE PeerCloses \/ \E x \in DOMAIN conns : WorkersNext(x)
    BY <1>2, <1>12 DEF PeerCloses, WorkersNext, KeepAliveEnds, TxSubmissionEnds, WorkerOver, tables
  <1> QED
    BY <1>8, <1>9, <1>10, <1>11, <1>12 DEF Next, RunnerNext

(***************************************************************************)
(* The one way to lose a connection: however steps fail and branches are   *)
(* dropped, a connection that was set up stays in a map or a hand until it *)
(* is aborted or another connection is put under its name.                 *)
(***************************************************************************)
THEOREM LostOnlyByName == Spec => LostByName
  <1>1. ConnectionTypes /\ ConnectionInv /\ [Next]_vars =>
          [\A c \in DOMAIN conns :
             conns[c].stage = "open" /\ ~Unowned(c) /\ Unowned(c)' /\ conns'[c].mux # "aborted" =>
               Overwritten(c)]_vars
    BY LosesStep
  <1> QED
    BY <1>1, ConnectionsInvariant, PTL DEF Spec, LostByName

-----------------------------------------------------------------------------
(* The sites of a scenario and how far it is with them.                    *)

\* The site a branch is at.
Here(b) == Site(blk, iter, b, at[b])

\* A branch that is in a step is in an iteration.
Begun == \A b \in Branches : phase[b] # "done" => iter # 0

\* The step of this site has returned Ok.
Executed(s) ==
    \/ s[1] < blk
    \/ s[1] = blk /\ s[2] < iter
    \/ s[1] = blk /\ s[2] = iter /\ (phase[s[3]] = "done" \/ s[4] < at[s[3]])

\* The parts of a site.
LEMMA SiteParts ==
    ASSUME ControlTypes, NEW s \in Sites(scenario)
    PROVE  /\ s = <<s[1], s[2], s[3], s[4]>>
           /\ s[1] \in 1..Len(scenario) /\ s[2] \in 1..scenario[s[1]].times
           /\ s[3] \in 1..Len(scenario[s[1]].branches) /\ s[3] \in Branches
           /\ s[4] \in 1..Len(scenario[s[1]].branches[s[3]])
           /\ s[1] \in Nat /\ s[2] \in Nat /\ s[3] \in Nat /\ s[4] \in Nat
           /\ StepAt(scenario, s) \in Steps
           /\ StepAt(scenario, s) \in ToSet(scenario[s[1]].branches[s[3]])
  <1> DEFINE At(k, b) == {Site(k, i, b, j) : i \in 1..scenario[k].times,
                                             j \in 1..Len(scenario[k].branches[b])}
             InBlock(k) == UNION {At(k, b) : b \in 1..Len(scenario[k].branches)}
  <1>0. s \in UNION {InBlock(k) : k \in 1..Len(scenario)}
    BY DEF Sites
  <1>0a. PICK k \in 1..Len(scenario) : s \in InBlock(k)
    <2> HIDE DEF InBlock
    <2> QED
      BY <1>0
  <1>0b. PICK b \in 1..Len(scenario[k].branches) : s \in At(k, b)
    <2> HIDE DEF At
    <2> QED
      BY <1>0a
  <1>1. PICK i \in 1..scenario[k].times, j \in 1..Len(scenario[k].branches[b]) :
          s = <<k, i, b, j>>
    BY <1>0b DEF Site
  <1>2. s[1] = k /\ s[2] = i /\ s[3] = b /\ s[4] = j
    BY <1>1
  <1>3. /\ Len(scenario) \in Nat /\ scenario[k].branches \in Seq(Seq(Steps))
        /\ scenario[k].times \in Nat /\ Len(scenario[k].branches) <= N /\ N \in Nat
    BY ScenarioParts, ScenariosAssumption, ConnectionsAssumption DEF ControlTypes
  <1>4. scenario[k].branches[b] \in Seq(Steps)
    BY <1>3
  <1>5. /\ scenario[k].branches[b][j] \in Steps
        /\ scenario[k].branches[b][j] \in ToSet(scenario[k].branches[b])
    BY <1>4 DEF ToSet
  <1>6. b \in Branches
    BY <1>3 DEF Branches
  <1>7. StepAt(scenario, s) = scenario[k].branches[b][j]
    BY <1>2 DEF StepAt
  <1>8. k \in Nat /\ i \in Nat /\ b \in Nat /\ j \in Nat
    BY <1>3, <1>4
  <1> QED
    BY <1>1, <1>2, <1>5, <1>6, <1>7, <1>8

LEMMA HereParts ==
    ASSUME NEW b
    PROVE  Here(b)[1] = blk /\ Here(b)[2] = iter /\ Here(b)[3] = b /\ Here(b)[4] = at[b]
  BY DEF Here, Site

\* Where a branch is.
LEMMA HereIsSite ==
    ASSUME ControlTypes, Begun, NEW b \in Branches, phase[b] # "done"
    PROVE  /\ Here(b) \in Sites(scenario)
           /\ Here(b)[1] = blk /\ Here(b)[2] = iter /\ Here(b)[3] = b /\ Here(b)[4] = at[b]
           /\ StepAt(scenario, Here(b)) = Current(b)
           /\ blk \in Nat /\ iter \in Nat /\ b \in Nat /\ at[b] \in Nat
  <1>1. /\ blk \in 1..Len(scenario) /\ b \in DOMAIN scenario[blk].branches
        /\ Branch(b) \in Seq(Steps) /\ at[b] \in 1..Len(Branch(b))
    BY StepHere
  <1>2. /\ Len(scenario) \in Nat /\ scenario[blk].branches \in Seq(Seq(Steps))
        /\ scenario[blk].times \in Nat /\ iter \in 0..scenario[blk].times
    BY <1>1, ScenarioParts DEF ControlTypes
  <1>3. iter \in 1..scenario[blk].times
    BY <1>2 DEF Begun
  <1>4. b \in 1..Len(scenario[blk].branches) /\ at[b] \in 1..Len(scenario[blk].branches[b])
    BY <1>1, <1>2 DEF Branch
  <1>5. Here(b) \in Sites(scenario)
    BY <1>1, <1>3, <1>4 DEF Here, Sites
  <1>6. Here(b)[1] = blk /\ Here(b)[2] = iter /\ Here(b)[3] = b /\ Here(b)[4] = at[b]
    BY DEF Here, Site
  <1>7. StepAt(scenario, Here(b)) = Current(b)
    BY <1>6 DEF StepAt, Current, Branch
  <1>8. blk \in Nat /\ iter \in Nat /\ b \in Nat /\ at[b] \in Nat
    BY <1>1, <1>2, <1>3, <1>4
  <1> QED
    BY <1>5, <1>6, <1>7, <1>8

\* A site is told by its parts.
LEMMA SiteHere ==
    ASSUME ControlTypes, NEW b \in Branches, NEW s \in Sites(scenario),
           s[1] = blk, s[2] = iter, s[3] = b, s[4] = at[b]
    PROVE  s = Here(b)
  BY SiteParts DEF Here, Site

\* A site in the current block is in a branch of it.
LEMMA SiteInBranch ==
    ASSUME ControlTypes, NEW s \in Sites(scenario), s[1] = blk
    PROVE  /\ s[3] \in BranchesHere /\ s[4] \in 1..Len(Branch(s[3]))
           /\ StepAt(scenario, s) = Branch(s[3])[s[4]] /\ Branch(s[3]) # <<>>
  <1>1. /\ s[1] \in 1..Len(scenario) /\ s[3] \in 1..Len(scenario[s[1]].branches)
        /\ s[4] \in 1..Len(scenario[s[1]].branches[s[3]])
    BY SiteParts
  <1>2. scenario[blk].branches \in Seq(Seq(Steps)) /\ Len(scenario) \in Nat
    BY <1>1, ScenarioParts
  <1>3. s[3] \in BranchesHere
    BY <1>1, <1>2 DEF BranchesHere
  <1>4. Branch(s[3]) \in Seq(Steps) /\ Branch(s[3]) = scenario[blk].branches[s[3]]
    BY <1>1, <1>2 DEF Branch
  <1> QED
    BY <1>1, <1>3, <1>4 DEF StepAt

\* How the step of a branch ends, and what it does to the store.
Effect(b) ==
    \/ /\ phase'[b] = "err" /\ at'[b] = at[b]
       /\ Store(b) \/ UNCHANGED store
    \/ /\ phase'[b] \notin {"telling", "done", "err"} /\ phase[b] # "telling"
       /\ at'[b] = at[b] /\ UNCHANGED store
    \/ phase'[b] = "telling" /\ phase[b] # "telling" /\ at'[b] = at[b] /\ Store(b)
    \/ Ok(b) /\ phase[b] # "telling" /\ Store(b)
    \/ Ok(b) /\ phase[b] = "telling" /\ UNCHANGED store

\* A step that assigns nothing stores nothing.
LEMMA StoresNothing ==
    ASSUME TableTypes, NEW b \in Branches, Assigns(Current(b)) = {}, UNCHANGED store
    PROVE  Store(b)
  <1>1. store = [v \in Vars |-> store[v]]
    BY DEF TableTypes
  <1> QED
    BY <1>1, Zenon DEF Store

LEMMA BranchEffect ==
    ASSUME ConnectionTypes, NEW b \in Branches, BranchNext(b)
    PROVE  /\ run = "running" /\ phase[b] \notin {"done", "err"}
           /\ UNCHANGED <<scenario, blk, iter, run>>
           /\ \A d \in Branches : d # b => at'[d] = at[d] /\ phase'[d] = phase[d]
           /\ Effect(b)
  <1>1. /\ TableTypes /\ at \in [Branches -> Nat] /\ phase \in [Branches -> Phases]
    BY DEF ConnectionTypes, ControlTypes
  <1>2. ASSUME NEW why, Err(b, why)
        PROVE  /\ phase'[b] = "err" /\ at'[b] = at[b]
               /\ \A d \in Branches : d # b => at'[d] = at[d] /\ phase'[d] = phase[d]
    BY <1>1, <1>2 DEF Err
  <1>3. ASSUME NEW p, Await(b, p)
        PROVE  /\ phase'[b] = p /\ at'[b] = at[b]
               /\ \A d \in Branches : d # b => at'[d] = at[d] /\ phase'[d] = phase[d]
    BY <1>1, <1>3 DEF Await
  <1>4. ASSUME Ok(b)
        PROVE  \A d \in Branches : d # b => at'[d] = at[d] /\ phase'[d] = phase[d]
    BY <1>1, <1>4 DEF Ok
  <1>5. Returns(b) => Ok(b) \/ \E why : Err(b, why)
    BY DEF Returns
  <1>6. Current(b).kind \notin {"query_tip", "chain_sync"} => Assigns(Current(b)) = {}
    BY DEF Assigns
  <1>7. CASE FailsEarly(b)
    <2>1. /\ run = "running" /\ phase[b] = "next" /\ UNCHANGED <<scenario, blk, iter, run, store>>
          /\ \E why : Err(b, why)
      BY <1>7 DEF FailsEarly, control
    <2> QED
      BY <1>2, <2>1 DEF Effect
  <1>8. CASE Connect(b) \/ Disconnect(b) \/ Listen(b) \/ CloseListener(b) \/ Other(b) \/ InsertServer(b)
    <2>1. /\ run = "running" /\ phase[b] \in {"next", "accepted"}
          /\ UNCHANGED <<scenario, blk, iter, run, store>>
          /\ Current(b).kind \notin {"query_tip", "chain_sync"}
          /\ Ok(b) \/ \E why : Err(b, why)
      BY <1>5, <1>8 DEF Connect, Disconnect, Listen, CloseListener, Other, InsertServer, In, control
    <2>2. Store(b)
      BY <1>1, <1>6, <2>1, StoresNothing
    <2> QED
      BY <1>2, <1>4, <2>1, <2>2 DEF Effect
  <1>9. CASE Begin(b) \/ Probe(b) \/ AwaitPeer(b) \/ AcceptPeer(b) \/ Negotiate(b)
    <2>1. /\ run = "running" /\ phase[b] \in {"next", "accepting", "negotiating"}
          /\ UNCHANGED <<scenario, blk, iter, run, store>>
          /\ \/ \E why : Err(b, why)
             \/ \E p \in {"busy", "probing", "accepting", "negotiating", "accepted"} : Await(b, p)
      BY <1>9 DEF Begin, Take, Probe, AwaitPeer, AcceptPeer, Negotiate, In, control
    <2> QED
      BY <1>2, <1>3, <2>1 DEF Effect
  <1>10. CASE Handshake(b)
    <2>1. /\ run = "running" /\ phase[b] = "busy" /\ Current(b).kind = "handshake"
          /\ UNCHANGED <<scenario, blk, iter, run, store>>
          /\ (\E why : Err(b, why)) \/ Await(b, "telling")
      BY <1>10 DEF Handshake, In, control
    <2>2. Store(b)
      BY <1>1, <1>6, <2>1, StoresNothing
    <2> QED
      BY <1>2, <1>3, <2>1, <2>2 DEF Effect
  <1>11. CASE Exchange(b)
    <2>1. /\ run = "running" /\ phase[b] = "busy" /\ UNCHANGED <<scenario, blk, iter, run>>
          /\ \/ (\E why : Err(b, why)) /\ UNCHANGED store
             \/ Await(b, "telling") /\ Store(b)
      BY <1>11 DEF Exchange, In, control
    <2> QED
      BY <1>2, <1>3, <2>1 DEF Effect
  <1>12. CASE End(b)
    <2>1. /\ run = "running" /\ phase[b] = "telling" /\ UNCHANGED <<scenario, blk, iter, run, store>>
          /\ Ok(b) \/ \E why : Err(b, why)
      BY <1>5, <1>12 DEF End, In, control
    <2> QED
      BY <1>2, <1>4, <2>1 DEF Effect
  <1>13. CASE ProbeEnds(b)
    <2>1. /\ run = "running" /\ phase[b] = "probing" /\ UNCHANGED <<scenario, blk, iter, run>>
          /\ \/ (\E why : Err(b, why)) /\ UNCHANGED store
             \/ Store(b) /\ (Ok(b) \/ \E why : Err(b, why))
      BY <1>5, <1>13 DEF ProbeEnds, In, control
    <2> QED
      BY <1>2, <1>4, <2>1 DEF Effect
  <1> QED
    BY <1>7, <1>8, <1>9, <1>10, <1>11, <1>12, <1>13 DEF BranchNext

\* The step of a branch executes its site, or none.
LEMMA ExecutedByBranch ==
    ASSUME ConnectionTypes, Begun, NEW b \in Branches, BranchNext(b), NEW s \in Sites(scenario)
    PROVE  Executed(s)' <=> Executed(s) \/ (Ok(b) /\ s = Here(b))
  <1>1. /\ ControlTypes /\ at \in [Branches -> Nat] /\ phase \in [Branches -> Phases]
    BY DEF ConnectionTypes, ControlTypes
  <1>2. /\ phase[b] # "done" /\ blk' = blk /\ iter' = iter
        /\ \A d \in Branches : d # b => at'[d] = at[d] /\ phase'[d] = phase[d]
        /\ Effect(b)
    BY BranchEffect
  <1>3. /\ s[3] \in Branches /\ s[4] \in Nat /\ s[1] \in Nat /\ s[2] \in Nat
    BY <1>1, SiteParts
  <1>4. /\ Branch(b) \in Seq(Steps) /\ at[b] \in 1..Len(Branch(b)) /\ Len(Branch(b)) \in Nat
    BY <1>1, <1>2, StepHere
  <1>5. CASE ~(s[1] = blk /\ s[2] = iter /\ s[3] = b)
    <2>1. s # Here(b)
      BY <1>5 DEF Here, Site
    <2>2. Executed(s)' <=> Executed(s)
      BY <1>2, <1>3, <1>5 DEF Executed
    <2> QED
      BY <2>1, <2>2
  <1>6. CASE s[1] = blk /\ s[2] = iter /\ s[3] = b
    <2>1. /\ Executed(s) <=> s[4] < at[b]
          /\ Executed(s)' <=> phase'[b] = "done" \/ s[4] < at'[b]
      BY <1>1, <1>2, <1>6, SMT DEF Executed, ControlTypes
    <2>2. s = Here(b) <=> s[4] = at[b]
      <3>1. s = Here(b) => s[4] = at[b]
        BY DEF Here, Site
      <3> QED
        BY <1>1, <1>6, <3>1, SiteHere
    <2>3. s[4] \in 1..Len(Branch(b))
      BY <1>1, <1>6, SiteInBranch
    <2>4. CASE Ok(b) /\ at[b] < Len(Branch(b))
      <3>1. at'[b] = at[b] + 1 /\ phase'[b] = "next"
        BY <1>1, <2>4 DEF Ok
      <3> QED
        BY <1>3, <1>4, <2>1, <2>2, <2>4, <3>1
    <2>5. CASE Ok(b) /\ ~(at[b] < Len(Branch(b)))
      <3>1. phase'[b] = "done"
        BY <1>1, <2>5 DEF Ok
      <3> QED
        BY <1>3, <1>4, <2>1, <2>2, <2>3, <2>5, <3>1
    <2>6. CASE ~Ok(b)
      <3>1. at'[b] = at[b] /\ phase'[b] # "done"
        BY <1>2, <2>6 DEF Effect
      <3> QED
        BY <2>1, <2>6, <3>1
    <2> QED
      BY <2>4, <2>5, <2>6
  <1> QED
    BY <1>5, <1>6

\* The next iteration or block begins with nothing executed.
LEMMA ExecutedByRunner ==
    ASSUME ConnectionTypes, BeginIteration \/ NextBlock, NEW s \in Sites(scenario)
    PROVE  Executed(s)' <=> Executed(s)
  <1>1. /\ ControlTypes /\ blk \in Nat /\ iter \in Nat /\ blk \in 1..Len(scenario)
        /\ \A b \in Branches : phase[b] = "done"
    BY ScenarioParts DEF ConnectionTypes, ControlTypes, BeginIteration, NextBlock, AllDone
  <1>2. /\ s[1] \in Nat /\ s[2] \in Nat /\ s[3] \in Branches /\ s[4] \in Nat
        /\ s[2] \in 1..scenario[s[1]].times /\ s[4] >= 1 /\ s[2] >= 1
    BY <1>1, SiteParts
  <1>3. Executed(s) <=> s[1] < blk \/ (s[1] = blk /\ s[2] <= iter)
    BY <1>1, <1>2 DEF Executed
  <1>4. CASE BeginIteration
    <2>1. blk' = blk /\ iter' = iter + 1
      BY <1>4 DEF BeginIteration
    <2>2. s[1] = blk => phase'[s[3]] = "next" /\ at'[s[3]] = 1
      <3>1. s[1] = blk => s[3] \in BranchesHere /\ Branch(s[3]) # <<>>
        BY <1>1, SiteInBranch
      <3> QED
        BY <1>2, <1>4, <3>1 DEF BeginIteration
    <2>3. s[1] = blk => ~(phase'[s[3]] = "done" \/ s[4] < at'[s[3]])
      BY <1>2, <2>2
    <2>4. Executed(s)' <=> s[1] < blk \/ (s[1] = blk /\ s[2] < iter + 1)
      BY <2>1, <2>3 DEF Executed
    <2> QED
      BY <1>1, <1>2, <1>3, <2>4
  <1>5. CASE NextBlock
    <2>1. blk' = blk + 1 /\ iter' = 0 /\ iter = scenario[blk].times
      BY <1>5 DEF NextBlock
    <2>2. Executed(s)' <=> s[1] < blk + 1
      BY <1>2, <2>1 DEF Executed
    <2>3. s[1] = blk => s[2] <= iter
      BY <1>1, <1>2, <2>1
    <2> QED
      BY <1>1, <1>2, <1>3, <2>2, <2>3
  <1> QED
    BY <1>4, <1>5

\* The steps that do not touch the control state of the branches.
Idle == UNCHANGED <<scenario, blk, iter, run, at, phase, store, errs>>

\* The steps by what they do while the scenario is running.
LEMMA RunningSteps ==
    ASSUME [Next]_vars, run' = "running"
    PROVE  \/ \E b \in Branches : BranchNext(b)
           \/ BeginIteration \/ NextBlock
           \/ Idle /\ UNCHANGED <<held, connections, server_connections, listeners>>
  <1>1. ASSUME RunnerNext
        PROVE  BeginIteration \/ NextBlock
    BY <1>1 DEF RunnerNext, Complete, JoinErr, Cleanup, DropBranch, control
  <1>2. ASSUME PeerCloses \/ (\E c \in DOMAIN conns : WorkersNext(c)) \/ UNCHANGED vars
        PROVE  Idle /\ UNCHANGED <<held, connections, server_connections, listeners>>
    BY <1>2 DEF PeerCloses, WorkersNext, KeepAliveEnds, TxSubmissionEnds, WorkerOver, vars,
                control, tables, Idle
  <1> QED
    BY <1>1, <1>2 DEF Next

\* A scenario that runs was running.
LEMMA StillRunning ==
    ASSUME [Next]_vars, run' = "running"
    PROVE  run = "running" /\ scenario' = scenario
  <1>1. ASSUME NEW b \in Branches, BranchNext(b)
        PROVE  run = "running" /\ scenario' = scenario
    BY <1>1 DEF BranchNext, FailsEarly, Connect, Begin, Handshake, Exchange, End, Disconnect,
                Probe, ProbeEnds, Listen, CloseListener, AwaitPeer, AcceptPeer, Negotiate,
                InsertServer, Other, In, control
  <1> QED
    BY <1>1, RunningSteps DEF BeginIteration, NextBlock, Idle

\* The scenario never changes.
LEMMA SameScenario ==
    ASSUME [Next]_vars
    PROVE  scenario' = scenario
  <1>1. CASE run' = "running"
    BY <1>1, StillRunning
  <1>2. ASSUME NEW b \in Branches, BranchNext(b)
        PROVE  scenario' = scenario
    BY <1>2 DEF BranchNext, FailsEarly, Connect, Begin, Handshake, Exchange, End, Disconnect,
                Probe, ProbeEnds, Listen, CloseListener, AwaitPeer, AcceptPeer, Negotiate,
                InsertServer, Other, control
  <1>3. ASSUME RunnerNext \/ PeerCloses \/ (\E c \in DOMAIN conns : WorkersNext(c)) \/ UNCHANGED vars
        PROVE  scenario' = scenario
    BY <1>3 DEF RunnerNext, BeginIteration, NextBlock, Complete, JoinErr, Cleanup, DropBranch,
                PeerCloses, WorkersNext, KeepAliveEnds, TxSubmissionEnds, WorkerOver, vars, control
  <1> QED
    BY <1>2, <1>3 DEF Next

\* Begun is kept.
LEMMA BegunStep ==
    ASSUME ConnectionTypes, Begun, [Next]_vars
    PROVE  Begun'
  <1>1. ControlTypes /\ phase \in [Branches -> Phases] /\ iter \in Nat
    BY DEF ConnectionTypes, ControlTypes
  <1>2. CASE \E b \in Branches : BranchNext(b)
    <2>1. PICK b \in Branches : BranchNext(b)
      BY <1>2
    <2>2. /\ phase[b] # "done" /\ iter' = iter
          /\ \A d \in Branches : d # b => phase'[d] = phase[d]
      BY <2>1, BranchEffect
    <2> QED
      BY <2>2 DEF Begun
  <1>3. CASE RunnerNext
    <2>1. CASE BeginIteration
      <3>1. iter' = iter + 1
        BY <2>1 DEF BeginIteration
      <3> QED
        BY <1>1, <3>1 DEF Begun
    <2>2. CASE NextBlock
      BY <2>2 DEF Begun, NextBlock, AllDone
    <2>3. CASE Complete \/ JoinErr \/ Cleanup
      BY <2>3 DEF Begun, Complete, JoinErr, Cleanup
    <2>4. CASE \E b \in Branches : DropBranch(b)
      BY <1>1, <2>4 DEF Begun, DropBranch, control
    <2> QED
      BY <1>3, <2>1, <2>2, <2>3, <2>4 DEF RunnerNext
  <1>4. CASE PeerCloses \/ (\E c \in DOMAIN conns : WorkersNext(c)) \/ UNCHANGED vars
    <2>1. UNCHANGED <<phase, iter>>
      BY <1>4 DEF PeerCloses, WorkersNext, KeepAliveEnds, TxSubmissionEnds, WorkerOver, vars, control
    <2> QED
      BY <2>1 DEF Begun
  <1> QED
    BY <1>2, <1>3, <1>4 DEF Next

-----------------------------------------------------------------------------
(* References.                                                             *)

\* The result of this site, if it has one, is in the store, ...
Stored(s) == Executed(s) \/ (phase[s[3]] = "telling" /\ s = Here(s[3]))

\* ... where it stays until a later one takes its place.
LastStored(v) ==
    IF store[v] = Initial(v) THEN \A s \in Setters(v) : ~Stored(s)
    ELSE /\ store[v] \in Setters(v) /\ Stored(store[v])
         /\ \A s \in Setters(v) : Stored(s) => ~Before(store[v], s)

\* A branch that sets the variable has failed: it may or may not have set it.
Spoilt(v) ==
    \E b \in Branches :
      phase[b] = "err" /\ \E j \in 1..Len(Branch(b)) : v \in Assigns(Branch(b)[j])

Fresh == run = "running" => \A v \in Vars : Spoilt(v) \/ LastStored(v)

\* The sites that set v are those of the scenario.
LEMMA SettersStay ==
    ASSUME scenario' = scenario, NEW v
    PROVE  Setters(v)' = Setters(v)
  BY DEF Setters

LEMMA InitialStays ==
    ASSUME scenario' = scenario, NEW v
    PROVE  Initial(v)' = Initial(v)
  BY DEF Initial

\* Nothing is stored.
LEMMA LastStays ==
    ASSUME NEW v, scenario' = scenario, store'[v] = store[v],
           \A s \in Setters(v) : Stored(s)' <=> Stored(s), LastStored(v)
    PROVE  LastStored(v)'
  <1>1. Setters(v)' = Setters(v)
    BY SettersStay
  <1>2. Initial(v)' = Initial(v)
    BY InitialStays
  <1>3. CASE store[v] = Initial(v)
    <2>1. \A s \in Setters(v) : ~Stored(s)
      BY <1>3 DEF LastStored
    <2>2. store'[v] = Initial(v)' /\ \A s \in Setters(v)' : ~Stored(s)'
      BY <1>1, <1>3, <1>2, <2>1, Zenon
    <2> QED
      BY <2>2, Zenon DEF LastStored
  <1>4. CASE store[v] # Initial(v)
    <2>1. /\ store[v] \in Setters(v) /\ Stored(store[v])
          /\ \A s \in Setters(v) : Stored(s) => ~Before(store[v], s)
      BY <1>4, Zenon DEF LastStored
    <2>2. PICK x : x = store[v]
      OBVIOUS
    <2>3. /\ x \in Setters(v)' /\ Stored(x)'
          /\ \A s \in Setters(v)' : Stored(s)' => ~Before(x, s)
      BY <1>1, <2>1, <2>2, Zenon
    <2>4. store'[v] = x /\ x # Initial(v)'
      BY <1>4, <1>2, <2>2, Zenon
    <2>5. Stored(store[v])'
      BY <2>3, <2>4, Zenon DEF Stored, Executed, Here
    <2> QED
      BY <2>3, <2>4, <2>5, Zenon DEF LastStored, Before
  <1> QED
    BY <1>3, <1>4

\* The site of the step is stored: no stored site comes after it.
LEMMA LastMoves ==
    ASSUME ConnectionTypes, Begun, NEW b \in Branches, phase[b] # "done", NEW v \in Vars,
           v \in Assigns(Current(b)), scenario' = scenario, store'[v] = Here(b),
           \A s \in Setters(v) : Stored(s)' <=> Stored(s) \/ s = Here(b)
    PROVE  LastStored(v)'
  <1>1. ControlTypes
    BY DEF ConnectionTypes
  <1> DEFINE t == Here(b)
  <1>2. /\ t \in Sites(scenario) /\ StepAt(scenario, t) = Current(b)
        /\ t[1] = blk /\ t[2] = iter /\ t[3] = b /\ t[4] = at[b]
        /\ blk \in Nat /\ iter \in Nat /\ at[b] \in Nat
    BY <1>1, HereIsSite
  <1>3. t \in Setters(v) /\ t # Initial(v)'
    <2>1. t # Unset
      BY DEF Here, Site, Unset
    <2>2. BuiltIn[1] = 0
      BY DEF BuiltIn, Site
    <2>3. t[1] # 0
      BY <1>1, <1>2 DEF ControlTypes
    <2>4. t # Initial(v)
      BY <2>1, <2>2, <2>3, Zenon DEF Initial
    <2>5. Initial(v)' = Initial(v)
      BY InitialStays
    <2> QED
      BY <1>2, <2>4, <2>5, Zenon DEF Setters
  <1>4. Setters(v)' = Setters(v)
    BY SettersStay
  <1> HIDE DEF t
  <1>5. ASSUME NEW s \in Setters(v), Stored(s) \/ s = t
        PROVE  ~Before(t, s)
    <2>1. /\ s \in Sites(scenario) /\ s[1] \in Nat /\ s[2] \in Nat /\ s[3] \in Nat /\ s[4] \in Nat
      BY <1>1, SiteParts DEF Setters
    <2>2. CASE s = t
      BY <1>2, <2>1, <2>2 DEF Before
    <2>3. CASE Executed(s)
      BY <1>2, <2>1, <2>3 DEF Executed, Before
    <2>4. CASE phase[s[3]] = "telling" /\ s = Here(s[3])
      <3>1. s[1] = blk /\ s[2] = iter /\ s[4] = at[s[3]]
        <4>1. PICK d : d = s[3]
          OBVIOUS
        <4>2. s = Here(d)
          BY <2>4, <4>1
        <4> QED
          BY <4>1, <4>2, HereParts
      <3> QED
        BY <1>2, <2>1, <3>1 DEF Before
    <2> QED
      BY <1>5, <2>2, <2>3, <2>4 DEF Stored
  <1>6. \A s \in Setters(v)' : Stored(s)' => ~Before(t, s)
    BY <1>4, <1>5, Zenon DEF t
  <1>7. t \in Setters(v)'
    BY <1>3, <1>4, Zenon
  <1>8. PICK x : x = t
    OBVIOUS
  <1>9. /\ store'[v] = x /\ x # Initial(v)' /\ x \in Setters(v)' /\ Stored(x)'
        /\ \A s \in Setters(v)' : Stored(s)' => ~Before(x, s)
    <2>1. store'[v] = x /\ x # Initial(v)' /\ x \in Setters(v)'
      BY <1>3, <1>7, <1>8, Zenon DEF t
    <2>2. Stored(x)'
      BY <1>3, <1>8, Zenon DEF t
    <2> QED
      BY <1>6, <1>8, <2>1, <2>2, Zenon
  <1> QED
    BY <1>9, Zenon DEF LastStored, Before, Stored, Executed, Here

\* What the step of a branch does to what is stored: only its own site counts.
LEMMA StoredByBranch ==
    ASSUME ConnectionTypes, Begun, NEW b \in Branches, BranchNext(b), NEW s \in Sites(scenario)
    PROVE  /\ s # Here(b) => (Stored(s)' <=> Stored(s))
           /\ s = Here(b) => (Stored(s) <=> phase[b] = "telling")
           /\ s = Here(b) => (Stored(s)' <=> Ok(b) \/ phase'[b] = "telling")
  <1>1. /\ ControlTypes /\ at \in [Branches -> Nat] /\ phase \in [Branches -> Phases]
    BY DEF ConnectionTypes, ControlTypes
  <1>2. /\ phase[b] # "done" /\ blk' = blk /\ iter' = iter
        /\ \A d \in Branches : d # b => at'[d] = at[d] /\ phase'[d] = phase[d]
        /\ Effect(b)
    BY BranchEffect
  <1>3. phase'[b] = "telling" => at'[b] = at[b]
    BY <1>1, <1>2 DEF Effect, Ok
  <1>4. \A d \in Branches : d # b \/ phase'[b] = "telling" => Here(d)' = Here(d)
    BY <1>2, <1>3 DEF Here, Site
  <1>5. Executed(s)' <=> Executed(s) \/ (Ok(b) /\ s = Here(b))
    BY ExecutedByBranch
  <1>6. PICK d \in Branches : d = s[3]
    BY <1>1, SiteParts
  <1>7. /\ Stored(s) <=> Executed(s) \/ (phase[d] = "telling" /\ s = Here(d))
        /\ Stored(s)' <=> Executed(s)' \/ (phase'[d] = "telling" /\ s = Here(d)')
    BY <1>6 DEF Stored
  <1>8. CASE d # b
    <2>1. s # Here(b)
      BY <1>6, <1>8, HereParts
    <2> QED
      BY <1>2, <1>4, <1>5, <1>7, <1>8, <2>1
  <1>9. CASE d = b
    <2>1. s = Here(b) => ~Executed(s)
      BY <1>1, <1>2, HereIsSite DEF Executed
    <2> QED
      BY <1>4, <1>5, <1>7, <1>9, <2>1
  <1> QED
    BY <1>8, <1>9

\* Fresh is kept by the step of a branch, ...
LEMMA FreshByBranch ==
    ASSUME ConnectionTypes, Begun, Fresh, NEW b \in Branches, BranchNext(b), NEW v \in Vars,
           ~Spoilt(v)'
    PROVE  LastStored(v)'
  <1>1. /\ ControlTypes /\ TableTypes /\ phase \in [Branches -> Phases]
    BY DEF ConnectionTypes, ControlTypes
  <1>2. /\ run = "running" /\ phase[b] \notin {"done", "err"} /\ UNCHANGED <<scenario, blk>>
        /\ \A d \in Branches : d # b => phase'[d] = phase[d]
        /\ Effect(b)
    BY BranchEffect
  <1>3. LastStored(v)
    <2>1. ~Spoilt(v)
      BY <1>2 DEF Spoilt, Branch
    <2> QED
      BY <1>2, <2>1 DEF Fresh
  <1>4. /\ Here(b) \in Sites(scenario) /\ StepAt(scenario, Here(b)) = Current(b)
    BY <1>1, <1>2, HereIsSite
  <1>5. Here(b) \in Setters(v) <=> v \in Assigns(Current(b))
    BY <1>4 DEF Setters
  <1>6. \A s \in Setters(v) :
          /\ s # Here(b) => (Stored(s)' <=> Stored(s))
          /\ s = Here(b) => (Stored(s) <=> phase[b] = "telling")
          /\ s = Here(b) => (Stored(s)' <=> Ok(b) \/ phase'[b] = "telling")
    BY StoredByBranch DEF Setters
  <1>7. Store(b) => store'[v] = IF v \in Assigns(Current(b)) THEN Here(b) ELSE store[v]
    BY DEF Store, Here
  <1>8. CASE v \notin Assigns(Current(b))
    <2>1. store'[v] = store[v]
      BY <1>2, <1>7, <1>8 DEF Effect
    <2>2. \A s \in Setters(v) : Stored(s)' <=> Stored(s)
      BY <1>5, <1>6, <1>8, Zenon
    <2> QED
      BY <1>2, <1>3, <2>1, <2>2, LastStays
  <1>9. CASE v \in Assigns(Current(b))
    <2>1. phase'[b] # "err"
      <3>1. at[b] \in 1..Len(Branch(b)) /\ Branch(b)' = Branch(b)
        BY <1>1, <1>2, StepHere DEF Branch
      <3> QED
        BY <1>9, <3>1 DEF Spoilt, Current
    <2>2. Ok(b) => phase'[b] = "done" \/ (phase'[b] = "next" /\ at'[b] # at[b])
      BY <1>1 DEF Ok, ControlTypes
    <2>3. CASE Store(b) /\ phase[b] # "telling" /\ (Ok(b) \/ phase'[b] = "telling")
      <3>1. \A s \in Setters(v) : Stored(s)' <=> Stored(s) \/ s = Here(b)
        BY <1>6, <2>3, Zenon
      <3>2. store'[v] = Here(b)
        BY <1>7, <1>9, <2>3
      <3> QED
        BY <1>2, <1>9, <3>1, <3>2, LastMoves
    <2>4. CASE /\ UNCHANGED store
               /\ (phase[b] = "telling") <=> (Ok(b) \/ phase'[b] = "telling")
      <3>1. \A s \in Setters(v) : Stored(s)' <=> Stored(s)
        BY <1>6, <2>4, Zenon
      <3> QED
        BY <1>2, <1>3, <2>4, <3>1, LastStays
    <2> QED
      BY <1>2, <2>1, <2>2, <2>3, <2>4 DEF Effect
  <1> QED
    BY <1>8, <1>9

\* ... and by every other.
LEMMA FreshStep ==
    ASSUME ConnectionTypes, Begun, Fresh, [Next]_vars
    PROVE  Fresh'
  <1> SUFFICES ASSUME run' = "running", NEW v \in Vars, ~Spoilt(v)'
               PROVE  LastStored(v)'
    BY DEF Fresh
  <1>1. ControlTypes /\ run = "running" /\ scenario' = scenario
    BY StillRunning DEF ConnectionTypes
  <1>2. CASE \E b \in Branches : BranchNext(b)
    BY <1>2, FreshByBranch
  <1>3. CASE BeginIteration \/ NextBlock
    <2>1. \A b \in Branches : phase[b] = "done" /\ phase'[b] \in {"next", "done"}
      BY <1>3 DEF BeginIteration, NextBlock, AllDone
    <2>2. LastStored(v)
      BY <1>1, <2>1 DEF Fresh, Spoilt
    <2>3. ASSUME NEW s \in Setters(v)
          PROVE  Stored(s)' <=> Stored(s)
      <3>1. s \in Sites(scenario) /\ s[3] \in Branches
        BY <1>1, SiteParts DEF Setters
      <3>2. Executed(s)' <=> Executed(s)
        BY <1>3, <3>1, ExecutedByRunner
      <3>3. phase[s[3]] # "telling" /\ phase'[s[3]] # "telling"
        BY <2>1, <3>1
      <3> QED
        BY <3>2, <3>3 DEF Stored
    <2>4. store' = store
      BY <1>3 DEF BeginIteration, NextBlock
    <2> QED
      BY <1>1, <2>2, <2>3, <2>4, LastStays
  <1>4. CASE Idle
    <2>1. UNCHANGED <<scenario, blk, iter, at, phase, store>>
      BY <1>4 DEF Idle
    <2>2. LastStored(v)
      BY <1>1, <2>1 DEF Fresh, Spoilt, Branch
    <2>3. \A s \in Setters(v) : Stored(s)' <=> Stored(s)
      BY <2>1 DEF Stored, Executed, Here
    <2> QED
      BY <2>1, <2>2, <2>3, LastStays
  <1> QED
    BY <1>2, <1>3, <1>4, RunningSteps

LEMMA FreshAlways == Spec => [](ConnectionTypes /\ Begun /\ Fresh)
  <1>1. Init => Begun /\ Fresh
    <2> SUFFICES ASSUME Init PROVE Begun /\ Fresh
      OBVIOUS
    <2>1. ConnectionTypes
      BY ConnectionsInit
    <2>2. Begun
      BY DEF Init, Begun
    <2>3. ASSUME NEW v \in Vars PROVE LastStored(v)
      <3>1. store[v] = Initial(v) /\ blk = 1 /\ iter = 0 /\ \A b \in Branches : phase[b] = "done"
        BY DEF Init
      <3>2. ASSUME NEW s \in Setters(v) PROVE ~Stored(s)
        <4>1. s[1] >= 1 /\ s[2] >= 1 /\ s[1] \in Nat /\ s[2] \in Nat /\ s[3] \in Branches
          BY <2>1, SiteParts DEF Setters, ConnectionTypes
        <4> QED
          BY <3>1, <4>1 DEF Stored, Executed
      <3> QED
        BY <3>1, <3>2 DEF LastStored
    <2> QED
      BY <2>2, <2>3 DEF Fresh
  <1>2. (ConnectionTypes /\ ConnectionInv) /\ (Begun /\ Fresh) /\ [Next]_vars => (Begun /\ Fresh)'
    BY BegunStep, FreshStep
  <1> QED
    BY <1>1, <1>2, ConnectionsInvariant, PTL DEF Spec

\* Where branches keep their variables to themselves, what is stored when a
\* branch refers to a variable is what was set before in every interleaving.
LEMMA StoredIsEarlier ==
    ASSUME ConnectionTypes, Begun, OwnVars(scenario), NEW b \in Branches, phase[b] = "next",
           NEW s \in Setters(Current(b).ref)
    PROVE  Stored(s) <=> Before(s, Here(b))
  <1>1. /\ ControlTypes /\ b \in BranchesHere /\ at[b] \in 1..Len(Branch(b))
        /\ Branch(b) \in Seq(Steps) /\ blk \in 1..Len(scenario)
    BY StepHere DEF ConnectionTypes, ControlTypes, InStep
  <1>2. /\ s \in Sites(scenario) /\ Current(b).ref \in Assigns(StepAt(scenario, s))
        /\ s[1] \in Nat /\ s[2] \in Nat /\ s[3] \in Branches /\ s[4] \in Nat
        /\ s[3] \in 1..Len(scenario[s[1]].branches)
        /\ StepAt(scenario, s) \in ToSet(scenario[s[1]].branches[s[3]])
    BY <1>1, SiteParts DEF Setters
  <1>3. /\ Here(b)[1] = blk /\ Here(b)[2] = iter /\ Here(b)[3] = b /\ Here(b)[4] = at[b]
        /\ blk \in Nat /\ iter \in Nat /\ at[b] \in Nat
    BY <1>1, HereIsSite
  <1>4. s[1] = blk => s[3] = b
    <2> SUFFICES ASSUME s[1] = blk, s[3] # b
                 PROVE  FALSE
      OBVIOUS
    <2>1. scenario[blk].branches \in Seq(Seq(Steps))
      BY <1>1, ScenarioParts
    <2>2. b \in 1..Len(scenario[blk].branches)
      BY <1>1, <2>1 DEF BranchesHere
    <2>3. Current(b) \in ToSet(scenario[blk].branches[b])
      BY <1>1 DEF Current, Branch, ToSet
    <2>4. Assigns(StepAt(scenario, s)) \cap (Assigns(Current(b)) \cup {Current(b).ref}) = {}
      BY <1>1, <1>2, <2>2, <2>3, Zenon DEF OwnVars
    <2> QED
      BY <1>2, <2>4
  <1>5. s[3] = b => phase[s[3]] # "telling" /\ phase[s[3]] # "done"
    OBVIOUS
  <1>6. Stored(s) <=> Executed(s)
    <2> SUFFICES ASSUME phase[s[3]] = "telling", s = Here(s[3])
                 PROVE  FALSE
      BY DEF Stored
    <2>1. PICK d : d = s[3]
      OBVIOUS
    <2>2. s = Here(d)
      BY <2>1
    <2>3. s[1] = blk
      BY <2>2, HereParts
    <2> QED
      BY <1>4, <1>5, <2>3
  <1>7. Executed(s) <=> Before(s, Here(b))
    BY <1>2, <1>3, <1>4, <1>5 DEF Executed, Before
  <1> QED
    BY <1>6, <1>7

(***************************************************************************)
(* resolve_ref under every interleaving: where branches keep their         *)
(* variables to themselves, a reference gets the value of the last step    *)
(* before it that set the variable; if there is none, it gets the slot the *)
(* runner computed as it started for a built-in variable of a scenario     *)
(* that declares its genesis time, and fails for any other.                *)
(***************************************************************************)
THEOREM ReferencesAlwaysFresh == Spec => []ReferencesAreFresh
  <1>1. ConnectionTypes /\ Begun /\ Fresh => ReferencesAreFresh
    <2> SUFFICES ASSUME ConnectionTypes, Begun, Fresh, OwnVars(scenario), NEW b \in Branches,
                        run = "running", phase[b] = "next", Current(b).ref # NoVar
                 PROVE  LET value == store[Current(b).ref]
                            earlier == {s \in Setters(Current(b).ref) :
                                          Before(s, Site(blk, iter, b, at[b]))}
                        IN  IF earlier = {} THEN value = Initial(Current(b).ref)
                            ELSE value \in earlier /\ \A s \in earlier : ~Before(value, s)
      BY Zenon DEF ReferencesAreFresh
    <2> DEFINE v == Current(b).ref
               earlier == {s \in Setters(v) : Before(s, Here(b))}
    <2>1. ControlTypes /\ Current(b) \in Steps /\ v \in Vars
      <3>1. Current(b) \in Steps
        BY StepHere DEF ConnectionTypes
      <3> QED
        BY <3>1 DEF Steps, ConnectionTypes
    <2>2. \A s \in Setters(v) : Stored(s) <=> Before(s, Here(b))
      BY StoredIsEarlier
    <2>3. ~Spoilt(v)
      <3> SUFFICES ASSUME NEW d \in Branches, phase[d] = "err", NEW j \in 1..Len(Branch(d)),
                          v \in Assigns(Branch(d)[j])
                   PROVE  FALSE
        BY DEF Spoilt
      <3>1. /\ blk \in 1..Len(scenario) /\ b \in BranchesHere /\ d \in BranchesHere /\ d # b
            /\ Branch(b) \in Seq(Steps) /\ Branch(d) \in Seq(Steps) /\ at[b] \in 1..Len(Branch(b))
        BY <2>1, StepHere DEF ControlTypes, InStep
      <3>2. /\ Branch(d)[j] \in ToSet(scenario[blk].branches[d])
            /\ Current(b) \in ToSet(scenario[blk].branches[b])
        BY <3>1 DEF Current, Branch, ToSet
      <3>4. b \in 1..Len(scenario[blk].branches) /\ d \in 1..Len(scenario[blk].branches)
        BY <2>1, BranchIndex
      <3>5. Assigns(Branch(d)[j]) \cap (Assigns(Current(b)) \cup {v}) = {}
        BY <3>1, <3>2, <3>4, Zenon DEF OwnVars
      <3> QED
        BY <3>5
    <2>4. LastStored(v)
      BY <2>1, <2>3 DEF Fresh
    <2>5. CASE store[v] = Initial(v)
      <3>1. \A s \in Setters(v) : ~Stored(s)
        BY <2>4, <2>5 DEF LastStored
      <3>2. earlier = {}
        BY <2>2, <3>1
      <3> QED
        BY <2>5, <3>2 DEF Here
    <2>6. CASE store[v] # Initial(v)
      <3>1. /\ store[v] \in Setters(v) /\ Stored(store[v])
            /\ \A s \in Setters(v) : Stored(s) => ~Before(store[v], s)
        BY <2>4, <2>6, Zenon DEF LastStored
      <3>2. store[v] \in earlier /\ \A s \in earlier : ~Before(store[v], s)
        BY <2>2, <3>1, Zenon
      <3> QED
        BY <3>2, Zenon DEF Here
    <2> QED
      BY <2>5, <2>6
  <1> QED
    BY <1>1, FreshAlways, PTL

-----------------------------------------------------------------------------
(* Names.                                                                  *)

Keys == {"client", "server", "listener"} \X Names

\* The name a step of a branch works under.
Key(b) == <<Side(Current(b).kind), Current(b).name>>

\* The steps and their names, kind by kind.
LEMMA StepNames ==
    ASSUME NEW s \in Steps
    PROVE  /\ s.kind \in Protocols =>
                /\ Side(s.kind) \in {"client", "server"}
                /\ Uses(s) = {<<Side(s.kind), s.name>>} /\ Needs(s) = Uses(s)
                /\ Opens(s) = {} /\ Closes(s) = {} /\ Reads(s) = {}
           /\ s.kind = "connect" =>
                /\ Side(s.kind) = "client" /\ Uses(s) = {<<"client", s.name>>} /\ Opens(s) = Uses(s)
                /\ Closes(s) = {} /\ Needs(s) = {} /\ Reads(s) = {}
           /\ s.kind = "disconnect" =>
                /\ Side(s.kind) = "client" /\ Uses(s) = {<<"client", s.name>>} /\ Needs(s) = Uses(s)
                /\ Closes(s) = Uses(s) /\ Opens(s) = {} /\ Reads(s) = {}
           /\ s.kind = "listen" =>
                /\ Uses(s) = {<<"listener", s.name>>} /\ Opens(s) = Uses(s)
                /\ Closes(s) = {} /\ Needs(s) = {} /\ Reads(s) = {}
           /\ s.kind = "close_listener" =>
                /\ Uses(s) = {<<"listener", s.name>>} /\ Needs(s) = Uses(s)
                /\ Closes(s) = Uses(s) /\ Opens(s) = {} /\ Reads(s) = {}
           /\ s.kind = "accept_handshake" =>
                /\ Side(s.kind) = "server" /\ Uses(s) = {<<"server", s.name>>} /\ Opens(s) = Uses(s)
                /\ Reads(s) = {<<"listener", s.on>>} /\ Needs(s) = Reads(s) /\ Closes(s) = {}
           /\ s.kind \in {"query_tip", "other"} =>
                Uses(s) = {} /\ Opens(s) = {} /\ Closes(s) = {} /\ Reads(s) = {}
           /\ \/ s.kind \in Protocols
              \/ s.kind \in {"connect", "disconnect", "listen", "close_listener", "accept_handshake"}
              \/ s.kind \in {"query_tip", "other"}
  <1>1. \/ s.kind \in Protocols
        \/ s.kind \in {"connect", "disconnect", "listen", "close_listener", "accept_handshake"}
        \/ s.kind \in {"query_tip", "other"}
    BY DEF Steps, ClientSide, ServerSide, Protocols
  <1>2. CASE s.kind \in Protocols
    <2>1. s.kind \notin {"connect", "disconnect", "listen", "close_listener", "accept_handshake",
                         "query_tip", "other"}
      BY <1>2 DEF Protocols, ClientProtocols, ServerProtocols
    <2>2. Side(s.kind) \in {"client", "server"}
      BY DEF Side
    <2>3. Uses(s) = {<<Side(s.kind), s.name>>} /\ Needs(s) = {<<Side(s.kind), s.name>>}
      BY <1>2, <2>1 DEF Uses, Needs
    <2>4. Opens(s) = {} /\ Closes(s) = {} /\ Reads(s) = {}
      BY <2>1 DEF Opens, Closes, Reads
    <2> QED
      BY <1>2, <2>1, <2>2, <2>3, <2>4
  <1>3. s.kind \in {"connect", "disconnect", "listen", "close_listener", "accept_handshake",
                    "query_tip", "other"} => s.kind \notin Protocols
    BY DEF Protocols, ClientProtocols, ServerProtocols
  <1>4. CASE s.kind = "connect"
    <2>1. Side(s.kind) = "client"
      BY <1>4 DEF Side, ServerProtocols
    <2> QED
      BY <1>3, <1>4, <2>1 DEF Uses, Opens, Closes, Needs, Reads
  <1>5. CASE s.kind = "disconnect"
    <2>1. Side(s.kind) = "client"
      BY <1>5 DEF Side, ServerProtocols
    <2> QED
      BY <1>3, <1>5, <2>1 DEF Uses, Opens, Closes, Needs, Reads
  <1>6. CASE s.kind = "accept_handshake"
    <2>1. Side(s.kind) = "server"
      BY <1>6 DEF Side
    <2> QED
      BY <1>3, <1>6, <2>1 DEF Uses, Opens, Closes, Needs, Reads
  <1>7. CASE s.kind \in {"listen", "close_listener", "query_tip", "other"}
    BY <1>3, <1>7 DEF Uses, Opens, Closes, Needs, Reads
  <1> QED
    BY <1>1, <1>2, <1>4, <1>5, <1>6, <1>7

\* What they have in common.
LEMMA StepUses ==
    ASSUME NEW s \in Steps
    PROVE  /\ Uses(s) \subseteq Keys
           /\ Opens(s) \subseteq Uses(s) /\ Closes(s) \subseteq Uses(s)
           /\ \A x : ~(x \in Opens(s) /\ x \in Closes(s))
           /\ Reads(s) \subseteq Needs(s) \/ Reads(s) = {}
  <1>1. s.name \in Names /\ s.on \in Names
    BY StepFields
  <1>2. \A side \in {"client", "server", "listener"} : <<side, s.name>> \in Keys
    BY <1>1 DEF Keys
  <1>3. CASE s.kind \in Protocols
    BY <1>2, <1>3, StepNames
  <1>4. CASE s.kind \in {"connect", "disconnect", "listen", "close_listener", "accept_handshake"}
    BY <1>2, <1>4, StepNames
  <1>5. CASE s.kind \in {"query_tip", "other"}
    BY <1>5, StepNames
  <1> QED
    BY <1>3, <1>4, <1>5, StepNames

\* Two branches that are in steps work under different names.
LEMMA NamesApart ==
    ASSUME ControlTypes, Disjoint(scenario), NEW b \in Branches, phase[b] # "done",
           NEW d \in Branches, phase[d] # "done", b # d
    PROVE  Uses(Current(b)) \cap (Uses(Current(d)) \cup Reads(Current(d))) = {}
  <1>1. /\ blk \in 1..Len(scenario) /\ b \in BranchesHere /\ d \in BranchesHere
        /\ Branch(b) \in Seq(Steps) /\ at[b] \in 1..Len(Branch(b))
        /\ Branch(d) \in Seq(Steps) /\ at[d] \in 1..Len(Branch(d))
    BY StepHere DEF ControlTypes, InStep
  <1>3. b \in 1..Len(scenario[blk].branches) /\ d \in 1..Len(scenario[blk].branches)
    BY BranchIndex
  <1>4. /\ Current(b) \in ToSet(scenario[blk].branches[b])
        /\ Current(d) \in ToSet(scenario[blk].branches[d])
    BY <1>1 DEF Current, Branch, ToSet
  <1> QED
    BY <1>1, <1>3, <1>4, Zenon DEF Disjoint

\* Of the sites that use a name of a branch's step, those executed are those
\* before it in the file: the others in the block are the branch's own.
LEMMA ExecutedPrecedes ==
    ASSUME ConnectionTypes, Begun, Disjoint(scenario), NEW b \in Branches, phase[b] # "done",
           NEW s \in Sites(scenario), NEW x, x \in Uses(StepAt(scenario, s)),
           x \in Uses(Current(b)) \cup Reads(Current(b))
    PROVE  /\ Executed(s) <=> Precedes(s, Here(b))
           /\ s[1] = blk => s[3] = b
  <1>1. /\ ControlTypes /\ blk \in 1..Len(scenario) /\ b \in BranchesHere
        /\ Branch(b) \in Seq(Steps) /\ at[b] \in 1..Len(Branch(b))
    BY StepHere DEF ConnectionTypes, ControlTypes, InStep
  <1>2. /\ s[1] \in Nat /\ s[2] \in Nat /\ s[3] \in Nat /\ s[4] \in Nat
        /\ s[3] \in 1..Len(scenario[s[1]].branches)
        /\ StepAt(scenario, s) \in ToSet(scenario[s[1]].branches[s[3]])
    BY <1>1, SiteParts
  <1>3. /\ Here(b)[1] = blk /\ Here(b)[2] = iter /\ Here(b)[3] = b /\ Here(b)[4] = at[b]
        /\ blk \in Nat /\ iter \in Nat /\ at[b] \in Nat /\ b \in Nat
    BY <1>1, HereIsSite
  <1>4. s[1] = blk => s[3] = b
    <2> SUFFICES ASSUME s[1] = blk, s[3] # b
                 PROVE  FALSE
      OBVIOUS
    <2>1. scenario[blk].branches \in Seq(Seq(Steps))
      BY <1>1, ScenarioParts
    <2>2. b \in 1..Len(scenario[blk].branches)
      BY <1>1, <2>1 DEF BranchesHere
    <2>3. Current(b) \in ToSet(scenario[blk].branches[b])
      BY <1>1 DEF Current, Branch, ToSet
    <2>4. Uses(StepAt(scenario, s)) \cap (Uses(Current(b)) \cup Reads(Current(b))) = {}
      BY <1>1, <1>2, <2>2, <2>3, Zenon DEF Disjoint
    <2> QED
      BY <2>4
  <1>5. Executed(s) <=> Precedes(s, Here(b))
    BY <1>2, <1>3, <1>4 DEF Executed, Precedes
  <1> QED
    BY <1>4, <1>5

\* The scenario has opened the name and not closed it since.
Open(x) ==
    \E s \in Sites(scenario) :
      /\ Executed(s) /\ x \in Opens(StepAt(scenario, s))
      /\ \A u \in Sites(scenario) : Executed(u) /\ Precedes(s, u) => x \notin Closes(StepAt(scenario, u))

\* The steps of the sites open and close only names they use.
LEMMA SiteUses ==
    ASSUME ControlTypes, NEW s \in Sites(scenario), NEW x
    PROVE  /\ x \in Opens(StepAt(scenario, s)) => x \in Uses(StepAt(scenario, s))
           /\ x \in Closes(StepAt(scenario, s)) => x \in Uses(StepAt(scenario, s))
  <1>1. StepAt(scenario, s) \in Steps
    BY SiteParts
  <1> QED
    BY <1>1, StepUses

\* For the names of its own step, a branch sees what the file says.
LEMMA OpenHere ==
    ASSUME ConnectionTypes, Begun, Disjoint(scenario), NEW b \in Branches, phase[b] # "done",
           NEW x \in Uses(Current(b)) \cup Reads(Current(b))
    PROVE  Open(x) <=> OpenBefore(scenario, x, Here(b))
  <1>1. ControlTypes
    BY DEF ConnectionTypes
  <1>2. \A s \in Sites(scenario) :
          /\ x \in Opens(StepAt(scenario, s)) => (Executed(s) <=> Precedes(s, Here(b)))
          /\ x \in Closes(StepAt(scenario, s)) => (Executed(s) <=> Precedes(s, Here(b)))
    BY <1>1, SiteUses, ExecutedPrecedes
  <1> QED
    BY <1>2, Zenon DEF Open, OpenBefore

\* In a well-named scenario the names a step needs are open, and the one it
\* opens is not.
LEMMA NamesHere ==
    ASSUME ConnectionTypes, Begun, WellNamed(scenario), NEW b \in Branches, phase[b] # "done"
    PROVE  /\ \A x \in Uses(Current(b)) \cup Reads(Current(b)) : x \in Needs(Current(b)) => Open(x)
           /\ \A x \in Opens(Current(b)) : ~Open(x)
  <1>1. /\ ControlTypes /\ Disjoint(scenario) /\ NamesInOrder(scenario)
    BY DEF ConnectionTypes, WellNamed
  <1>2. Here(b) \in Sites(scenario) /\ StepAt(scenario, Here(b)) = Current(b)
    BY <1>1, HereIsSite
  <1>3. /\ \A x \in Needs(Current(b)) : OpenBefore(scenario, x, Here(b))
        /\ \A x \in Opens(Current(b)) : ~OpenBefore(scenario, x, Here(b))
    <2>1. PICK t : t = Here(b)
      OBVIOUS
    <2>2. /\ \A x \in Needs(StepAt(scenario, t)) : OpenBefore(scenario, x, t)
          /\ \A x \in Opens(StepAt(scenario, t)) : ~OpenBefore(scenario, x, t)
      BY <1>1, <1>2, <2>1, Zenon DEF NamesInOrder
    <2> QED
      BY <1>2, <2>1, <2>2, Zenon
  <1>4. \A x \in Uses(Current(b)) \cup Reads(Current(b)) : Open(x) <=> OpenBefore(scenario, x, Here(b))
    BY <1>1, OpenHere
  <1>5. Opens(Current(b)) \subseteq Uses(Current(b))
    BY <1>1, StepHere, StepUses
  <1> QED
    BY <1>3, <1>4, <1>5, Zenon

\* Precedes is a strict order.
LEMMA PrecedesOrder ==
    ASSUME ControlTypes, NEW s \in Sites(scenario), NEW t \in Sites(scenario)
    PROVE  /\ ~Precedes(s, s)
           /\ Precedes(s, t) => ~Precedes(t, s)
  <1>1. /\ s[1] \in Nat /\ s[2] \in Nat /\ s[3] \in Nat /\ s[4] \in Nat
        /\ t[1] \in Nat /\ t[2] \in Nat /\ t[3] \in Nat /\ t[4] \in Nat
    BY SiteParts
  <1> QED
    BY <1>1 DEF Precedes

\* Open in the next state.
LEMMA OpenPrimed ==
    ASSUME scenario' = scenario, NEW x
    PROVE  Open(x)' <=> \E s \in Sites(scenario) :
                          /\ Executed(s)' /\ x \in Opens(StepAt(scenario, s))
                          /\ \A u \in Sites(scenario) : Executed(u)' /\ Precedes(s, u) =>
                                                          x \notin Closes(StepAt(scenario, u))
  BY ZenonT(60) DEF Open, Opens, Closes, StepAt, Precedes

\* What the step of a branch opens and closes.
LEMMA OpenByBranch ==
    ASSUME ConnectionTypes, Begun, Disjoint(scenario), NEW b \in Branches, BranchNext(b), NEW x
    PROVE  /\ ~Ok(b) => (Open(x)' <=> Open(x))
           /\ x \notin Opens(Current(b)) \cup Closes(Current(b)) => (Open(x)' <=> Open(x))
           /\ Ok(b) /\ x \in Opens(Current(b)) => Open(x)'
           /\ Ok(b) /\ x \in Closes(Current(b)) => ~Open(x)'
  <1>1. ControlTypes /\ phase[b] # "done" /\ scenario' = scenario
    BY BranchEffect DEF ConnectionTypes
  <1>2. PICK t : t = Here(b)
    OBVIOUS
  <1>3. t \in Sites(scenario) /\ StepAt(scenario, t) = Current(b)
    BY <1>1, <1>2, HereIsSite
  <1>4. \A s \in Sites(scenario) : Executed(s)' <=> Executed(s) \/ (Ok(b) /\ s = t)
    BY <1>2, ExecutedByBranch
  <1>5. Open(x)' <=> \E s \in Sites(scenario) :
                       /\ Executed(s)' /\ x \in Opens(StepAt(scenario, s))
                       /\ \A u \in Sites(scenario) : Executed(u)' /\ Precedes(s, u) =>
                                                       x \notin Closes(StepAt(scenario, u))
    BY <1>1, OpenPrimed
  <1>6. CASE ~Ok(b)
    BY <1>4, <1>5, <1>6, Zenon DEF Open
  <1>7. CASE x \notin Opens(Current(b)) \cup Closes(Current(b))
    <2>1. x \notin Opens(StepAt(scenario, t)) /\ x \notin Closes(StepAt(scenario, t))
      BY <1>3, <1>7
    <2>2. \A s \in Sites(scenario) :
            \/ x \notin Opens(StepAt(scenario, s)) /\ x \notin Closes(StepAt(scenario, s))
            \/ Executed(s)' <=> Executed(s)
      BY <1>4, <2>1, Zenon
    <2>3. Open(x)' <=> Open(x)
      BY <1>5, <2>2, Zenon DEF Open
    <2>4. x \notin Opens(Current(b)) /\ x \notin Closes(Current(b))
      BY <1>7
    <2> QED
      BY <2>3, <2>4, Zenon
  <1>8. CASE Ok(b) /\ x \in Opens(Current(b)) \cup Closes(Current(b))
    <2>1. x \in Uses(Current(b)) /\ Current(b) \in Steps
      BY <1>1, <1>8, StepHere, StepUses
    <2>2. \A s \in Sites(scenario) : x \in Uses(StepAt(scenario, s)) /\ Executed(s) => Precedes(s, t)
      BY <1>1, <1>2, <2>1, ExecutedPrecedes
    <2>3. \A u \in Sites(scenario) : Precedes(t, u) /\ x \in Closes(StepAt(scenario, u)) => ~Executed(u)'
      <3> SUFFICES ASSUME NEW u \in Sites(scenario), Precedes(t, u), x \in Closes(StepAt(scenario, u)),
                          Executed(u)'
                   PROVE  FALSE
        BY Zenon
      <3>1. u # t /\ ~Precedes(u, t)
        BY <1>1, <1>3, PrecedesOrder
      <3>2. Executed(u)
        BY <1>4, <3>1
      <3> QED
        BY <1>1, <2>2, <3>1, <3>2, SiteUses
    <2>4. Executed(t)'
      BY <1>3, <1>4, <1>8, Zenon
    <2>5. x \in Opens(Current(b)) => Open(x)'
      BY <1>3, <1>5, <2>3, <2>4, Zenon
    <2>6. ASSUME x \in Closes(Current(b)) PROVE ~Open(x)'
      <3>1. x \notin Opens(Current(b))
        BY <2>1, <2>6, StepUses
      <3>2. \A s \in Sites(scenario) : Executed(s)' /\ x \in Opens(StepAt(scenario, s)) => Precedes(s, t)
        BY <1>1, <1>3, <1>4, <2>2, <3>1, SiteUses
      <3> QED
        BY <1>3, <1>5, <2>4, <2>6, <3>2, Zenon
    <2> QED
      BY <1>8, <2>5, <2>6
  <1> QED
    BY <1>6, <1>7, <1>8

\* A branch has checked a connection out.
Working(b) == phase[b] \in {"busy", "telling"}

\* The name is in its map, or its connection is checked out.
InMap(x) == IF x[1] = "listener" THEN x[2] \in listeners ELSE Lookup(x[1], x[2]) # None
Present(x) == InMap(x) \/ \E b \in Branches : Working(b) /\ x = Key(b)

\* It is checked out by the step of a protocol, and the map has no other.
CheckedOut ==
    \A b \in Branches : Working(b) => Current(b).kind \in Protocols
HandsAlone ==
    \A b \in Branches : Working(b) => Lookup(Side(Current(b).kind), Current(b).name) = None

\* A branch that works under the name has failed.
Troubled(x) ==
    \E b \in Branches : phase[b] = "err" /\ \E j \in 1..Len(Branch(b)) : x \in Uses(Branch(b)[j])

\* What Put does to a map.
LEMMA PutLookup ==
    ASSUME TableTypes, NEW side \in {"client", "server"}, NEW n \in Names, NEW c, Put(side, n, c),
           NEW y \in {"client", "server"}, NEW m \in Names
    PROVE  Lookup(y, m)' = IF y = side /\ m = n THEN c ELSE Lookup(y, m)
  <1>1. connections \in [Names -> 0..Len(conns)] /\ server_connections \in [Names -> 0..Len(conns)]
    BY DEF TableTypes
  <1>2. CASE side = "client"
    BY <1>1, <1>2 DEF Put, Lookup
  <1>3. CASE side = "server"
    BY <1>1, <1>3 DEF Put, Lookup
  <1> QED
    BY <1>2, <1>3

\* What the step of a branch does to the maps, to its phase and to its hand.
Shift(b) ==
    \/ \* nothing
       /\ UNCHANGED <<connections, server_connections, listeners>>
       /\ (Working(b)' <=> Working(b)) /\ (Working(b) => at'[b] = at[b])
       /\ Ok(b) => Uses(Current(b)) = {}
    \/ \* a connection is checked out
       /\ Current(b).kind \in Protocols /\ ~Working(b) /\ Working(b)' /\ at'[b] = at[b] /\ ~Ok(b)
       /\ Lookup(Side(Current(b).kind), Current(b).name) # None
       /\ Put(Side(Current(b).kind), Current(b).name, None)
       /\ UNCHANGED listeners
    \/ \* it is put back
       /\ Current(b).kind \in Protocols /\ Working(b) /\ ~Working(b)' /\ held[b] # None
       /\ Ok(b) \/ phase'[b] = "err"
       /\ Put(Side(Current(b).kind), Current(b).name, held[b])
       /\ UNCHANGED listeners
    \/ \* a name is opened
       /\ Current(b).kind \in {"connect", "accept_handshake"} /\ ~Working(b) /\ ~Working(b)'
       /\ Ok(b) \/ phase'[b] = "err"
       /\ \E c \in Nat \ {None} :
            /\ Put(Side(Current(b).kind), Current(b).name, c)
            /\ c \in DOMAIN conns => phase[b] = "accepted" /\ c = held[b]
       /\ UNCHANGED listeners
    \/ \* or closed
       /\ Current(b).kind = "disconnect" /\ ~Working(b) /\ ~Working(b)'
       /\ Ok(b) \/ phase'[b] = "err"
       /\ Put("client", Current(b).name, None)
       /\ UNCHANGED listeners
    \/ \* or so is a listener
       /\ Current(b).kind \in {"listen", "close_listener"} /\ ~Working(b) /\ ~Working(b)'
       /\ Ok(b) \/ phase'[b] = "err"
       /\ listeners' = IF Current(b).kind = "listen" THEN listeners \cup {Current(b).name}
                       ELSE listeners \ {Current(b).name}
       /\ UNCHANGED <<connections, server_connections>>

LEMMA BranchShifts ==
    ASSUME ConnectionTypes, ConnectionInv, NEW b \in Branches, BranchNext(b)
    PROVE  Shift(b)
  <1>1. /\ at \in [Branches -> Nat] /\ phase \in [Branches -> Phases] /\ HandsFull
        /\ Len(conns) \in Nat /\ held \in [Branches -> 0..Len(conns)]
        /\ phase[b] # "done" /\ Current(b) \in Steps /\ DOMAIN conns = 1..Len(conns)
    BY StepHere, BranchEffect DEF ConnectionTypes, ConnectionInv, ControlTypes, TableTypes
  <1>2. ASSUME Ok(b) \/ \E why : Err(b, why)
        PROVE  ~Working(b)' /\ (Ok(b) \/ phase'[b] = "err")
    BY <1>1, <1>2 DEF Ok, Err, Working
  <1>3. ASSUME NEW why, Err(b, why)
        PROVE  at'[b] = at[b] /\ ~Ok(b) /\ phase'[b] = "err"
    BY <1>1, <1>3 DEF Err, Ok
  <1>4. ASSUME NEW p, Await(b, p), p \notin {"done", "next"}
        PROVE  at'[b] = at[b] /\ ~Ok(b) /\ phase'[b] = p
    BY <1>1, <1>4 DEF Await, Ok
  <1>5. Returns(b) => Ok(b) \/ \E why : Err(b, why)
    BY DEF Returns
  <1>6. CASE FailsEarly(b) \/ AwaitPeer(b) \/ AcceptPeer(b) \/ Negotiate(b) \/ Probe(b)
    <2>1. /\ UNCHANGED <<connections, server_connections, listeners>> /\ ~Working(b)
          /\ \/ \E why : Err(b, why)
             \/ \E p \in {"probing", "accepting", "negotiating", "accepted"} : Await(b, p)
      BY <1>6 DEF FailsEarly, AwaitPeer, AcceptPeer, Negotiate, Probe, tables, In, Working
    <2>2. ~Ok(b) /\ ~Working(b)'
      BY <1>3, <1>4, <2>1 DEF Working
    <2> QED
      BY <2>1, <2>2 DEF Shift
  <1>7. CASE ProbeEnds(b) \/ Other(b)
    <2>1. /\ UNCHANGED <<connections, server_connections, listeners>> /\ ~Working(b)
          /\ Current(b).kind \in {"query_tip", "other"}
          /\ Ok(b) \/ \E why : Err(b, why)
      BY <1>5, <1>7 DEF ProbeEnds, Other, tables, In, Working
    <2>2. Uses(Current(b)) = {}
      BY <1>1, <2>1, StepNames
    <2> QED
      BY <1>2, <2>1, <2>2 DEF Shift
  <1>8. CASE Connect(b)
    <2>1. /\ Current(b).kind = "connect" /\ ~Working(b) /\ UNCHANGED listeners
          /\ Put("client", Current(b).name, NewConn) /\ NewConn \in Nat \ {None}
          /\ Ok(b) \/ \E why : Err(b, why)
          /\ NewConn \notin DOMAIN conns
      BY <1>1, <1>5, <1>8 DEF Connect, In, Working, NewConn, None
    <2>2. Side(Current(b).kind) = "client"
      BY <1>1, <2>1, StepNames
    <2> QED
      BY <1>2, <2>1, <2>2 DEF Shift
  <1>9. CASE Begin(b)
    <2>1. /\ Current(b).kind \in Protocols /\ ~Working(b) /\ UNCHANGED listeners
      BY <1>9 DEF Begin, In, Working
    <2>2. CASE Take(b)
      <3>1. /\ Lookup(Side(Current(b).kind), Current(b).name) # None
            /\ Put(Side(Current(b).kind), Current(b).name, None) /\ Await(b, "busy")
        BY <2>2 DEF Take
      <3> QED
        BY <1>4, <2>1, <3>1 DEF Shift, Working
    <2>3. CASE ~Take(b)
      <3>1. /\ UNCHANGED <<connections, server_connections>> /\ \E why : Err(b, why)
        BY <1>9, <2>3 DEF Begin
      <3> QED
        BY <1>2, <1>3, <2>1, <3>1 DEF Shift
    <2> QED
      BY <2>2, <2>3
  <1>10. CASE Handshake(b) \/ Exchange(b) \/ End(b)
    <2>1. /\ Current(b).kind \in Protocols /\ Working(b) /\ UNCHANGED listeners
      BY <1>10 DEF Handshake, Exchange, End, In, Working, Protocols, ClientProtocols
    <2>2. held[b] # None
      BY <1>1, <2>1 DEF Working, HandsFull, Holding
    <2>3. CASE Reinsert(b) /\ (Ok(b) \/ \E why : Err(b, why))
      BY <1>2, <2>1, <2>2, <2>3 DEF Reinsert, Shift
    <2>4. CASE UNCHANGED <<connections, server_connections>> /\ Await(b, "telling")
      BY <1>4, <2>1, <2>4 DEF Shift, Working
    <2> QED
      BY <1>5, <1>10, <2>3, <2>4 DEF Handshake, Exchange, End
  <1>11. CASE Disconnect(b)
    <2>1. /\ Current(b).kind = "disconnect" /\ ~Working(b) /\ UNCHANGED listeners
      BY <1>11 DEF Disconnect, In, Working
    <2>2. CASE Put("client", Current(b).name, None) /\ Returns(b)
      BY <1>2, <1>5, <2>1, <2>2 DEF Shift
    <2>3. CASE UNCHANGED <<connections, server_connections>> /\ \E why : Err(b, why)
      BY <1>2, <1>3, <2>1, <2>3 DEF Shift
    <2> QED
      BY <1>11, <2>2, <2>3 DEF Disconnect
  <1>12. CASE Listen(b) \/ CloseListener(b)
    <2>1. /\ Current(b).kind \in {"listen", "close_listener"} /\ ~Working(b)
          /\ UNCHANGED <<connections, server_connections>>
          /\ Ok(b) \/ \E why : Err(b, why)
          /\ listeners' = IF Current(b).kind = "listen" THEN listeners \cup {Current(b).name}
                          ELSE listeners \ {Current(b).name}
      BY <1>5, <1>12 DEF Listen, CloseListener, In, Working
    <2> QED
      BY <1>2, <2>1 DEF Shift
  <1>13. CASE InsertServer(b)
    <2>1. /\ Current(b).kind = "accept_handshake" /\ ~Working(b) /\ UNCHANGED listeners
          /\ phase[b] = "accepted"
      BY <1>13 DEF InsertServer, In, Working
    <2>2. held[b] \in Nat \ {None} /\ Side(Current(b).kind) = "server"
      BY <1>1, <2>1, StepNames DEF HandsFull, Holding
    <2>3. CASE Put("server", Current(b).name, held[b]) /\ Returns(b)
      BY <1>2, <1>5, <2>1, <2>2, <2>3 DEF Shift
    <2>4. CASE UNCHANGED <<connections, server_connections>> /\ \E why : Err(b, why)
      BY <1>2, <1>3, <2>1, <2>4 DEF Shift
    <2> QED
      BY <1>13, <2>3, <2>4 DEF InsertServer
  <1> QED
    BY <1>6, <1>7, <1>8, <1>9, <1>10, <1>11, <1>12, <1>13 DEF BranchNext

\* A name of the maps is one that a step may work under.
LEMMA KeyParts ==
    ASSUME NEW x \in Keys
    PROVE  /\ x = <<x[1], x[2]>> /\ x[2] \in Names
           /\ x[1] \in {"client", "server", "listener"}
           /\ x[1] # "listener" => x[1] \in {"client", "server"}
  BY DEF Keys

\* The other branches are where they were.
LEMMA OthersStay ==
    ASSUME ConnectionTypes, NEW b \in Branches, BranchNext(b), NEW d \in Branches, d # b
    PROVE  /\ Current(d)' = Current(d) /\ Key(d)' = Key(d)
           /\ Working(d)' <=> Working(d)
  <1>1. /\ UNCHANGED <<scenario, blk>> /\ at'[d] = at[d] /\ phase'[d] = phase[d]
    BY BranchEffect
  <1>2. Current(d)' = Current(d)
    BY <1>1 DEF Current, Branch
  <1> QED
    BY <1>1, <1>2 DEF Key, Side, Working

\* The name of a branch that has checked out a connection.
LEMMA WorksUnder ==
    ASSUME ControlTypes, CheckedOut, NEW b \in Branches, Working(b)
    PROVE  /\ phase[b] \notin {"done", "err", "next"} /\ Current(b) \in Steps
           /\ Current(b).kind \in Protocols
           /\ Uses(Current(b)) = {Key(b)} /\ Key(b) \in Keys /\ Key(b)[1] # "listener"
           /\ Key(b)[1] = Side(Current(b).kind) /\ Key(b)[2] = Current(b).name
  <1>1. phase[b] \notin {"done", "err", "next"}
    BY DEF Working
  <1>2. Current(b) \in Steps /\ Current(b).kind \in Protocols
    BY <1>1, StepHere DEF CheckedOut
  <1>3. /\ Uses(Current(b)) = {Key(b)} /\ Side(Current(b).kind) \in {"client", "server"}
    BY <1>2, StepNames DEF Key
  <1>4. Uses(Current(b)) \subseteq Keys
    BY <1>2, StepUses
  <1>5. Key(b)[1] = Side(Current(b).kind) /\ Key(b)[2] = Current(b).name
    BY DEF Key
  <1> QED
    BY <1>1, <1>2, <1>3, <1>4, <1>5

\* It goes on working in the same step, or it has just checked out.
LEMMA WorkingStays ==
    ASSUME ConnectionTypes, CheckedOut, NEW b \in Branches, BranchNext(b), Shift(b), Working(b)'
    PROVE  /\ at'[b] = at[b] /\ ~Ok(b) /\ Current(b)' = Current(b) /\ Key(b)' = Key(b)
           /\ Current(b).kind \in Protocols
           /\ \/ Working(b) /\ UNCHANGED <<connections, server_connections, listeners>>
              \/ /\ ~Working(b) /\ UNCHANGED listeners
                 /\ Lookup(Side(Current(b).kind), Current(b).name) # None
                 /\ Put(Side(Current(b).kind), Current(b).name, None)
  <1>1. UNCHANGED <<scenario, blk>> /\ phase \in [Branches -> Phases]
    BY BranchEffect DEF ConnectionTypes, ControlTypes
  <1>2. /\ at'[b] = at[b] /\ Current(b).kind \in Protocols
        /\ \/ Working(b) /\ UNCHANGED <<connections, server_connections, listeners>>
           \/ /\ ~Working(b) /\ UNCHANGED listeners
              /\ Lookup(Side(Current(b).kind), Current(b).name) # None
              /\ Put(Side(Current(b).kind), Current(b).name, None)
    BY DEF Shift, CheckedOut
  <1>3. ~Ok(b)
    BY <1>1 DEF Ok, Working
  <1>4. Current(b)' = Current(b)
    BY <1>1, <1>2 DEF Current, Branch
  <1> QED
    BY <1>2, <1>3, <1>4 DEF Key, Side

\* A name in none of the maps a step works under stays as it was.
LEMMA ShiftFrame ==
    ASSUME ConnectionTypes, NEW b \in Branches, BranchNext(b), Shift(b),
           NEW x \in Keys, x \notin Uses(Current(b))
    PROVE  /\ InMap(x)' <=> InMap(x)
           /\ x[1] # "listener" => Lookup(x[1], x[2])' = Lookup(x[1], x[2])
  <1>1. /\ TableTypes /\ Current(b) \in Steps /\ Current(b).name \in Names
    BY BranchEffect, StepHere, StepFields DEF ConnectionTypes
  <1>2. /\ x = <<x[1], x[2]>> /\ x[2] \in Names
        /\ x[1] # "listener" => x[1] \in {"client", "server"}
    BY KeyParts
  <1>3. ASSUME NEW side \in {"client", "server"}, NEW c, Put(side, Current(b).name, c),
               UNCHANGED listeners, Uses(Current(b)) = {<<side, Current(b).name>>}
        PROVE  /\ InMap(x)' <=> InMap(x)
               /\ x[1] # "listener" => Lookup(x[1], x[2])' = Lookup(x[1], x[2])
    <2>1. ~(x[1] = side /\ x[2] = Current(b).name)
      BY <1>2, <1>3
    <2>2. x[1] # "listener" => Lookup(x[1], x[2])' = Lookup(x[1], x[2])
      BY <1>1, <1>2, <1>3, <2>1, PutLookup
    <2> QED
      BY <1>3, <2>2 DEF InMap
  <1>4. CASE UNCHANGED <<connections, server_connections, listeners>>
    BY <1>4 DEF InMap, Lookup
  <1>5. CASE Current(b).kind \in Protocols /\ UNCHANGED listeners
             /\ \E c : Put(Side(Current(b).kind), Current(b).name, c)
    <2>1. /\ Side(Current(b).kind) \in {"client", "server"}
          /\ Uses(Current(b)) = {<<Side(Current(b).kind), Current(b).name>>}
      BY <1>1, <1>5, StepNames
    <2> QED
      BY <1>3, <1>5, <2>1
  <1>6. CASE Current(b).kind \in {"connect", "accept_handshake"} /\ UNCHANGED listeners
             /\ \E c : Put(Side(Current(b).kind), Current(b).name, c)
    <2>1. /\ Side(Current(b).kind) \in {"client", "server"}
          /\ Uses(Current(b)) = {<<Side(Current(b).kind), Current(b).name>>}
      BY <1>1, <1>6, StepNames
    <2> QED
      BY <1>3, <1>6, <2>1
  <1>7. CASE Current(b).kind = "disconnect" /\ UNCHANGED listeners
             /\ Put("client", Current(b).name, None)
    <2>1. Uses(Current(b)) = {<<"client", Current(b).name>>}
      BY <1>1, <1>7, StepNames
    <2> QED
      BY <1>3, <1>7, <2>1
  <1>8. CASE /\ Current(b).kind \in {"listen", "close_listener"}
             /\ listeners' = IF Current(b).kind = "listen" THEN listeners \cup {Current(b).name}
                             ELSE listeners \ {Current(b).name}
             /\ UNCHANGED <<connections, server_connections>>
    <2>1. Uses(Current(b)) = {<<"listener", Current(b).name>>}
      BY <1>1, <1>8, StepNames
    <2>2. x[1] = "listener" => x[2] # Current(b).name
      BY <1>2, <2>1
    <2> QED
      BY <1>8, <2>2 DEF InMap, Lookup
  <1> QED
    BY <1>4, <1>5, <1>6, <1>7, <1>8 DEF Shift

\* No other branch has the connection of a step's name in hand.
LEMMA OnlyMine ==
    ASSUME ControlTypes, CheckedOut, Disjoint(scenario), NEW b \in Branches, phase[b] # "done",
           NEW x \in Uses(Current(b)) \cup Reads(Current(b)), NEW d \in Branches, d # b, Working(d)
    PROVE  x # Key(d)
  <1>1. phase[d] # "done" /\ Uses(Current(d)) = {Key(d)}
    BY WorksUnder
  <1>2. Uses(Current(d)) \cap (Uses(Current(b)) \cup Reads(Current(b))) = {}
    BY <1>1, NamesApart
  <1> QED
    BY <1>1, <1>2

\* No branch that has failed works under a name of a step of another.
LEMMA NotTroubled ==
    ASSUME ControlTypes, Disjoint(scenario), NEW b \in Branches, phase[b] \notin {"done", "err"},
           NEW x \in Uses(Current(b)) \cup Reads(Current(b))
    PROVE  ~Troubled(x)
  <1> SUFFICES ASSUME NEW d \in Branches, phase[d] = "err",
                      NEW j \in 1..Len(Branch(d)), x \in Uses(Branch(d)[j])
               PROVE  FALSE
    BY DEF Troubled
  <1>1. /\ blk \in 1..Len(scenario) /\ b \in BranchesHere /\ d \in BranchesHere
        /\ Branch(b) \in Seq(Steps) /\ at[b] \in 1..Len(Branch(b)) /\ Branch(d) \in Seq(Steps)
    BY StepHere DEF ControlTypes, InStep
  <1>3. b \in 1..Len(scenario[blk].branches) /\ d \in 1..Len(scenario[blk].branches) /\ d # b
    BY BranchIndex
  <1>4. /\ Current(b) \in ToSet(scenario[blk].branches[b])
        /\ Branch(d)[j] \in ToSet(scenario[blk].branches[d])
    BY <1>1 DEF Current, Branch, ToSet
  <1>5. Uses(Branch(d)[j]) \cap (Uses(Current(b)) \cup Reads(Current(b))) = {}
    BY <1>1, <1>3, <1>4, Zenon DEF Disjoint
  <1> QED
    BY <1>5

\* Trouble stays, and a step that fails troubles the names it works under.
LEMMA TroubleStays ==
    ASSUME ConnectionTypes, NEW b \in Branches, BranchNext(b), NEW x, ~Troubled(x)'
    PROVE  /\ ~Troubled(x)
           /\ x \in Uses(Current(b)) => phase'[b] # "err"
  <1>1. /\ phase[b] \notin {"done", "err"} /\ UNCHANGED <<scenario, blk>>
        /\ \A d \in Branches : d # b => phase'[d] = phase[d]
    BY BranchEffect
  <1>2. \A d \in Branches : Branch(d)' = Branch(d)
    BY <1>1 DEF Branch
  <1>3. at[b] \in 1..Len(Branch(b))
    BY <1>1, StepHere DEF ConnectionTypes
  <1>4. ~Troubled(x)
    BY <1>1, <1>2 DEF Troubled
  <1>5. x \in Uses(Current(b)) => phase'[b] # "err"
    BY <1>2, <1>3 DEF Troubled, Current
  <1> QED
    BY <1>4, <1>5

\* A connection in hand is that of a protocol's step, ...
LEMMA CheckedOutStep ==
    ASSUME ConnectionTypes, ConnectionInv, CheckedOut, [Next]_vars
    PROVE  CheckedOut'
  <1>1. CASE \E b \in Branches : BranchNext(b)
    <2>1. PICK b \in Branches : BranchNext(b)
      BY <1>1
    <2>2. ASSUME NEW d \in Branches, Working(d)'
          PROVE  Current(d)'.kind \in Protocols
      <3>1. CASE d = b
        BY <2>1, <2>2, <3>1, BranchShifts, WorkingStays
      <3>2. CASE d # b
        BY <2>1, <2>2, <3>2, OthersStay DEF CheckedOut
      <3> QED
        BY <3>1, <3>2
    <2> QED
      BY <2>2 DEF CheckedOut, Protocols, ClientProtocols, ServerProtocols
  <1>2. CASE BeginIteration \/ NextBlock
    <2>1. \A b \in Branches : phase'[b] \in {"next", "done"}
      BY <1>2 DEF BeginIteration, NextBlock, AllDone
    <2> QED
      BY <2>1 DEF CheckedOut, Working
  <1>3. CASE \E b \in Branches : DropBranch(b)
    <2>1. UNCHANGED <<scenario, blk, at>> /\ \A d \in Branches : phase'[d] \in {phase[d], "dropped"}
      BY <1>3 DEF DropBranch, control, ConnectionTypes, ControlTypes
    <2> QED
      BY <2>1 DEF CheckedOut, Working, Current, Branch, Protocols
  <1>4. CASE \/ Complete \/ JoinErr \/ Cleanup \/ PeerCloses
             \/ (\E c \in DOMAIN conns : WorkersNext(c)) \/ UNCHANGED vars
    <2>1. UNCHANGED <<scenario, blk, at, phase>>
      BY <1>4 DEF Complete, JoinErr, Cleanup, PeerCloses, WorkersNext, KeepAliveEnds,
                  TxSubmissionEnds, WorkerOver, vars, control
    <2> QED
      BY <2>1 DEF CheckedOut, Working, Current, Branch, Protocols
  <1> QED
    BY <1>1, <1>2, <1>3, <1>4 DEF Next, RunnerNext

\* ... and where branches keep to their names, its map has no other, also
\* while branches are dropped.
LEMMA HandsAloneStep ==
    ASSUME ConnectionTypes, ConnectionInv, CheckedOut, HandsAlone, Disjoint(scenario), [Next]_vars
    PROVE  HandsAlone'
  <1> SUFFICES ASSUME NEW d \in Branches, Working(d)'
               PROVE  Lookup(Side(Current(d).kind), Current(d).name)' = None
    BY DEF HandsAlone
  <1>0. /\ ControlTypes /\ TableTypes /\ phase \in [Branches -> Phases]
    BY DEF ConnectionTypes, ControlTypes
  <1>1. ASSUME NEW b \in Branches, BranchNext(b)
        PROVE  Lookup(Side(Current(d).kind), Current(d).name)' = None
    <2>1. Shift(b) /\ phase[b] # "done"
      BY <1>1, BranchShifts, BranchEffect
    <2>2. CASE d = b
      <3>1. /\ Current(b)' = Current(b) /\ Current(b).kind \in Protocols
            /\ \/ Working(b) /\ UNCHANGED <<connections, server_connections, listeners>>
               \/ Put(Side(Current(b).kind), Current(b).name, None)
        BY <1>1, <2>1, <2>2, WorkingStays
      <3>2. /\ Side(Current(b).kind) \in {"client", "server"} /\ Current(b).name \in Names
        BY <1>0, <2>1, <3>1, StepHere, StepFields, StepNames
      <3>3. PICK side, n : side = Side(Current(b).kind) /\ n = Current(b).name
        OBVIOUS
      <3>4. Lookup(side, n)' = None
        <4>1. CASE Put(side, n, None)
          BY <1>0, <3>2, <3>3, <4>1, PutLookup
        <4>2. CASE Working(b) /\ UNCHANGED <<connections, server_connections>>
          BY <3>3, <4>2 DEF HandsAlone, Lookup
        <4> QED
          BY <3>1, <3>3, <4>1, <4>2
      <3>5. Side(Current(b).kind)' = side /\ Current(b)'.name = n
        BY <3>1, <3>3 DEF Side
      <3> QED
        BY <2>2, <3>4, <3>5 DEF Lookup
    <2>3. CASE d # b
      <3>1. Working(d) /\ Current(d)' = Current(d)
        BY <1>1, <2>3, OthersStay
      <3>2. /\ Key(d) \in Keys /\ Key(d)[1] # "listener" /\ Uses(Current(d)) = {Key(d)}
            /\ Key(d)[1] = Side(Current(d).kind) /\ Key(d)[2] = Current(d).name
        BY <1>0, <3>1, WorksUnder
      <3>3. Key(d) \notin Uses(Current(b))
        BY <1>0, <2>1, <2>3, <3>1, OnlyMine
      <3>4. PICK x : x = Key(d)
        OBVIOUS
      <3>5. Lookup(x[1], x[2])' = Lookup(x[1], x[2])
        BY <1>1, <2>1, <3>2, <3>3, <3>4, ShiftFrame
      <3>6. Lookup(x[1], x[2]) = None
        BY <3>1, <3>2, <3>4 DEF HandsAlone
      <3>7. Side(Current(d).kind)' = x[1] /\ Current(d)'.name = x[2]
        BY <3>1, <3>2, <3>4 DEF Side
      <3> QED
        BY <3>5, <3>6, <3>7 DEF Lookup
    <2> QED
      BY <2>2, <2>3
  <1>2. CASE BeginIteration \/ NextBlock
    BY <1>2 DEF BeginIteration, NextBlock, AllDone, Working
  <1>3. ASSUME NEW b \in Branches, DropBranch(b)
        PROVE  Lookup(Side(Current(d).kind), Current(d).name)' = None
    <2>1. /\ UNCHANGED <<scenario, blk, at>> /\ phase'[b] = "dropped"
          /\ \A e \in Branches : e # b => phase'[e] = phase[e]
          /\ \/ Working(b) /\ Put(Side(Current(b).kind), Current(b).name, held[b])
             \/ UNCHANGED <<connections, server_connections>>
      BY <1>0, <1>3 DEF DropBranch, control, Working, Reinsert
    <2>2. d # b /\ Working(d) /\ Current(d)' = Current(d)
      BY <2>1 DEF Working, Current, Branch
    <2>3. /\ Key(d) \in Keys /\ Key(d)[1] # "listener" /\ Uses(Current(d)) = {Key(d)}
          /\ Key(d)[1] = Side(Current(d).kind) /\ Key(d)[2] = Current(d).name
      BY <1>0, <2>2, WorksUnder
    <2>4. PICK x : x = Key(d)
      OBVIOUS
    <2>5. Lookup(x[1], x[2])' = Lookup(x[1], x[2])
      <3>1. CASE Working(b) /\ Put(Side(Current(b).kind), Current(b).name, held[b])
        <4>1. /\ Key(b) \in Keys /\ Key(b)[1] # "listener" /\ phase[b] # "done"
              /\ Uses(Current(b)) = {Key(b)}
              /\ Key(b)[1] = Side(Current(b).kind) /\ Key(b)[2] = Current(b).name
          BY <1>0, <3>1, WorksUnder
        <4>2. Key(b) # x
          BY <1>0, <2>2, <2>4, <4>1, OnlyMine
        <4>3. PICK y : y = Key(b)
          OBVIOUS
        <4>4. Put(y[1], y[2], held[b])
          BY <3>1, <4>1, <4>3
        <4>5. /\ y[1] \in {"client", "server"} /\ y[2] \in Names /\ x[1] \in {"client", "server"}
              /\ x[2] \in Names /\ ~(x[1] = y[1] /\ x[2] = y[2])
          BY <2>3, <2>4, <4>1, <4>2, <4>3, KeyParts
        <4> QED
          BY <1>0, <4>4, <4>5, PutLookup
      <3>2. CASE UNCHANGED <<connections, server_connections>>
        BY <3>2 DEF Lookup
      <3> QED
        BY <2>1, <3>1, <3>2
    <2>6. Lookup(x[1], x[2]) = None
      BY <2>2, <2>3, <2>4 DEF HandsAlone
    <2>7. Side(Current(d).kind)' = x[1] /\ Current(d)'.name = x[2]
      BY <2>2, <2>3, <2>4 DEF Side
    <2> QED
      BY <2>5, <2>6, <2>7 DEF Lookup
  <1>4. CASE Complete \/ JoinErr \/ PeerCloses \/ (\E c \in DOMAIN conns : WorkersNext(c)) \/ UNCHANGED vars
    <2>1. UNCHANGED <<scenario, blk, at, phase, connections, server_connections>>
      BY <1>4 DEF Complete, JoinErr, PeerCloses, WorkersNext, KeepAliveEnds,
                  TxSubmissionEnds, WorkerOver, vars, control, tables
    <2> QED
      BY <2>1 DEF HandsAlone, Working, Current, Branch, Lookup, Side
  <1>5. CASE Cleanup
    <2>1. \A b \in Branches : phase'[b] \in {"err", "done", "dropped"}
      BY <1>5 DEF Cleanup
    <2> QED
      BY <2>1 DEF Working
  <1> QED
    BY <1>1, <1>2, <1>3, <1>4, <1>5 DEF Next, RunnerNext

\* The maps and the hands have the names that the scenario has open, but for
\* those of a branch that has failed.
OpenIsPresent ==
    run = "running" => \A x \in Keys : Troubled(x) \/ (Present(x) <=> Open(x))

\* The step of a branch leaves other names as they are, ...
LEMMA PresentFrame ==
    ASSUME ConnectionTypes, CheckedOut, NEW b \in Branches, BranchNext(b), Shift(b),
           NEW x \in Keys, x \notin Uses(Current(b))
    PROVE  Present(x)' <=> Present(x)
  <1>1. ControlTypes
    BY DEF ConnectionTypes
  <1>2. InMap(x)' <=> InMap(x)
    BY ShiftFrame
  <1>3. \A d \in Branches : d # b => Key(d)' = Key(d) /\ (Working(d)' <=> Working(d))
    BY OthersStay
  <1>4. ~(Working(b) /\ x = Key(b))
    BY <1>1, WorksUnder
  <1>5. ~(Working(b)' /\ x = Key(b)')
    <2> SUFFICES ASSUME Working(b)', x = Key(b)'
                 PROVE  FALSE
      OBVIOUS
    <2>1. Current(b).kind \in Protocols /\ Key(b)' = Key(b)
      BY WorkingStays
    <2>2. Current(b) \in Steps
      BY <1>1, BranchEffect, StepHere
    <2> QED
      BY <2>1, <2>2, StepNames DEF Key
  <1>6. Present(x) <=> InMap(x) \/ \E d \in Branches : Working(d) /\ x = Key(d)
    BY DEF Present
  <1>7. Present(x)' <=> InMap(x)' \/ \E d \in Branches : Working(d)' /\ x = Key(d)'
    BY DEF Present
  <1> QED
    BY <1>2, <1>3, <1>4, <1>5, <1>6, <1>7, Zenon

\* ... and what becomes of its own is what becomes of it in the file.
LEMMA PresentOwn ==
    ASSUME ConnectionTypes, ConnectionInv, Begun, CheckedOut, Disjoint(scenario),
           NEW b \in Branches, BranchNext(b), Shift(b),
           NEW x \in Keys, x \in Uses(Current(b)), phase'[b] # "err", Present(x) <=> Open(x)
    PROVE  Present(x)' <=> Open(x)'
  <1>1. /\ ControlTypes /\ TableTypes /\ phase[b] # "done" /\ Current(b) \in Steps
        /\ Current(b).name \in Names
    BY BranchEffect, StepHere, StepFields DEF ConnectionTypes
  <1>2. /\ x = <<x[1], x[2]>> /\ x[2] \in Names
        /\ x[1] # "listener" => x[1] \in {"client", "server"}
    BY KeyParts
  <1>3. \A d \in Branches : d # b => ~(Working(d) /\ x = Key(d)) /\ ~(Working(d)' /\ x = Key(d)')
    <2> SUFFICES ASSUME NEW d \in Branches, d # b
                 PROVE  ~(Working(d) /\ x = Key(d)) /\ ~(Working(d)' /\ x = Key(d)')
      OBVIOUS
    <2>1. Key(d)' = Key(d) /\ (Working(d)' <=> Working(d))
      BY OthersStay
    <2>2. ~(Working(d) /\ x = Key(d))
      BY <1>1, OnlyMine
    <2> QED
      BY <2>1, <2>2, Zenon
  <1>4. Present(x) <=> InMap(x) \/ (Working(b) /\ x = Key(b))
    BY <1>3, Zenon DEF Present
  <1>5. Present(x)' <=> InMap(x)' \/ (Working(b)' /\ x = Key(b)')
    BY <1>3, Zenon DEF Present
  <1>6. /\ ~Ok(b) => (Open(x)' <=> Open(x))
        /\ x \notin Opens(Current(b)) \cup Closes(Current(b)) => (Open(x)' <=> Open(x))
        /\ Ok(b) /\ x \in Opens(Current(b)) => Open(x)'
        /\ Ok(b) /\ x \in Closes(Current(b)) => ~Open(x)'
    BY OpenByBranch
  <1>7. ASSUME NEW side \in {"client", "server"}, NEW c, Put(side, Current(b).name, c),
               x = <<side, Current(b).name>>
        PROVE  InMap(x)' <=> c # None
    <2>1. x[1] # "listener" /\ Lookup(x[1], x[2])' = c
      BY <1>1, <1>2, <1>7, PutLookup
    <2> QED
      BY <2>1 DEF InMap
  <1>8. CASE /\ UNCHANGED <<connections, server_connections, listeners>>
             /\ (Working(b)' <=> Working(b)) /\ (Working(b) => at'[b] = at[b])
             /\ Ok(b) => Uses(Current(b)) = {}
    <2>1. InMap(x)' <=> InMap(x)
      BY <1>8 DEF InMap, Lookup
    <2>2. ~Ok(b)
      BY <1>8
    <2>3. (Working(b)' /\ x = Key(b)') <=> (Working(b) /\ x = Key(b))
      BY <1>8, WorkingStays
    <2> QED
      BY <1>4, <1>5, <1>6, <2>1, <2>2, <2>3, Zenon
  <1>9. CASE /\ Current(b).kind \in Protocols /\ ~Working(b) /\ Working(b)' /\ ~Ok(b)
             /\ Lookup(Side(Current(b).kind), Current(b).name) # None
    <2>1. x = Key(b) /\ Side(Current(b).kind) \in {"client", "server"}
      BY <1>1, <1>9, StepNames DEF Key
    <2>2. InMap(x)
      BY <1>9, <2>1 DEF InMap, Key
    <2>3. Key(b)' = Key(b)
      BY <1>9, WorkingStays
    <2> QED
      BY <1>4, <1>5, <1>6, <1>9, <2>1, <2>2, <2>3, Zenon
  <1>10. CASE /\ Current(b).kind \in Protocols /\ Working(b) /\ ~Working(b)' /\ held[b] # None
              /\ Put(Side(Current(b).kind), Current(b).name, held[b])
    <2>1. /\ x = Key(b) /\ Side(Current(b).kind) \in {"client", "server"}
          /\ Opens(Current(b)) = {} /\ Closes(Current(b)) = {}
      BY <1>1, <1>10, StepNames DEF Key
    <2>2. InMap(x)'
      BY <1>7, <1>10, <2>1 DEF Key
    <2>3. Open(x)' <=> Open(x)
      BY <1>6, <2>1
    <2> QED
      BY <1>4, <1>5, <1>10, <2>1, <2>2, <2>3, Zenon
  <1>11. CASE /\ Current(b).kind \in {"connect", "accept_handshake"} /\ Ok(b)
              /\ \E c \in Nat \ {None} : Put(Side(Current(b).kind), Current(b).name, c)
    <2>1. /\ x = <<Side(Current(b).kind), Current(b).name>>
          /\ Side(Current(b).kind) \in {"client", "server"} /\ x \in Opens(Current(b))
      BY <1>1, <1>11, StepNames
    <2>2. InMap(x)'
      BY <1>7, <1>11, <2>1
    <2> QED
      BY <1>5, <1>6, <1>11, <2>1, <2>2, Zenon
  <1>12. CASE /\ Current(b).kind = "disconnect" /\ Ok(b) /\ ~Working(b)'
              /\ Put("client", Current(b).name, None)
    <2>1. x = <<"client", Current(b).name>> /\ x \in Closes(Current(b))
      BY <1>1, <1>12, StepNames
    <2>2. ~InMap(x)'
      BY <1>7, <1>12, <2>1
    <2> QED
      BY <1>5, <1>6, <1>12, <2>1, <2>2, Zenon
  <1>13. CASE /\ Current(b).kind \in {"listen", "close_listener"} /\ Ok(b) /\ ~Working(b)'
              /\ listeners' = IF Current(b).kind = "listen" THEN listeners \cup {Current(b).name}
                              ELSE listeners \ {Current(b).name}
    <2>1. /\ x = <<"listener", Current(b).name>>
          /\ Current(b).kind = "listen" => x \in Opens(Current(b))
          /\ Current(b).kind = "close_listener" => x \in Closes(Current(b))
      BY <1>1, <1>13, StepNames
    <2>2. InMap(x)' <=> Current(b).kind = "listen"
      BY <1>13, <2>1 DEF InMap
    <2>3. Current(b).kind = "listen" \/ Current(b).kind = "close_listener"
      BY <1>13
    <2> QED
      BY <1>5, <1>6, <1>13, <2>1, <2>2, <2>3, Zenon
  <1> QED
    BY <1>8, <1>9, <1>10, <1>11, <1>12, <1>13 DEF Shift

LEMMA OpenIsPresentStep ==
    ASSUME ConnectionTypes, ConnectionInv, Begun, CheckedOut, Disjoint(scenario), OpenIsPresent,
           [Next]_vars
    PROVE  OpenIsPresent'
  <1> SUFFICES ASSUME run' = "running", NEW x \in Keys, ~Troubled(x)'
               PROVE  Present(x)' <=> Open(x)'
    BY DEF OpenIsPresent, Keys
  <1>1. ControlTypes /\ run = "running" /\ scenario' = scenario
    BY StillRunning DEF ConnectionTypes
  <1>2. CASE \E b \in Branches : BranchNext(b)
    <2>1. PICK b \in Branches : BranchNext(b)
      BY <1>2
    <2>2. /\ ~Troubled(x) /\ (x \in Uses(Current(b)) => phase'[b] # "err") /\ Shift(b)
      BY <2>1, TroubleStays, BranchShifts
    <2>3. Present(x) <=> Open(x)
      BY <1>1, <2>2, Zenon DEF OpenIsPresent
    <2>4. CASE x \in Uses(Current(b))
      BY <2>1, <2>2, <2>3, <2>4, PresentOwn
    <2>5. CASE x \notin Uses(Current(b))
      <3>1. Present(x)' <=> Present(x)
        BY <2>1, <2>2, <2>5, PresentFrame
      <3>2. x \notin Opens(Current(b)) \cup Closes(Current(b))
        BY <1>1, <2>1, <2>5, BranchEffect, StepHere, StepUses
      <3>3. Open(x)' <=> Open(x)
        BY <2>1, <3>2, OpenByBranch
      <3> QED
        BY <2>3, <3>1, <3>3, Zenon
    <2> QED
      BY <2>4, <2>5
  <1>3. CASE BeginIteration \/ NextBlock
    <2>1. /\ \A b \in Branches : phase[b] = "done" /\ phase'[b] \in {"next", "done"}
          /\ UNCHANGED <<connections, server_connections, listeners>>
      BY <1>3 DEF BeginIteration, NextBlock, AllDone, tables
    <2>2. Present(x) <=> Open(x)
      BY <1>1, <2>1 DEF OpenIsPresent, Troubled
    <2>3. InMap(x)' <=> InMap(x)
      BY <2>1 DEF InMap, Lookup
    <2>4. (Present(x) <=> InMap(x)) /\ (Present(x)' <=> InMap(x)')
      BY <2>1 DEF Present, Working
    <2>5. \A s \in Sites(scenario) : Executed(s)' <=> Executed(s)
      BY <1>3, ExecutedByRunner
    <2>6. Open(x)' <=> \E s \in Sites(scenario) :
                         /\ Executed(s)' /\ x \in Opens(StepAt(scenario, s))
                         /\ \A u \in Sites(scenario) : Executed(u)' /\ Precedes(s, u) =>
                                                         x \notin Closes(StepAt(scenario, u))
      BY <1>1, OpenPrimed
    <2>7. Open(x)' <=> Open(x)
      BY <2>5, <2>6, Zenon DEF Open
    <2> QED
      BY <2>2, <2>3, <2>4, <2>7, Zenon
  <1>4. CASE Idle /\ UNCHANGED <<held, connections, server_connections, listeners>>
    <2>1. /\ UNCHANGED <<scenario, blk, iter, at, phase>>
          /\ UNCHANGED <<connections, server_connections, listeners>>
      BY <1>4 DEF Idle
    <2>2. Present(x) <=> Open(x)
      BY <1>1, <2>1 DEF OpenIsPresent, Troubled, Branch
    <2>3. Present(x)' <=> Present(x)
      BY <2>1 DEF Present, InMap, Lookup, Working, Key, Current, Branch
    <2>4. Open(x)' <=> Open(x)
      BY <2>1 DEF Open, Executed
    <2> QED
      BY <2>2, <2>3, <2>4, Zenon
  <1> QED
    BY <1>2, <1>3, <1>4, RunningSteps

\* A step finds the names it needs.
LEMMA FoundHere ==
    ASSUME ConnectionTypes, Begun, CheckedOut, WellNamed(scenario), OpenIsPresent, run = "running",
           NEW b \in Branches, phase[b] = "next",
           NEW x \in Uses(Current(b)) \cup Reads(Current(b)), x \in Needs(Current(b)), x \in Keys
    PROVE  InMap(x)
  <1>1. ControlTypes /\ Disjoint(scenario) /\ phase[b] \notin {"done", "err"}
    BY DEF ConnectionTypes, WellNamed
  <1>2. Open(x)
    BY <1>1, NamesHere
  <1>3. ~Troubled(x)
    BY <1>1, NotTroubled
  <1>4. Present(x)
    BY <1>2, <1>3, Zenon DEF OpenIsPresent
  <1>5. \A d \in Branches : ~(Working(d) /\ x = Key(d))
    <2>1. ~Working(b)
      BY DEF Working
    <2>2. \A d \in Branches : d # b /\ Working(d) => x # Key(d)
      BY <1>1, OnlyMine
    <2> QED
      BY <2>1, <2>2, Zenon
  <1> QED
    BY <1>4, <1>5 DEF Present

\* So no step misses its connection or its listener.
LEMMA FoundStep ==
    ASSUME ConnectionTypes, Begun, CheckedOut, WellNamed(scenario), OpenIsPresent,
           [Next]_vars, "not_found" \notin errs
    PROVE  "not_found" \notin errs'
  <1>1. CASE errs' = errs
    BY <1>1
  <1>2. ASSUME NEW b \in Branches, BranchNext(b)
        PROVE  "not_found" \notin errs'
    <2>1. /\ run = "running" /\ phase[b] # "done" /\ ControlTypes
      BY <1>2, BranchEffect DEF ConnectionTypes
    <2>2. Current(b) \in Steps /\ Current(b).name \in Names /\ Current(b).on \in Names
      BY <2>1, StepHere, StepFields
    <2>3. Returns(b) => "not_found" \notin errs'
      BY DEF Returns, Ok, Err
    <2>4. CASE Begin(b)
      <3> DEFINE c == Lookup(Side(Current(b).kind), Current(b).name)
      <3>1. Current(b).kind \in Protocols /\ phase[b] = "next"
        BY <2>4 DEF Begin, In
      <3>2. /\ Uses(Current(b)) = {Key(b)} /\ Needs(Current(b)) = Uses(Current(b))
            /\ Side(Current(b).kind) \in {"client", "server"} /\ Key(b) \in Keys
        BY <2>2, <3>1, StepNames, StepUses DEF Key
      <3>3. InMap(Key(b))
        BY <2>1, <3>1, <3>2, FoundHere
      <3>4. c # None
        BY <3>2, <3>3 DEF InMap, Key
      <3> HIDE DEF c
      <3>5. Take(b) \/ Err(b, "no_channels")
        BY <2>4, <3>4 DEF Begin, c
      <3> QED
        BY <3>5 DEF Take, Await, Err
    <2>5. CASE Disconnect(b)
      <3>1. Current(b).kind = "disconnect" /\ phase[b] = "next"
        BY <2>5 DEF Disconnect, In
      <3>2. /\ Uses(Current(b)) = {<<"client", Current(b).name>>}
            /\ Needs(Current(b)) = Uses(Current(b)) /\ <<"client", Current(b).name>> \in Keys
        BY <2>2, <3>1, StepNames, StepUses
      <3>3. InMap(<<"client", Current(b).name>>)
        BY <2>1, <3>1, <3>2, FoundHere
      <3>4. connections[Current(b).name] # None
        BY <3>3 DEF InMap, Lookup
      <3> QED
        BY <2>3, <2>5, <3>4 DEF Disconnect
    <2>6. CASE AwaitPeer(b)
      <3>1. Current(b).kind = "accept_handshake" /\ phase[b] = "next"
        BY <2>6 DEF AwaitPeer, In
      <3>2. /\ Reads(Current(b)) = {<<"listener", Current(b).on>>}
            /\ Needs(Current(b)) = Reads(Current(b)) /\ <<"listener", Current(b).on>> \in Keys
        BY <2>2, <3>1, StepNames DEF Keys
      <3>3. InMap(<<"listener", Current(b).on>>)
        BY <2>1, <3>1, <3>2, FoundHere
      <3>4. Current(b).on \in listeners
        BY <3>3 DEF InMap
      <3> QED
        BY <2>6, <3>4 DEF AwaitPeer, Await
    <2>7. CASE \/ FailsEarly(b) \/ Connect(b) \/ Handshake(b) \/ Exchange(b) \/ End(b)
               \/ Probe(b) \/ ProbeEnds(b) \/ Listen(b) \/ CloseListener(b)
               \/ AcceptPeer(b) \/ Negotiate(b) \/ InsertServer(b) \/ Other(b)
      BY <2>3, <2>7 DEF FailsEarly, Connect, Handshake, Exchange, End, Probe, ProbeEnds, Listen,
                        CloseListener, AcceptPeer, Negotiate, InsertServer, Other, Await, Err
    <2> QED
      BY <1>2, <2>4, <2>5, <2>6, <2>7 DEF BranchNext
  <1>3. CASE RunnerNext \/ PeerCloses \/ (\E c \in DOMAIN conns : WorkersNext(c)) \/ UNCHANGED vars
    BY <1>1, <1>3 DEF RunnerNext, BeginIteration, NextBlock, Complete, JoinErr, Cleanup, DropBranch,
                PeerCloses, WorkersNext, KeepAliveEnds, TxSubmissionEnds, WorkerOver, vars
  <1> QED
    BY <1>2, <1>3 DEF Next

\* Where names are well used no connection is put over another.
LEMMA NeverOverwritten ==
    ASSUME ConnectionTypes, ConnectionInv, Begun, CheckedOut, WellNamed(scenario), HandsAlone,
           OpenIsPresent, [Next]_vars, NEW c \in DOMAIN conns
    PROVE  ~Overwritten(c)
  <1>0. /\ ControlTypes /\ TableTypes /\ Disjoint(scenario) /\ c # None
    BY DEF ConnectionTypes, TableTypes, WellNamed, None
  <1> SUFFICES ASSUME NEW side \in {"client", "server"}, NEW n \in Names, Lookup(side, n) # None
               PROVE  Lookup(side, n)' \in {None, Lookup(side, n)}
    <2>1. \A n \in Names :
            /\ connections[n] # None => connections'[n] \in {None, connections[n]}
            /\ server_connections[n] # None =>
                 server_connections'[n] \in {None, server_connections[n]}
      <3>1. \A n \in Names :
              /\ Lookup("client", n) = connections[n] /\ Lookup("server", n) = server_connections[n]
              /\ Lookup("client", n)' = connections'[n]
              /\ Lookup("server", n)' = server_connections'[n]
        BY DEF Lookup
      <3> QED
        BY <3>1
    <2> QED
      BY <1>0, <2>1 DEF Overwritten
  <1>1. ASSUME NEW y \in {"client", "server"}, NEW m \in Names, NEW v, Put(y, m, v),
               v = None \/ Lookup(y, m) = None
        PROVE  Lookup(side, n)' \in {None, Lookup(side, n)}
    BY <1>0, <1>1, PutLookup
  <1>2. CASE UNCHANGED <<connections, server_connections>>
    BY <1>2 DEF Lookup
  <1>3. ASSUME NEW b \in Branches, BranchNext(b)
        PROVE  Lookup(side, n)' \in {None, Lookup(side, n)}
    <2>1. Shift(b) /\ phase[b] \notin {"done", "err"} /\ run = "running"
      BY <1>3, BranchShifts, BranchEffect
    <2>2. Current(b) \in Steps /\ Current(b).name \in Names
      BY <1>0, <2>1, StepHere, StepFields
    <2>3. CASE Current(b).kind \in Protocols /\ Put(Side(Current(b).kind), Current(b).name, None)
      <3>1. Side(Current(b).kind) \in {"client", "server"}
        BY <2>2, <2>3, StepNames
      <3> QED
        BY <1>1, <2>2, <2>3, <3>1
    <2>4. CASE /\ Current(b).kind \in Protocols /\ Working(b)
               /\ Put(Side(Current(b).kind), Current(b).name, held[b])
      <3>1. Side(Current(b).kind) \in {"client", "server"}
        BY <2>2, <2>4, StepNames
      <3>2. Lookup(Side(Current(b).kind), Current(b).name) = None
        BY <2>4 DEF HandsAlone
      <3> QED
        BY <1>1, <2>2, <2>4, <3>1, <3>2
    <2>5. CASE /\ Current(b).kind \in {"connect", "accept_handshake"}
               /\ \E v \in Nat \ {None} : Put(Side(Current(b).kind), Current(b).name, v)
      <3> DEFINE x == Key(b)
      <3>1. /\ Side(Current(b).kind) \in {"client", "server"} /\ x \in Opens(Current(b))
            /\ x \in Uses(Current(b)) /\ x \in Keys
        BY <2>2, <2>5, StepNames, StepUses DEF Key
      <3>2. ~Open(x)
        BY <1>0, <2>1, <3>1, NamesHere
      <3>3. ~Troubled(x)
        BY <1>0, <2>1, <3>1, NotTroubled
      <3> HIDE DEF x
      <3>4. ~Present(x)
        BY <2>1, <3>1, <3>2, <3>3, Zenon DEF OpenIsPresent
      <3>5. Lookup(Side(Current(b).kind), Current(b).name) = None
        BY <3>1, <3>4 DEF Present, InMap, x, Key
      <3> QED
        BY <1>1, <2>2, <2>5, <3>1, <3>5
    <2>6. CASE Put("client", Current(b).name, None)
      BY <1>1, <2>2, <2>6
    <2> QED
      BY <1>2, <2>1, <2>3, <2>4, <2>5, <2>6 DEF Shift
  <1>4. ASSUME NEW b \in Branches, DropBranch(b)
        PROVE  Lookup(side, n)' \in {None, Lookup(side, n)}
    <2>1. CASE Working(b) /\ Put(Side(Current(b).kind), Current(b).name, held[b])
      <3>1. /\ Current(b) \in Steps /\ Current(b).kind \in Protocols
        BY <1>0, <2>1, WorksUnder
      <3>2. /\ Side(Current(b).kind) \in {"client", "server"} /\ Current(b).name \in Names
            /\ Lookup(Side(Current(b).kind), Current(b).name) = None
        BY <2>1, <3>1, StepNames, StepFields DEF HandsAlone
      <3> QED
        BY <1>1, <2>1, <3>2
    <2> QED
      BY <1>2, <1>4, <2>1 DEF DropBranch, Reinsert, Working
  <1>5. CASE Cleanup
    BY <1>5 DEF Cleanup, Lookup
  <1>6. CASE \/ BeginIteration \/ NextBlock \/ Complete \/ JoinErr \/ PeerCloses
             \/ (\E x \in DOMAIN conns : WorkersNext(x)) \/ UNCHANGED vars
    BY <1>2, <1>6 DEF BeginIteration, NextBlock, Complete, JoinErr, PeerCloses, WorkersNext,
                      KeepAliveEnds, TxSubmissionEnds, WorkerOver, vars, tables
  <1> QED
    BY <1>3, <1>4, <1>5, <1>6 DEF Next, RunnerNext

\* What the step of a branch does to the connections.
Records(b) ==
    /\ \A c \in DOMAIN conns :
         /\ c \in DOMAIN conns' /\ conns'[c].mux \in {conns[c].mux, "aborted"}
         /\ \/ conns'[c].stage = conns[c].stage
            \/ c = held[b] /\ Put("server", Current(b).name, c)
         /\ \/ conns'[c].used = conns[c].used
            \/ /\ Take(b) /\ c = Lookup(Side(Current(b).kind), Current(b).name)
               /\ conns'[c].used = conns[c].used \cup {Current(b).kind}
    /\ \A c \in DOMAIN conns' \ DOMAIN conns :
         /\ c = NewConn /\ conns'[c].used = {}
         /\ conns'[c].stage = "open" => Put("client", Current(b).name, c)

LEMMA BranchRecords ==
    ASSUME ConnectionTypes, ConnectionInv, NEW b \in Branches, BranchNext(b)
    PROVE  Records(b)
  <1>1. /\ ControlTypes /\ TableTypes /\ conns \in Seq(ConnRecords) /\ Len(conns) \in Nat
        /\ DOMAIN conns = 1..Len(conns) /\ HandsFull /\ phase[b] # "done"
        /\ Current(b) \in Steps /\ Current(b).name \in Names
        /\ connections \in [Names -> 0..Len(conns)]
        /\ server_connections \in [Names -> 0..Len(conns)]
    BY BranchEffect, StepHere, StepFields DEF ConnectionTypes, ConnectionInv, TableTypes
  <1>2. phase[b] \in Holding => held[b] \in 1..Len(conns) /\ conns[held[b]] \in ConnRecords
    BY <1>1, InHand
  <1>3. ASSUME UNCHANGED conns PROVE Records(b)
    BY <1>3 DEF Records
  <1>4. ASSUME NEW c \in 1..Len(conns), NEW r \in ConnRecords, conns' = [conns EXCEPT ![c] = r],
               r.mux \in {conns[c].mux, "aborted"},
               \/ r.stage = conns[c].stage
               \/ c = held[b] /\ Put("server", Current(b).name, c),
               \/ r.used = conns[c].used
               \/ /\ Take(b) /\ c = Lookup(Side(Current(b).kind), Current(b).name)
                  /\ r.used = conns[c].used \cup {Current(b).kind}
        PROVE  Records(b)
    <2>1. /\ DOMAIN conns' = DOMAIN conns /\ conns'[c] = r
          /\ \A d \in DOMAIN conns : d # c => conns'[d] = conns[d]
      BY <1>1, <1>4, OneReplaced
    <2> HIDE DEF Put, Take, Lookup, Side
    <2> QED
      BY <1>4, <2>1 DEF Records
  <1>5. ASSUME NEW stage \in {"open", "accepting", "probe"}, Opened(stage),
               stage = "open" => Put("client", Current(b).name, NewConn)
        PROVE  Records(b)
    <2>1. Conn(stage) \in ConnRecords /\ Conn(stage).used = {} /\ Conn(stage).stage = stage
      BY DEF Conn, ConnRecords
    <2>2. PICK r : r = Conn(stage)
      OBVIOUS
    <2>3. /\ DOMAIN conns' = 1..Len(conns) + 1 /\ conns'[Len(conns) + 1] = r
          /\ \A d \in DOMAIN conns : conns'[d] = conns[d]
      BY <1>1, <1>5, <2>1, <2>2, OneAppended DEF Opened
    <2>4. \A d \in DOMAIN conns' \ DOMAIN conns : d = NewConn
      BY <1>1, <2>3 DEF NewConn
    <2>5. conns'[NewConn] = r
      BY <2>3 DEF NewConn
    <2>6. DOMAIN conns \subseteq DOMAIN conns'
      BY <1>1, <2>3
    <2> HIDE DEF Put, Take, Lookup, Side, NewConn
    <2> QED
      BY <1>5, <2>1, <2>2, <2>3, <2>4, <2>5, <2>6 DEF Records
  <1>6. ASSUME NEW c \in 1..Len(conns), conns' = [conns EXCEPT ![c] = Abort(@)]
        PROVE  Records(b)
    <2>1. conns[c] \in ConnRecords
      BY <1>1
    <2>2. /\ Abort(conns[c]) \in ConnRecords /\ Abort(conns[c]).stage = conns[c].stage
          /\ Abort(conns[c]).mux = "aborted" /\ Abort(conns[c]).used = conns[c].used
      BY <2>1, Aborted
    <2>3. PICK r : r = Abort(conns[c])
      OBVIOUS
    <2>4. conns' = [conns EXCEPT ![c] = r]
      BY <1>6, <2>3
    <2> QED
      BY <1>4, <2>2, <2>3, <2>4
  <1>7. ASSUME NEW c \in 1..Len(conns), NEW w \in SUBSET {"keep-alive", "tx-submission"},
               conns' = [conns EXCEPT ![c].workers = w]
        PROVE  Records(b)
    <2>1. conns[c] \in ConnRecords
      BY <1>1
    <2>2. PICK r : r = [conns[c] EXCEPT !.workers = w]
      OBVIOUS
    <2>3. r \in ConnRecords /\ r.mux = conns[c].mux /\ r.stage = conns[c].stage /\ r.used = conns[c].used
      BY <2>1, <2>2, WorkersSet
    <2>4. conns' = [conns EXCEPT ![c] = r]
      BY <1>7, <2>2
    <2> QED
      BY <1>4, <2>3, <2>4
  <1>8. CASE \/ FailsEarly(b) \/ Exchange(b) \/ End(b) \/ Listen(b) \/ CloseListener(b)
             \/ AwaitPeer(b) \/ Other(b)
    BY <1>3, <1>8 DEF FailsEarly, Exchange, End, Listen, CloseListener, AwaitPeer, Other
  <1>9. CASE Connect(b)
    BY <1>5, <1>9 DEF Connect
  <1>10. CASE Begin(b)
    <2>1. CASE Take(b)
      <3> DEFINE c == Lookup(Side(Current(b).kind), Current(b).name)
      <3>1. c # None /\ conns' = [conns EXCEPT ![c].used = @ \cup {Current(b).kind}]
        BY <2>1 DEF Take
      <3>2. c \in 1..Len(conns) /\ Current(b).kind \in Protocols
        BY <1>1, <1>10, <3>1 DEF Lookup, None, Begin, In
      <3>3. PICK x : x = c
        OBVIOUS
      <3>4. conns[x] \in ConnRecords
        BY <1>1, <3>2, <3>3
      <3>5. PICK r : r = [conns[x] EXCEPT !.used = @ \cup {Current(b).kind}]
        OBVIOUS
      <3>6. /\ r \in ConnRecords /\ r.mux = conns[x].mux /\ r.stage = conns[x].stage
            /\ r.used = conns[x].used \cup {Current(b).kind}
        BY <3>2, <3>4, <3>5, ChannelTaken
      <3>7. conns' = [conns EXCEPT ![x] = r]
        BY <3>1, <3>3, <3>5
      <3> QED
        BY <1>4, <2>1, <3>2, <3>3, <3>6, <3>7
    <2>2. CASE UNCHANGED conns
      BY <1>3, <2>2
    <2> QED
      BY <1>10, <2>1, <2>2 DEF Begin
  <1>11. CASE Handshake(b)
    <2>1. held[b] \in 1..Len(conns)
      BY <1>2, <1>11 DEF Handshake, In, Holding
    <2> QED
      BY <1>3, <1>7, <1>11, <2>1 DEF Handshake
  <1>12. CASE Disconnect(b)
    <2>1. CASE connections[Current(b).name] # None
      <3>1. connections[Current(b).name] \in 1..Len(conns)
        BY <1>1, <2>1 DEF None
      <3> QED
        BY <1>6, <1>12, <2>1, <3>1 DEF Disconnect
    <2>2. CASE connections[Current(b).name] = None
      BY <1>3, <1>12, <2>2 DEF Disconnect
    <2> QED
      BY <2>1, <2>2
  <1>13. CASE Probe(b)
    BY <1>5, <1>13 DEF Probe
  <1>14. CASE ProbeEnds(b)
    <2>1. held[b] \in 1..Len(conns)
      BY <1>2, <1>14 DEF ProbeEnds, In, Holding
    <2> QED
      BY <1>3, <1>6, <1>14, <2>1 DEF ProbeEnds
  <1>15. CASE AcceptPeer(b)
    BY <1>3, <1>5, <1>15 DEF AcceptPeer
  <1>16. CASE Negotiate(b)
    <2>1. held[b] \in 1..Len(conns)
      BY <1>2, <1>16 DEF Negotiate, In, Holding
    <2>2. {"keep-alive"} \in SUBSET {"keep-alive", "tx-submission"}
      OBVIOUS
    <2>3. \/ conns' = [conns EXCEPT ![held[b]].workers = {"keep-alive"}]
          \/ conns' = [conns EXCEPT ![held[b]] = Abort(@)]
          \/ UNCHANGED conns
      BY <1>16 DEF Negotiate
    <2> QED
      BY <1>3, <1>6, <1>7, <2>1, <2>2, <2>3
  <1>17. CASE InsertServer(b)
    <2>1. held[b] \in 1..Len(conns) /\ conns[held[b]] \in ConnRecords
      BY <1>2, <1>17 DEF InsertServer, In, Holding
    <2>2. CASE UNCHANGED conns
      BY <1>3, <2>2
    <2>3. CASE /\ conns' = [conns EXCEPT ![held[b]].stage = "open"]
               /\ Put("server", Current(b).name, held[b])
      <3>1. PICK x : x = held[b]
        OBVIOUS
      <3>2. PICK r : r = [conns[x] EXCEPT !.stage = "open"]
        OBVIOUS
      <3>3. /\ r \in ConnRecords /\ r.mux = conns[x].mux /\ r.used = conns[x].used
        BY <2>1, <3>1, <3>2, SetUp
      <3>4. conns' = [conns EXCEPT ![x] = r]
        BY <2>3, <3>1, <3>2
      <3> QED
        BY <1>4, <2>1, <2>3, <3>1, <3>3, <3>4
    <2> QED
      BY <1>17, <2>2, <2>3 DEF InsertServer
  <1> QED
    BY <1>8, <1>9, <1>10, <1>11, <1>12, <1>13, <1>14, <1>15, <1>16, <1>17 DEF BranchNext

\* A connection that was set up and that nobody has aborted is in a map or a
\* hand.
Kept == \A c \in DOMAIN conns : conns[c].stage = "open" /\ conns[c].mux # "aborted" => ~Unowned(c)

\* One that nobody has after a step was set up before it.
LEMMA WasOpen ==
    ASSUME ConnectionTypes, ConnectionInv, [Next]_vars, NEW c \in DOMAIN conns',
           conns'[c].stage = "open", conns'[c].mux # "aborted", Unowned(c)'
    PROVE  c \in DOMAIN conns /\ conns[c].stage = "open" /\ conns[c].mux # "aborted"
  <1>1. /\ ControlTypes /\ TableTypes /\ conns \in Seq(ConnRecords) /\ DOMAIN conns = 1..Len(conns)
        /\ Len(conns) \in Nat
    BY DEF ConnectionTypes, TableTypes
  <1>2. ASSUME NEW b \in Branches, BranchNext(b)
        PROVE  c \in DOMAIN conns /\ conns[c].stage = "open" /\ conns[c].mux # "aborted"
    <2>1. Records(b) /\ phase[b] # "done"
      BY <1>2, BranchRecords, BranchEffect
    <2>2. Current(b).name \in Names
      BY <1>1, <2>1, StepHere, StepFields
    <2>3. ~Put("client", Current(b).name, c) /\ ~Put("server", Current(b).name, c)
      <3>1. /\ Put("client", Current(b).name, c) => connections'[Current(b).name] = c
            /\ Put("server", Current(b).name, c) => server_connections'[Current(b).name] = c
        BY <1>1, <2>2 DEF Put, TableTypes
      <3> QED
        BY <2>2, <3>1 DEF Unowned
    <2>4. c \in DOMAIN conns
      BY <2>1, <2>3 DEF Records
    <2> QED
      BY <2>1, <2>3, <2>4 DEF Records
  <1>3. CASE PeerCloses \/ \E x \in DOMAIN conns : WorkersNext(x)
    <2>1. PICK x \in 1..Len(conns) :
            \/ conns[x].mux = "running" /\ conns' = [conns EXCEPT ![x].mux = "closed"]
            \/ \E w : conns' = [conns EXCEPT ![x].workers = @ \ {w}]
      BY <1>1, <1>3 DEF PeerCloses, WorkersNext, KeepAliveEnds, TxSubmissionEnds, WorkerOver
    <2>2. c \in DOMAIN conns /\ conns'[c].stage = conns[c].stage
      BY <1>3, PeerStep
    <2>3. conns[c] \in ConnRecords /\ conns[x] \in ConnRecords
      BY <1>1, <2>1, <2>2
    <2>4. CASE x = c
      BY <1>1, <2>1, <2>2, <2>3, <2>4 DEF ConnRecords
    <2>5. CASE x # c
      BY <1>1, <2>1, <2>2, <2>5
    <2> QED
      BY <2>2, <2>4, <2>5
  <1>4. CASE Cleanup
    <2>1. /\ Len(conns') = Len(conns) /\ conns' \in Seq(ConnRecords)
          /\ \A x \in 1..Len(conns) :
               conns'[x] = IF x \in Drained THEN Abort(conns[x]) ELSE conns[x]
      BY <1>4, CleanupLeaves, Zenon
    <2>2. c \in 1..Len(conns) /\ conns[c] \in ConnRecords
      BY <1>1, <2>1
    <2>3. Abort(conns[c]).mux = "aborted"
      BY <2>2, Aborted
    <2> HIDE DEF Abort, Drained
    <2> QED
      BY <1>1, <2>1, <2>2, <2>3
  <1>5. CASE \/ BeginIteration \/ NextBlock \/ Complete \/ JoinErr
             \/ (\E b \in Branches : DropBranch(b)) \/ UNCHANGED vars
    BY <1>5 DEF BeginIteration, NextBlock, Complete, JoinErr, DropBranch, vars
  <1> QED
    BY <1>2, <1>3, <1>4, <1>5 DEF Next, RunnerNext

LEMMA KeptStep ==
    ASSUME ConnectionTypes, ConnectionInv, Begun, CheckedOut, WellNamed(scenario), HandsAlone,
           OpenIsPresent, Kept, [Next]_vars
    PROVE  Kept'
  <1> SUFFICES ASSUME NEW c \in DOMAIN conns', conns'[c].stage = "open", conns'[c].mux # "aborted",
                      Unowned(c)'
               PROVE  FALSE
    BY DEF Kept
  <1>1. c \in DOMAIN conns /\ conns[c].stage = "open" /\ conns[c].mux # "aborted"
    BY WasOpen
  <1>2. ~Unowned(c)
    BY <1>1 DEF Kept
  <1>3. Next
    <2>1. UNCHANGED vars => (Unowned(c)' <=> Unowned(c))
      BY DEF vars, tables, Unowned
    <2> QED
      BY <1>2, <2>1
  <1>4. Overwritten(c)
    BY <1>1, <1>2, <1>3, LosesStep
  <1> QED
    BY <1>1, <1>4, NeverOverwritten

\* The names of a scenario, while it runs and afterwards.
NamesInv ==
    /\ CheckedOut
    /\ WellNamed(scenario) => /\ HandsAlone /\ OpenIsPresent /\ Kept
                              /\ "not_found" \notin errs

LEMMA NamesInit ==
    ASSUME Init
    PROVE  Begun /\ NamesInv
  <1>1. ControlTypes
    BY ConnectionsInit DEF ConnectionTypes
  <1>2. /\ Begun /\ CheckedOut /\ HandsAlone /\ Kept /\ "not_found" \notin errs
    BY DEF Init, Begun, CheckedOut, HandsAlone, Kept, Working
  <1>3. ASSUME NEW x \in Keys
        PROVE  ~Present(x) /\ ~Open(x)
    <2>1. \A s \in Sites(scenario) : ~Executed(s)
      <3> SUFFICES ASSUME NEW s \in Sites(scenario) PROVE ~Executed(s)
        OBVIOUS
      <3>1. s[1] >= 1 /\ s[2] >= 1 /\ s[1] \in Nat /\ s[2] \in Nat
        BY <1>1, SiteParts
      <3> QED
        BY <3>1 DEF Init, Executed
    <2>2. ~Open(x)
      BY <2>1 DEF Open
    <2>3. ~Present(x)
      BY KeyParts DEF Init, Present, InMap, Lookup, Working
    <2> QED
      BY <2>2, <2>3
  <1>4. OpenIsPresent
    BY <1>3, Zenon DEF OpenIsPresent
  <1> QED
    BY <1>2, <1>4 DEF NamesInv

LEMMA NamesStep ==
    ASSUME ConnectionTypes, ConnectionInv, Begun, NamesInv, [Next]_vars
    PROVE  Begun' /\ NamesInv'
  <1>1. CheckedOut /\ scenario' = scenario
    BY SameScenario DEF NamesInv
  <1>2. Begun' /\ CheckedOut'
    BY <1>1, BegunStep, CheckedOutStep
  <1>3. ASSUME WellNamed(scenario)'
        PROVE  HandsAlone' /\ OpenIsPresent' /\ Kept' /\ "not_found" \notin errs'
    <2>1. WellNamed(scenario) /\ Disjoint(scenario)
      BY <1>1, <1>3 DEF WellNamed
    <2>2. HandsAlone /\ OpenIsPresent /\ Kept /\ "not_found" \notin errs
      BY <2>1 DEF NamesInv
    <2> QED
      BY <1>1, <2>1, <2>2, HandsAloneStep, OpenIsPresentStep, KeptStep, FoundStep
  <1> QED
    BY <1>2, <1>3 DEF NamesInv

LEMMA NamesAlways == Spec => [](ConnectionTypes /\ ConnectionInv /\ Begun /\ NamesInv)
  <1>1. Init => Begun /\ NamesInv
    BY NamesInit
  <1>2. (ConnectionTypes /\ ConnectionInv) /\ (Begun /\ NamesInv) /\ [Next]_vars => (Begun /\ NamesInv)'
    BY NamesStep
  <1> QED
    BY <1>1, <1>2, ConnectionsInvariant, PTL DEF Spec

(***************************************************************************)
(* What CheckedOut is for: where names are well used, no connection that   *)
(* was set up is lost, in whatever order branches work, fail and are       *)
(* dropped.                                                                *)
(***************************************************************************)
THEOREM NoConnectionLost == Spec => []NoneLost
  <1>1. ConnectionTypes /\ ConnectionInv /\ Begun /\ NamesInv => NoneLost
    <2> SUFFICES ASSUME NamesInv, WellNamed(scenario), NEW c \in DOMAIN conns,
                        conns[c].mux = "running", Places(c) = {}
                 PROVE  conns[c].stage # "open"
      BY DEF NoneLost
    <2>1. Unowned(c)
      BY DEF Places, Unowned
    <2> QED
      BY <2>1 DEF NamesInv, Kept
  <1> QED
    BY <1>1, NamesAlways, PTL

(***************************************************************************)
(* Cleanup after a failure closes everything: where names are well used,   *)
(* no multiplexer of an open connection runs on after an abort; and        *)
(* whatever the scenario, no aborted connection has a worker, and the maps *)
(* and hands are empty.                                                    *)
(***************************************************************************)
THEOREM CleanupClosesAll == Spec => []AbortClosesAll
  <1>1. Init => LeftBehindUnfinished
    BY DEF Init, LeftBehindUnfinished
  <1>2. /\ ConnectionTypes /\ ConnectionInv /\ NoneLost /\ LeftBehindUnfinished /\ [Next]_vars
        => LeftBehindUnfinished'
    BY StillOpenStep
  <1>3. ConnectionTypes /\ ConnectionInv /\ LeftBehindUnfinished => AbortClosesAll
    <2> SUFFICES ASSUME ConnectionInv, LeftBehindUnfinished, run = "aborted",
                        NEW c \in DOMAIN conns
                 PROVE  /\ WellNamed(scenario) /\ conns[c].mux = "running" =>
                             conns[c].stage # "open"
                        /\ conns[c].mux = "aborted" => conns[c].workers = {}
                        /\ Places(c) = {}
      BY DEF AbortClosesAll
    <2>1. Unowned(c)
      BY DEF ConnectionInv, CleanedUp
    <2>2. Places(c) = {}
      BY <2>1, NoPlaces
    <2>3. conns[c].mux = "aborted" => conns[c].workers = {}
      BY DEF ConnectionInv, AbortedIsGone
    <2> QED
      BY <2>2, <2>3 DEF LeftBehindUnfinished
  <1> QED
    BY <1>1, <1>2, <1>3, ConnectionsInvariant, NoConnectionLost, PTL DEF Spec

-----------------------------------------------------------------------------
(* Channels.                                                               *)

\* The connection of a name, in its map or in the hand of a branch.
ConnAt(x, c) ==
    /\ c # None
    /\ c = Lookup(x[1], x[2]) \/ \E b \in Branches : Working(b) /\ x = Key(b) /\ c = held[b]
UsedAt(x, k) == \E c \in DOMAIN conns : ConnAt(x, c) /\ k \in conns[c].used

\* The step of this site has taken its channel, and not failed.
Taken(s) == Executed(s) \/ \E b \in Branches : Working(b) /\ s = Here(b)

\* It took the channel of a connection that is still under its name.
UsedBy(s, x, k) ==
    /\ Taken(s) /\ StepAt(scenario, s).kind = k /\ Uses(StepAt(scenario, s)) = {x}
    /\ \A u \in Sites(scenario) : Executed(u) /\ Precedes(s, u) => x \notin Opens(StepAt(scenario, u))

\* A channel is gone only where a step has taken it.
Channels ==
    run = "running" =>
      \A x \in Keys : x[1] # "listener" =>
        Troubled(x) \/ \A k : UsedAt(x, k) => \E s \in Sites(scenario) : UsedBy(s, x, k)

\* A connection that is being accepted has all its channels.
Unused ==
    \A b \in Branches : phase[b] \in {"negotiating", "accepted"} => conns[held[b]].used = {}

\* A connection is under one name only.
LEMMA LookupApart ==
    ASSUME TableTypes, Apart, NEW x \in Keys, x[1] # "listener", Lookup(x[1], x[2]) # None
    PROVE  /\ \A y \in Keys : y[1] # "listener" /\ Lookup(x[1], x[2]) = Lookup(y[1], y[2]) => x = y
           /\ \A b \in Branches : held[b] # Lookup(x[1], x[2])
           /\ Lookup(x[1], x[2]) \in DOMAIN conns
  <1>1. x = <<x[1], x[2]>> /\ x[1] \in {"client", "server"} /\ x[2] \in Names
    BY KeyParts
  <1>2. ASSUME NEW y \in Keys, y[1] # "listener", Lookup(x[1], x[2]) = Lookup(y[1], y[2])
        PROVE  x = y
    <2>1. y = <<y[1], y[2]>> /\ y[1] \in {"client", "server"} /\ y[2] \in Names
      BY <1>2, KeyParts
    <2>2. x[1] = y[1] /\ x[2] = y[2]
      BY <1>1, <1>2, <2>1 DEF Apart, Lookup
    <2> QED
      BY <1>1, <2>1, <2>2
  <1>3. \A b \in Branches : held[b] # Lookup(x[1], x[2])
    BY <1>1 DEF Apart, Lookup
  <1>4. Lookup(x[1], x[2]) \in DOMAIN conns
    BY <1>1 DEF TableTypes, Lookup, None
  <1> QED
    BY <1>2, <1>3, <1>4

\* What the step of a branch does to the hands.
LEMMA BranchHands ==
    ASSUME ConnectionTypes, NEW b \in Branches, BranchNext(b)
    PROVE  /\ \A d \in Branches : d # b => held'[d] = held[d]
           /\ Working(b)' => (Working(b) /\ held'[b] = held[b]) \/ Take(b)
           /\ phase'[b] \in {"negotiating", "accepted"} =>
                \/ phase[b] = "negotiating" /\ held'[b] = held[b]
                \/ held'[b] \in DOMAIN conns' /\ held'[b] \notin DOMAIN conns
  <1>1. /\ at \in [Branches -> Nat] /\ phase \in [Branches -> Phases] /\ conns \in Seq(ConnRecords)
        /\ held \in [Branches -> 0..Len(conns)] /\ Len(conns) \in Nat
    BY DEF ConnectionTypes, ControlTypes, TableTypes
  <1>2. ASSUME Ok(b) \/ \E why : Err(b, why)
        PROVE  ~Working(b)' /\ phase'[b] \notin {"negotiating", "accepted"}
    BY <1>1, <1>2 DEF Ok, Err, Working
  <1>3. ASSUME NEW p, Await(b, p)
        PROVE  phase'[b] = p
    BY <1>1, <1>3 DEF Await
  <1>4. Returns(b) => Ok(b) \/ \E why : Err(b, why)
    BY DEF Returns
  <1>5. ASSUME \/ UNCHANGED held \/ \E c : Hold(b, c)
        PROVE  \A d \in Branches : d # b => held'[d] = held[d]
    BY <1>1, <1>5 DEF Hold
  <1>6. CASE \/ FailsEarly(b) \/ Connect(b) \/ Disconnect(b) \/ Listen(b) \/ CloseListener(b)
             \/ Other(b) \/ ProbeEnds(b) \/ InsertServer(b) \/ End(b)
    <2>1. /\ UNCHANGED held \/ \E c : Hold(b, c)
          /\ Ok(b) \/ \E why : Err(b, why)
      BY <1>4, <1>6 DEF FailsEarly, Connect, Disconnect, Listen, CloseListener, Other, ProbeEnds,
                        InsertServer, End, Reinsert
    <2> QED
      BY <1>2, <1>5, <2>1
  <1>7. CASE Begin(b)
    <2>1. CASE Take(b)
      <3>1. (\E c : Hold(b, c)) /\ Await(b, "busy")
        BY <2>1 DEF Take
      <3> QED
        BY <1>3, <1>5, <2>1, <3>1
    <2>2. CASE ~Take(b)
      <3>1. UNCHANGED held /\ \E why : Err(b, why)
        BY <1>7, <2>2 DEF Begin
      <3> QED
        BY <1>2, <1>5, <3>1
    <2> QED
      BY <2>1, <2>2
  <1>8. CASE Handshake(b) \/ Exchange(b)
    <2>1. Working(b)
      BY <1>8 DEF Handshake, Exchange, In, Working
    <2>2. CASE UNCHANGED held /\ Await(b, "telling")
      BY <1>3, <1>5, <2>1, <2>2
    <2>3. CASE Reinsert(b) /\ \E why : Err(b, why)
      BY <1>2, <1>5, <2>3 DEF Reinsert
    <2> QED
      BY <1>8, <2>2, <2>3 DEF Handshake, Exchange
  <1>9. CASE Probe(b) \/ AwaitPeer(b)
    <2>1. /\ UNCHANGED held \/ \E c : Hold(b, c)
          /\ Await(b, "probing") \/ Await(b, "accepting") \/ \E why : Err(b, why)
      BY <1>9 DEF Probe, AwaitPeer
    <2> QED
      BY <1>2, <1>3, <1>5, <2>1 DEF Working
  <1>10. CASE AcceptPeer(b)
    <2>1. CASE Opened("accepting") /\ Hold(b, NewConn) /\ Await(b, "negotiating")
      <3>1. phase'[b] = "negotiating" /\ held'[b] = Len(conns) + 1
        BY <1>1, <1>3, <2>1 DEF Hold, NewConn
      <3>2. Len(conns) + 1 \in DOMAIN conns' /\ Len(conns) + 1 \notin DOMAIN conns
        <4>1. Conn("accepting") \in ConnRecords
          BY DEF Conn, ConnRecords
        <4>2. DOMAIN conns' = 1..Len(conns) + 1
          BY <1>1, <2>1, <4>1, OneAppended DEF Opened
        <4> QED
          BY <1>1, <4>2
      <3> QED
        BY <1>5, <2>1, <3>1, <3>2 DEF Working
    <2>2. CASE UNCHANGED held /\ \E why : Err(b, why)
      BY <1>2, <1>5, <2>2
    <2> QED
      BY <1>10, <2>1, <2>2 DEF AcceptPeer
  <1>11. CASE Negotiate(b)
    <2>1. phase[b] = "negotiating"
      BY <1>11 DEF Negotiate, In
    <2>2. CASE UNCHANGED held /\ Await(b, "accepted")
      BY <1>3, <1>5, <2>1, <2>2 DEF Working
    <2>3. CASE Hold(b, None) /\ \E why : Err(b, why)
      BY <1>2, <1>5, <2>3
    <2> QED
      BY <1>11, <2>2, <2>3 DEF Negotiate
  <1> QED
    BY <1>6, <1>7, <1>8, <1>9, <1>10, <1>11 DEF BranchNext

\* A step that took a channel is still the one that did.
LEMMA UsedByStays ==
    ASSUME ConnectionTypes, Begun, CheckedOut, NEW b \in Branches, BranchNext(b), Shift(b),
           NEW x, NEW k, NEW s \in Sites(scenario), UsedBy(s, x, k),
           x \in Uses(Current(b)) => phase'[b] # "err",
           Ok(b) => x \notin Opens(Current(b))
    PROVE  UsedBy(s, x, k)'
  <1>1. /\ ControlTypes /\ UNCHANGED <<scenario, blk, iter>> /\ phase[b] # "done"
        /\ \A d \in Branches : d # b => at'[d] = at[d]
    BY BranchEffect DEF ConnectionTypes
  <1>2. \A u \in Sites(scenario) : Executed(u)' <=> Executed(u) \/ (Ok(b) /\ u = Here(b))
    BY ExecutedByBranch
  <1>3. StepAt(scenario, Here(b)) = Current(b)
    BY <1>1, HereIsSite
  <1>4. Taken(s)'
    <2>1. CASE Executed(s)
      BY <1>2, <2>1 DEF Taken
    <2>2. ASSUME NEW d \in Branches, Working(d), s = Here(d)
          PROVE  Taken(s)'
      <3>1. CASE d # b
        <4>1. Working(d)' /\ Here(d)' = Here(d)
          BY <1>1, <2>2, <3>1, OthersStay DEF Here, Site
        <4> QED
          BY <2>2, <4>1 DEF Taken
      <3>2. CASE d = b
        <4>1. x \in Uses(Current(b))
          BY <1>3, <2>2, <3>2 DEF UsedBy
        <4>2. CASE Working(b)'
          <5>1. Here(b)' = Here(b)
            BY <1>1, <4>2, WorkingStays DEF Here, Site
          <5> QED
            BY <2>2, <3>2, <4>2, <5>1 DEF Taken
        <4>3. CASE ~Working(b)'
          <5>1. Ok(b)
            BY <2>2, <3>2, <4>1, <4>3 DEF Shift
          <5> QED
            BY <1>2, <2>2, <3>2, <5>1 DEF Taken
        <4> QED
          BY <4>2, <4>3
      <3> QED
        BY <3>1, <3>2
    <2> QED
      BY <2>1, <2>2 DEF UsedBy, Taken
  <1>5. \A u \in Sites(scenario) : Executed(u)' /\ Precedes(s, u) => x \notin Opens(StepAt(scenario, u))
    BY <1>2, <1>3, Zenon DEF UsedBy
  <1>6. StepAt(scenario, s).kind = k /\ Uses(StepAt(scenario, s)) = {x}
    BY DEF UsedBy
  <1>7. UsedBy(s, x, k)' <=>
          /\ Taken(s)' /\ StepAt(scenario, s).kind = k /\ Uses(StepAt(scenario, s)) = {x}
          /\ \A u \in Sites(scenario) : Executed(u)' /\ Precedes(s, u) =>
                                          x \notin Opens(StepAt(scenario, u))
    BY <1>1, Zenon DEF UsedBy, StepAt, Uses, Opens, Precedes
  <1> QED
    BY <1>4, <1>5, <1>6, <1>7, Zenon

\* The step of a branch takes no channel of another name, ...
LEMMA ChannelFrame ==
    ASSUME ConnectionTypes, ConnectionInv, CheckedOut, NEW b \in Branches, BranchNext(b), Shift(b),
           NEW x \in Keys, x[1] # "listener", x \notin Uses(Current(b)), NEW k, UsedAt(x, k)'
    PROVE  UsedAt(x, k)
  <1>1. /\ ControlTypes /\ TableTypes /\ Apart /\ HandsFull /\ Current(b) \in Steps
    BY BranchEffect, StepHere DEF ConnectionTypes, ConnectionInv
  <1>2. PICK c \in DOMAIN conns' : ConnAt(x, c)' /\ k \in conns'[c].used
    BY DEF UsedAt
  <1>3. Lookup(x[1], x[2])' = Lookup(x[1], x[2])
    BY ShiftFrame
  <1>4. ~(Working(b)' /\ x = Key(b)')
    <2> SUFFICES ASSUME Working(b)', x = Key(b)'
                 PROVE  FALSE
      OBVIOUS
    <2>1. Current(b).kind \in Protocols /\ Key(b)' = Key(b)
      BY WorkingStays
    <2> QED
      BY <1>1, <2>1, StepNames DEF Key
  <1>5. \A d \in Branches : d # b => /\ held'[d] = held[d] /\ Key(d)' = Key(d)
                                     /\ Working(d)' <=> Working(d)
    BY BranchHands, OthersStay
  <1>6. ConnAt(x, c)' <=> /\ c # None
                          /\ \/ c = Lookup(x[1], x[2])'
                             \/ \E d \in Branches : Working(d)' /\ x = Key(d)' /\ c = held'[d]
    BY DEF ConnAt, None
  <1>7. ConnAt(x, c)
    BY <1>2, <1>3, <1>4, <1>5, <1>6, Zenon DEF ConnAt
  <1>8. c \in DOMAIN conns
    <2>1. CASE c = Lookup(x[1], x[2])
      BY <1>1, <1>7, <2>1, LookupApart DEF ConnAt
    <2>2. CASE \E d \in Branches : c = held[d]
      BY <1>1, <1>7, <2>2 DEF ConnAt, TableTypes, None
    <2> QED
      BY <1>7, <2>1, <2>2 DEF ConnAt
  <1>9. conns'[c].used = conns[c].used
    <2> SUFFICES ASSUME Take(b), c = Lookup(Side(Current(b).kind), Current(b).name)
                 PROVE  FALSE
      BY <1>8, BranchRecords DEF Records
    <2>1. Working(b)'
      BY DEF Take, Await, Working, ConnectionTypes, ControlTypes
    <2>2. Current(b).kind \in Protocols
      BY <2>1, WorkingStays
    <2>3. /\ Key(b) \in Keys /\ Key(b)[1] # "listener" /\ Key(b) # x
          /\ Key(b)[1] = Side(Current(b).kind) /\ Key(b)[2] = Current(b).name
      BY <1>1, <2>2, StepNames, StepUses DEF Key
    <2>4. PICK y \in Keys : y = Key(b)
      BY <2>3
    <2>5. c = Lookup(y[1], y[2]) /\ c # None /\ y # x /\ y[1] # "listener"
      BY <1>7, <2>3, <2>4 DEF ConnAt
    <2>6. /\ c = Lookup(x[1], x[2]) => y = x
          /\ \A d \in Branches : c # held[d]
      BY <1>1, <2>5, LookupApart
    <2> QED
      BY <1>7, <2>5, <2>6 DEF ConnAt
  <1> QED
    BY <1>2, <1>7, <1>8, <1>9 DEF UsedAt

\* ... and of its own name the one it needs.
LEMMA ChannelOwn ==
    ASSUME ConnectionTypes, ConnectionInv, Begun, CheckedOut, Disjoint(scenario), Unused,
           NEW b \in Branches, BranchNext(b), Shift(b),
           NEW x \in Keys, x[1] # "listener", x \in Uses(Current(b)), phase'[b] # "err",
           \A k : UsedAt(x, k) => \E s \in Sites(scenario) : UsedBy(s, x, k),
           NEW k, UsedAt(x, k)'
    PROVE  \E s \in Sites(scenario) : UsedBy(s, x, k)'
  <1>1. /\ ControlTypes /\ TableTypes /\ Apart /\ HandsFull /\ phase[b] # "done"
        /\ Current(b) \in Steps /\ Current(b).name \in Names /\ UNCHANGED <<scenario, blk, iter>>
    BY BranchEffect, StepHere, StepFields DEF ConnectionTypes, ConnectionInv
  <1>2. /\ x = <<x[1], x[2]>> /\ x[2] \in Names /\ x[1] \in {"client", "server"}
    BY KeyParts
  <1>3. PICK c \in DOMAIN conns' : ConnAt(x, c)' /\ k \in conns'[c].used
    BY DEF UsedAt
  <1>4. \A d \in Branches : d # b => ~(Working(d)' /\ x = Key(d)')
    <2> SUFFICES ASSUME NEW d \in Branches, d # b
                 PROVE  ~(Working(d)' /\ x = Key(d)')
      OBVIOUS
    <2>1. Key(d)' = Key(d) /\ (Working(d)' <=> Working(d))
      BY OthersStay
    <2>2. ~(Working(d) /\ x = Key(d))
      BY <1>1, OnlyMine
    <2> QED
      BY <2>1, <2>2, Zenon
  <1>5. ConnAt(x, c)' <=> /\ c # None
                          /\ \/ c = Lookup(x[1], x[2])'
                             \/ \E d \in Branches : Working(d)' /\ x = Key(d)' /\ c = held'[d]
    BY DEF ConnAt, None
  <1>6. /\ c # None
        /\ c = Lookup(x[1], x[2])' \/ (Working(b)' /\ x = Key(b)' /\ c = held'[b])
    BY <1>3, <1>4, <1>5, Zenon
  <1>7. ASSUME ConnAt(x, c), k \in conns[c].used, Ok(b) => x \notin Opens(Current(b))
        PROVE  \E s \in Sites(scenario) : UsedBy(s, x, k)'
    <2>1. c \in DOMAIN conns
      <3>1. CASE c = Lookup(x[1], x[2])
        BY <1>1, <1>6, <3>1, LookupApart
      <3>2. CASE \E d \in Branches : c = held[d]
        BY <1>1, <1>6, <3>2 DEF TableTypes, None
      <3> QED
        BY <1>7, <3>1, <3>2 DEF ConnAt
    <2>2. PICK s \in Sites(scenario) : UsedBy(s, x, k)
      BY <1>7, <2>1 DEF UsedAt
    <2>3. UsedBy(s, x, k)'
      BY <1>7, <2>2, UsedByStays
    <2> QED
      BY <2>3
  <1>8. CASE Take(b)
    <2> DEFINE a == Lookup(Side(Current(b).kind), Current(b).name)
    <2>1. /\ a # None /\ held'[b] = a /\ Put(Side(Current(b).kind), Current(b).name, None)
          /\ Working(b)'
      BY <1>1, <1>8 DEF Take, Hold, Await, Working, ControlTypes, TableTypes
    <2>2. /\ Current(b).kind \in Protocols /\ ~Ok(b) /\ at'[b] = at[b]
      BY <2>1, WorkingStays
    <2>3. /\ x = Key(b) /\ x[1] = Side(Current(b).kind) /\ x[2] = Current(b).name
          /\ Uses(Current(b)) = {x}
      BY <1>1, <2>2, StepNames DEF Key
    <2> HIDE DEF a
    <2>4. Lookup(x[1], x[2])' = None
      BY <1>1, <1>2, <2>1, <2>3, PutLookup
    <2>5. c = a /\ a = Lookup(x[1], x[2])
      BY <1>6, <2>1, <2>3, <2>4 DEF a
    <2>6. c \in DOMAIN conns /\ ConnAt(x, c)
      BY <1>1, <1>6, <2>5, LookupApart DEF ConnAt
    <2>7. k \in conns[c].used \/ k = Current(b).kind
      <3>1. \/ conns'[c].used = conns[c].used
            \/ conns'[c].used = conns[c].used \cup {Current(b).kind}
        BY <2>6, BranchRecords DEF Records
      <3> QED
        BY <1>3, <3>1
    <2>8. CASE k \in conns[c].used
      BY <1>7, <2>2, <2>6, <2>8
    <2>9. CASE k = Current(b).kind
      <3>1. PICK t : t = Here(b)
        OBVIOUS
      <3>2. t \in Sites(scenario) /\ StepAt(scenario, t) = Current(b)
        BY <1>1, <3>1, HereIsSite
      <3>3. Here(b)' = t
        BY <1>1, <2>2, <3>1 DEF Here, Site
      <3>4. Taken(t)'
        BY <2>1, <3>3 DEF Taken
      <3>5. \A u \in Sites(scenario) : Executed(u)' /\ Precedes(t, u) => x \notin Opens(StepAt(scenario, u))
        <4> SUFFICES ASSUME NEW u \in Sites(scenario), Executed(u)', Precedes(t, u),
                            x \in Opens(StepAt(scenario, u))
                     PROVE  FALSE
          BY Zenon
        <4>1. Executed(u)
          BY <2>2, ExecutedByBranch
        <4>2. x \in Uses(StepAt(scenario, u))
          BY <1>1, SiteUses
        <4>3. Precedes(u, t)
          BY <1>1, <3>1, <4>1, <4>2, ExecutedPrecedes
        <4> QED
          BY <1>1, <3>2, <4>3, PrecedesOrder
      <3>6. UsedBy(t, x, k)' <=>
              /\ Taken(t)' /\ StepAt(scenario, t).kind = k /\ Uses(StepAt(scenario, t)) = {x}
              /\ \A u \in Sites(scenario) : Executed(u)' /\ Precedes(t, u) =>
                                              x \notin Opens(StepAt(scenario, u))
        BY <1>1, Zenon DEF UsedBy, StepAt, Uses, Opens, Precedes
      <3>7. StepAt(scenario, t).kind = k /\ Uses(StepAt(scenario, t)) = {x}
        BY <2>3, <2>9, <3>2
      <3>8. UsedBy(t, x, k)'
        BY <3>4, <3>5, <3>6, <3>7, Zenon
      <3> QED
        BY <3>2, <3>8
    <2> QED
      BY <2>7, <2>8, <2>9
  <1>9. CASE ~Take(b)
    <2>1. c \in DOMAIN conns => conns'[c].used = conns[c].used
      BY <1>9, BranchRecords DEF Records
    <2>2. c \notin DOMAIN conns => conns'[c].used = {}
      BY <1>3, BranchRecords DEF Records
    <2>3. c \in DOMAIN conns /\ k \in conns[c].used
      BY <1>3, <2>1, <2>2
    <2>4. CASE Working(b)'
      <3>1. Working(b) /\ held'[b] = held[b]
        BY <1>9, <2>4, BranchHands
      <3>2. /\ UNCHANGED <<connections, server_connections>> /\ Key(b)' = Key(b) /\ ~Ok(b)
        BY <2>4, <3>1, WorkingStays
      <3>3. Lookup(x[1], x[2])' = Lookup(x[1], x[2])
        BY <3>2 DEF Lookup
      <3>4. ConnAt(x, c)
        BY <1>6, <3>1, <3>2, <3>3, Zenon DEF ConnAt
      <3> QED
        BY <1>7, <2>3, <3>2, <3>4
    <2>5. CASE ~Working(b)'
      <3>1. c = Lookup(x[1], x[2])'
        BY <1>6, <2>5
      <3>2. CASE UNCHANGED <<connections, server_connections>> /\ (Ok(b) => Uses(Current(b)) = {})
        <4>1. Lookup(x[1], x[2])' = Lookup(x[1], x[2]) /\ ~Ok(b)
          BY <3>2 DEF Lookup
        <4>2. ConnAt(x, c)
          BY <1>6, <3>1, <4>1 DEF ConnAt
        <4> QED
          BY <1>7, <2>3, <4>1, <4>2
      <3>3. CASE /\ Current(b).kind \in Protocols /\ Working(b)
                 /\ Put(Side(Current(b).kind), Current(b).name, held[b])
        <4>1. /\ x = Key(b) /\ x[1] = Side(Current(b).kind) /\ x[2] = Current(b).name
              /\ Opens(Current(b)) = {}
          BY <1>1, <3>3, StepNames DEF Key
        <4>2. c = held[b]
          BY <1>1, <1>2, <3>1, <3>3, <4>1, PutLookup
        <4>3. ConnAt(x, c)
          BY <1>6, <3>3, <4>1, <4>2 DEF ConnAt
        <4> QED
          BY <1>7, <2>3, <4>1, <4>3
      <3>4. CASE /\ Current(b).kind \in {"connect", "accept_handshake"}
                 /\ \E v \in Nat \ {None} :
                      /\ Put(Side(Current(b).kind), Current(b).name, v)
                      /\ v \in DOMAIN conns => phase[b] = "accepted" /\ v = held[b]
        <4>1. x[1] = Side(Current(b).kind) /\ x[2] = Current(b).name
          BY <1>1, <3>4, StepNames
        <4>2. phase[b] = "accepted" /\ c = held[b]
          BY <1>1, <1>2, <2>3, <3>1, <3>4, <4>1, PutLookup
        <4> QED
          BY <2>3, <4>2 DEF Unused
      <3>5. CASE Current(b).kind = "disconnect" /\ Put("client", Current(b).name, None)
        <4>1. x[1] = "client" /\ x[2] = Current(b).name
          BY <1>1, <3>5, StepNames
        <4>2. c = None
          BY <1>1, <1>2, <3>1, <3>5, <4>1, PutLookup
        <4> QED
          BY <1>6, <4>2
      <3>6. CASE Current(b).kind \in {"listen", "close_listener"}
        <4>1. x = <<"listener", Current(b).name>>
          BY <1>1, <3>6, StepNames
        <4> QED
          BY <1>2, <4>1
      <3> QED
        BY <2>5, <3>2, <3>3, <3>4, <3>5, <3>6 DEF Shift
    <2> QED
      BY <2>4, <2>5
  <1> QED
    BY <1>8, <1>9

\* The peer and the workers take no channels.
LEMMA UsedStays ==
    ASSUME ConnectionTypes,
           PeerCloses \/ (\E c \in DOMAIN conns : WorkersNext(c)) \/ UNCHANGED vars
    PROVE  /\ DOMAIN conns' = DOMAIN conns
           /\ \A c \in DOMAIN conns : conns'[c].used = conns[c].used
           /\ UNCHANGED <<control, at, phase, held, tables, errs>>
  <1>1. /\ conns \in Seq(ConnRecords) /\ DOMAIN conns = 1..Len(conns)
        /\ UNCHANGED <<control, at, phase, held, tables, errs>>
    BY DEF ConnectionTypes, TableTypes, PeerCloses, WorkersNext, KeepAliveEnds, TxSubmissionEnds,
           WorkerOver, vars
  <1>2. CASE UNCHANGED vars
    BY <1>1, <1>2 DEF vars
  <1>3. CASE PeerCloses \/ \E c \in DOMAIN conns : WorkersNext(c)
    <2>1. PICK c \in 1..Len(conns) :
            \/ conns' = [conns EXCEPT ![c].mux = "closed"]
            \/ \E w : conns' = [conns EXCEPT ![c].workers = @ \ {w}]
      BY <1>1, <1>3 DEF PeerCloses, WorkersNext, KeepAliveEnds, TxSubmissionEnds, WorkerOver
    <2>2. conns[c] \in ConnRecords
      BY <1>1
    <2>3. \E r \in ConnRecords : conns' = [conns EXCEPT ![c] = r] /\ r.used = conns[c].used
      <3>1. CASE conns' = [conns EXCEPT ![c].mux = "closed"]
        BY <2>2, <3>1, PeerGone
      <3>2. ASSUME NEW w, conns' = [conns EXCEPT ![c].workers = @ \ {w}]
            PROVE  \E r \in ConnRecords : conns' = [conns EXCEPT ![c] = r] /\ r.used = conns[c].used
        <4>1. PICK v : v = conns[c].workers \ {w}
          OBVIOUS
        <4>2. v \in SUBSET {"keep-alive", "tx-submission"}
          BY <2>2, <4>1 DEF ConnRecords
        <4>3. PICK r : r = [conns[c] EXCEPT !.workers = v]
          OBVIOUS
        <4>4. conns' = [conns EXCEPT ![c] = r]
          BY <3>2, <4>1, <4>3
        <4>5. r \in ConnRecords /\ r.used = conns[c].used
          BY <2>2, <4>2, <4>3, WorkersSet
        <4> QED
          BY <4>4, <4>5
      <3> QED
        BY <2>1, <3>1, <3>2
    <2>4. PICK r \in ConnRecords : conns' = [conns EXCEPT ![c] = r] /\ r.used = conns[c].used
      BY <2>3
    <2>5. /\ DOMAIN conns' = DOMAIN conns /\ conns'[c] = r
          /\ \A d \in DOMAIN conns : d # c => conns'[d] = conns[d]
      BY <1>1, <2>4, OneReplaced
    <2> QED
      BY <1>1, <2>4, <2>5
  <1> QED
    BY <1>2, <1>3

LEMMA UnusedStep ==
    ASSUME ConnectionTypes, ConnectionInv, CheckedOut, Unused, [Next]_vars
    PROVE  Unused'
  <1> SUFFICES ASSUME NEW d \in Branches, phase'[d] \in {"negotiating", "accepted"}
               PROVE  conns'[held'[d]].used = {}
    BY DEF Unused
  <1>1. /\ ControlTypes /\ TableTypes /\ Apart /\ HandsFull /\ phase \in [Branches -> Phases]
        /\ held \in [Branches -> 0..Len(conns)] /\ DOMAIN conns = 1..Len(conns)
    BY DEF ConnectionTypes, ConnectionInv, ControlTypes, TableTypes
  <1>2. ASSUME phase[d] \in {"negotiating", "accepted"}
        PROVE  held[d] \in DOMAIN conns /\ held[d] # None /\ conns[held[d]].used = {}
    BY <1>1, <1>2, InHand DEF Unused, Holding, HandsFull
  <1>3. ASSUME NEW b \in Branches, BranchNext(b)
        PROVE  conns'[held'[d]].used = {}
    <2>1. Records(b) /\ Shift(b) /\ phase[b] # "done"
      BY <1>3, BranchRecords, BranchShifts, BranchEffect
    <2>2. CASE d = b
      <3>1. CASE phase[b] = "negotiating" /\ held'[b] = held[b]
        <4>1. ~Take(b)
          BY <1>1, <2>2 DEF Take, Await
        <4> QED
          BY <1>2, <2>1, <2>2, <3>1, <4>1 DEF Records
      <3>2. CASE held'[b] \in DOMAIN conns' /\ held'[b] \notin DOMAIN conns
        BY <2>1, <2>2, <3>2 DEF Records
      <3> QED
        BY <1>3, <2>2, <3>1, <3>2, BranchHands
    <2>3. CASE d # b
      <3>1. held'[d] = held[d] /\ phase'[d] = phase[d]
        BY <1>3, <2>3, BranchHands, BranchEffect
      <3>2. held[d] \in DOMAIN conns /\ held[d] # None /\ conns[held[d]].used = {}
        BY <1>2, <3>1
      <3>3. ~(Take(b) /\ held[d] = Lookup(Side(Current(b).kind), Current(b).name))
        <4> SUFFICES ASSUME Take(b), held[d] = Lookup(Side(Current(b).kind), Current(b).name)
                     PROVE  FALSE
          OBVIOUS
        <4>1. Current(b).name \in Names
          BY <1>1, <2>1, StepHere, StepFields
        <4> QED
          BY <1>1, <3>2, <4>1 DEF Apart, Lookup
      <3> QED
        BY <2>1, <3>1, <3>2, <3>3 DEF Records
    <2> QED
      BY <2>2, <2>3
  <1>4. CASE BeginIteration \/ NextBlock \/ Cleanup
    <2>1. phase'[d] \in {"next", "err", "done", "dropped"}
      BY <1>4 DEF BeginIteration, NextBlock, Cleanup, AllDone
    <2> QED
      BY <2>1
  <1>5. CASE Complete \/ JoinErr
    BY <1>2, <1>5 DEF Complete, JoinErr
  <1>6. ASSUME NEW b \in Branches, DropBranch(b)
        PROVE  conns'[held'[d]].used = {}
    <2>1. /\ phase'[b] = "dropped" /\ conns' = conns
          /\ \A e \in Branches : e # b => phase'[e] = phase[e] /\ held'[e] = held[e]
      BY <1>1, <1>6 DEF DropBranch, Reinsert, Hold
    <2> QED
      BY <1>2, <2>1
  <1>7. CASE PeerCloses \/ (\E c \in DOMAIN conns : WorkersNext(c)) \/ UNCHANGED vars
    BY <1>2, <1>7, UsedStays
  <1> QED
    BY <1>3, <1>4, <1>5, <1>6, <1>7 DEF Next, RunnerNext

LEMMA ChannelsStep ==
    ASSUME ConnectionTypes, ConnectionInv, Begun, CheckedOut, Disjoint(scenario), Unused, Channels,
           [Next]_vars
    PROVE  Channels'
  <1> SUFFICES ASSUME run' = "running", NEW x \in Keys, x[1] # "listener", ~Troubled(x)',
                      NEW k, UsedAt(x, k)'
               PROVE  (\E s \in Sites(scenario) : UsedBy(s, x, k))'
    BY DEF Channels, Keys
  <1>1. ControlTypes /\ run = "running" /\ scenario' = scenario
    BY StillRunning DEF ConnectionTypes
  <1>2. (\E s \in Sites(scenario) : UsedBy(s, x, k))' <=> \E s \in Sites(scenario) : UsedBy(s, x, k)'
    <2>1. Sites(scenario)' = Sites(scenario)
      BY <1>1
    <2> QED
      BY <2>1, Zenon
  <1>3. ASSUME ~Troubled(x)
        PROVE  \A j : UsedAt(x, j) => \E s \in Sites(scenario) : UsedBy(s, x, j)
    BY <1>1, <1>3, Zenon DEF Channels
  <1>4. ASSUME \A u \in Sites(scenario) : (Executed(u)' <=> Executed(u)) /\ (Taken(u)' <=> Taken(u)),
               NEW s \in Sites(scenario), UsedBy(s, x, k)
        PROVE  UsedBy(s, x, k)'
    <2>1. UsedBy(s, x, k)' <=>
            /\ Taken(s)' /\ StepAt(scenario, s).kind = k /\ Uses(StepAt(scenario, s)) = {x}
            /\ \A u \in Sites(scenario) : Executed(u)' /\ Precedes(s, u) =>
                                            x \notin Opens(StepAt(scenario, u))
      BY <1>1, Zenon DEF UsedBy, StepAt, Uses, Opens, Precedes
    <2> QED
      BY <1>4, <2>1, Zenon DEF UsedBy
  <1>5. ASSUME NEW b \in Branches, BranchNext(b)
        PROVE  \E s \in Sites(scenario) : UsedBy(s, x, k)'
    <2>1. /\ ~Troubled(x) /\ (x \in Uses(Current(b)) => phase'[b] # "err") /\ Shift(b)
          /\ Current(b) \in Steps
      BY <1>1, <1>5, TroubleStays, BranchShifts, BranchEffect, StepHere
    <2>2. CASE x \in Uses(Current(b))
      BY <1>3, <1>5, <2>1, <2>2, ChannelOwn
    <2>3. CASE x \notin Uses(Current(b))
      <3>1. UsedAt(x, k)
        BY <1>5, <2>1, <2>3, ChannelFrame
      <3>2. PICK s \in Sites(scenario) : UsedBy(s, x, k)
        BY <1>3, <2>1, <3>1
      <3>3. x \notin Opens(Current(b))
        BY <2>1, <2>3, StepUses
      <3>4. UsedBy(s, x, k)'
        BY <1>5, <2>1, <2>3, <3>2, <3>3, UsedByStays
      <3> QED
        BY <3>4
    <2> QED
      BY <2>2, <2>3
  <1>6. CASE BeginIteration \/ NextBlock
    <2>1. /\ \A b \in Branches : phase[b] = "done" /\ phase'[b] \in {"next", "done"}
          /\ UNCHANGED <<connections, server_connections, held, conns>>
      BY <1>6 DEF BeginIteration, NextBlock, AllDone, tables
    <2>2. \A b \in Branches : ~Working(b) /\ ~Working(b)'
      BY <2>1 DEF Working
    <2>3. \A u \in Sites(scenario) : (Executed(u)' <=> Executed(u)) /\ (Taken(u)' <=> Taken(u))
      BY <1>6, <2>2, ExecutedByRunner DEF Taken
    <2>4. UsedAt(x, k)
      BY <2>1, <2>2 DEF UsedAt, ConnAt, Lookup
    <2>5. ~Troubled(x)
      BY <2>1 DEF Troubled
    <2>8. PICK s \in Sites(scenario) : UsedBy(s, x, k)
      BY <1>3, <2>4, <2>5
    <2>9. UsedBy(s, x, k)'
      BY <1>4, <2>3, <2>8
    <2> QED
      BY <1>2, <2>9
  <1>7. CASE PeerCloses \/ (\E c \in DOMAIN conns : WorkersNext(c)) \/ UNCHANGED vars
    <2>1. /\ DOMAIN conns' = DOMAIN conns /\ \A c \in DOMAIN conns : conns'[c].used = conns[c].used
          /\ UNCHANGED <<scenario, blk, iter, at, phase, held, connections, server_connections>>
      BY <1>7, UsedStays DEF control, tables
    <2>2. \A b \in Branches : /\ (Working(b)' <=> Working(b)) /\ Key(b)' = Key(b)
                              /\ Here(b)' = Here(b)
      BY <2>1 DEF Working, Key, Here, Current, Branch, Side, Site
    <2>3. \A u \in Sites(scenario) : (Executed(u)' <=> Executed(u)) /\ (Taken(u)' <=> Taken(u))
      BY <2>1, <2>2 DEF Taken, Executed
    <2>4. Lookup(x[1], x[2])' = Lookup(x[1], x[2])
      BY <2>1 DEF Lookup
    <2>5. \A c : ConnAt(x, c)' <=> ConnAt(x, c)
      BY <2>1, <2>2, <2>4 DEF ConnAt
    <2>6. UsedAt(x, k)
      BY <2>1, <2>5 DEF UsedAt
    <2>7. ~Troubled(x)
      BY <2>1 DEF Troubled, Branch
    <2>8. PICK s \in Sites(scenario) : UsedBy(s, x, k)
      BY <1>3, <2>6, <2>7
    <2>9. UsedBy(s, x, k)'
      BY <1>4, <2>3, <2>8
    <2> QED
      BY <1>2, <2>9
  <1>8. CASE RunnerNext
    BY <1>6, <1>8, <1>1 DEF RunnerNext, Complete, JoinErr, Cleanup, DropBranch, control
  <1> QED
    BY <1>2, <1>5, <1>7, <1>8 DEF Next

\* Where no protocol is used twice under a name, a step finds its channel.
LEMMA ChannelHere ==
    ASSUME ConnectionTypes, Begun, WellNamed(scenario), ~Reuses(scenario), Channels,
           run = "running", NEW b \in Branches, phase[b] = "next", Current(b).kind \in Protocols,
           TableTypes, Apart, CheckedOut,
           Lookup(Side(Current(b).kind), Current(b).name) # None
    PROVE  Current(b).kind \notin conns[Lookup(Side(Current(b).kind), Current(b).name)].used
  <1> DEFINE c == Lookup(Side(Current(b).kind), Current(b).name)
             k == Current(b).kind
  <1> SUFFICES ASSUME k \in conns[c].used
               PROVE  FALSE
    OBVIOUS
  <1>1. /\ ControlTypes /\ Disjoint(scenario) /\ phase[b] \notin {"done", "err"}
        /\ Current(b) \in Steps
    BY StepHere DEF ConnectionTypes, WellNamed
  <1>2. PICK x : x = Key(b)
    OBVIOUS
  <1>3. /\ x \in Keys /\ x[1] # "listener" /\ x[1] = Side(Current(b).kind)
        /\ x[2] = Current(b).name /\ Uses(Current(b)) = {x}
    BY <1>1, <1>2, StepNames, StepUses DEF Key
  <1>4. c \in DOMAIN conns /\ c = Lookup(x[1], x[2])
    BY <1>3, LookupApart
  <1>5. UsedAt(x, k)
    BY <1>4 DEF UsedAt, ConnAt
  <1>6. ~Troubled(x)
    BY <1>1, <1>3, NotTroubled
  <1> HIDE DEF c, k
  <1>7. PICK s \in Sites(scenario) : UsedBy(s, x, k)
    BY <1>3, <1>5, <1>6, Zenon DEF Channels
  <1>8. /\ Taken(s) /\ StepAt(scenario, s).kind = k /\ Uses(StepAt(scenario, s)) = {x}
        /\ StepAt(scenario, s) \in Steps
    BY <1>1, <1>7, SiteParts DEF UsedBy
  <1>9. Executed(s)
    <2> SUFFICES ASSUME NEW d \in Branches, Working(d), s = Here(d)
                 PROVE  FALSE
      BY <1>8 DEF Taken
    <2>1. d # b /\ Uses(Current(d)) = {Key(d)} /\ phase[d] # "done"
      BY <1>1, WorksUnder
    <2>2. StepAt(scenario, s) = Current(d)
      BY <1>1, <2>1, HereIsSite
    <2>3. x # Key(d)
      BY <1>1, <1>3, <2>1, OnlyMine
    <2> QED
      BY <1>8, <2>1, <2>2, <2>3
  <1>10. PICK t \in Sites(scenario) : t = Here(b) /\ StepAt(scenario, t) = Current(b)
    BY <1>1, HereIsSite
  <1>11. \A u \in Sites(scenario) : x \in Uses(StepAt(scenario, u)) => (Executed(u) <=> Precedes(u, t))
    BY <1>1, <1>3, <1>10, ExecutedPrecedes
  <1>12. Precedes(s, t)
    BY <1>8, <1>9, <1>11
  <1>13. StepAt(scenario, s).kind = StepAt(scenario, t).kind
         /\ StepAt(scenario, s).name = StepAt(scenario, t).name
         /\ StepAt(scenario, s).kind \in Protocols
    <2>1. StepAt(scenario, s).kind = Current(b).kind
      BY <1>8 DEF k
    <2>2. Uses(StepAt(scenario, s)) = {<<Side(Current(b).kind), StepAt(scenario, s).name>>}
      BY <1>8, <2>1, StepNames
    <2>3. x = <<Side(Current(b).kind), StepAt(scenario, s).name>>
      BY <1>8, <2>2
    <2> QED
      BY <1>3, <1>10, <2>1, <2>3
  <1>14. PICK u \in Sites(scenario) : /\ Precedes(s, u) /\ Precedes(u, t)
                                      /\ Opens(StepAt(scenario, u)) = Uses(StepAt(scenario, s))
    BY <1>12, <1>13, Zenon DEF Reuses
  <1>15. x \in Opens(StepAt(scenario, u))
    BY <1>8, <1>14
  <1>16. Executed(u)
    BY <1>1, <1>11, <1>14, <1>15, SiteUses
  <1> QED
    BY <1>7, <1>14, <1>15, <1>16 DEF UsedBy

LEMMA ChannelStep ==
    ASSUME ConnectionTypes, ConnectionInv, Begun, CheckedOut, WellNamed(scenario), ~Reuses(scenario),
           Channels, [Next]_vars, "no_channels" \notin errs
    PROVE  "no_channels" \notin errs'
  <1>1. CASE errs' = errs
    BY <1>1
  <1>2. ASSUME NEW b \in Branches, BranchNext(b)
        PROVE  "no_channels" \notin errs'
    <2>1. Returns(b) => "no_channels" \notin errs'
      BY DEF Returns, Ok, Err
    <2>2. CASE Begin(b)
      <3> DEFINE c == Lookup(Side(Current(b).kind), Current(b).name)
      <3>1. Current(b).kind \in Protocols /\ phase[b] = "next" /\ run = "running"
        BY <2>2 DEF Begin, In
      <3>2. c # None => Current(b).kind \notin conns[c].used
        BY <3>1, ChannelHere DEF ConnectionTypes, ConnectionInv
      <3> HIDE DEF c
      <3>3. Take(b) \/ Err(b, "not_found")
        BY <2>2, <3>2 DEF Begin, c
      <3> QED
        BY <3>3 DEF Take, Await, Err
    <2>3. CASE Disconnect(b) \/ AwaitPeer(b)
      BY <2>1, <2>3 DEF Disconnect, AwaitPeer, Await, Err
    <2>4. CASE \/ FailsEarly(b) \/ Connect(b) \/ Handshake(b) \/ Exchange(b) \/ End(b)
               \/ Probe(b) \/ ProbeEnds(b) \/ Listen(b) \/ CloseListener(b)
               \/ AcceptPeer(b) \/ Negotiate(b) \/ InsertServer(b) \/ Other(b)
      BY <2>1, <2>4 DEF FailsEarly, Connect, Handshake, Exchange, End, Probe, ProbeEnds, Listen,
                        CloseListener, AcceptPeer, Negotiate, InsertServer, Other, Await, Err
    <2> QED
      BY <1>2, <2>2, <2>3, <2>4 DEF BranchNext
  <1>3. CASE RunnerNext \/ PeerCloses \/ (\E c \in DOMAIN conns : WorkersNext(c)) \/ UNCHANGED vars
    BY <1>1, <1>3 DEF RunnerNext, BeginIteration, NextBlock, Complete, JoinErr, Cleanup, DropBranch,
                PeerCloses, WorkersNext, KeepAliveEnds, TxSubmissionEnds, WorkerOver, vars
  <1> QED
    BY <1>2, <1>3 DEF Next

\* The channels of a scenario.
ChannelInv ==
    /\ Unused
    /\ WellNamed(scenario) => /\ Channels
                              /\ ~Reuses(scenario) => "no_channels" \notin errs

LEMMA ChannelsAlways == Spec => [](NamesInv /\ ChannelInv)
  <1>1. Init => ChannelInv
    <2> SUFFICES ASSUME Init PROVE ChannelInv
      OBVIOUS
    <2>1. Unused /\ "no_channels" \notin errs
      BY DEF Init, Unused
    <2>2. \A x, k : ~UsedAt(x, k)
      BY DEF Init, UsedAt
    <2> QED
      BY <2>1, <2>2 DEF ChannelInv, Channels
  <1>2. ASSUME ConnectionTypes, ConnectionInv, Begun, NamesInv, ChannelInv, [Next]_vars
        PROVE  ChannelInv'
    <2>1. CheckedOut /\ Unused /\ scenario' = scenario
      BY <1>2, SameScenario DEF NamesInv, ChannelInv
    <2>2. Unused'
      BY <1>2, <2>1, UnusedStep
    <2>3. ASSUME WellNamed(scenario)'
          PROVE  Channels' /\ (~Reuses(scenario)' => "no_channels" \notin errs')
      <3>1. /\ WellNamed(scenario) /\ Disjoint(scenario) /\ (Reuses(scenario)' <=> Reuses(scenario))
        BY <2>1, <2>3 DEF WellNamed, Reuses
      <3>2. Channels /\ (~Reuses(scenario) => "no_channels" \notin errs)
        BY <1>2, <3>1 DEF ChannelInv
      <3>3. Channels'
        BY <1>2, <2>1, <3>1, <3>2, ChannelsStep
      <3>4. ~Reuses(scenario)' => "no_channels" \notin errs'
        BY <1>2, <2>1, <3>1, <3>2, ChannelStep
      <3> QED
        BY <3>3, <3>4
    <2> QED
      BY <2>2, <2>3 DEF ChannelInv
  <1>3. (ConnectionTypes /\ ConnectionInv /\ Begun /\ NamesInv) /\ ChannelInv /\ [Next]_vars => ChannelInv'
    BY <1>2
  <1> QED
    BY <1>1, <1>3, NamesAlways, PTL DEF Spec

(***************************************************************************)
(* validate_connection_names in one order is enough for every order: if    *)
(* the steps pass it as the file has them and branches keep to names of    *)
(* their own, no step of any interleaving misses its connection or its     *)
(* listener, also while another branch is failing, and none finds its      *)
(* channel taken unless the scenario uses it twice.                        *)
(***************************************************************************)
THEOREM NamesAlwaysResolve == Spec => []NamesResolve
  <1>1. NamesInv /\ ChannelInv => NamesResolve
    BY DEF NamesInv, ChannelInv, NamesResolve
  <1> QED
    BY <1>1, ChannelsAlways, PTL
=============================================================================
