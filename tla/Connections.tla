----------------------------- MODULE Connections -----------------------------
(***************************************************************************)
(* The connections and the variables of a scenario: who holds a connection *)
(* while steps and branches run, which value a reference gets, and what is *)
(* left when the scenario ends (ScenarioRunner::run, CheckedOut, run_step, *)
(* execute_step and cleanup in src/scenario/runner.rs, src/scenario/vars.rs *)
(* and validate_connection_names in src/scenario/mod.rs).                  *)
(*                                                                         *)
(* A scenario is a sequence of blocks: a plain step, a repeat of a body,   *)
(* or a parallel step.  A branch runs without interruption between awaits; *)
(* awaits that come before a step has touched anything need no state of    *)
(* their own.  What goes over a connection is in the session modules.      *)
(***************************************************************************)
EXTENDS Naturals, Sequences, SequencesExt, FiniteSets

CONSTANTS
    Names,          \* names of connections and of listeners
    Vars,           \* names of variables
    BuiltIns,       \* the variables the runner sets: current_slot, current_slot_minus_100
    NoVar,          \* no variable
    Scenarios,      \* the scenarios to run
    Genesis,        \* those that declare sut_genesis_time_unix
    N,              \* bound on the branches of a block
    MaxConns,       \* bound on the connections opened in a run
    MayFail,        \* steps may fail for reasons outside this module
    MayClose        \* the peer may close a connection or end a worker's exchange

ASSUME ConnectionsAssumption ==
    /\ N \in Nat \ {0} /\ MaxConns \in Nat
    /\ MayFail \in BOOLEAN /\ MayClose \in BOOLEAN
    /\ NoVar \notin Vars /\ BuiltIns \subseteq Vars

Branches == 1..N
ConnIds == 1..MaxConns
None == 0           \* no connection

\* The client steps and the server steps that use one channel of a connection.
ClientProtocols == {"handshake", "chain_sync", "block_fetch", "leios_notify", "leios_fetch"}
ServerProtocols ==
    {"serve_chain_sync", "serve_block_fetch", "serve_leios_notify", "serve_leios_fetch"}
Protocols == ClientProtocols \cup ServerProtocols

\* A step works under `name'; accept_handshake also names its listener.  Its
\* parameters may refer to a variable; it may name one for its output.
Step(kind, name) == [kind |-> kind, name |-> name, on |-> name, ref |-> NoVar, output |-> NoVar]
Accept(listener, name) == [Step("accept_handshake", name) EXCEPT !.on = listener]

\* A plain step, a repeat and a parallel step.
Plain(step) == [kind |-> "step", branches |-> <<<<step>>>>, times |-> 1]
Repeat(times, body) == [kind |-> "repeat", branches |-> <<body>>, times |-> times]
Parallel(branches) == [kind |-> "parallel", branches |-> branches, times |-> 1]

-----------------------------------------------------------------------------
(* validate_connection_names *)

ValidateConnect(v, name) ==
    [v EXCEPT !.ok = @ /\ name \notin v.clients, !.clients = @ \cup {name}]

\* One step: the names open before it, and whether an error was recorded.
ValidateStep(v, step) ==
    CASE step.kind = "connect" -> ValidateConnect(v, step.name)
      [] step.kind = "listen" ->
           [v EXCEPT !.ok = @ /\ step.name \notin v.listeners,
                     !.listeners = @ \cup {step.name}]
      [] step.kind = "accept_handshake" ->
           [v EXCEPT !.ok = @ /\ step.on \in v.listeners /\ step.name \notin v.servers,
                     !.servers = @ \cup {step.name}]
      [] step.kind \in ClientProtocols \cup {"query_tip"} ->
           [v EXCEPT !.ok = @ /\ step.name \in v.clients]
      [] step.kind = "disconnect" ->
           [v EXCEPT !.ok = @ /\ step.name \in v.clients, !.clients = @ \ {step.name}]
      [] step.kind \in ServerProtocols -> [v EXCEPT !.ok = @ /\ step.name \in v.servers]
      [] step.kind = "close_listener" ->
           [v EXCEPT !.ok = @ /\ step.name \in v.listeners, !.listeners = @ \ {step.name}]
      [] OTHER -> v

Validates(steps) ==
    FoldLeft(ValidateStep, [clients |-> {}, listeners |-> {}, servers |-> {}, ok |-> TRUE],
             steps).ok

\* What the code validates: the scenario's own steps.  Bodies and branches
\* are not looked into.
TopLevel(sc) ==
    FoldLeft(LAMBDA steps, block : IF block.kind = "step" THEN steps \o block.branches[1]
                                   ELSE steps, <<>>, sc)

\* is_client_side and is_server_side: the two must not mix, ...
ClientSide == ClientProtocols \cup {"connect", "query_tip", "disconnect"}
ServerSide == ServerProtocols \cup {"listen", "accept_handshake", "close_listener"}

\* ... which again is checked of the scenario's own steps only.
Accepted(sc) ==
    LET kinds == {step.kind : step \in ToSet(TopLevel(sc))} IN
    /\ kinds \cap ClientSide = {} \/ kinds \cap ServerSide = {}
    /\ Validates(TopLevel(sc))

\* What the parser makes of a scenario.  query_tip, sleep and the steps of the
\* imaginary network have no use for the name of a connection.
Steps ==
    [kind : ClientSide \cup ServerSide \cup {"other"}, name : Names, on : Names,
     ref : Vars \cup {NoVar}, output : Vars \cup {NoVar}]
Blocks == [kind : {"step", "repeat", "parallel"}, branches : Seq(Seq(Steps)), times : Nat]

ASSUME ScenariosAssumption ==
    \A sc \in Scenarios :
      sc \in Seq(Blocks) /\ \A k \in 1..Len(sc) : Len(sc[k].branches) <= N

-----------------------------------------------------------------------------
VARIABLES
    scenario,           \* the scenario
    blk, iter,          \* its current block, and the iterations of it begun
    run,                \* "running", "dropping", "aborted" or "completed"
    at,                 \* the step each branch is in
    phase,              \* how far each branch is in it
    held,               \* the connection each branch has in hand
    connections,        \* the maps, None for a name they do not have
    server_connections,
    listeners,          \* the names with a listener
    store,              \* the variables: which step set them, if not the runner
    conns,              \* every connection whose multiplexer was started
    errs                \* why steps have failed

control == <<scenario, blk, iter, run>>
tables == <<connections, server_connections, listeners>>
vars == <<control, at, phase, held, tables, store, conns, errs>>

\* Where in the run a step is executed; a variable's value is told by it.
Site(k, i, b, j) == <<k, i, b, j>>
Unset == <<>>

\* The slot of the moment the run began, which no step has computed.
BuiltIn == Site(0, 0, 0, 0)

\* What a variable is before the first step.  A step's output may have the
\* name of a built-in variable, and then replaces it.
Initial(v) == IF scenario \in Genesis /\ v \in BuiltIns THEN BuiltIn ELSE Unset

\* A connection that no step has finished setting up is not "open" yet.
Conn(stage) == [stage |-> stage, mux |-> "running", used |-> {}, workers |-> {}]

Phases ==
    {"next", "busy", "telling", "probing", "accepting", "negotiating", "accepted", "err",
     "done", "dropped"}
Reasons == {"not_found", "no_channels", "unbound", "failed"}

TypeOK ==
    /\ blk \in 1..Len(scenario) + 1
    /\ blk <= Len(scenario) => iter \in 0..scenario[blk].times
    /\ run \in {"running", "dropping", "aborted", "completed"}
    /\ at \in [Branches -> Nat]
    /\ phase \in [Branches -> Phases]
    /\ Len(conns) \in 0..MaxConns
    /\ held \in [Branches -> 0..Len(conns)]
    /\ connections \in [Names -> 0..Len(conns)]
    /\ server_connections \in [Names -> 0..Len(conns)]
    /\ listeners \subseteq Names
    /\ store \in [Vars -> Seq(Nat)]
    /\ \A c \in 1..Len(conns) :
         /\ conns[c].stage \in {"open", "accepting", "probe"}
         /\ conns[c].mux \in {"running", "closed", "aborted"}
         /\ conns[c].used \subseteq Protocols
         /\ conns[c].workers \subseteq {"keep-alive", "tx-submission"}
    /\ errs \subseteq Reasons

Init ==
    /\ scenario \in {sc \in Scenarios : Accepted(sc)}
    /\ blk = 1 /\ iter = 0 /\ run = "running"
    /\ at = [b \in Branches |-> 1]
    /\ phase = [b \in Branches |-> "done"]
    /\ held = [b \in Branches |-> None]
    /\ connections = [n \in Names |-> None]
    /\ server_connections = [n \in Names |-> None]
    /\ listeners = {}
    /\ store = [v \in Vars |-> Initial(v)]
    /\ conns = <<>>
    /\ errs = {}

-----------------------------------------------------------------------------
(* The steps of a branch. *)

Branch(b) == scenario[blk].branches[b]
BranchesHere == IF blk <= Len(scenario) THEN DOMAIN scenario[blk].branches ELSE {}
Current(b) == Branch(b)[at[b]]

\* resolve_ref: the variable a step refers to has been set.
Bound == {v \in Vars : store[v] # Unset}
Resolves(ref) == ref \in Bound \cup {NoVar}

\* Branch b is in a step of this kind, this far; its references are resolved
\* as it starts, from the store of that moment.
In(b, kinds, p) ==
    /\ run = "running" /\ phase[b] = p /\ Current(b).kind \in kinds
    /\ p = "next" => Resolves(Current(b).ref)

\* run_step returns Ok: the next step of the branch, or its end.
Ok(b) ==
    /\ IF at[b] < Len(Branch(b))
       THEN at' = [at EXCEPT ![b] = @ + 1] /\ phase' = [phase EXCEPT ![b] = "next"]
       ELSE phase' = [phase EXCEPT ![b] = "done"] /\ UNCHANGED at
    /\ UNCHANGED errs

\* run_step returns Err, after the awaits of its own events.
Err(b, why) ==
    /\ phase' = [phase EXCEPT ![b] = "err"]
    /\ errs' = errs \cup {why}
    /\ UNCHANGED at

\* A step that did what it had to; its trace events or its assertions may
\* still fail it.
Returns(b) == Ok(b) \/ (MayFail /\ Err(b, "failed"))

\* The variable a step sets: only query_tip and chain_sync look at `output'.
Assigns(step) ==
    IF step.kind \in {"query_tip", "chain_sync"} /\ step.output # NoVar THEN {step.output} ELSE {}

\* Mutant of Store: branches work on copies of the store.
StoreInBranch(b) ==
    store' = [v \in Vars |->
                IF v \in Assigns(Current(b)) /\ scenario[blk].kind # "parallel"
                THEN Site(blk, iter, b, at[b]) ELSE store[v]]

\* A step that has a result stores it under its `output'.
Store(b) ==
    store' = [v \in Vars |->
                IF v \in Assigns(Current(b)) THEN Site(blk, iter, b, at[b]) ELSE store[v]]

\* A step fails before it has changed anything: a reference does not resolve
\* (substitute_in_value), its first event cannot be written, its parameters
\* are refused, or there is no connecting or binding to its address.
FailsEarly(b) ==
    /\ run = "running" /\ phase[b] = "next"
    /\ \/ ~Resolves(Current(b).ref) /\ Err(b, "unbound")
       \/ MayFail /\ Err(b, "failed")
    /\ UNCHANGED <<control, held, tables, store, conns>>

Await(b, p) == phase' = [phase EXCEPT ![b] = p] /\ UNCHANGED <<at, errs>>

\* The map a step of this kind looks its connection up in.
Side(kind) == IF kind \in ServerProtocols \cup {"accept_handshake"} THEN "server" ELSE "client"
Lookup(side, n) == IF side = "client" THEN connections[n] ELSE server_connections[n]

Put(side, n, c) ==
    IF side = "client"
    THEN connections' = [connections EXCEPT ![n] = c] /\ UNCHANGED server_connections
    ELSE server_connections' = [server_connections EXCEPT ![n] = c] /\ UNCHANGED connections

Hold(b, c) == held' = [held EXCEPT ![b] = c]

\* Start a multiplexer over a fresh connection.
Opened(stage) == Len(conns) < MaxConns /\ conns' = Append(conns, Conn(stage))
NewConn == Len(conns) + 1

\* Abort a connection's multiplexer and its workers.
Abort(conn) == [conn EXCEPT !.mux = "aborted", !.workers = {}]

\* connect: nothing is kept unless the multiplexer was started; a connection
\* already under the name is dropped.
Connect(b) ==
    /\ In(b, {"connect"}, "next")
    /\ Opened("open")
    /\ Put("client", Current(b).name, NewConn)
    /\ Returns(b)
    /\ UNCHANGED <<control, held, listeners, store>>

\* Mutant of Take: the map keeps its entry.
TakeShared(b) ==
    LET side == Side(Current(b).kind)
        c == Lookup(side, Current(b).name)
    IN  /\ c # None /\ Current(b).kind \notin conns[c].used
        /\ Hold(b, c)
        /\ conns' = [conns EXCEPT ![c].used = @ \cup {Current(b).kind}]
        /\ Await(b, "busy")
        /\ UNCHANGED <<connections, server_connections>>

\* CheckedOut::take, then the channel of the protocol.
Take(b) ==
    LET side == Side(Current(b).kind)
        c == Lookup(side, Current(b).name)
    IN  /\ c # None /\ Current(b).kind \notin conns[c].used
        /\ Hold(b, c)
        /\ conns' = [conns EXCEPT ![c].used = @ \cup {Current(b).kind}]
        /\ Put(side, Current(b).name, None)
        /\ Await(b, "busy")

\* A protocol step begins.  With the channel gone the guard puts the
\* connection back at once.
Begin(b) ==
    /\ In(b, Protocols, "next")
    /\ LET c == Lookup(Side(Current(b).kind), Current(b).name) IN
       \/ Take(b)
       \/ /\ c = None /\ Err(b, "not_found")
          /\ UNCHANGED <<held, connections, server_connections, conns>>
       \/ /\ c # None /\ Current(b).kind \in conns[c].used /\ Err(b, "no_channels")
          /\ UNCHANGED <<held, connections, server_connections, conns>>
    /\ UNCHANGED <<control, listeners, store>>

\* Mutant of Reinsert: nothing is put back.
ReinsertNot(b) == Hold(b, None) /\ UNCHANGED <<connections, server_connections>>

\* Drop of the guard, however the step ends: the connection goes back under
\* the name, over whatever is there now.
Reinsert(b) == Put(Side(Current(b).kind), Current(b).name, held[b]) /\ Hold(b, None)

\* handshake_on_channels: the peer accepts a version or the step fails; then
\* the workers are started.
Handshake(b) ==
    /\ In(b, {"handshake"}, "busy")
    /\ \/ /\ conns' = [conns EXCEPT ![held[b]].workers = {"keep-alive", "tx-submission"}]
          /\ Await(b, "telling") /\ UNCHANGED <<held, connections, server_connections>>
       \/ MayFail /\ Err(b, "failed") /\ Reinsert(b) /\ UNCHANGED conns
    /\ UNCHANGED <<control, listeners, store>>

\* The exchange of another protocol ends, with its result stored, or fails.
Exchange(b) ==
    /\ In(b, Protocols \ {"handshake"}, "busy")
    /\ \/ Store(b) /\ Await(b, "telling") /\ UNCHANGED <<held, connections, server_connections>>
       \/ MayFail /\ Err(b, "failed") /\ Reinsert(b) /\ UNCHANGED store
    /\ UNCHANGED <<control, listeners, conns>>

\* The step's last event is written, and the guard goes out of scope.
End(b) ==
    /\ In(b, Protocols, "telling")
    /\ Reinsert(b)
    /\ Returns(b)
    /\ UNCHANGED <<control, listeners, store, conns>>

Disconnect(b) ==
    /\ In(b, {"disconnect"}, "next")
    /\ LET c == connections[Current(b).name] IN
       \/ /\ c # None
          /\ conns' = [conns EXCEPT ![c] = Abort(@)]
          /\ Put("client", Current(b).name, None)
          /\ Returns(b)
       \/ /\ c = None /\ Err(b, "not_found")
          /\ UNCHANGED <<connections, server_connections, conns>>
    /\ UNCHANGED <<control, held, listeners, store>>

\* query_tip opens a connection of its own (fetch_tip), ...
Probe(b) ==
    /\ In(b, {"query_tip"}, "next")
    /\ Opened("probe") /\ Hold(b, NewConn) /\ Await(b, "probing")
    /\ UNCHANGED <<control, tables, store>>

\* ... and aborts it, unless the handshake or the query fails; an event that
\* cannot be written may still keep the result from being stored.
ProbeEnds(b) ==
    /\ In(b, {"query_tip"}, "probing")
    /\ Hold(b, None)
    /\ \/ conns' = [conns EXCEPT ![held[b]] = Abort(@)] /\ Store(b) /\ Returns(b)
       \/ /\ MayFail /\ Err(b, "failed") /\ UNCHANGED store
          /\ conns' \in {conns, [conns EXCEPT ![held[b]] = Abort(@)]}
    /\ UNCHANGED <<control, tables>>

Listen(b) ==
    /\ In(b, {"listen"}, "next")
    /\ listeners' = listeners \cup {Current(b).name}
    /\ Returns(b)
    /\ UNCHANGED <<control, held, connections, server_connections, store, conns>>

\* A listener that a branch waits on goes on accepting for that branch.
CloseListener(b) ==
    /\ In(b, {"close_listener"}, "next")
    /\ listeners' = listeners \ {Current(b).name}
    /\ Returns(b)
    /\ UNCHANGED <<control, held, connections, server_connections, store, conns>>

\* accept_handshake: look the listener up, ...
AwaitPeer(b) ==
    /\ In(b, {"accept_handshake"}, "next")
    /\ IF Current(b).on \in listeners THEN Await(b, "accepting") ELSE Err(b, "not_found")
    /\ UNCHANGED <<control, held, tables, store, conns>>

\* ... wait for a peer (external) and start the multiplexer, ...
AcceptPeer(b) ==
    /\ In(b, {"accept_handshake"}, "accepting")
    /\ \/ Opened("accepting") /\ Hold(b, NewConn) /\ Await(b, "negotiating")
       \/ MayFail /\ Err(b, "failed") /\ UNCHANGED <<held, conns>>
    /\ UNCHANGED <<control, tables, store>>

\* ... negotiate a version, abort if that fails, start the keep-alive server.
\* A trace event that cannot be written leaves the multiplexer running.
Negotiate(b) ==
    /\ In(b, {"accept_handshake"}, "negotiating")
    /\ \/ /\ conns' = [conns EXCEPT ![held[b]].workers = {"keep-alive"}]
          /\ Await(b, "accepted") /\ UNCHANGED held
       \/ /\ MayFail /\ Err(b, "failed") /\ Hold(b, None)
          /\ \/ conns' = [conns EXCEPT ![held[b]] = Abort(@)]
             \/ UNCHANGED conns
    /\ UNCHANGED <<control, tables, store>>

\* ... and insert the connection after one more event.
InsertServer(b) ==
    /\ In(b, {"accept_handshake"}, "accepted")
    /\ Hold(b, None)
    /\ \/ /\ Put("server", Current(b).name, held[b])
          /\ conns' = [conns EXCEPT ![held[b]].stage = "open"]
          /\ Returns(b)
       \/ /\ MayFail /\ Err(b, "failed")
          /\ UNCHANGED <<connections, server_connections, conns>>
    /\ UNCHANGED <<control, listeners, store>>

\* sleep, and the steps that only touch the imaginary network.
Other(b) ==
    /\ In(b, {"other"}, "next")
    /\ Returns(b)
    /\ UNCHANGED <<control, held, tables, store, conns>>

BranchNext(b) ==
    \/ FailsEarly(b)
    \/ Connect(b) \/ Begin(b) \/ Handshake(b) \/ Exchange(b) \/ End(b) \/ Disconnect(b)
    \/ Probe(b) \/ ProbeEnds(b)
    \/ Listen(b) \/ CloseListener(b)
    \/ AwaitPeer(b) \/ AcceptPeer(b) \/ Negotiate(b) \/ InsertServer(b)
    \/ Other(b)

-----------------------------------------------------------------------------
(* The scenario. *)

AllDone == \A b \in Branches : phase[b] = "done"

\* Mutant of BeginIteration: one iteration too many.
BeginIterationInclusive ==
    /\ run = "running" /\ blk <= Len(scenario) /\ AllDone
    /\ iter <= scenario[blk].times
    /\ iter' = iter + 1
    /\ at' = [b \in Branches |-> 1]
    /\ phase' = [b \in Branches |->
                   IF b \in BranchesHere /\ Branch(b) # <<>> THEN "next" ELSE "done"]
    /\ UNCHANGED <<scenario, blk, run, held, tables, store, conns, errs>>

\* The block begins, or the next iteration of it.
BeginIteration ==
    /\ run = "running" /\ blk <= Len(scenario) /\ AllDone
    /\ iter < scenario[blk].times
    /\ iter' = iter + 1
    /\ at' = [b \in Branches |-> 1]
    /\ phase' = [b \in Branches |->
                   IF b \in BranchesHere /\ Branch(b) # <<>> THEN "next" ELSE "done"]
    /\ UNCHANGED <<scenario, blk, run, held, tables, store, conns, errs>>

NextBlock ==
    /\ run = "running" /\ blk <= Len(scenario) /\ AllDone
    /\ iter = scenario[blk].times
    /\ blk' = blk + 1 /\ iter' = 0
    /\ UNCHANGED <<scenario, run, at, phase, held, tables, store, conns, errs>>

\* The last block is done: the maps are left as they are.
Complete ==
    /\ run = "running" /\ blk > Len(scenario)
    /\ run' = "completed"
    /\ UNCHANGED <<scenario, blk, iter, at, phase, held, tables, store, conns, errs>>

\* Mutant of JoinErr: the other branches are waited for.
JoinErrWaits ==
    /\ run = "running" /\ \E b \in Branches : phase[b] = "err"
    /\ \A b \in Branches : phase[b] \in {"err", "done"}
    /\ run' = "dropping"
    /\ UNCHANGED <<scenario, blk, iter, at, phase, held, tables, store, conns, errs>>

\* A failed step or branch ends its block: try_join_all drops the others ...
JoinErr ==
    /\ run = "running" /\ \E b \in Branches : phase[b] = "err"
    /\ run' = "dropping"
    /\ UNCHANGED <<scenario, blk, iter, at, phase, held, tables, store, conns, errs>>

\* Mutant of DropBranch: a dropped future does not run its guard.
DropBranchForgets(b) ==
    /\ run = "dropping" /\ phase[b] \notin {"err", "done", "dropped"}
    /\ phase' = [phase EXCEPT ![b] = "dropped"]
    /\ Hold(b, None) /\ UNCHANGED <<connections, server_connections>>
    /\ UNCHANGED <<control, at, listeners, store, conns, errs>>

\* ... wherever they wait, in some order.  A checked-out connection goes back
\* to its map; one that is still being set up is dropped as it is.
DropBranch(b) ==
    /\ run = "dropping" /\ phase[b] \notin {"err", "done", "dropped"}
    /\ phase' = [phase EXCEPT ![b] = "dropped"]
    /\ IF phase[b] \in {"busy", "telling"} THEN Reinsert(b)
       ELSE Hold(b, None) /\ UNCHANGED <<connections, server_connections>>
    /\ UNCHANGED <<control, at, listeners, store, conns, errs>>

\* Mutant of Drained: only outgoing connections are closed.
DrainedClients == {connections[n] : n \in Names}

\* What cleanup finds in the maps.
Drained == {connections[n] : n \in Names} \cup {server_connections[n] : n \in Names}

Cleanup ==
    /\ run = "dropping"
    /\ \A b \in Branches : phase[b] \in {"err", "done", "dropped"}
    /\ run' = "aborted"
    /\ conns' = [c \in DOMAIN conns |-> IF c \in Drained THEN Abort(conns[c]) ELSE conns[c]]
    /\ connections' = [n \in Names |-> None]
    /\ server_connections' = [n \in Names |-> None]
    /\ listeners' = {}
    /\ UNCHANGED <<scenario, blk, iter, at, phase, held, store, errs>>

RunnerNext ==
    \/ BeginIteration \/ NextBlock \/ Complete
    \/ JoinErr \/ Cleanup
    \/ \E b \in Branches : DropBranch(b)

-----------------------------------------------------------------------------
(* The peer and the background workers. *)

\* The peer (external) closes a connection.
PeerCloses ==
    /\ MayClose
    /\ \E c \in DOMAIN conns :
         /\ conns[c].mux = "running"
         /\ conns' = [conns EXCEPT ![c].mux = "closed"]
    /\ UNCHANGED <<control, at, phase, held, tables, store, errs>>

\* A worker's loop is over.
WorkerOver(c, w) ==
    /\ w \in conns[c].workers
    /\ conns' = [conns EXCEPT ![c].workers = @ \ {w}]
    /\ UNCHANGED <<control, at, phase, held, tables, store, errs>>

\* A worker's channel is gone, or its peer breaks the exchange off.
ChannelFails(c) == conns[c].mux # "running" \/ MayClose

\* run_keepalive and run_keepalive_server loop until an error or MsgDone, ...
KeepAliveEnds(c) == ChannelFails(c) /\ WorkerOver(c, "keep-alive")

\* ... run_tx_submission also until a message it does not expect.
TxSubmissionEnds(c) == ChannelFails(c) /\ WorkerOver(c, "tx-submission")

WorkersNext(c) == KeepAliveEnds(c) \/ TxSubmissionEnds(c)

Next ==
    \/ \E b \in Branches : BranchNext(b)
    \/ RunnerNext
    \/ PeerCloses
    \/ \E c \in DOMAIN conns : WorkersNext(c)

Spec == Init /\ [][Next]_vars

\* The runtime polls the runner, and a worker whose channel is gone.  No
\* fairness of BranchNext: whether a step's exchange ends is up to the peer.
Fairness ==
    /\ WF_vars(RunnerNext)
    /\ \A c \in ConnIds :
         WF_vars(c \in DOMAIN conns /\ conns[c].mux # "running" /\ WorkersNext(c))

FairSpec == Spec /\ Fairness

-----------------------------------------------------------------------------
\* The sites of a scenario: each step as often as it runs.
Sites(sc) ==
    UNION {UNION {{Site(k, i, b, j) : i \in 1..sc[k].times, j \in 1..Len(sc[k].branches[b])} :
                    b \in 1..Len(sc[k].branches)} :
             k \in 1..Len(sc)}
StepAt(sc, s) == sc[s[1]].branches[s[3]][s[4]]

\* The order of the file, and the part of it that every interleaving keeps.
Precedes(s, t) ==
    \/ s[1] < t[1]
    \/ s[1] = t[1] /\ s[2] < t[2]
    \/ s[1] = t[1] /\ s[2] = t[2] /\ s[3] < t[3]
    \/ s[1] = t[1] /\ s[2] = t[2] /\ s[3] = t[3] /\ s[4] < t[4]

Before(s, t) ==
    \/ s[1] < t[1]
    \/ s[1] = t[1] /\ s[2] < t[2]
    \/ s[1] = t[1] /\ s[2] = t[2] /\ s[3] = t[3] /\ s[4] < t[4]

\* The names a step puts into a map, takes out and looks up.
Opens(step) ==
    CASE step.kind \in {"connect", "accept_handshake"} -> {<<Side(step.kind), step.name>>}
      [] step.kind = "listen" -> {<<"listener", step.name>>}
      [] OTHER -> {}
Closes(step) ==
    CASE step.kind = "disconnect" -> {<<"client", step.name>>}
      [] step.kind = "close_listener" -> {<<"listener", step.name>>}
      [] OTHER -> {}
Needs(step) ==
    CASE step.kind \in Protocols \cup {"query_tip", "disconnect"} ->
           {<<Side(step.kind), step.name>>}
      [] step.kind = "accept_handshake" -> {<<"listener", step.on>>}
      [] step.kind = "close_listener" -> {<<"listener", step.name>>}
      [] OTHER -> {}

\* The validator's rule carried into bodies and branches: in the order of the
\* file a name is open where it is looked up and not where it is opened, ...
OpenBefore(sc, x, t) ==
    \E s \in Sites(sc) :
      /\ Precedes(s, t) /\ x \in Opens(StepAt(sc, s))
      /\ \A u \in Sites(sc) : Precedes(s, u) /\ Precedes(u, t) => x \notin Closes(StepAt(sc, u))

NamesInOrder(sc) ==
    \A t \in Sites(sc) :
      /\ \A x \in Needs(StepAt(sc, t)) : OpenBefore(sc, x, t)
      /\ \A x \in Opens(StepAt(sc, t)) : ~OpenBefore(sc, x, t)

\* ... and what the documentation asks of a parallel step: no two branches
\* work under the same name.
Uses(step) ==
    CASE step.kind \in {"listen", "close_listener"} -> {<<"listener", step.name>>}
      [] step.kind \in {"query_tip", "other"} -> {}
      [] OTHER -> {<<Side(step.kind), step.name>>}
Reads(step) == IF step.kind = "accept_handshake" THEN {<<"listener", step.on>>} ELSE {}

Disjoint(sc) ==
    \A k \in 1..Len(sc) : \A i, j \in 1..Len(sc[k].branches) :
      i # j => \A s \in ToSet(sc[k].branches[i]), t \in ToSet(sc[k].branches[j]) :
                 Uses(s) \cap (Uses(t) \cup Reads(t)) = {}

WellNamed(sc) == NamesInOrder(sc) /\ Disjoint(sc)

\* Some protocol is used twice under a name that is not opened again between.
Reuses(sc) ==
    \E s, t \in Sites(sc) :
      /\ Precedes(s, t) /\ StepAt(sc, s).kind \in Protocols
      /\ StepAt(sc, s).kind = StepAt(sc, t).kind /\ StepAt(sc, s).name = StepAt(sc, t).name
      /\ \A u \in Sites(sc) : Precedes(s, u) /\ Precedes(u, t) =>
                                Opens(StepAt(sc, u)) # Uses(StepAt(sc, s))

Places(c) ==
    {<<"client", n>> : n \in {x \in Names : connections[x] = c}}
      \cup {<<"server", n>> : n \in {x \in Names : server_connections[x] = c}}
      \cup {<<"branch", b>> : b \in {x \in Branches : held[x] = c}}

(***************************************************************************)
(* The check of names in one order is enough for every order: if the steps *)
(* pass it as written and branches keep to names of their own, no step of  *)
(* any interleaving misses its connection or listener, also while another  *)
(* branch is failing, and none finds its channel used unless the scenario  *)
(* uses it twice.                                                          *)
(***************************************************************************)
NamesResolve ==
    WellNamed(scenario) =>
      /\ "not_found" \notin errs
      /\ ~Reuses(scenario) => "no_channels" \notin errs

(***************************************************************************)
(* A connection is in one place: under one name of one map, or in the hand *)
(* of one branch.  No two branches use one connection at a time, even in   *)
(* scenarios that misuse names.                                            *)
(***************************************************************************)
OneOwner == \A c \in DOMAIN conns : Cardinality(Places(c)) <= 1

(***************************************************************************)
(* What the guard is for: with names well used, an open connection is      *)
(* never lost, whichever branch fails or is dropped.  What may be lost is  *)
(* a connection that accept_handshake or query_tip was still setting up.   *)
(***************************************************************************)
NoneLost ==
    WellNamed(scenario) =>
      \A c \in DOMAIN conns :
        conns[c].mux = "running" /\ Places(c) = {} => conns[c].stage # "open"

(***************************************************************************)
(* After a failed scenario's cleanup nothing of it runs on, neither a      *)
(* multiplexer nor a worker, but for a connection dropped within           *)
(* accept_handshake or query_tip; and the maps are empty.                  *)
(***************************************************************************)
AbortClosesAll ==
    run = "aborted" =>
      /\ \A c \in DOMAIN conns :
           /\ WellNamed(scenario) /\ conns[c].mux = "running" => conns[c].stage # "open"
           /\ conns[c].mux = "aborted" => conns[c].workers = {}
      /\ \A c \in DOMAIN conns : Places(c) = {}

\* The sites that set a variable.
Setters(v) == {s \in Sites(scenario) : v \in Assigns(StepAt(scenario, s))}

\* No variable that a branch sets is set or referred to by another.
OwnVars(sc) ==
    \A k \in 1..Len(sc) : \A i, j \in 1..Len(sc[k].branches) :
      i # j => \A s \in ToSet(sc[k].branches[i]), t \in ToSet(sc[k].branches[j]) :
                 Assigns(s) \cap (Assigns(t) \cup {t.ref}) = {}

(***************************************************************************)
(* A reference gets the value of the last step before it that set the      *)
(* variable, in another block, an earlier iteration or the same branch, in *)
(* every interleaving of branches that keep their variables to themselves. *)
(* Before there is one, a built-in variable of a scenario that declares    *)
(* its genesis time is the slot of the start, and any other is unset.      *)
(***************************************************************************)
ReferencesAreFresh ==
    OwnVars(scenario) =>
      \A b \in Branches :
        run = "running" /\ phase[b] = "next" /\ Current(b).ref # NoVar =>
          LET value == store[Current(b).ref]
              earlier == {s \in Setters(Current(b).ref) : Before(s, Site(blk, iter, b, at[b]))}
          IN  IF earlier = {} THEN value = Initial(Current(b).ref)
              ELSE value \in earlier /\ \A s \in earlier : ~Before(value, s)

(***************************************************************************)
(* A failure ends the scenario whatever the peers do: no branch that waits *)
(* for a connection or for an answer keeps cleanup from running, and no    *)
(* worker outlives its connection.                                         *)
(***************************************************************************)
FailureEnds ==
    errs # {} ~> /\ run = "aborted"
                 /\ \A c \in DOMAIN conns : conns[c].mux # "running" => conns[c].workers = {}

-----------------------------------------------------------------------------
(* The inductive invariant of the connection tables.                       *)

ConnRecords ==
    [stage : {"open", "accepting", "probe"}, mux : {"running", "closed", "aborted"},
     used : SUBSET Protocols, workers : SUBSET {"keep-alive", "tx-submission"}]

\* A branch that is not done is in a step of the current block.
InStep ==
    \A b \in Branches :
      phase[b] # "done" => b \in BranchesHere /\ at[b] \in 1..Len(Branch(b))

ControlTypes ==
    /\ scenario \in Scenarios
    /\ blk \in 1..Len(scenario) + 1 /\ iter \in Nat
    /\ blk <= Len(scenario) => iter \in 0..scenario[blk].times
    /\ run \in {"running", "dropping", "aborted", "completed"}
    /\ at \in [Branches -> Nat] /\ phase \in [Branches -> Phases] /\ errs \subseteq Reasons
    /\ InStep

TableTypes ==
    /\ conns \in Seq(ConnRecords) /\ Len(conns) <= MaxConns
    /\ held \in [Branches -> 0..Len(conns)]
    /\ connections \in [Names -> 0..Len(conns)]
    /\ server_connections \in [Names -> 0..Len(conns)]
    /\ listeners \subseteq Names
    /\ store \in [Vars -> Seq(Nat)]

ConnectionTypes == ControlTypes /\ TableTypes

\* The phases in which a branch has a connection in hand, and what it is for.
Holding == {"busy", "telling", "probing", "negotiating", "accepted"}
HandsFull ==
    \A b \in Branches :
      /\ held[b] # None <=> phase[b] \in Holding
      /\ phase[b] = "probing" => conns[held[b]].stage = "probe"
      /\ phase[b] \in {"negotiating", "accepted"} => conns[held[b]].stage = "accepting"

\* OneOwner, place by place.
Apart ==
    /\ \A m, n \in Names :
         /\ connections[m] # None /\ connections[m] = connections[n] => m = n
         /\ server_connections[m] # None /\ server_connections[m] = server_connections[n] => m = n
         /\ connections[m] # None => connections[m] # server_connections[n]
    /\ \A b \in Branches :
         /\ held[b] # None => \A n \in Names : held[b] \notin {connections[n], server_connections[n]}
         /\ \A d \in Branches : held[b] # None /\ held[b] = held[d] => b = d

\* No map and no branch has the connection.
Unowned(c) ==
    /\ \A n \in Names : c \notin {connections[n], server_connections[n]}
    /\ \A b \in Branches : held[b] # c

\* A connection is aborted by its owner, who lets go of it.
AbortedIsGone ==
    \A c \in DOMAIN conns :
      conns[c].mux = "aborted" => conns[c].workers = {} /\ Unowned(c)

\* After cleanup nobody has anything, ...
CleanedUp ==
    run = "aborted" => \A c \in DOMAIN conns : Unowned(c)

\* ... and what still runs had not been set up.
LeftBehindUnfinished ==
    run = "aborted" =>
      \A c \in DOMAIN conns :
        WellNamed(scenario) /\ conns[c].mux = "running" => conns[c].stage # "open"

\* Another connection is put under the name of this one.
Overwritten(c) ==
    \E n \in Names :
      \/ connections[n] = c /\ connections'[n] \notin {None, c}
      \/ server_connections[n] = c /\ server_connections'[n] \notin {None, c}

\* A connection that was set up and that nobody aborts is in a map or a hand,
\* until another takes its name.
LostByName ==
    [][\A c \in DOMAIN conns :
         conns[c].stage = "open" /\ ~Unowned(c) /\ Unowned(c)' /\ conns'[c].mux # "aborted" =>
           Overwritten(c)]_vars

ConnectionInv == HandsFull /\ Apart /\ AbortedIsGone /\ CleanedUp

=============================================================================
