# Verification of the Cardano conformance harness

The harness runs *scenarios*: lists of steps that open connections to Cardano
nodes (or accept them), speak the mini-protocols over a multiplexer, and record
everything in a JSON-lines trace on which assertions are evaluated. As a client
it drives typed protocol runners; as a server it follows response scripts that
may be honest or adversarial. This directory holds TLA+ models of that program,
the TLC configurations that check them and TLAPS proofs about them.

All paths below are relative to the repository's `src/` crate directory.

## Inventory

| Component | State | Operations | Talks to |
|---|---|---|---|
| Chain-Sync server (`miniprotocols/chainsync_server.rs`) | script, rule index, cursor, tracked protocol state | receive, match a rule, ten kinds of send, hold | client over the channel, tracer |
| Chain-Sync client (`miniprotocols/chainsync.rs`) | headers received, collected points | find intersection, request next, timeout, done | server; hands points to block_fetch |
| Header fixture and cursor (`scenario/fixture.rs`) | chain, anchor, position | find_intersect, current_point, advance | Chain-Sync server, PeerState |
| Response scripts (`scenario/response_rules.rs`) | rules | matching, generation | both servers |
| Block-Fetch server (`miniprotocols/blockfetch_server.rs`, `scenario/block_fixture.rs`) | script, rule index, tracked state, block fixture | receive, send sequences, stream_batch | client |
| Block-Fetch client (`miniprotocols/blockfetch.rs`) | chunk, counts, captured blocks | request range, stream, done | server |
| Imaginary network (`scenario/peer_state.rs`, `ProductionRule` in `scenario/mod.rs`) | slot clock; per peer a chain and a block store | advance_to_slot, tick_slots, peer_extends_chain, serve as a peer | serve steps, tracer (slot stamps) |
| Runner (`scenario/runner.rs`) | connection maps, listeners, variables | one arm of `execute_step` per step kind; `run_step`, parallel, repeat, cleanup | everything |
| Tracer (`trace.rs`) | mutex, event buffer, file, peer id, slot | emit, drain_buffer | every task |
| Workers (`keepalive.rs`, `txsubmission.rs`) | cookie | ping/pong, empty replies | connection, tracer |
| Connections (`CheckedOut`, connect, accept, cleanup in `scenario/runner.rs`) | two maps of connections, listeners; per connection its multiplexer, its channels not yet used and its workers | connect, listen, accept_handshake, disconnect, close_listener, check-out and re-insertion, cleanup | every protocol step |
| Handshake (`handshake.rs`) | versions | propose, accept | connection; starts the workers |
| Leios-Notify (`leios_notify.rs`, `leios_notify_server.rs`) | counts; action list | request, answer, wait, timeout, done | connection |
| Leios-Fetch (`leios_fetch.rs`, `leios_fetch_server.rs`) | points; rules, rule index | fetch, answer, done | connection |
| Variables (`vars.rs`) | name to value | capture, substitute | runner |
| Validation (`scenario/mod.rs`) | names open so far | one check per step kind | decides what the runner gets |

**Concurrency.** A scenario is one task. `parallel` polls its branches with
`try_join_all`, so code between two awaits is atomic and branches interleave
only at awaits. Workers and multiplexers are spawned tasks. The two ends of a
connection are different processes and interleave freely.

**What is hard.** Branches share one event buffer and one clock, and are dropped
at whatever await they are in when another branch fails; requests time out while
answers are under way; a script is consumed by requests in an order its author
did not foresee; positions, ranges and schedules have off-by-one corners; the
connection may go down between any two messages. A connection is taken out of its
map while a step uses it and put back when the step ends or is dropped; a name
that two branches share, or a repeat that connects again, meets that in every
order. A step that ends without telling its peer leaves the other scenario in
the step before. `PROJECT.json` lists each
hazard at its line with the properties aimed at it.

## Modules

| Module | Models | Composes |
|---|---|---|
| `ResponseRules` | rules, how a serve loop consumes them, the two generated scripts | |
| `FixtureCursor` | the fixture chain and `Cursor` | |
| `ChainSyncWire` | the channel of one connection, message types | the two above |
| `ChainSyncServer` | `execute_response_script`, `execute_send` | wire |
| `ChainSyncClient` | `run_chain_sync` | wire |
| `ChainSyncSession` | client and server over a channel that may close; properties | server, client |
| `ChainDelivery` | what a chain_sync step promises, without the messages; `ChainSyncSession` implements it | `FixtureCursor` |
| `ScriptLemmas` | lemmas shared by the proofs: channels, the least element, the first matching rule | `ResponseRules` |
| `ChainSyncProofs`, `ChainDeliveryProofs` | theorems about the session, and that it implements `ChainDelivery` | session |
| `BlockFetchServer`, `BlockFetchSession` | the same for Block-Fetch | `ResponseRules` |
| `BlockFetchProofs`, `LeiosProofs`, `PeerNetworkProofs`, `ParallelProofs`, `ConnectionsProofs` | theorems about the module of that name | |
| `PeerNetwork` | clock, peers, production rules, the steps on them | |
| `ParallelStep` | `run_step`, the parallel arm, the tracer's mutex, workers | |
| `LeiosNotify`, `LeiosFetch` | client, server and channel of each protocol | `ResponseRules` |
| `LeiosSession` | a notify step and then a fetch step on each side, over one connection; properties | the two above |
| `Connections` | scenarios of plain, repeat and parallel blocks; connection maps, guards, listeners, workers, variables, cleanup, `validate_connection_names` | |
| `MC*` | constants for TLC | |

How state corresponds to code:

* **Chain-Sync.** `script`, `rule_idx`, `pos` and `state` are the locals of
  `execute_response_script`; `spc` is where its loop is (`recv`, `send`, `hold`,
  or finished). One iteration is `ServerReceive`, one `Send...` action for the
  arm of `execute_send` that the rule selects, and `ServerWake` when the rule
  sleeps. `traced` remembers the `state_after` of the last wire event. The
  client's `cpc` is the state of the typed runner; `headers_received` and
  `collected_points` are the locals of `run_chain_sync`. `found` (the
  intersection reported) is a history variable. A header is named by its point;
  `Opaque` is a header whose bytes do not parse. Raw bytes either fail to decode
  or look like the start of a message: both are possible. `Close` is the
  multiplexer of either side going away after its step, or at any moment when
  `MayDrop`; what is in flight then arrives or is lost.
* **Block-Fetch.** `todo` is what the rule in hand has still to send, so that
  the messages of a `send_sequence` or a `stream_batch` interleave with the
  client, as they do at the await after each. The client's capture and chunking
  are modelled with the actual `batch_size`.
* **Peer network.** Each step touches the shared state without an await in
  between, so each is one action. A hash is the sequence of what was hashed,
  that is, Blake2b without collisions. `U64` is the modulus of slot arithmetic;
  a small value brings the last slot and the last block number within reach.
  `fired`, `view` and `bodies` remember the production events and what the last
  serve step of a peer offered; an event carries the step and the place in its list
  (`Events`), so that a slot evaluated twice is two events.
  Fixtures are assumed to be in slot order (they are captured chains) and rules
  to satisfy `validate_network_declaration`.
* **Parallel.** `lock` is the queue of the tracer's mutex, holder first; tokio
  serves it in order, and a dropped future leaves it (`Without`). A step emits up to
  `MaxEvents` events, some of them after moving the clock (`emitted`
  counts them). The failures are a step error (substitution, execution, assertion) and a refused write of the trace.
  The assertions of a step are taken as one.

* **Leios.** `nspc`, `fspc` are where the serve loops are, `ncpc`, `fcpc` where the
  client loops are. `owed` says that a request has had no answer: what net_core's
  typed runner does when its server asks for the next message then is not fixed
  by the code here, so `strict` leaves both open (it refuses, or it waits).
  Each scenario goes on to its fetch step on its own, when its notify step has
  succeeded. A message for a channel whose step is over has nowhere to go
  (`Orphan`), which ends the connection.
* **Connections.** `conns` lists every connection whose multiplexer was started;
  the two maps and `held` say who has it. A step passes through the awaits at
  which a branch can be dropped: `busy` (in the protocol's exchange), `telling`
  (the exchange is over, an event is still to be written), `probing` for
  query_tip, and three for accept_handshake. Awaits before a step has touched
  anything are not told apart. `run` is `dropping` while `try_join_all` drops
  branches and cleanup has not run. A variable's value is the place of the step
  that set it, or `BuiltIn`: a scenario that declares `sut_genesis_time_unix` (one
  of `Genesis`) starts with `current_slot` and `current_slot_minus_100` set
  (`Initial`, `runner.rs:215`). Nothing keeps an output from having such a name.
  `used` are the channels that were taken, which no step gives back.
  The scenarios are those `validate` accepts: it looks at top-level steps only.
  `Steps` and `Blocks` are what a parsed scenario is made of.
* **Chain delivery.** `ChainDelivery` has an intersection, the headers delivered
  and a status. The refinement maps them to `found`, `collected_points` and the
  client's state; sessions with a script other than the generated one map to a
  step that does nothing.

External code is modelled from its use: net_core's typed runners and
multiplexer, TCP, and tokio's mutex. `PROJECT.json` marks those definitions.

## Runs

| Run | Shows |
|---|---|
| `ChainSyncSession` | for the generated script and every short one: turn-taking, and both steps end (with a timeout); for an honest server: what it delivers is the chain after the intersection, the script never runs out, and the session implements `ChainDelivery` (so waiting means being caught up); the state the server tracks is the one it traced, but for an exhausted `cursor_advance` |
| `ChainSyncComplete` | without a timeout, a client that asks for no more than there is gets all of it |
| `PeerNetwork` | chains in slot order; every scheduled slot evaluated once however time is cut up; a block is missing only where something covered its slot; forked peers agree before `fork_slot` and share nothing from it on; produced blocks are linked, numbered and fetchable, and only `broken_prev_hash` severs links; served views are prefixes, never from the future, never retracted; up to the last slot of a small clock |
| `ParallelBranches` | the mutex's queue; one verdict per branch and nothing after it; the step's outcome agrees with the verdicts; slot stamps follow their records |
| `ParallelEnds` | also with a trace that cannot be written, the step ends |
| `BlockFetchSession` | consecutive blocks arrive once and in order for every batch size; counts agree; captured bodies are filed under their own point; an honest server is never rejected and never keeps its client waiting |
| `LeiosSession` | what the client has counted is a prefix of the server's notifications; no second request while one is open; blocks and points agree; a completed notify step lets the scenario come to its end; steps with a timeout end; a serving scenario ends after its client |
| `Connections` | if names pass the validator's rule as written and branches keep to their own, no step misses its connection in any interleaving; a connection has one owner; an open one is never lost; after a failed scenario only connections still being set up are left; a reference gets the last value set before it; a failure always gets to cleanup; workers end with their connection |

Four further runs expect a violation; each is a place where a comment of the
repository and the code disagree. `PROJECT.json` quotes the lines:

| Run | Disagreement |
|---|---|
| `ParallelVerdicts` | a branch dropped while it waits to write its verdict has none |
| `ParallelBuffer` | assertions of a branch see events of other branches |
| `BlockFetchGenerated` | the generated Block-Fetch script fails at its first request |
| `LeiosWait` | a `wait` action sleeps, and the request it was for is never answered |

Smaller disagreements that the models contain but no run is spent on:

* `Cursor::advance` returns None one step after its initial position, not only "if
  already at tip" (`scenario/fixture.rs:237`): after IntersectNotFound the client
  is told to wait (`ChainDelivery!Wait`, `NotFoundGetsNothing`);
* an exhausted `cursor_advance` sends AwaitReply and the tracker goes to Idle
  (`chainsync_server.rs:59`): the exception in `TrackerMatchesTrace`;
* `every_n_slots_range` does not return for a range that ends at `u64::MAX`
  (`scenario/mod.rs:119`): `Diverges`, reached in `PeerNetwork`;
* `close_listener` leaves accepted connections open (`runner.rs:1347`), where
  `scenario/mod.rs:260` says that it closes them;
* `scenario/mod.rs:612` says that cleanup handles connections left open, and
  `run` cleans up only after a failure (`runner.rs:302`): `Complete`;
* query_tip does not abort its connection when its handshake or its query fails
  (`runner.rs:1658`), nor does accept_handshake when an event cannot be written:
  the exceptions in `NoneLost` and `AbortClosesAll`;
* `leios_notify_server.rs:238` says that a wait does not use up an action; the
  iterator has moved on (`leios_notify_server.rs:102`);
* after `await_at_tip_secs` the serve step goes on receiving
  (`chainsync_server.rs:480`), where `scenario/mod.rs:401` says it closes;
* `tick_slots` can wrap what `runner.rs:1482` calls a monotonic counter;
* `serve_block_fetch` as a peer is not filtered by slot (`runner.rs:1260`), where
  the repository's README says that peer content is;
* `serve_chain_sync` as a peer with an empty chain is an error (`runner.rs:1215`),
  where the comment at `runner.rs:1178` expects an empty script;
* a branch dropped between moving the clock and emitting SlotAdvanced leaves the
  change off "the authoritative record" (`runner.rs:1456`);
* a short last chunk is captured (`blockfetch.rs:95`) although the repository's
  README says that `batch_size > 1` does not capture.

**Bounds.** Chains of three headers with intersections at the origin, inside, at
the tip, behind an unknown point, unknown and absent; four headers wanted, one
more than there are, or two (`ChainSyncComplete`): every cursor position and both
ends occur. Scripts of two rules, or an intersection and two rules, from all
sends: a rule can be passed over, repeat or be missing. A block fixture of four
entries, one of them a block that came before (`load` does not refuse that), with
batch sizes 0 to 3: even and uneven chunks, one and several, and a point that is
found at its first entry only. Four network
steps with intervals of one and two slots: advances that start before, on and
after scheduled slots, extensions ahead of the clock. Two branches of one step
with an event each and one worker event: each can fail while the other holds the
mutex, waits for it or is elsewhere; the queue reaches all its shapes for two
branches, parent and worker. The clock of the network run has sixteen slots, so that its last one is a target,
and an explicit extension has the last block number, so that the next one wraps.
Leios: every action alone and behind a notification, lists that are too short,
exact and too long for the two notifications wanted, rules that fail at the first
and at the second of two points. Connections: after a first step, every pair of
a two-step and a one-step branch from the client steps and from the server steps
on two names, which has every way two branches can share a name; two iterations,
and none; a built-in variable read in branches and iterations, replaced by an
output, and read where no genesis time is declared; four connections, more than
any of these scenarios opens at a time.
Deadlock is not checked in these runs because
sessions, steps and scenarios end, and bounded counters stop.

**Fairness.** Each side of a session is a task that its runtime polls while it can
go on, sleeps and timeouts elapse, and a harness whose step is over reaches the
end of its scenario and closes (weak fairness of each side's next-state relation,
of the timeout and of `Close` once a side has finished). A connection is never
assumed to break on its own. In `LeiosSession` the multiplexer
also reads what arrives, so an orphan message ends the connection. In
`Connections` only the runner and workers without a channel are fair: whether a
step's exchange ends is the peer's affair, and `FailureEnds` does not need it. In
`ParallelStep` the mutex is fair, so weak fairness
per branch suffices; `StepReturns` is fair because a step is assumed to end.

## Proofs

Every theorem holds for every value of the constants that meets the modules' named
assumptions. `PROJECT.json` lists them; where one states a property of a run, the
run shows it on a small instance too. The inductive invariants are defined at the
end of the module they are about or, where the proof needs notions of its own, in
the proof module (`PeerNetworkProofs`, and the names and references of
`ConnectionsProofs`).

Every invariant of a passing run is stated by a theorem, and so are the action
properties and the refinement; what is left to TLC is liveness.

A loop of the code is a recursive function of the position (`Filter`, `Production`),
and what it computes is proved by induction over positions, either as a least
counterexample (`LeastNatural`) or step by step along the function's own equation.
The provers have no induction over an operator.

### Chain-Sync: `ChainSyncProofs`, `ChainDeliveryProofs`

For every chain (repeated headers included), every set of scripts over the
supported sends, every point list, count and timeout: `TypeCorrect`, `TurnTaking`
(`OneMessageInFlight`), `ChainDelivered` (`CollectedIsSegment`), `TrackerCorrect`
(`TrackerMatchesTrace`), `ScriptSuffices` (`HonestScriptSuffices`) and
`DeliveryImplemented`, the refinement of `ChainDelivery`. Assumed: the chain is a
sequence of points other than Origin, scripts are sequences of well-formed rules,
`Nil` and `Opaque` are not points.

`TypeOK` needs that the client only asks while headers are missing
(`AsksWhileShort`), or the count could pass its limit. Turn-taking is inductive
together with the types: every send finds the channel empty. `CollectedIsSegment`
is not inductive: it says nothing of a header under way, of the answer to
MsgFindIntersect, or of a request not yet answered. For an honest script the
invariant adds that the first request is MsgFindIntersect and takes the first rule
(`IntersectFirst`); that its answer tells where the cursor is (`IntersectAgrees`,
which with repeated headers rests on the point reported mapping back to the same
position); that without an intersection nothing is sent but AwaitReply
(`NotFoundGetsNothing`); and that the cursor is where the client is, or exactly
one header ahead with that header in flight (`CursorKeepsPace`).

The refinement needs one thing more: a client may be told to wait only at the tip.
The generated script has one rule per header and a closing await_reply, so the
cursor must be bounded from below by the rules used (`ScriptKeepsPace`); then the
closing rule is reached with nothing left to send and no request is left for the
disconnect after it, which is also `ScriptSuffices`. Each step of the session then
maps to one step of `ChainDelivery` or to none.

### Block-Fetch: `BlockFetchProofs`

For every fixture, script, point list and batch size: `BlockFetchTypeCorrect`,
`BlockFetchedExactly`, `BlocksCapturedUnderOwnPoint`, `HonestServerIsWellTyped`.
Types need that a client waits only while points are left to ask for
(`OpenBatch`). For an honest server, `HonestParts` says what is on the channel and
still in the server's hand (`AnswersInOrder`: the rest of the answer to one range,
in order), where the client is in it, with the connection up or down
(`ClientInStep`), and that what it has is what
was asked for up to there (`ReceivedInOrder`).

The proof found that `FetchedExactly` was false as first stated: a fixture that
repeats a block answers a range from the first of the two entries, so points that
are consecutive at the second are not served as asked. `Contiguous` now says that
the points asked for have no earlier entry, and the run's fixture has a repeated one.

### Leios: `LeiosProofs`

For every action list, rule list, set of points and count: `LeiosTypeCorrect`,
`LeiosOneRequestOpen`, `LeiosNotifiedInOrder`, `LeiosFetchedAsServed`. The
invariant `LeiosInv` says where the one open request is (`NotifyTurns`,
`FetchTurns`), that the server has counted the notifications of its list up to the
action in hand and that one under way is the last of them (`SentAsListed`), and
how blocks requested, served and received relate while a request is open
(`FetchAccount`; with rules in the order of the points, `RulesInStep`).
`NotifiedInOrder` counts notifications among the first actions (`Rank`) instead of
filtering the list, which says the same and can be reasoned about.

### Peer network: `PeerNetworkProofs`

For every set of peers, every production rule that `validate_network_declaration`
accepts, every fixture in slot order, every width of the slot counter and every
sequence of steps:

* `NetworkTypes` and `ChainsAlwaysIncrease` (`ChainsIncrease`), also when ticks wrap;
* `ProducedBlocksAlwaysLink` (`ProducedBlocksLink`). `Links` is the inductive form of
  both: it says of every entry and the one before it what `produce` or
  peer_extends_chain made of them, and that a produced block is in the store;
* `ForksAlwaysAgreeThenDiverge` (`ForksAgreeThenDiverge`). `Forks` compares the two
  chains position by position: as their rules fire at the same slots they have the
  same length and equal entries before `fork_slot`; that they share nothing from
  there on follows from `Links`, as the labels in the hashes differ;
* `ViewIsAlwaysVisiblePrefix` (`ViewIsVisiblePrefix`) and `ViewsNeverRetract`
  (`ViewNeverRetracts`), from `Shown`. The filter of `filtered_fixture_chain` yields a
  prefix only because the chain increases, so both rest on `Links`;
* `EachScheduledSlotAlwaysFiresOnce` (`EachScheduledSlotFiresOnce`) and
  `MissingAlwaysMeansCovered` (`MissingMeansCovered`). The slots of
  `every_n_slots_range` are shown to be exactly the scheduled ones of the range
  (its rounding up included), so that consecutive ranges neither overlap nor leave a
  gap (`Evaluated`); `Accounted` says what each production event tells of the chain.

The two on views assume `ClockNeverWraps`: tick_slots does not take the clock past
2^64. The last two assume `SlotsNeverWrap`: besides, `old_slot + 1` and the rounding
in `every_n_slots_range`, `first_slot + steps * interval`, stay below 2^64, that is,
no rule's interval reaches beyond the last slot. These are the overflows of the
hazard at `runner.rs:1484`; a wrapped clock shows less than before and fires slots
again, in the code as in the model, so without them the statements are false. A
scenario on real slots, far from 2^64, meets both.

### Parallel step and tracer: `ParallelProofs`

For any number of branches, steps, events and workers: `ParallelTypeCorrect`
(each task at an emit or a drain is in the mutex's queue exactly once, however
branches are dropped), `VerdictsAreFinal`, `OutcomeIsTold`, `StampsAreRecorded`.
`Roles` says which tasks can be where and `OwnEvents` which events a branch can
have in hand. `VerdictIsFinal` is about the trace only; what makes it inductive is
that an event in the trace tells how far its author has come (`AllTold`), so that
nothing can follow a verdict. This needs nothing of the trace file: a refused write
only removes events.

The last two theorems assume `"write" \notin MayFail`. A refused write fails the
step and leaves no event, so then a step may be an error with no failure in the
trace, and a slot may be stamped whose record was lost; in the code as in the model.
Stamps need an order within the queue: they are queued in the order in which they
were taken, a tick's record ahead of all that read it (`StampsInOrder`), behind the
records already written (`RecordsAhead`), and every tick so far is recorded or about
to be (`TicksRecorded`). A drop ends that order, but then no branch writes any more.

### Connections: `ConnectionsProofs`

For every set of scenarios the parser can make (`ScenariosAssumption`), whatever
they do with names, and any number of branches, names, variables and connections:

* `ConnectionsTypeCorrect`;
* `ConnectionHasOneOwner` (`OneOwner`), from `Apart`, its place-by-place form: every
  action is one of seven ways for a connection to change hands, a lemma each;
* `LostOnlyByName`: a connection that was set up is in a map or a hand until it is
  aborted or another is put under its name. It is the step in `NoneLost` that does
  not depend on names, and needs that hands are full exactly between check-out and
  re-insertion, and that a hand that just lets go has a connection that was not set
  up (`HandsFull`);
* `ReferencesAlwaysFresh` (`ReferencesAreFresh`). A step's *site* is its block,
  iteration, branch and place; which sites have been executed follows from where the
  branches are. `Fresh` says that a variable holds its initial value if no executed
  site sets it, and otherwise an executed site that sets it and
  that no executed one comes after, but for the variables of a branch that has failed;
* `NoConnectionLost` (`NoneLost`) and `NamesAlwaysResolve` (`NamesResolve`), below;
* `CleanupClosesAll` (`AbortClosesAll`). That nothing is owned after cleanup, and that
  an aborted connection has no workers, holds for every scenario. The latter rests on
  `AbortedIsGone`: only the owner of a connection aborts it, and lets go of it, so no
  handshake can start workers on it later; it is inductive only together with
  `Apart`. That no open connection runs on follows from `NoConnectionLost`.

The theorems on names answer the question what a check in the order of the file is
worth when branches interleave. Whether a name is open before a site, in the file's
order, is `OpenBefore`. What has been executed is not a prefix of the file, but when
branches keep to their own names the executed sites that concern one name are
(`ExecutedPrecedes`, `OpenHere`, `NamesHere`). The invariant `OpenIsPresent` says that
while the scenario runs a name is open exactly when it is in its map or in the hand of
the branch that works under it, but for the names of a branch that has failed
(`Troubled`); `HandsAlone` that the map has no other connection under the name of one
that is checked out; `Kept` that a connection that was set up has an owner until it is
aborted, as none is put over another (`NeverOverwritten`). `ChannelInv` says that a channel of the connection under a name
is used only if an executed step since the name was opened used it.

Three things came out of these proofs. `Reuses` compared whole steps, so that a protocol
used twice on a connection with other parameters did not count as reuse; the second
use finds no channel, and `NamesResolve` was false for such scenarios. It now
compares kind and name, and the run has that scenario. A step other than
query_tip and chain_sync ignores its `output`, which `Setters` did not say; the run
now has such a step too (`Assigns`). And the rule of `validate_connection_names` can be stated
over the sites of a scenario (`NamesInOrder`); `MCConnections` assumes `SameRule`,
that this is what the validator's loop computes, and TLC evaluates it for every
scenario of the run.

### What is only model-checked, and why

* All liveness: the prover has no fairness and no ENABLED.
* `SameRule`, that `NamesInOrder` is what the validator's loop computes: to say it for
  every scenario is an induction over the list of steps with the sets the loop carries.
* The four properties of the runs that expect a violation: they are false.

## Not modelled

File formats, hex and JSON decoding, the wording and layout of events and
timestamps: no property is about them. The fields, indices and templates of a
variable's value are seen only as substitutions that may fail; the arithmetic on
the system's clock that gives the built-in slots (saturating, so both are 0 on a
young chain) is left out. Blocks within
blocks (a repeat in a branch, a parallel step in a repeat) run by the same code
as the blocks modelled; a reference in a repeat's own `times` is not modelled.
Raw bytes are malformed data, as the source's comments have it: bytes that happen
to decode to a whole message (`chainsync_server.rs:496`, the `raw_bytes` of the
Leios servers) would count as that message on the client's side. A header stands
for one point on both sides of a session, which is so of captured fixtures; the
client computes the point of a header from its bytes (`chainsync.rs:350`), so that
the synthetic headers of an imaginary peer (`peer_state.rs:178`) give it another
hash than the one the peer declared. A hash has 32 bytes, so that `to_nc_point`
(`blockfetch.rs:43`), which pads or cuts others, changes nothing. Keep-alive and tx-submission exchanges are one request
with a fixed answer; what matters of them, that they write into the shared
tracer and when they end, is modelled. The version tables of the handshake are
net_core's. The command line and the Peer-Sharing stub have no state.

## Plan

1. The abstract view of the tracer, a log to which each task appends atomically, and
   `ParallelStep` shown to implement it.
2. `connect` and `accept_handshake` of two harnesses against each other, with the
   sessions as the exchange of their protocol steps.
