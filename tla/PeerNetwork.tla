----------------------------- MODULE PeerNetwork -----------------------------
(***************************************************************************)
(* The imaginary network of a scenario: the shared slot clock, the chain   *)
(* and the block store of every declared peer, and the steps that read or  *)
(* change them (src/scenario/peer_state.rs, the ProductionRule of          *)
(* src/scenario/mod.rs and the slot and peer arms of execute_step in       *)
(* src/scenario/runner.rs).                                                *)
(*                                                                         *)
(* Each of these steps reads and writes the shared state without an await  *)
(* in between, so each is one atomic action, whatever branch takes it.     *)
(*                                                                         *)
(* A block hash is the sequence of what was hashed, which is Blake2b seen  *)
(* as free of collisions: Append(prev, <<label, slot>>) is the hash of     *)
(* label || slot || prev.                                                  *)
(***************************************************************************)
EXTENDS Integers, Sequences, SequencesExt, FiniteSets

CONSTANTS
    Peers,          \* peer ids
    Rules,          \* the production rule of each peer
    Seeds,          \* the chain_sync_fixture of each peer, as chain entries
    Bodies,         \* the block_fetch_fixture of each peer, as block keys
    StartSlots,     \* the start_slot a network block may declare, or NoClock
    Targets,        \* slots that advance_to_slot and peer_extends_chain name
    Ticks,          \* counts that tick_slots names
    Numbers,        \* block numbers that peer_extends_chain names
    U64,            \* 2^64: slots and block numbers wrap here in a release build
    MaxSteps        \* bound on the steps of a scenario

NoClock == -1       \* no start_slot: time is not tracked
Slots == 0..(U64 - 1)   \* slots, and block numbers, are u64

\* A hash is a sequence, of whatever was hashed.
IsHash(h) == h \in Seq(ToSet(h))

Kinds == {"none", "every_n_slots", "at_slots", "forked_from_slot", "broken_prev_hash",
          "skips_slots"}

\* The fields of each kind of ProductionRule.
RuleType(r) ==
    /\ r.kind \in Kinds
    /\ r.kind = "at_slots" => r.slots \in Seq(Slots)
    /\ r.kind \notin {"none", "at_slots"} => r.first \in Slots /\ r.interval \in Slots
    /\ r.kind = "forked_from_slot" => r.fork \in Slots
    /\ r.kind = "broken_prev_hash" => r.break \in Slots /\ IsHash(r.wrong)

\* The fields validate_network_declaration checks.
WellFormed(r, start) ==
    CASE r.kind = "none" -> TRUE
      [] r.kind = "at_slots" ->
            r.slots # <<>> /\ \A i \in 2..Len(r.slots) : r.slots[i - 1] < r.slots[i]
      [] OTHER ->
            /\ r.interval > 0
            /\ start # NoClock => r.first >= start
            /\ r.kind = "forked_from_slot" => r.fork >= r.first
            /\ r.kind = "broken_prev_hash" => r.break >= r.first

\* A fixture is a captured chain: its slots increase.
Increasing(chain) == \A i \in 2..Len(chain) : chain[i - 1].slot < chain[i].slot

\* A fixture's headers, as ChainEntry::from_fixture_entry makes them.
SeedType(chain) ==
    /\ \A i \in 1..Len(chain) : IsHash(chain[i].hash)
    /\ chain \in Seq([slot : Slots, number : Slots, source : {"fixture"},
                      hash : {chain[i].hash : i \in 1..Len(chain)}])

ASSUME NetworkAssumption ==
    /\ U64 \in Nat \ {0} /\ MaxSteps \in Nat
    /\ StartSlots \subseteq {NoClock} \cup Slots
    /\ Targets \subseteq Slots /\ Ticks \subseteq Slots /\ Numbers \subseteq Slots
    /\ \A p \in Peers, s \in StartSlots : WellFormed(Rules[p], s)
    /\ \A p \in Peers : RuleType(Rules[p]) /\ SeedType(Seeds[p]) /\ Increasing(Seeds[p])
    /\ Seeds = [p \in Peers |-> Seeds[p]] /\ Bodies = [p \in Peers |-> Bodies[p]]

VARIABLES
    start,          \* start_slot
    current_slot,
    chain_entries,  \* per peer
    block_store,    \* per peer, the (slot, hash) keys
    fired,          \* per peer, the ProductionEvents: <<slot, skipped, step, i>>
    view,           \* per peer, the chain the last serve_chain_sync offered
    bodies,         \* per peer, what the last serve_block_fetch offered
    status,         \* "running", or how the scenario stopped
    steps           \* steps taken

vars == <<start, current_slot, chain_entries, block_store, fired, view, bodies,
          status, steps>>

-----------------------------------------------------------------------------
\* Mutant of every_n_slots_range: rounds the start down.
every_n_slots_range_floor(first, interval, from, to) ==
    LET begin == IF first >= from THEN first
                 ELSE first + ((from - first) \div interval) * interval
    IN  IF interval = 0 \/ from > to \/ begin > to THEN <<>>
        ELSE [i \in 1..((to - begin) \div interval + 1) |-> begin + (i - 1) * interval]

\* every_n_slots_range: skip to the first scheduled slot in range, then step.
every_n_slots_range(first, interval, from, to) ==
    LET skip == ((from - first + interval - 1) % U64) \div interval
        begin == IF first >= from THEN first ELSE (first + skip * interval) % U64
    IN  IF interval = 0 \/ from > to \/ begin > to THEN <<>>
        ELSE [i \in 1..((to - begin) \div interval + 1) |-> begin + (i - 1) * interval]

\* iter().filter(..).collect(), for the elements of S. (SelectSeq, as a function
\* that can be reasoned about; so is the loop of extended_chain below.)
Filter(seq, S) ==
    LET kept[i \in 0..Len(seq)] ==
            IF i = 0 THEN <<>>
            ELSE IF seq[i] \in S THEN Append(kept[i - 1], seq[i]) ELSE kept[i - 1]
    IN  kept[Len(seq)]

\* slots_in_range
slots_in_range(r, from, to) ==
    CASE r.kind = "none" -> <<>>
      [] r.kind = "at_slots" -> Filter(r.slots, from..to)
      [] r.kind \in {"every_n_slots", "forked_from_slot", "broken_prev_hash"} ->
            every_n_slots_range(r.first, r.interval, from, to)
      [] r.kind = "skips_slots" ->
            LET every == every_n_slots_range(r.first, r.interval, from, to)
            IN  Filter(every, {s \in ToSet(every) : (s - r.first) \div r.interval \notin r.skip})

\* The loop of every_n_slots_range saturates at u64::MAX and, if that is the
\* end of the range, never leaves it.
Diverges(r, to) == r.kind \notin {"none", "at_slots"} /\ to = U64 - 1

\* chain_tip_slot; -1 stands for None.
chain_tip_slot(chain) == IF chain = <<>> THEN -1 ELSE Last(chain).slot

synthetic_hash(label, slot, prev) == Append(prev, <<label, slot>>)

\* Mutant of HashLabel: the marker sets in one slot late.
HashLabelLate(p, slot) ==
    LET r == Rules[p] IN
    IF r.kind # "forked_from_slot" THEN <<"peer", p>>
    ELSE IF slot <= r.fork THEN <<"root", r.first, r.interval, r.fork>>
    ELSE <<"marker", r.marker>>

\* What the rule mixes into the hash of a block at this slot.
HashLabel(p, slot) ==
    LET r == Rules[p] IN
    IF r.kind # "forked_from_slot" THEN <<"peer", p>>
    ELSE IF slot < r.fork THEN <<"root", r.first, r.interval, r.fork>>
    ELSE <<"marker", r.marker>>

\* Mutant of HashPrev: the break sets in one slot late.
HashPrevLate(p, chain, slot) ==
    LET r == Rules[p] IN
    IF r.kind = "broken_prev_hash" /\ slot > r.break THEN r.wrong
    ELSE IF chain = <<>> THEN <<>> ELSE Last(chain).hash

\* The previous hash it is chained to.
HashPrev(p, chain, slot) ==
    LET r == Rules[p] IN
    IF r.kind = "broken_prev_hash" /\ slot >= r.break THEN r.wrong
    ELSE IF chain = <<>> THEN <<>> ELSE Last(chain).hash

\* Mutant of Block: numbers by position in the chain, from -1.
BlockByLength(p, chain, slot) ==
    [slot   |-> slot,
     number |-> Len(chain) - 1,
     hash   |-> synthetic_hash(HashLabel(p, slot), slot, HashPrev(p, chain, slot)),
     source |-> "production_rule"]

\* The entry phase 2 pushes.
Block(p, chain, slot) ==
    [slot   |-> slot,
     number |-> IF chain = <<>> THEN 0 ELSE (Last(chain).number + 1) % U64,
     hash   |-> synthetic_hash(HashLabel(p, slot), slot, HashPrev(p, chain, slot)),
     source |-> "production_rule"]

\* Mutants of produce: never skips; skips the slot after the tip as well.
produce_always(p, chain, slot) == Append(chain, Block(p, chain, slot))

produce_gap(p, chain, slot) ==
    IF chain_tip_slot(chain) + 1 >= slot THEN chain
    ELSE Append(chain, Block(p, chain, slot))

\* One slot of phase 2: skipped when the tip already covers the slot.
produce(p, chain, slot) ==
    IF chain_tip_slot(chain) >= slot THEN chain ELSE Append(chain, Block(p, chain, slot))

\* Phase 2 for one peer: the chain after each of the slots.
Production(p, chain, slots) ==
    LET after[i \in 0..Len(slots)] ==
            IF i = 0 THEN chain ELSE produce(p, after[i - 1], slots[i])
    IN  after

extended_chain(p, old, new) ==
    LET slots == slots_in_range(Rules[p], (old + 1) % U64, new)
    IN  Production(p, chain_entries[p], slots)[Len(slots)]

Key(entry) == <<entry.slot, entry.hash>>

\* The events of a firing, one for each slot: whether the slot was skipped, and
\* the step and the place in its list that tell it from every other event.
Events(p, slots) ==
    {<<slots[i], \A j \in (Len(chain_entries[p]) + 1)..Len(chain_entries'[p]) :
                    chain_entries'[p][j].slot # slots[i], steps, i>> : i \in 1..Len(slots)}

\* apply_production_rules for the slots after `old' up to `new'.
apply_production_rules(old, new) ==
    /\ chain_entries' = [p \in Peers |-> extended_chain(p, old, new)]
    /\ block_store' = [p \in Peers |-> block_store[p] \cup
            {Key(chain_entries'[p][i]) :
                i \in (Len(chain_entries[p]) + 1)..Len(chain_entries'[p])}]
    /\ fired' = [p \in Peers |-> fired[p] \cup
            Events(p, slots_in_range(Rules[p], (old + 1) % U64, new))]

\* Mutants of filtered_fixture_chain: no filter; the comparison turned round.
unfiltered_chain(p) == chain_entries[p]

filtered_inverted(p) ==
    Filter(chain_entries[p],
           {e \in ToSet(chain_entries[p]) : current_slot = NoClock \/ e.slot >= current_slot})

\* PeerState::filtered_fixture_chain
filtered_fixture_chain(p) ==
    Filter(chain_entries[p],
           {e \in ToSet(chain_entries[p]) : current_slot = NoClock \/ e.slot <= current_slot})

-----------------------------------------------------------------------------
Init ==
    /\ start \in StartSlots
    /\ current_slot = start
    /\ chain_entries = Seeds
    /\ block_store = Bodies
    /\ fired = [p \in Peers |-> {}]
    /\ view = [p \in Peers |-> <<>>]
    /\ bodies = [p \in Peers |-> {}]
    /\ status = "running"
    /\ steps = 0

Running == status = "running" /\ steps < MaxSteps
Took == steps' = steps + 1 /\ UNCHANGED start

\* The clock moves and the rules fire, or every_n_slots_range never returns.
MoveClock(new) ==
    /\ current_slot' = new
    /\ IF \E p \in Peers : Diverges(Rules[p], new)
       THEN status' = "stuck" /\ UNCHANGED <<chain_entries, block_store, fired>>
       ELSE UNCHANGED status /\ apply_production_rules(current_slot, new)
    /\ UNCHANGED <<view, bodies>>

Stop(reason) ==
    /\ status' = reason
    /\ UNCHANGED <<current_slot, chain_entries, block_store, fired, view, bodies>>

\* advance_to_slot: without a clock, or not forward, the step fails.
AdvanceToSlot(new) ==
    /\ Running /\ Took
    /\ \/ current_slot # NoClock /\ new > current_slot /\ MoveClock(new)
       \/ (current_slot = NoClock \/ new <= current_slot) /\ Stop("step_error")

\* tick_slots: fetch_add and the sum wrap at 2^64.
TickSlots(count) ==
    /\ Running /\ Took
    /\ \/ current_slot # NoClock /\ MoveClock((current_slot + count) % U64)
       \/ current_slot = NoClock /\ Stop("step_error")

\* peer_extends_chain: the slot must be after the tip; a body is optional.
PeerExtendsChain(p, slot, number, body) ==
    LET hash == <<<<<<"explicit">>, slot>>>>
        tip  == chain_tip_slot(chain_entries[p])
    IN
    /\ Running /\ Took
    /\ \/ /\ slot > tip
          /\ chain_entries' = [chain_entries EXCEPT ![p] = Append(@,
                [slot |-> slot, number |-> number, hash |-> hash, source |-> "explicit"])]
          /\ block_store' = IF body THEN [block_store EXCEPT ![p] = @ \cup {<<slot, hash>>}]
                            ELSE block_store
          /\ UNCHANGED <<current_slot, fired, view, bodies, status>>
       \/ slot <= tip /\ Stop("step_error")

\* serve_chain_sync as_peer without responses: a snapshot, taken under the
\* lock, of what the clock shows; an empty chain is an error.
ServeChainSync(p) ==
    /\ Running /\ Took
    /\ \/ /\ chain_entries[p] # <<>>
          /\ view' = [view EXCEPT ![p] = filtered_fixture_chain(p)]
          /\ UNCHANGED <<current_slot, chain_entries, block_store, fired, bodies, status>>
       \/ chain_entries[p] = <<>> /\ Stop("serve_error")

\* serve_block_fetch as_peer: a snapshot of the whole block store.
ServeBlockFetch(p) ==
    /\ Running /\ Took
    /\ bodies' = [bodies EXCEPT ![p] = block_store[p]]
    /\ UNCHANGED <<current_slot, chain_entries, block_store, fired, view, status>>

Next ==
    \/ \E new \in Targets : AdvanceToSlot(new)
    \/ \E count \in Ticks : TickSlots(count)
    \/ \E p \in Peers, slot \in Targets, number \in Numbers, body \in BOOLEAN :
            PeerExtendsChain(p, slot, number, body)
    \/ \E p \in Peers : ServeChainSync(p)
    \/ \E p \in Peers : ServeBlockFetch(p)

Spec == Init /\ [][Next]_vars

-----------------------------------------------------------------------------
Entries(p) == ToSet(chain_entries[p])

TypeOK ==
    /\ start \in StartSlots
    /\ current_slot \in {NoClock} \cup Slots
    /\ \A p \in Peers :
         /\ \A e \in Entries(p) :
                /\ e.slot \in Slots /\ e.number \in Slots
                /\ e.source \in {"fixture", "explicit", "production_rule"}
         /\ \A f \in fired[p] : f[1] \in Slots /\ f[2] \in BOOLEAN
         /\ bodies[p] \subseteq block_store[p]
    /\ status \in {"running", "step_error", "serve_error", "stuck"}
    /\ steps \in 0..MaxSteps

(***************************************************************************)
(* A chain is in chronological order with at most one block in a slot,     *)
(* however advance_to_slot, tick_slots and peer_extends_chain are mixed    *)
(* and even where an extension runs ahead of the clock.                    *)
(***************************************************************************)
ChainsIncrease == \A p \in Peers : Increasing(chain_entries[p])

\* The slots a rule schedules, stated without the loop of slots_in_range.
OnSchedule(r, s) ==
    CASE r.kind = "none"     -> FALSE
      [] r.kind = "at_slots" -> s \in ToSet(r.slots)
      [] OTHER -> /\ s >= r.first /\ (s - r.first) % r.interval = 0
                  /\ r.kind = "skips_slots" => (s - r.first) \div r.interval \notin r.skip

(***************************************************************************)
(* Every scheduled slot the clock has passed was evaluated exactly once,   *)
(* and no other slot was, however the time from start_slot to now was cut  *)
(* into advances and ticks.                                                *)
(***************************************************************************)
EachScheduledSlotFiresOnce ==
    status # "stuck" => \A p \in Peers :
        LET slots == {f[1] : f \in fired[p]} IN
        /\ slots = {s \in (start + 1)..current_slot : OnSchedule(Rules[p], s)}
        /\ Cardinality(fired[p]) = Cardinality(slots)

(***************************************************************************)
(* A scheduled block is missing from a chain only where a block that was   *)
(* not produced by the rule (a fixture header, an explicit extension) had  *)
(* already reached that slot, and the event says so.                       *)
(***************************************************************************)
MissingMeansCovered ==
    \A p \in Peers : \A f \in fired[p] :
        LET at == {e \in Entries(p) : e.slot = f[1] /\ e.source = "production_rule"} IN
        IF f[2] THEN at = {} /\ \E e \in Entries(p) :
                                  e.slot >= f[1] /\ e.source # "production_rule"
        ELSE at # {}

(***************************************************************************)
(* Two forked_from_slot peers with the same timing and different markers,  *)
(* left to their rules, have the same blocks before fork_slot and no block *)
(* in common from there on.                                                *)
(***************************************************************************)
SameTiming(r1, r2) ==
    /\ r1.kind = "forked_from_slot" /\ r2.kind = "forked_from_slot"
    /\ <<r1.first, r1.interval, r1.fork>> = <<r2.first, r2.interval, r2.fork>>
    /\ r1.marker # r2.marker

Undisturbed(p) == \A e \in Entries(p) : e.source = "production_rule"

ForksAgreeThenDiverge ==
    \A p, q \in Peers :
        SameTiming(Rules[p], Rules[q]) /\ Undisturbed(p) /\ Undisturbed(q) =>
            LET Shared(chain) == {i \in 1..Len(chain) : chain[i].slot < Rules[p].fork} IN
            /\ Shared(chain_entries[p]) = Shared(chain_entries[q])
            /\ \A i \in Shared(chain_entries[p]) : chain_entries[p][i] = chain_entries[q][i]
            /\ \A e \in Entries(p), f \in Entries(q) :
                    e.hash = f.hash => e.slot < Rules[p].fork

(***************************************************************************)
(* A produced block can be fetched, numbers follow on from the block       *)
(* before it whatever was skipped, and its hash commits to that block, or  *)
(* to wrong_hash from the slot on where a broken_prev_hash rule severs the *)
(* link.                                                                   *)
(***************************************************************************)
ProducedBlocksLink ==
    \A p \in Peers : \A i \in 1..Len(chain_entries[p]) :
        LET e == chain_entries[p][i]
            broken == Rules[p].kind = "broken_prev_hash" /\ e.slot >= Rules[p].break
        IN  e.source = "production_rule" =>
                /\ Key(e) \in block_store[p]
                /\ i > 1 => e.number = (chain_entries[p][i - 1].number + 1) % U64
                /\ Front(e.hash) = IF broken THEN Rules[p].wrong
                                   ELSE IF i > 1 THEN chain_entries[p][i - 1].hash ELSE <<>>

(***************************************************************************)
(* What a peer shows to its clients is a prefix of its chain that holds    *)
(* nothing from the future, ...                                            *)
(***************************************************************************)
ViewIsVisiblePrefix ==
    \A p \in Peers :
        /\ IsPrefix(view[p], chain_entries[p])
        /\ current_slot # NoClock => \A e \in ToSet(view[p]) : e.slot <= current_slot

(***************************************************************************)
(* ... and it never takes back what it has shown: a later serve_chain_sync *)
(* of the same peer offers at least the same headers.                      *)
(***************************************************************************)
ViewNeverRetracts == [][\A p \in Peers : IsPrefix(view[p], view'[p])]_vars

=============================================================================
