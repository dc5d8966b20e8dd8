---------------------------- MODULE MCPeerNetwork ----------------------------
(* Instances of PeerNetwork for TLC. *)
EXTENDS PeerNetwork

Entry(slot, number) ==
    [slot |-> slot, number |-> number, hash |-> <<<<<<"fixture">>, slot>>>>,
     source |-> "fixture"]

EveryN(kind, first, interval) == [kind |-> kind, first |-> first, interval |-> interval]

Forked(marker) ==
    [kind |-> "forked_from_slot", first |-> 1, interval |-> 2, fork |-> 5,
     marker |-> marker]

\* Peers that differ in when they produce and in what they hash; the fixture
\* of "seeded" reaches past the first slots of its rule.
MCRules ==
    [listed |-> [kind |-> "at_slots", slots |-> <<1, 2, 5>>],
     sparse |-> [kind |-> "skips_slots", first |-> 1, interval |-> 1, skip |-> {1, 3}],
     seeded |-> EveryN("every_n_slots", 1, 2),
     left   |-> Forked("l"),
     right  |-> Forked("r"),
     broken |-> [kind |-> "broken_prev_hash", first |-> 1, interval |-> 1, break |-> 3,
                 wrong |-> <<<<<<"wrong">>, 0>>>>]]
MCPeers == DOMAIN MCRules
MCSeeds ==
    [p \in MCPeers |-> IF p = "seeded" THEN <<Entry(0, 3), Entry(2, 4)>> ELSE <<>>]
MCBodies == [p \in MCPeers |-> {}]

ClockOrNot == {0, NoClock}

\* The last target is the last slot of the clock.
MCTargets == {1, 4, 6, U64 - 1}
=============================================================================
