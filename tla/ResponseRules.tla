---------------------------- MODULE ResponseRules ----------------------------
(***************************************************************************)
(* The response scripts that drive the harness's scripted servers          *)
(* (src/scenario/response_rules.rs) and the way a serve loop consumes one. *)
(*                                                                         *)
(* A script is a sequence of rules.  A rule answers one incoming request:  *)
(* `on' is the kind of request it matches, `send' what it sends, `val' the *)
(* header or point it sends (Nil when it carries none), `hold' the seconds *)
(* it then sleeps (hold_secs, duration_secs), and `repeatable' whether it  *)
(* stays available after it fired.  Positions count from 1.                *)
(***************************************************************************)
EXTENDS Naturals, Sequences

CONSTANT Nil        \* "no header, no point" in a rule or a message

\* ReceivedRequest::matches_on: `any' matches every request.
MatchesOn(kind, on) == on \in {"Any", kind}

\* Positions of the unconsumed rules (idx is the first) that answer `kind'.
Candidates(rules, idx, kind) ==
    {p \in idx..Len(rules) : MatchesOn(kind, rules[p].on)}

\* The serve loop takes the first of them ...
RulePos(rules, idx, kind) ==
    CHOOSE p \in Candidates(rules, idx, kind) :
        \A q \in Candidates(rules, idx, kind) : p <= q

\* Mutant of RuleIdxAfter: the rule that fired is not consumed.
RuleIdxStays(rules, idx, pos) ==
    IF rules[pos].repeatable THEN idx ELSE pos

\* ... and consumes it, with every rule it passed over, unless it repeats.
RuleIdxAfter(rules, idx, pos) ==
    IF rules[pos].repeatable THEN idx ELSE pos + 1

Rule(on, send, val, hold) ==
    [on |-> on, send |-> send, val |-> val, hold |-> hold, repeatable |-> FALSE]

\* Mutant of generate_from_fixture: no await_reply rule at the tip.
generate_without_await(n, hold) ==
    [i \in 1..(n + 3) |->
        IF i = 1 THEN Rule("FindIntersect", "CursorFindIntersect", Nil, 0)
        ELSE IF i <= n + 1 THEN Rule("RequestNext", "CursorAdvance", Nil, 0)
        ELSE Rule("Any", "Disconnect", Nil, 0)]

\* generate_from_fixture: the honest Chain-Sync script for a chain of n
\* headers; `hold' is await_at_tip_secs.
generate_from_fixture(n, hold) ==
    [i \in 1..(n + 3) |->
        IF i = 1 THEN Rule("FindIntersect", "CursorFindIntersect", Nil, 0)
        ELSE IF i <= n + 1 THEN Rule("RequestNext", "CursorAdvance", Nil, 0)
        ELSE IF i = n + 2 THEN Rule("RequestNext", "AwaitReply", Nil, hold)
        ELSE Rule("Any", "Disconnect", Nil, 0)]

\* A Block-Fetch rule sends a sequence: one send, or those of send_sequence.
BfRule(on, sends, repeatable) == [on |-> on, sends |-> sends, repeatable |-> repeatable]

\* A primitive send; `blocks' are the block sources it names.
BfSend(kind, blocks) == [kind |-> kind, blocks |-> blocks]

\* generate_for_block_fetch
generate_for_block_fetch(no_blocks_default) ==
    LET send == IF no_blocks_default THEN "NoBlocks" ELSE "CursorRange" IN
    <<BfRule("RequestRange", <<BfSend(send, <<>>)>>, TRUE),
      BfRule("Any", <<BfSend("Disconnect", <<>>)>>, FALSE)>>
=============================================================================
