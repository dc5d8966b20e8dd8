------------------------------ MODULE LeiosFetch -----------------------------
(***************************************************************************)
(* The Leios-Fetch channel of the same connection, the client that fetches *)
(* one endorser block after the other (run_leios_fetch, leios_fetch.rs)    *)
(* and the server that answers from response rules                         *)
(* (execute_leios_fetch_script, leios_fetch_server.rs).  A block is named  *)
(* by its point; what a rule sends does not depend on the point asked for. *)
(* The client has no timeout.                                              *)
(***************************************************************************)
EXTENDS LeiosNotify, ResponseRules

CONSTANTS
    Points,         \* endorser blocks
    FetchLists,     \* points a leios_fetch step may have
    FetchScripts    \* the rules a serve_leios_fetch step may have

FetchSends == {"Block", "Wait", "Disconnect", "RawBytes", "Invalid"}
FetchRules ==
    {r \in [on : {"FetchBlock", "Done", "Any"}, send : FetchSends,
            val : Points \cup {Nil}, hold : Nat, repeatable : BOOLEAN] :
        r.send = "Block" <=> r.val # Nil}

ASSUME FetchAssumption ==
    /\ Nil \notin Points
    /\ FetchLists \subseteq Seq(Points)
    /\ FetchScripts \subseteq Seq(FetchRules)

VARIABLES
    freq, frep,         \* client to server, server to client
    rules,
    rule_idx,           \* first unconsumed rule
    rule,               \* position of the rule being executed
    fspc,               \* where execute_leios_fetch_script is
    fowed,              \* the last request has had no answer
    blocks_served,
    points,
    fcpc,               \* where run_leios_fetch is
    blocks_requested,
    fetched             \* the blocks received, in order

fetchWire == <<freq, frep>>
fetchServer == <<rules, rule_idx, rule, fspc, fowed, blocks_served>>
fetchClient == <<points, fcpc, blocks_requested, fetched>>
fetchVars == <<fetchWire, fetchServer, fetchClient>>

FetchServed == fspc \in {"done", "failed"}
FetchEnded == fcpc \in {"completed", "error"}

FetchTypeOK ==
    /\ freq \in Seq(Points \cup {Nil}) /\ frep \in Seq(Points \cup {Nil})
    /\ rules \in FetchScripts
    /\ rule_idx \in 1..(Len(rules) + 1) /\ rule \in 0..Len(rules)
    /\ fspc \in {"recv", "send", "hold", "done", "failed"}
    /\ fspc = "send" => rule > 0
    /\ fowed \in BOOLEAN
    /\ points \in FetchLists
    /\ fcpc \in {"idle", "waiting", "completed", "error"}
    /\ blocks_requested \in 0..Len(points)
    /\ blocks_served \in 0..blocks_requested
    /\ fetched \in Seq(Points)

FetchInit ==
    /\ freq = <<>> /\ frep = <<>>
    /\ rules \in FetchScripts /\ rule_idx = 1 /\ rule = 0
    /\ fspc = "recv" /\ fowed = FALSE /\ blocks_served = 0
    /\ points \in FetchLists
    /\ fcpc = "idle" /\ blocks_requested = 0 /\ fetched = <<>>

-----------------------------------------------------------------------------
(* The client.  On the wire, Nil stands for MsgDone and for raw bytes. *)

FetchRequest ==
    /\ fcpc = "idle" /\ blocks_requested < Len(points)
    /\ blocks_requested' = blocks_requested + 1
    /\ freq' = Deliver(freq, points[blocks_requested'])
    /\ fcpc' = "waiting"
    /\ UNCHANGED <<connVars, frep, fetchServer, points, fetched>>

FetchBlock ==
    /\ fcpc = "waiting" /\ frep # <<>> /\ Head(frep) # Nil
    /\ frep' = Tail(frep)
    /\ fetched' = Append(fetched, Head(frep))
    /\ fcpc' = "idle"
    /\ UNCHANGED <<connVars, freq, fetchServer, points, blocks_requested>>

FetchMalformed ==
    /\ fcpc = "waiting" /\ frep # <<>> /\ Head(frep) = Nil
    /\ frep' = Tail(frep)
    /\ fcpc' \in {"waiting", "error"}
    /\ UNCHANGED <<connVars, freq, fetchServer, points, blocks_requested, fetched>>

FetchConnError ==
    /\ closed
    /\ \/ fcpc = "idle" /\ blocks_requested < Len(points)
       \/ fcpc = "waiting" /\ frep = <<>>
    /\ fcpc' = "error"
    /\ blocks_requested' = IF fcpc = "idle" THEN blocks_requested + 1 ELSE blocks_requested
    /\ UNCHANGED <<connVars, fetchWire, fetchServer, points, fetched>>

FetchFinish ==
    /\ fcpc = "idle" /\ blocks_requested = Len(points)
    /\ freq' = Deliver(freq, Nil)
    /\ fcpc' = "completed"
    /\ UNCHANGED <<connVars, frep, fetchServer, points, blocks_requested, fetched>>

FetchClientNext ==
    \/ FetchRequest \/ FetchBlock \/ FetchMalformed \/ FetchConnError \/ FetchFinish

-----------------------------------------------------------------------------
(* The server. *)

\* MsgDone ends the session; a request that no unconsumed rule answers fails it.
FetchReceive ==
    /\ fspc = "recv" /\ freq # <<>> /\ ~(strict /\ fowed)
    /\ freq' = Tail(freq)
    /\ fowed' = (Head(freq) # Nil)
    /\ \/ /\ Head(freq) = Nil
          /\ fspc' = "done"
          /\ UNCHANGED <<rule, rule_idx>>
       \/ /\ Head(freq) # Nil /\ Candidates(rules, rule_idx, "FetchBlock") = {}
          /\ fspc' = "failed"
          /\ UNCHANGED <<rule, rule_idx>>
       \/ /\ Head(freq) # Nil /\ Candidates(rules, rule_idx, "FetchBlock") # {}
          /\ rule' = RulePos(rules, rule_idx, "FetchBlock")
          /\ rule_idx' = RuleIdxAfter(rules, rule_idx, rule')
          /\ fspc' = "send"
    /\ UNCHANGED <<connVars, frep, rules, blocks_served, fetchClient>>

FetchRecvError ==
    /\ fspc = "recv"
    /\ \/ freq = <<>> /\ closed
       \/ strict /\ fowed
    /\ fspc' = "done"
    /\ UNCHANGED <<connVars, fetchWire, rules, rule_idx, rule, fowed, blocks_served,
                   fetchClient>>

\* The messages of execute_send_rule.
FetchSend ==
    /\ fspc = "send" /\ rules[rule].send \in {"Block", "RawBytes"}
    /\ frep' = Deliver(frep, rules[rule].val)
    /\ \/ /\ rules[rule].send = "Block"
          /\ blocks_served' = blocks_served + 1
          /\ fowed' = FALSE
       \/ rules[rule].send = "RawBytes" /\ UNCHANGED <<blocks_served, fowed>>
    /\ fspc' = "recv"
    /\ UNCHANGED <<connVars, freq, rules, rule_idx, rule, fetchClient>>

\* Its other ends, as for notifications.
FetchNoSend ==
    /\ fspc = "send"
    /\ \/ rules[rule].send = "Disconnect" /\ fspc' = "done"
       \/ rules[rule].send = "Wait" /\ fspc' = "hold"
       \/ rules[rule].send = "Invalid" /\ fspc' = "failed"
       \/ closed /\ rules[rule].send \in {"Block", "RawBytes"} /\ fspc' = "failed"
    /\ UNCHANGED <<connVars, fetchWire, rules, rule_idx, rule, fowed, blocks_served,
                   fetchClient>>

FetchWake ==
    /\ fspc = "hold"
    /\ fspc' = "recv"
    /\ UNCHANGED <<connVars, fetchWire, rules, rule_idx, rule, fowed, blocks_served,
                   fetchClient>>

FetchServerNext ==
    \/ FetchReceive \/ FetchRecvError \/ FetchSend \/ FetchNoSend \/ FetchWake
=============================================================================
