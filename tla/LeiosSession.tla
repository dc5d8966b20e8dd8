----------------------------- MODULE LeiosSession ----------------------------
(***************************************************************************)
(* Two scenarios over one connection, as in the repository's Leios         *)
(* scenarios: one runs leios_notify and then leios_fetch, the other        *)
(* serve_leios_notify and then serve_leios_fetch.  Each takes its next     *)
(* step when the one before it has succeeded, on its own; the channels of  *)
(* both protocols are there from the start.  A scenario that ends, or      *)
(* whose step fails, closes the connection.  So does a message for a       *)
(* channel whose step is over: the multiplexer (external) has nowhere to   *)
(* put it.                                                                 *)
(***************************************************************************)
EXTENDS LeiosFetch, FiniteSets

CONSTANT MayDrop    \* the connection may also go down at any time

ASSUME LeiosAssumption == MayDrop \in BOOLEAN

vars == <<connVars, notifyVars, fetchVars>>

TypeOK == NotifyTypeOK /\ FetchTypeOK

Init ==
    /\ closed = FALSE /\ strict \in BOOLEAN
    /\ NotifyInit
    /\ FetchInit

\* The scenario goes on to its second step.
ClientFetches == ncpc \in {"completed", "await_timeout"}
ServerServesFetch == nspc = "done"

ClientOver == ncpc = "error" \/ FetchEnded
ServerOver == nspc = "failed" \/ FetchServed

\* A message is under way to a channel that its step has given up.
Orphan ==
    \/ nreq # <<>> /\ NotifyServed
    \/ nrep # <<>> /\ NotifyEnded
    \/ freq # <<>> /\ FetchServed
    \/ frep # <<>> /\ FetchEnded

\* What is under way arrives or is lost.
Close ==
    /\ ~closed
    /\ MayDrop \/ ClientOver \/ ServerOver \/ Orphan
    /\ closed' = TRUE
    /\ nreq' \in {nreq, <<>>} /\ nrep' \in {nrep, <<>>}
    /\ freq' \in {freq, <<>>} /\ frep' \in {frep, <<>>}
    /\ UNCHANGED <<strict, notifyServer, notifyClient, fetchServer, fetchClient>>

ClientNext ==
    \/ NotifyClientNext /\ UNCHANGED fetchVars
    \/ ClientFetches /\ FetchClientNext /\ UNCHANGED notifyVars

ServerNext ==
    \/ NotifyServerNext /\ UNCHANGED fetchVars
    \/ ServerServesFetch /\ FetchServerNext /\ UNCHANGED notifyVars

Next == ClientNext \/ ServerNext \/ Close

Spec == Init /\ [][Next]_vars

\* Both scenarios are polled while they can go on; sleeps and timeouts end; a
\* scenario that is over closes, and the multiplexer reads what arrives.
Fairness ==
    /\ WF_vars(ClientNext)
    /\ WF_vars(ServerNext)
    /\ WF_vars(Close /\ (ClientOver \/ ServerOver \/ Orphan))

FairSpec == Spec /\ Fairness

-----------------------------------------------------------------------------
\* How many of the first i actions are notifications: the rank of the i-th, if
\* it is one, among those of the list.
Rank(i) == Cardinality({k \in 1..i : actions[k] \in Notifications})

(***************************************************************************)
(* The client's account of the notifications is the server's list: the     *)
(* n-th it has traced is the n-th of the list, with none lost, repeated or *)
(* counted under another kind, whatever the server waits for, sends        *)
(* besides or leaves unanswered and whatever times out.                    *)
(***************************************************************************)
NotifiedInOrder ==
    /\ Len(notified) <= Rank(Len(actions))
    /\ \A i \in 1..Len(actions) :
         actions[i] \in Notifications /\ Rank(i) <= Len(notified) =>
            notified[Rank(i)] = actions[i]
    /\ events_received = Len(notified)
    /\ \A k \in Notifications :
         kind_count[k] = Cardinality({j \in 1..Len(notified) : notified[j] = k})
    /\ Len(notified) <= notifications_sent
    /\ ncpc = "idle" => Len(notified) = notifications_sent

(***************************************************************************)
(* No second request goes out while one is open, on either channel, so an  *)
(* answer always belongs to the request it is taken for.                   *)
(***************************************************************************)
OneRequestOpen ==
    /\ Len(nreq) + Len(nrep) <= 1 /\ Len(freq) + Len(frep) <= 1
    /\ ncpc = "idle" => nreq = <<>> /\ nrep = <<>> /\ nspc \notin {"act", "hold"}
    /\ fcpc = "idle" => freq = <<>> /\ frep = <<>> /\ fspc \notin {"send", "hold"}

(***************************************************************************)
(* Between two requests client and server have counted the same blocks; a  *)
(* step that completes got one per point, and with a script that names the *)
(* blocks asked for, each under its own point.                             *)
(***************************************************************************)
InOrder == rules = [i \in 1..Len(points) |-> Rule("FetchBlock", "Block", points[i], 0)]

FetchedAsServed ==
    /\ fcpc = "idle" => blocks_served = Len(fetched) /\ blocks_requested = Len(fetched)
    /\ fcpc = "completed" => Len(fetched) = Len(points)
    /\ InOrder => IsPrefix(fetched, points)

(***************************************************************************)
(* A notify step that completes lets the other side go on: then, if every  *)
(* rule answers with a block, the client's whole scenario ends, although   *)
(* leios_fetch has no timeout and the server may fail or run out of rules. *)
(***************************************************************************)
Answering == \A i \in 1..Len(rules) : rules[i].send \in {"Block", "Disconnect", "Invalid"}

CompletedGoesOn == ncpc = "completed" /\ Answering ~> ClientOver

(***************************************************************************)
(* With a timeout a leios_notify step ends, whatever the list holds; and   *)
(* the serving scenario, which has none, ends once the client's has.       *)
(***************************************************************************)
BothSidesEnd == (NotifyTimeout ~> NotifyEnded) /\ (ClientOver ~> ServerOver)

-----------------------------------------------------------------------------
(***************************************************************************)
(* leios_notify_server.rs on duration_secs of `wait': "seconds to sleep    *)
(* before responding".  The request that met a wait is answered.           *)
(***************************************************************************)
WaitThenResponds == nspc = "hold" ~> nrep # <<>>

-----------------------------------------------------------------------------
(***************************************************************************)
(* The inductive strengthening: where the one open request is.  While the  *)
(* server is busy with it, it is on neither channel.                       *)
(***************************************************************************)
NotifyTurns ==
    /\ Len(nreq) + Len(nrep) <= 1
    /\ ncpc = "idle" => nreq = <<>> /\ nrep = <<>>
    /\ nspc \in {"act", "hold"} => nreq = <<>> /\ nrep = <<>> /\ ncpc # "idle"
    /\ nspc = "failed" => nrep = <<>>

FetchTurns ==
    /\ Len(freq) + Len(frep) <= 1
    /\ fcpc = "idle" => freq = <<>> /\ frep = <<>>
    /\ fspc \in {"send", "hold"} => freq = <<>> /\ frep = <<>> /\ fcpc # "idle"

\* The actions that are done with: all but the one in hand.
Behind == IF nspc = "act" THEN action - 1 ELSE action

\* The server counts as many notifications as its list has up to there, and a
\* notification under way is the last of them.
SentAsListed ==
    /\ notifications_sent <= Rank(action)
    /\ nspc # "failed" => notifications_sent = Rank(Behind)
    /\ ncpc = "waiting" /\ (nreq # <<>> \/ nspc = "act") => notifications_sent = Len(notified)
    /\ ncpc = "waiting" /\ nrep # <<>> /\ Head(nrep) \in Notifications =>
         /\ Head(nrep) = actions[action] /\ nspc # "act"
         /\ notifications_sent = Len(notified) + 1

\* The client asks only while notifications are missing.
AsksWhileShort == ncpc = "waiting" => events_received < NotifyCount

\* A request under way, or in the server's hand, for a block not served yet.
Unserved == (freq # <<>> /\ Head(freq) # Nil) \/ fspc = "send"

\* Blocks are requested, served and received one after the other.
FetchAccount ==
    /\ fcpc = "idle" => blocks_served = Len(fetched) /\ blocks_requested = Len(fetched)
    /\ Unserved => blocks_served < blocks_requested
    /\ fcpc = "waiting" =>
         /\ blocks_requested = Len(fetched) + 1
         /\ Unserved => blocks_served = Len(fetched)
         /\ frep # <<>> /\ Head(frep) # Nil => blocks_served = blocks_requested
    /\ freq # <<>> /\ Head(freq) = Nil => fcpc = "completed"
    /\ fcpc = "completed" => Len(fetched) = Len(points)

\* With a script that names the blocks asked for, the rule is the request's.
RulesInStep ==
    /\ Len(fetched) <= Len(points) /\ \A i \in 1..Len(fetched) : fetched[i] = points[i]
    /\ fcpc = "idle" => rule_idx = blocks_requested + 1
    /\ freq # <<>> /\ Head(freq) # Nil => rule_idx = blocks_requested
    /\ fspc = "send" => rule = blocks_requested /\ rule_idx = blocks_requested + 1
    /\ fcpc = "waiting" /\ frep # <<>> =>
         /\ Head(frep) = points[blocks_requested]
         /\ rule_idx = blocks_requested + 1

NotifyInv == NotifyTypeOK /\ AsksWhileShort /\ NotifyTurns /\ NotifiedInOrder /\ SentAsListed
FetchInv == FetchTypeOK /\ FetchTurns /\ FetchAccount /\ (InOrder => RulesInStep)
LeiosInv == NotifyInv /\ FetchInv
=============================================================================
