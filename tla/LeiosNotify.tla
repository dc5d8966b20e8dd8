----------------------------- MODULE LeiosNotify -----------------------------
(***************************************************************************)
(* The Leios-Notify channel of a connection, the client that pulls `count' *)
(* notifications from it (run_leios_notify, leios_notify.rs) and the       *)
(* server that answers each request with the next action of its list       *)
(* (execute_leios_notify_script, leios_notify_server.rs).                  *)
(*                                                                         *)
(* Both sides use net_core's typed runner (external).  What its recv does  *)
(* for a server that still owes an answer is not fixed by the code here:   *)
(* it refuses, or it waits.  `strict' is the choice of the build.          *)
(***************************************************************************)
EXTENDS Naturals, Sequences, SequencesExt

CONSTANTS
    NotifyScripts,  \* the action lists a serve_leios_notify step may have
    NotifyCount,    \* notifications the client wants
    NotifyTimeout   \* await_timeout is not zero

Notifications == {"BlockAnnouncement", "BlockOffer", "BlockTxsOffer", "Votes"}

\* "Invalid" is an unknown kind, or a field that is missing or does not decode.
Actions == Notifications \cup {"Wait", "Disconnect", "RawBytes", "Invalid"}

ASSUME NotifyAssumption ==
    /\ NotifyScripts \subseteq Seq(Actions)
    /\ NotifyCount \in Nat
    /\ NotifyTimeout \in BOOLEAN

VARIABLES
    closed,             \* the connection is down
    strict,             \* Runner::recv refuses out of turn
    nreq, nrep,         \* client to server, server to client
    actions,            \* the list
    action,             \* how many of them are used up
    nspc,               \* where execute_leios_notify_script is
    owed,               \* the last request has had no answer
    notifications_sent,
    ncpc,               \* where run_leios_notify is
    events_received,
    kind_count,         \* block_announcements, block_offers, ...
    notified            \* the received notifications of the trace, in order

connVars == <<closed, strict>>
notifyWire == <<nreq, nrep>>
notifyServer == <<actions, action, nspc, owed, notifications_sent>>
notifyClient == <<ncpc, events_received, kind_count, notified>>
notifyVars == <<notifyWire, notifyServer, notifyClient>>

NotifyServed == nspc \in {"done", "failed"}
NotifyEnded == ncpc \in {"completed", "await_timeout", "error"}

NotifyTypeOK ==
    /\ closed \in BOOLEAN /\ strict \in BOOLEAN
    /\ nreq \in Seq({"RequestNext", "Done"})
    /\ nrep \in Seq(Notifications \cup {"RawBytes"})
    /\ actions \in NotifyScripts /\ action \in 0..Len(actions)
    /\ nspc \in {"recv", "act", "hold", "done", "failed"}
    /\ owed \in BOOLEAN
    /\ nspc = "act" => action > 0
    /\ notifications_sent \in 0..action
    /\ ncpc \in {"idle", "waiting", "completed", "await_timeout", "error"}
    /\ events_received \in 0..NotifyCount
    /\ kind_count \in [Notifications -> Nat]
    /\ notified \in Seq(Notifications)

NotifyInit ==
    /\ nreq = <<>> /\ nrep = <<>>
    /\ actions \in NotifyScripts /\ action = 0
    /\ nspc = "recv" /\ owed = FALSE /\ notifications_sent = 0
    /\ ncpc = "idle" /\ events_received = 0
    /\ kind_count = [k \in Notifications |-> 0] /\ notified = <<>>

\* A send on a closed bearer that is not refused is lost.
Deliver(channel, msg) == IF closed THEN channel ELSE Append(channel, msg)

-----------------------------------------------------------------------------
(* The client. *)

NotifyRequest ==
    /\ ncpc = "idle" /\ events_received < NotifyCount
    /\ nreq' = Deliver(nreq, "RequestNext")
    /\ ncpc' = "waiting"
    /\ UNCHANGED <<connVars, nrep, notifyServer, events_received, kind_count, notified>>

\* Mutant of NotifyEvent: offers of transactions are counted as block offers.
NotifyEventMiscounts ==
    /\ ncpc = "waiting" /\ nrep # <<>> /\ Head(nrep) \in Notifications
    /\ nrep' = Tail(nrep)
    /\ events_received' = events_received + 1
    /\ LET k == IF Head(nrep) = "BlockTxsOffer" THEN "BlockOffer" ELSE Head(nrep) IN
       kind_count' = [kind_count EXCEPT ![k] = @ + 1]
    /\ notified' = Append(notified, Head(nrep))
    /\ ncpc' = "idle"
    /\ UNCHANGED <<connVars, nreq, notifyServer>>

NotifyEvent ==
    /\ ncpc = "waiting" /\ nrep # <<>> /\ Head(nrep) \in Notifications
    /\ nrep' = Tail(nrep)
    /\ events_received' = events_received + 1
    /\ kind_count' = [kind_count EXCEPT ![Head(nrep)] = @ + 1]
    /\ notified' = Append(notified, Head(nrep))
    /\ ncpc' = "idle"
    /\ UNCHANGED <<connVars, nreq, notifyServer>>

\* Malformed bytes are refused, or look like the start of a message.
NotifyMalformed ==
    /\ ncpc = "waiting" /\ nrep # <<>> /\ Head(nrep) = "RawBytes"
    /\ nrep' = Tail(nrep)
    /\ ncpc' \in {"waiting", "error"}
    /\ UNCHANGED <<connVars, nreq, notifyServer, events_received, kind_count, notified>>

\* Mutant of NotifyTimesOut: the step asks again.
NotifyRetries ==
    /\ NotifyTimeout /\ ncpc = "waiting"
    /\ ncpc' = "idle"
    /\ UNCHANGED <<connVars, notifyWire, notifyServer, events_received, kind_count, notified>>

\* One timeout per request.  The step succeeds, and MsgDone is not sent.
NotifyTimesOut ==
    /\ NotifyTimeout /\ ncpc = "waiting"
    /\ ncpc' = "await_timeout"
    /\ UNCHANGED <<connVars, notifyWire, notifyServer, events_received, kind_count, notified>>

NotifyConnError ==
    /\ closed
    /\ \/ ncpc = "idle" /\ events_received < NotifyCount
       \/ ncpc = "waiting" /\ nrep = <<>>
    /\ ncpc' = "error"
    /\ UNCHANGED <<connVars, notifyWire, notifyServer, events_received, kind_count, notified>>

\* Mutant of NotifyFinish: no MsgDone.
NotifyFinishSilently ==
    /\ ncpc = "idle" /\ events_received >= NotifyCount
    /\ ncpc' = "completed"
    /\ UNCHANGED <<connVars, notifyWire, notifyServer, events_received, kind_count, notified>>

\* A failure to send MsgDone does not fail the step.
NotifyFinish ==
    /\ ncpc = "idle" /\ events_received >= NotifyCount
    /\ nreq' = Deliver(nreq, "Done")
    /\ ncpc' = "completed"
    /\ UNCHANGED <<connVars, nrep, notifyServer, events_received, kind_count, notified>>

NotifyClientNext ==
    \/ NotifyRequest \/ NotifyEvent \/ NotifyMalformed \/ NotifyTimesOut
    \/ NotifyConnError \/ NotifyFinish

-----------------------------------------------------------------------------
(* The server. *)

\* Mutant of HasAction: one too far.
HasActionOffByOne == action <= Len(actions)

\* action_iter.next() is Some.
HasAction == action < Len(actions)

\* A request takes the next action; without one, and on MsgDone, the session
\* is over.  Messages that are neither are skipped (a typed client sends none).
NotifyReceive ==
    /\ nspc = "recv" /\ nreq # <<>> /\ ~(strict /\ owed)
    /\ nreq' = Tail(nreq)
    /\ owed' = (Head(nreq) = "RequestNext")
    /\ \/ /\ Head(nreq) = "Done" \/ ~HasAction
          /\ nspc' = "done"
          /\ UNCHANGED action
       \/ /\ Head(nreq) = "RequestNext" /\ HasAction
          /\ action' = action + 1
          /\ nspc' = "act"
    /\ UNCHANGED <<connVars, nrep, actions, notifications_sent, notifyClient>>

\* Mutant of NotifyRecvError: the loop tries again.
NotifyRecvErrorIgnored ==
    /\ nspc = "recv"
    /\ \/ nreq = <<>> /\ closed
       \/ strict /\ owed
    /\ UNCHANGED <<connVars, notifyVars>>

\* An error of recv ends the session; the step still succeeds.
NotifyRecvError ==
    /\ nspc = "recv"
    /\ \/ nreq = <<>> /\ closed
       \/ strict /\ owed
    /\ nspc' = "done"
    /\ UNCHANGED <<connVars, notifyWire, actions, action, owed, notifications_sent,
                   notifyClient>>

\* The messages of execute_action: only notifications are counted, and only
\* they answer the request.
NotifySend ==
    /\ nspc = "act" /\ actions[action] \in Notifications \cup {"RawBytes"}
    /\ nrep' = Deliver(nrep, actions[action])
    /\ \/ /\ actions[action] \in Notifications
          /\ notifications_sent' = notifications_sent + 1
          /\ owed' = FALSE
       \/ actions[action] = "RawBytes" /\ UNCHANGED <<notifications_sent, owed>>
    /\ nspc' = "recv"
    /\ UNCHANGED <<connVars, nreq, actions, action, notifyClient>>

\* Where execute_action leaves the loop without a message: `disconnect' ends
\* the session, `wait' sleeps, and an error fails the step.
NotifyNoSend ==
    /\ nspc = "act"
    /\ \/ actions[action] = "Disconnect" /\ nspc' = "done"
       \/ actions[action] = "Wait" /\ nspc' = "hold"
       \/ actions[action] = "Invalid" /\ nspc' = "failed"
       \/ /\ closed /\ actions[action] \in Notifications \cup {"RawBytes"}
          /\ nspc' = "failed"
    /\ UNCHANGED <<connVars, notifyWire, actions, action, owed, notifications_sent,
                   notifyClient>>

\* After the sleep of `wait' the loop goes back to recv, the request unanswered.
NotifyWake ==
    /\ nspc = "hold"
    /\ nspc' = "recv"
    /\ UNCHANGED <<connVars, notifyWire, actions, action, owed, notifications_sent,
                   notifyClient>>

NotifyServerNext ==
    \/ NotifyReceive \/ NotifyRecvError \/ NotifySend \/ NotifyNoSend \/ NotifyWake
=============================================================================
