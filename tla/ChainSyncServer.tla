--------------------------- MODULE ChainSyncServer ---------------------------
(***************************************************************************)
(* The scripted Chain-Sync server, execute_response_script and             *)
(* execute_send of src/miniprotocols/chainsync_server.rs.                  *)
(*                                                                         *)
(* One iteration of its loop is a receive step (take a request, trace it,  *)
(* choose and consume a rule) and a send step (execute the rule, trace the *)
(* message, annotate the new protocol state), with the sleep of            *)
(* await_reply and wait as a third step when the rule holds.               *)
(***************************************************************************)
EXTENDS ChainSyncWire

CONSTANT Scripts    \* the response scripts a serve_chain_sync step may have

CsSends == {"CursorFindIntersect", "CursorAdvance", "RollForward", "RollBackward",
            "IntersectFound", "IntersectNotFound", "AwaitReply", "Wait",
            "Disconnect", "RawBytes"}

Rules ==
    {r \in [on : {"FindIntersect", "RequestNext", "Done", "Any"}, send : CsSends,
            val : Points \cup {Opaque, Nil}, hold : Nat, repeatable : BOOLEAN] :
        Carries(r.send, r.val)}

ASSUME ScriptsAssumption == Scripts \subseteq Seq(Rules)

VARIABLES
    script,     \* rules
    spc,        \* where the loop is
    rule_idx,   \* first unconsumed rule
    rule,       \* position of the rule being executed
    request,    \* the request being answered
    pos,        \* cursor position
    state,      \* tracked protocol state (ServerCsState)
    traced      \* state_after of the last traced wire event

serverVars == <<script, spc, rule_idx, rule, request, pos, state, traced>>

ServerCsStates == {"Idle", "Intersect", "CanAwait", "MustReply", "Done"}

ServerTypeOK ==
    /\ script \in Scripts
    /\ spc \in {"recv", "send", "hold", "done", "failed"}
    /\ rule_idx \in 1..(Len(script) + 1)
    /\ rule \in 0..Len(script)
    /\ spc = "send" => rule \in 1..Len(script)
    /\ request \in Requests
    /\ pos \in Positions
    /\ state \in ServerCsStates
    /\ traced \in ServerCsStates

ServerInit ==
    /\ script \in Scripts
    /\ spc = "recv"
    /\ rule_idx = 1
    /\ rule = 0
    /\ request = RequestNext
    /\ pos = -1
    /\ state = "Idle"
    /\ traced = "Idle"

-----------------------------------------------------------------------------
after_receive(req) ==
    CASE req.kind = "FindIntersect" -> "Intersect"
      [] req.kind = "RequestNext"   -> "CanAwait"
      [] req.kind = "Done"          -> "Done"

\* Mutant of after_send: any message of the server gives the turn back.
after_send_always_idle(st, send) ==
    CASE send = "Disconnect"           -> "Done"
      [] send \in {"Wait", "RawBytes"} -> st
      [] OTHER                         -> "Idle"

after_send(st, send) ==
    CASE send \in {"IntersectFound", "IntersectNotFound", "RollForward",
                   "RollBackward", "CursorFindIntersect", "CursorAdvance"} -> "Idle"
      [] send = "AwaitReply"           -> "MustReply"
      [] send = "Disconnect"           -> "Done"
      [] send \in {"Wait", "RawBytes"} -> st

\* recv_request returns a message: trace it, then stop on MsgDone, fail when
\* no unconsumed rule answers it, and otherwise execute the rule found.
ServerReceive ==
    /\ spc = "recv" /\ c2s # <<>>
    /\ c2s' = Tail(c2s)
    /\ request' = Head(c2s)
    /\ state' = after_receive(Head(c2s))
    /\ traced' = after_receive(Head(c2s))
    /\ LET kind == Head(c2s).kind IN
       \/ /\ kind = "Done"
          /\ spc' = "done"
          /\ UNCHANGED <<rule_idx, rule>>
       \/ /\ kind # "Done"
          /\ Candidates(script, rule_idx, kind) = {}
          /\ spc' = "failed"
          /\ UNCHANGED <<rule_idx, rule>>
       \/ /\ kind # "Done"
          /\ Candidates(script, rule_idx, kind) # {}
          /\ rule' = RulePos(script, rule_idx, kind)
          /\ rule_idx' = RuleIdxAfter(script, rule_idx, rule')
          /\ spc' = "send"
    /\ UNCHANGED <<s2c, closed, script, pos>>

\* Mutant of ServerRecvError: the loop carries on after a receive error.
ServerRecvErrorIgnored ==
    /\ spc = "recv" /\ c2s = <<>> /\ closed
    /\ UNCHANGED <<wireVars, serverVars>>

\* A receive error ends the session; the step still completes.
ServerRecvError ==
    /\ spc = "recv" /\ c2s = <<>> /\ closed
    /\ spc' = "done"
    /\ UNCHANGED <<wireVars, script, rule_idx, rule, request, pos, state, traced>>

\* The message execute_send sends for the rule in hand, and its event.
SendMessage(msg, annotation) ==
    /\ s2c' = Deliver(s2c, msg)
    /\ traced' = annotation

\* What every completed execute_send leaves behind.
AfterSend(next) ==
    /\ state' = after_send(state, script[rule].send)
    /\ spc' = next
    /\ UNCHANGED <<c2s, closed, script, rule_idx, rule, request>>

SendCursorFindIntersect ==
    /\ spc = "send" /\ script[rule].send = "CursorFindIntersect"
    /\ LET points == IF request.kind = "FindIntersect" THEN request.points ELSE <<>> IN
       \/ /\ HasIntersect(points)
          /\ pos' = find_intersect(points)
          /\ SendMessage(Reply("IntersectFound", current_point(pos')), "Idle")
       \/ /\ ~HasIntersect(points)
          /\ pos' = pos
          /\ SendMessage(Reply("IntersectNotFound", Nil), "Idle")
    /\ AfterSend("recv")

SendCursorAdvance ==
    /\ spc = "send" /\ script[rule].send = "CursorAdvance"
    /\ pos' = advance_pos(pos)
    /\ \/ /\ advance_some(pos)
          /\ SendMessage(Reply("RollForward", Chain[pos']), "Idle")
       \/ /\ ~advance_some(pos)
          /\ SendMessage(Reply("AwaitReply", Nil), "MustReply")
    /\ AfterSend("recv")

\* roll_forward, roll_backward, intersect_found, intersect_not_found: the
\* rule's own header or point is sent whatever the protocol state is.
SendScripted ==
    /\ spc = "send"
    /\ script[rule].send \in {"RollForward", "RollBackward", "IntersectFound",
                              "IntersectNotFound"}
    /\ SendMessage(Reply(script[rule].send, script[rule].val), "Idle")
    /\ AfterSend("recv")
    /\ UNCHANGED pos

SendAwaitReply ==
    /\ spc = "send" /\ script[rule].send = "AwaitReply"
    /\ SendMessage(Reply("AwaitReply", Nil), "MustReply")
    /\ AfterSend(IF script[rule].hold > 0 THEN "hold" ELSE "recv")
    /\ UNCHANGED pos

\* raw_bytes is traced as an error event, which carries no states.
SendRawBytes ==
    /\ spc = "send" /\ script[rule].send = "RawBytes"
    /\ s2c' = Deliver(s2c, Reply("RawBytes", Nil))
    /\ AfterSend("recv")
    /\ UNCHANGED <<pos, traced>>

\* wait sends nothing, and nothing is sent later in its place.
SendWait ==
    /\ spc = "send" /\ script[rule].send = "Wait"
    /\ AfterSend("hold")
    /\ UNCHANGED <<s2c, pos, traced>>

\* disconnect leaves the loop; the bearer stays open.
SendDisconnect ==
    /\ spc = "send" /\ script[rule].send = "Disconnect"
    /\ AfterSend("done")
    /\ UNCHANGED <<s2c, pos, traced>>

\* The channel refuses the message: execute_send and the step fail, and the
\* cursor goes with them.
ServerSendError ==
    /\ spc = "send" /\ closed
    /\ script[rule].send \notin {"Wait", "Disconnect"}
    /\ spc' = "failed"
    /\ UNCHANGED <<wireVars, script, rule_idx, rule, request, pos, state, traced>>

\* The sleep of await_reply or wait ends.
ServerWake ==
    /\ spc = "hold"
    /\ spc' = "recv"
    /\ UNCHANGED <<wireVars, script, rule_idx, rule, request, pos, state, traced>>

ExecuteSend ==
    \/ SendCursorFindIntersect
    \/ SendCursorAdvance
    \/ SendScripted
    \/ SendAwaitReply
    \/ SendRawBytes
    \/ SendWait
    \/ SendDisconnect
    \/ ServerSendError

ServerNext ==
    \/ ServerReceive
    \/ ServerRecvError
    \/ ExecuteSend
    \/ ServerWake

ServerFinished == spc \in {"done", "failed"}
=============================================================================
