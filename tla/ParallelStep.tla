---------------------------- MODULE ParallelStep -----------------------------
(***************************************************************************)
(* A `parallel' step: its branches, the tracer they share and the way the  *)
(* step ends (run_step and the Parallel arm of execute_step in             *)
(* src/scenario/runner.rs, Tracer in src/trace.rs).                        *)
(*                                                                         *)
(* The scenario is one task: try_join_all polls the branches, and a branch *)
(* runs without interruption from one await to the next.  The awaits that  *)
(* order the branches are those on the tracer's mutex, a FIFO queue: every *)
(* emit and every drain_buffer takes it.  Background workers (keep-alive,  *)
(* tx-submission) are tasks of their own that emit through the same mutex. *)
(***************************************************************************)
EXTENDS Naturals, Sequences, SequencesExt, FiniteSets, FiniteSetsExt

CONSTANTS
    N,              \* number of branches
    Steps,          \* steps of a branch
    MaxEvents,      \* bound on the events of one step
    Workers,        \* background tasks
    MaxPings,       \* bound on the events of the workers together
    MayFail         \* how a run may fail: "step", "write"

Branches == 1..N
Parent == 0

ASSUME ParallelAssumption ==
    /\ N \in Nat \ {0} /\ Steps \in Nat \ {0} /\ MaxEvents \in Nat /\ MaxPings \in Nat
    /\ MayFail \subseteq {"step", "write"}
    /\ Workers \cap (Branches \cup {Parent}) = {}

Tasks == Branches \cup {Parent} \cup Workers

VARIABLES
    pc,             \* where each task is
    lock,           \* the tracer's mutex: its holder, then the waiters
    evt,            \* the event a task is emitting
    event_buffer,   \* the events since the last drain
    trace,          \* the trace file
    slot,           \* current_slot, as the number of ticks so far
    last_step,      \* the step each branch is in
    emitted,        \* how many events each branch's current step has emitted
    seen,           \* step_events, what the step's assertions are evaluated on
    ok,             \* whether the current step has succeeded so far
    completed,      \* per-branch flags
    failed,
    pings           \* worker events so far

branchVars == <<last_step, emitted, seen, ok, completed, failed>>
vars == <<pc, lock, evt, event_buffer, trace, slot, branchVars, pings>>

\* An event, the task that emits it, the slot it is stamped with and the task
\* it tells about.
EventAbout(kind, by, s, about) == [kind |-> kind, by |-> by, slot |-> s, about |-> about]
Event(kind, t, s) == EventAbout(kind, t, s, t)
NoEvent == Event("none", Parent, 0)

Init ==
    /\ pc = [t \in Tasks |-> IF t = Parent THEN "parallelStarted" ELSE "idle"]
    /\ lock = <<Parent>>
    /\ evt = [t \in Tasks |-> IF t = Parent THEN Event("ParallelStarted", Parent, 0)
                              ELSE NoEvent]
    /\ event_buffer = <<>> /\ trace = <<>>
    /\ slot = 0
    /\ last_step = [b \in Branches |-> 1]
    /\ emitted = [b \in Branches |-> 0]
    /\ seen = [b \in Branches |-> <<>>]
    /\ ok = [b \in Branches |-> TRUE]
    /\ completed = [b \in Branches |-> FALSE]
    /\ failed = [b \in Branches |-> FALSE]
    /\ pings = 0

-----------------------------------------------------------------------------
Holds(t) == lock # <<>> /\ Head(lock) = t

\* A task asks for the mutex, with or without giving it up first.
Enqueue(queue, t) == Append(queue, t)

\* Tracer::emit, once it holds the mutex: into the buffer, then to the file,
\* which may refuse the write.
Write(t, written) ==
    /\ Holds(t)
    /\ written \in (IF "write" \in MayFail THEN BOOLEAN ELSE {TRUE})
    /\ event_buffer' = Append(event_buffer, evt[t])
    /\ trace' = IF written THEN Append(trace, evt[t]) ELSE trace

\* Tracer::drain_buffer
Drain(t) == Holds(t) /\ event_buffer' = <<>> /\ UNCHANGED trace

\* The task goes on to its next emit, stamped with the slot of this moment, ...
ToEmit(t, p, kind) ==
    /\ pc' = [pc EXCEPT ![t] = p]
    /\ evt' = [evt EXCEPT ![t] = Event(kind, t, slot)]
    /\ lock' = Enqueue(Tail(lock), t)

\* ... to its next drain, ...
ToDrain(t, p) ==
    /\ pc' = [pc EXCEPT ![t] = p]
    /\ lock' = Enqueue(Tail(lock), t)
    /\ UNCHANGED evt

\* ... or to something that does not need the mutex.
Leave(t, p) ==
    /\ pc' = [pc EXCEPT ![t] = p]
    /\ lock' = Tail(lock)
    /\ UNCHANGED evt

\* run_step returns Err: flag the branch, then emit its verdict.
StepErr(b) ==
    /\ failed' = [failed EXCEPT ![b] = TRUE]
    /\ ToEmit(b, "branchFailed", "ParallelBranchFailed")
    /\ UNCHANGED completed

\* Mutant of Unfinished: the completed flag is not looked at.
UnfinishedOrCompleted(after) == {b \in Branches : b > after /\ ~failed[b]}

\* The branches that ParallelBranchAborted is still to be emitted for.
Unfinished(after) ==
    {b \in Branches : b > after /\ ~completed[b] /\ ~failed[b]}

\* The parent's next event once the branches are gone.
AfterJoin(after, queue) ==
    LET left == Unfinished(after) IN
    /\ lock' = Enqueue(queue, Parent)
    /\ IF left = {}
       THEN evt' = [evt EXCEPT ![Parent] = Event("ParallelCompleted", Parent, slot)]
       ELSE evt' = [evt EXCEPT ![Parent] =
                        EventAbout("ParallelBranchAborted", Parent, slot, Min(left))]

\* Mutant of JoinErr: a dropped branch keeps its place in the queue.
JoinErrKeepsWaiters(b) ==
    /\ pc' = [t \in Tasks |->
                IF t = Parent THEN "verdicts"
                ELSE IF t = b THEN "err"
                ELSE IF t \in Branches /\ pc[t] # "ok" THEN "dropped"
                ELSE pc[t]]
    /\ AfterJoin(0, Tail(lock))

\* The queue when some tasks have left it: the others keep their order.
Without(queue, gone) ==
    LET kept == {i \in 1..Len(queue) : queue[i] \notin gone}
        place(i) == Cardinality({j \in kept : j <= i})
    IN  [n \in 1..Cardinality(kept) |-> queue[CHOOSE i \in kept : place(i) = n]]

\* A branch returns Err: try_join_all drops every branch still running, which
\* takes it out of the mutex's queue, and the parent goes on.
JoinErr(b) ==
    /\ pc' = [t \in Tasks |->
                IF t = Parent THEN "verdicts"
                ELSE IF t = b THEN "err"
                ELSE IF t \in Branches /\ pc[t] # "ok" THEN "dropped"
                ELSE pc[t]]
    /\ AfterJoin(0, Without(Tail(lock), Branches))

-----------------------------------------------------------------------------
(* The branches. *)

BranchStarted(b) ==
    /\ pc[b] = "branchStarted"
    /\ \E written \in BOOLEAN :
         /\ Write(b, written)
         /\ IF written THEN ToDrain(b, "clear") ELSE JoinErr(b)
    /\ UNCHANGED <<slot, branchVars, pings>>

\* run_step: drain, emit StepStarted, drain.
ClearBuffer(b) ==
    /\ pc[b] = "clear" /\ Drain(b)
    /\ ToEmit(b, "stepStarted", "StepStarted")
    /\ UNCHANGED <<slot, branchVars, pings>>

StepStarted(b) ==
    /\ pc[b] = "stepStarted"
    /\ \E written \in BOOLEAN :
         /\ Write(b, written)
         /\ IF written THEN ToDrain(b, "clearStarted") /\ UNCHANGED <<completed, failed>>
            ELSE StepErr(b)
    /\ UNCHANGED <<slot, last_step, emitted, seen, ok, pings>>

\* Variable substitution follows, and may fail.
ClearStarted(b) ==
    /\ pc[b] = "clearStarted" /\ Drain(b)
    /\ emitted' = [emitted EXCEPT ![b] = 0]
    /\ ok' = [ok EXCEPT ![b] = TRUE]
    /\ \/ Leave(b, "exec") /\ UNCHANGED <<completed, failed>>
       \/ "step" \in MayFail /\ StepErr(b)
    /\ UNCHANGED <<slot, last_step, seen, pings>>

\* Mutant of EmitEvent: a moved clock is not recorded first.
EmitEventUnrecorded(b) ==
    /\ pc[b] = "exec" /\ emitted[b] < MaxEvents
    /\ \E tick \in BOOLEAN :
         LET e == IF tick THEN Event("WireEvent", b, slot + 1)
                  ELSE Event("WireEvent", b, slot)
         IN  /\ slot' = IF tick THEN slot + 1 ELSE slot
             /\ evt' = [evt EXCEPT ![b] = e]
             /\ emitted' = [emitted EXCEPT ![b] = @ + 1]
    /\ pc' = [pc EXCEPT ![b] = "event"]
    /\ lock' = Enqueue(lock, b)
    /\ UNCHANGED <<event_buffer, trace, last_step, seen, ok, completed, failed, pings>>

\* execute_step emits an event; advance_to_slot and tick_slots move the clock
\* first, without an await in between.
EmitEvent(b) ==
    /\ pc[b] = "exec" /\ emitted[b] < MaxEvents
    /\ \E tick \in BOOLEAN :
         LET e == IF tick THEN Event("SlotAdvanced", b, slot + 1)
                  ELSE Event("WireEvent", b, slot)
         IN  /\ slot' = IF tick THEN slot + 1 ELSE slot
             /\ evt' = [evt EXCEPT ![b] = e]
             /\ emitted' = [emitted EXCEPT ![b] = @ + 1]
    /\ pc' = [pc EXCEPT ![b] = "event"]
    /\ lock' = Enqueue(lock, b)
    /\ UNCHANGED <<event_buffer, trace, last_step, seen, ok, completed, failed, pings>>

EventWritten(b) ==
    /\ pc[b] = "event"
    /\ \E written \in BOOLEAN :
         /\ Write(b, written)
         /\ ok' = [ok EXCEPT ![b] = written]
         /\ IF written THEN Leave(b, "exec") ELSE ToDrain(b, "collect")
    /\ UNCHANGED <<slot, last_step, emitted, seen, completed, failed, pings>>

\* execute_step returns.
StepReturns(b) ==
    /\ pc[b] = "exec"
    /\ \E result \in IF "step" \in MayFail THEN BOOLEAN ELSE {TRUE} :
         ok' = [ok EXCEPT ![b] = result]
    /\ pc' = [pc EXCEPT ![b] = "collect"]
    /\ lock' = Enqueue(lock, b)
    /\ UNCHANGED <<evt, event_buffer, trace, slot, last_step, emitted, seen, completed,
                   failed, pings>>

\* step_events: what the buffer holds now, whoever put it there.
Collect(b) ==
    /\ pc[b] = "collect" /\ Drain(b)
    /\ seen' = [seen EXCEPT ![b] = event_buffer]
    /\ \/ ToEmit(b, "assertion", "AssertionPassed")
       \/ "step" \in MayFail /\ ToEmit(b, "assertion", "AssertionFailed")
       \/ ToEmit(b, "stepCompleted", "StepCompleted")
    /\ UNCHANGED <<slot, last_step, emitted, ok, completed, failed, pings>>

\* The assertions of the step, taken as one: the step passes if all do.  A
\* refused write of their event is ignored.
Assertion(b) ==
    /\ pc[b] = "assertion"
    /\ \E written \in BOOLEAN : Write(b, written)
    /\ ok' = [ok EXCEPT ![b] = @ /\ evt[b].kind = "AssertionPassed"]
    /\ ToEmit(b, "stepCompleted", "StepCompleted")
    /\ UNCHANGED <<slot, last_step, emitted, seen, completed, failed, pings>>

\* The end of run_step: the next step, the end of the branch, or its failure.
StepCompleted(b) ==
    /\ pc[b] = "stepCompleted"
    /\ \E written \in BOOLEAN :
         /\ Write(b, written)
         /\ \/ /\ written /\ ok[b] /\ last_step[b] < Steps
               /\ last_step' = [last_step EXCEPT ![b] = @ + 1]
               /\ ToDrain(b, "clear")
               /\ UNCHANGED <<completed, failed>>
            \/ /\ written /\ ok[b] /\ last_step[b] = Steps
               /\ completed' = [completed EXCEPT ![b] = TRUE]
               /\ ToEmit(b, "branchCompleted", "ParallelBranchCompleted")
               /\ UNCHANGED <<last_step, failed>>
            \/ ~(written /\ ok[b]) /\ StepErr(b) /\ UNCHANGED last_step
    /\ UNCHANGED <<slot, emitted, seen, ok, pings>>

\* Mutant of BranchFailed: the error stays in the branch.
BranchFailedSwallowed(b) ==
    /\ pc[b] = "branchFailed"
    /\ \E written \in BOOLEAN : Write(b, written)
    /\ Leave(b, "ok")
    /\ UNCHANGED <<slot, branchVars, pings>>

\* A refused write of the verdict is ignored; the error goes to try_join_all.
BranchFailed(b) ==
    /\ pc[b] = "branchFailed"
    /\ \E written \in BOOLEAN : Write(b, written)
    /\ JoinErr(b)
    /\ UNCHANGED <<slot, branchVars, pings>>

\* The branch returns Ok, unless its own verdict cannot be written.
BranchCompleted(b) ==
    /\ pc[b] = "branchCompleted"
    /\ \E written \in BOOLEAN :
         /\ Write(b, written)
         /\ IF written THEN Leave(b, "ok") ELSE JoinErr(b)
    /\ UNCHANGED <<slot, branchVars, pings>>

-----------------------------------------------------------------------------
(* The parent and the workers. *)

\* All branches are started: try_join_all polls each up to its first await.
ParallelStarted ==
    /\ pc[Parent] = "parallelStarted"
    /\ \E written \in BOOLEAN :
         /\ Write(Parent, written)
         /\ IF written
            THEN /\ pc' = [t \in Tasks |-> IF t = Parent THEN "join"
                                           ELSE IF t \in Branches THEN "branchStarted"
                                           ELSE pc[t]]
                 /\ evt' = [t \in Tasks |-> IF t \in Branches
                                THEN Event("ParallelBranchStarted", t, slot) ELSE evt[t]]
                 /\ lock' = Tail(lock) \o [i \in 1..N |-> i]
            ELSE Leave(Parent, "error")
    /\ UNCHANGED <<slot, branchVars, pings>>

\* try_join_all returns Ok.
AllJoined ==
    /\ pc[Parent] = "join" /\ \A b \in Branches : pc[b] = "ok"
    /\ pc' = [pc EXCEPT ![Parent] = "parallelCompleted"]
    /\ evt' = [evt EXCEPT ![Parent] = Event("ParallelCompleted", Parent, slot)]
    /\ lock' = Enqueue(lock, Parent)
    /\ UNCHANGED <<event_buffer, trace, slot, branchVars, pings>>

\* Some branch failed: one ParallelBranchAborted per branch without a flag
\* (refused writes are ignored), then ParallelCompleted.
Verdicts ==
    /\ pc[Parent] = "verdicts"
    /\ \E written \in BOOLEAN : Write(Parent, written)
    /\ IF evt[Parent].kind = "ParallelBranchAborted"
       THEN AfterJoin(evt[Parent].about, Tail(lock)) /\ UNCHANGED pc
       ELSE Leave(Parent, "error")
    /\ UNCHANGED <<slot, branchVars, pings>>

ParallelCompleted ==
    /\ pc[Parent] = "parallelCompleted"
    /\ \E written \in BOOLEAN :
         Write(Parent, written) /\ Leave(Parent, IF written THEN "done" ELSE "error")
    /\ UNCHANGED <<slot, branchVars, pings>>

\* run_keepalive and run_tx_submission, as the tracer sees them: they emit at
\* any time and carry on when the write is refused.
WorkerEmits(w) ==
    /\ pc[w] = "idle" /\ pings < MaxPings
    /\ pings' = pings + 1
    /\ pc' = [pc EXCEPT ![w] = "event"]
    /\ evt' = [evt EXCEPT ![w] = Event("WireEvent", w, slot)]
    /\ lock' = Enqueue(lock, w)
    /\ UNCHANGED <<event_buffer, trace, slot, branchVars>>

WorkerWritten(w) ==
    /\ pc[w] = "event"
    /\ \E written \in BOOLEAN : Write(w, written)
    /\ Leave(w, "idle")
    /\ UNCHANGED <<slot, branchVars, pings>>

ParentFinished == pc[Parent] \in {"done", "error"}

BranchNext(b) ==
    \/ BranchStarted(b) \/ ClearBuffer(b) \/ StepStarted(b) \/ ClearStarted(b)
    \/ EmitEvent(b) \/ EventWritten(b) \/ StepReturns(b) \/ Collect(b)
    \/ Assertion(b) \/ StepCompleted(b) \/ BranchFailed(b) \/ BranchCompleted(b)

ParentNext == ParallelStarted \/ AllJoined \/ Verdicts \/ ParallelCompleted

WorkerNext(w) == WorkerEmits(w) \/ WorkerWritten(w)

Next ==
    \/ \E b \in Branches : BranchNext(b)
    \/ ParentNext
    \/ \E w \in Workers : WorkerNext(w)

Spec == Init /\ [][Next]_vars

\* The runtime polls whoever holds the mutex, and every step comes to an end.
Fairness ==
    /\ \A b \in Branches : WF_vars(BranchNext(b)) /\ WF_vars(StepReturns(b))
    /\ WF_vars(ParentNext)
    /\ \A w \in Workers : WF_vars(WorkerWritten(w))

FairSpec == Spec /\ Fairness

-----------------------------------------------------------------------------
Verdict == {"ParallelBranchCompleted", "ParallelBranchFailed", "ParallelBranchAborted"}
Kinds == Verdict \cup {"none", "ParallelStarted", "ParallelBranchStarted", "StepStarted",
                       "WireEvent", "SlotAdvanced", "AssertionPassed", "AssertionFailed",
                       "StepCompleted", "ParallelCompleted"}
EventType == [kind : Kinds, by : Tasks, slot : Nat, about : Tasks]

\* The places where a task holds the mutex or waits for it.
AtLock ==
    {"branchStarted", "clear", "stepStarted", "clearStarted", "event", "collect",
     "assertion", "stepCompleted", "branchFailed", "branchCompleted",
     "parallelStarted", "verdicts", "parallelCompleted"}

(***************************************************************************)
(* Types, and the mutex's queue: it holds exactly the tasks that are at an *)
(* emit or a drain, each once; a branch that was dropped is not in it.     *)
(***************************************************************************)
TypeOK ==
    /\ pc \in [Tasks -> AtLock \cup {"idle", "exec", "ok", "err", "dropped", "join",
                                      "done", "error"}]
    /\ ToSet(lock) = {t \in Tasks : pc[t] \in AtLock}
    /\ Len(lock) = Cardinality(ToSet(lock))
    /\ \A t \in Tasks : evt[t] \in EventType
    /\ ToSet(event_buffer) \cup ToSet(trace) \subseteq EventType
    /\ slot \in Nat /\ pings \in 0..MaxPings
    /\ last_step \in [Branches -> 1..Steps] /\ emitted \in [Branches -> 0..MaxEvents]
    /\ ok \in [Branches -> BOOLEAN]
    /\ completed \in [Branches -> BOOLEAN] /\ failed \in [Branches -> BOOLEAN]

\* Positions of the trace.
At == 1..Len(trace)

VerdictsOf(b) == {i \in At : trace[i].kind \in Verdict /\ trace[i].about = b}

(***************************************************************************)
(* The trace never contradicts itself about a branch: there is at most one *)
(* verdict on it, and the branch emits nothing after the verdict nor after *)
(* ParallelCompleted, whoever fails while whoever waits for the tracer.    *)
(***************************************************************************)
VerdictIsFinal ==
    /\ \A b \in Branches : \A i, j \in VerdictsOf(b) : i = j
    /\ \A i, j \in At :
         i < j /\ trace[i].kind \in Verdict \cup {"ParallelCompleted"} =>
            ~(trace[j].by \in Branches /\ trace[j].by = trace[i].about)
    /\ \A i, j \in At : i < j /\ trace[i].kind = "ParallelCompleted" =>
            trace[j].by \in Workers

(***************************************************************************)
(* The outcome of the step agrees with the verdicts in the trace: it is ok *)
(* only if every branch has completed, and an error only if one failed.    *)
(***************************************************************************)
OutcomeMatchesVerdicts ==
    /\ pc[Parent] = "done" =>
         \A b \in Branches : \E i \in VerdictsOf(b) :
            trace[i].kind = "ParallelBranchCompleted"
    /\ pc[Parent] = "error" =>
         \E b \in Branches : \E i \in VerdictsOf(b) :
            trace[i].kind = "ParallelBranchFailed"

(***************************************************************************)
(* Slots in the trace: a branch's event carries a slot only after the      *)
(* SlotAdvanced event that records how the clock got there, and the        *)
(* records appear in the order in which the clock moved, although the      *)
(* slot is read before the wait for the tracer and the branch that moved   *)
(* the clock may itself be kept waiting.                                   *)
(***************************************************************************)
IsRecord(i) == trace[i].kind = "SlotAdvanced"

StampsFollowRecords ==
    \A i \in At : trace[i].by \in Branches =>
        /\ trace[i].slot > 0 =>
             \E j \in 1..i : IsRecord(j) /\ trace[j].slot = trace[i].slot
        /\ IsRecord(i) => \A j \in 1..(i - 1) : IsRecord(j) => trace[j].slot < trace[i].slot

(***************************************************************************)
(* A parallel step whose steps all come to an end does so itself: nobody   *)
(* is left waiting for a tracer that a dropped branch holds.               *)
(***************************************************************************)
ParallelTerminates == <>ParentFinished

-----------------------------------------------------------------------------
(***************************************************************************)
(* runner.rs on ParallelBranchAborted: it gives "the trace a clean         *)
(* completion event for every branch".                                     *)
(***************************************************************************)
EveryBranchHasVerdict ==
    ParentFinished => \A b \in Branches : VerdictsOf(b) # {}

(***************************************************************************)
(* runner.rs on the first drain_buffer of run_step: "Clear buffer so       *)
(* assertions only see this step's events."                                *)
(***************************************************************************)
StepSeesOnlyItsEvents ==
    \A b \in Branches : \A e \in ToSet(seen[b]) : e.by = b

-----------------------------------------------------------------------------
(***************************************************************************)
(* The inductive strengthening.  The queue of the mutex is what its tasks  *)
(* make it: S in some order, each task once.                               *)
(***************************************************************************)
Queue(q, S) ==
    /\ q \in Seq(S)
    /\ \A i, j \in 1..Len(q) : q[i] = q[j] => i = j
    /\ \A t \in S : \E i \in 1..Len(q) : q[i] = t

Waiting == {t \in Tasks : pc[t] \in AtLock}

ParallelTypes ==
    /\ pc \in [Tasks -> AtLock \cup {"idle", "exec", "ok", "err", "dropped", "join",
                                      "done", "error"}]
    /\ Queue(lock, Waiting)
    /\ evt \in [Tasks -> EventType]
    /\ event_buffer \in Seq(EventType) /\ trace \in Seq(EventType)
    /\ slot \in Nat /\ pings \in 0..MaxPings
    /\ last_step \in [Branches -> 1..Steps] /\ emitted \in [Branches -> 0..MaxEvents]
    /\ seen \in [Branches -> Seq(EventType)]
    /\ ok \in [Branches -> BOOLEAN]
    /\ completed \in [Branches -> BOOLEAN] /\ failed \in [Branches -> BOOLEAN]

\* Where each kind of task can be: a branch is under way only while the parent
\* waits for it.
Emits == {"branchStarted", "stepStarted", "event", "assertion", "stepCompleted",
          "branchFailed", "branchCompleted"}
Running == Emits \cup {"clear", "clearStarted", "collect", "exec"}

Roles ==
    /\ \A w \in Workers : pc[w] \in {"idle", "event"}
    /\ \A b \in Branches : pc[b] \in Running \cup {"idle", "ok", "err", "dropped"}
    /\ pc[Parent] \in {"parallelStarted", "join", "verdicts", "parallelCompleted",
                       "done", "error"}
    /\ pc[Parent] = "parallelStarted" => \A b \in Branches : pc[b] = "idle"
    /\ pc[Parent] = "join" => \A b \in Branches : pc[b] \in Running \cup {"ok"}
    /\ pc[Parent] \in {"verdicts", "error"} => \A b \in Branches : pc[b] \notin Running
    /\ pc[Parent] \in {"parallelCompleted", "done"} => \A b \in Branches : pc[b] = "ok"

\* What a task is about to write.
OwnEvents ==
    /\ \A w \in Workers : pc[w] = "event" => evt[w] = Event("WireEvent", w, evt[w].slot)
    /\ \A b \in Branches : pc[b] \in Emits =>
         /\ evt[b] = Event(evt[b].kind, b, evt[b].slot)
         /\ evt[b].kind \notin {"ParallelBranchAborted", "ParallelCompleted"}
         /\ evt[b].kind = "ParallelBranchCompleted" <=> pc[b] = "branchCompleted"
         /\ evt[b].kind = "ParallelBranchFailed" <=> pc[b] = "branchFailed"
    /\ \A b \in Branches :
         /\ pc[b] \in {"branchCompleted", "ok"} => completed[b]
         /\ pc[b] = "branchFailed" => failed[b]
    /\ pc[Parent] = "parallelStarted" => evt[Parent] = Event("ParallelStarted", Parent, 0)
    /\ pc[Parent] = "parallelCompleted" =>
         evt[Parent] = Event("ParallelCompleted", Parent, evt[Parent].slot)
    /\ pc[Parent] = "verdicts" =>
         \/ evt[Parent] = Event("ParallelCompleted", Parent, evt[Parent].slot)
         \/ /\ evt[Parent].kind = "ParallelBranchAborted" /\ evt[Parent].by = Parent
            /\ evt[Parent].about \in Branches
            /\ ~completed[evt[Parent].about] /\ ~failed[evt[Parent].about]

\* What an event in the trace says of its tasks now.
Told(e) ==
    /\ e.by \in Branches =>
         e.about = e.by /\ e.kind \notin {"ParallelBranchAborted", "ParallelCompleted"}
    /\ e.kind = "ParallelBranchCompleted" => e.by \in Branches /\ pc[e.by] = "ok"
    /\ e.kind = "ParallelBranchFailed" =>
         e.by \in Branches /\ pc[e.by] = "err" /\ failed[e.by]
    /\ e.kind = "ParallelBranchAborted" =>
         /\ e.about \in Branches /\ ~completed[e.about] /\ ~failed[e.about]
         /\ \/ pc[Parent] = "error"
            \/ /\ pc[Parent] = "verdicts"
               /\ evt[Parent].kind = "ParallelBranchAborted" => e.about < evt[Parent].about
    /\ e.kind = "ParallelCompleted" => e.about = Parent /\ pc[Parent] \in {"done", "error"}

AllTold == \A i \in At : Told(trace[i])

OkIsTold ==
    \A b \in Branches : pc[b] = "ok" =>
        \E i \in At : trace[i].kind = "ParallelBranchCompleted" /\ trace[i].by = b

VerdictInv == ParallelTypes /\ Roles /\ OwnEvents /\ AllTold /\ OkIsTold /\ VerdictIsFinal

\* Without refused writes an error has its verdict.
FailureIsTold ==
    pc[Parent] \in {"verdicts", "error"} =>
        \E i \in At : trace[i].kind = "ParallelBranchFailed" /\ trace[i].by \in Branches

OutcomeInv == VerdictInv /\ FailureIsTold

\* The branches that wait with an event, those of them that record a tick, and
\* who is ahead of whom in a queue.
Stamped(b) == pc[b] \in Emits
Records(b) == Stamped(b) /\ evt[b].kind = "SlotAdvanced"
Before(q, t, u) == \E i, j \in 1..Len(q) : i < j /\ q[i] = t /\ q[j] = u

\* Stamps are queued in the order in which they were taken, a tick before all
\* that read it, and every tick is recorded or about to be.
StampsInOrder ==
    \A b, c \in Branches : Stamped(b) /\ Stamped(c) /\ Before(lock, b, c) =>
        /\ evt[b].slot <= evt[c].slot
        /\ Records(c) => evt[b].slot < evt[c].slot

RecordsAhead ==
    \A b \in Branches : Records(b) =>
        \A i \in At : IsRecord(i) => trace[i].slot < evt[b].slot

TicksRecorded ==
    \A s \in 1..slot : \/ \E i \in At : IsRecord(i) /\ trace[i].slot = s
                       \/ \E b \in Branches : Records(b) /\ evt[b].slot = s

StampsPast ==
    /\ \A b \in Branches : Stamped(b) => evt[b].slot <= slot
    /\ \A i \in At : IsRecord(i) => trace[i].slot <= slot
    /\ pc[Parent] = "parallelStarted" => slot = 0

StampsQueued ==
    /\ StampsPast
    /\ pc[Parent] = "join" => StampsInOrder /\ RecordsAhead /\ TicksRecorded

StampInv == VerdictInv /\ StampsQueued /\ StampsFollowRecords
=============================================================================
