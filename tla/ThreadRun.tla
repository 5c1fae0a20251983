------------------------------ MODULE ThreadRun ------------------------------
(***************************************************************************)
(* The run slot of one chat thread: threadRuns.get(threadId) of            *)
(* chatService.ts, the API calls that reserve, schedule, stop and          *)
(* reconcile it, the assistant runs (runAssistant) that own it, and the    *)
(* event chain of the thread (eventHub.ts) those calls wait on.            *)
(*                                                                         *)
(* The runtime is one Node process: code between two awaits is atomic, so  *)
(* every action below is the code from one await to the next.  A call is   *)
(* named by an element of Calls and makes one API request; the run it      *)
(* schedules, if any, has the same name.  The thread's queue of drafts is  *)
(* empty here, hence maybeDispatchQueuedMessages does nothing; the module  *)
(* DraftQueue puts the queue back.                                         *)
(***************************************************************************)
EXTENDS Naturals, Sequences, FiniteSets

CONSTANTS
  Calls,      \* the API calls issued to the thread
  Op,         \* the endpoint each call uses
  MaxOpen,    \* how many calls may be in flight together; 1 is a client that
              \* waits for each response
  Acts,       \* what the agent runner may do while it runs
  SameMs,     \* whether two things may happen in one millisecond
  Faults,     \* the operations whose database writes may fail
  None

\* The endpoints of this module, and those of the draft queue (DraftQueue).
ThreadOps == {"send", "stop", "snapshot", "resolve", "approve", "handoff",
              "revise", "dismiss"}
DraftOps  == {"queue", "request", "cancel", "delete", "list", "watch"}

ASSUME CallsAssumption ==
  /\ None \notin Calls
  /\ Op \in [Calls -> ThreadOps \cup DraftOps]
  /\ SameMs \in BOOLEAN
  /\ MaxOpen \in Nat \ {0}
  /\ Acts \subseteq {"text", "tool", "gate", "plan", "metadata", "crash"}
  /\ Faults \subseteq {"commit", "reread", "revise", "draft", "draft_late"}

VARIABLES
  run,      \* the slot: status "idle" stands for no entry in threadRuns
  pc,       \* where each call is
  held,     \* what each call remembers across its awaits
  job,      \* the life of the run each call scheduled
  aborted,  \* the runs whose AbortController has been aborted
  gate,     \* the permission or question each run has asked
  did,      \* the callbacks each runner has made (each at most once)
  plan,     \* the run whose plan is pending on the thread row, or None
  chain,    \* events emitted and not yet persisted, oldest first
  log,      \* what is persisted: how many events, the last, the open plan
  closings  \* how many terminal events each run has been given

vars == <<run, pc, held, job, aborted, gate, did, plan, chain, log, closings>>

----------------------------------------------------------------------------
(* Data *)

CallOrNone == Calls \cup {None}
RunStatus  == {"idle", "scheduled", "running", "waiting_gate", "waiting_plan"}
Slots      == [status : RunStatus, timer : CallOrNone, ctl : CallOrNone,
               since : Nat, tools : SUBSET Calls, handoff : BOOLEAN]

\* The steps "found", "kick" and "draining" are those of the draft endpoints.
\* "dropped": the timer was cleared and nothing was emitted for the turn.
JobPhases  == {"none", "timer", "running", "closing", "done", "stopped",
               "dropped", "elsewhere"}
Steps      == {"idle", "loaded", "recover", "rewrite", "planned", "lookup",
               "judge", "admit", "commit", "announce", "reread", "emitting",
               "found", "kick", "draining", "returned", "thrown"}
Callbacks  == {"text", "tool", "tool_end", "gate", "plan", "plan_saved", "metadata"}
EventTypes == {"progress", "closed", "plan_created", "plan_settled"}
Events     == [type : EventTypes, of : Calls]

NoRun    == [status |-> "idle", timer |-> None, ctl |-> None, since |-> 0,
             tools |-> {}, handoff |-> FALSE]
\* row: the pending plan of the thread row as loaded; plan: the plan entry the
\* call works on; cur, closed: what reconcile saw; target: a gate to resolve.
NoMemory == [row |-> None, plan |-> None, cur |-> NoRun, closed |-> FALSE,
             target |-> None]

Memory   == [row : CallOrNone, plan : CallOrNone, cur : Slots, closed : BOOLEAN,
             target : CallOrNone]

Active  == run.status # "idle"
Pending == {j \in Calls : gate[j] = "pending"}

InFlight(c)  == pc[c] \notin {"idle", "returned", "thrown"}
Persisted(e) == \A i \in DOMAIN chain : chain[i] # e

----------------------------------------------------------------------------
(* The slot's primitives *)

\* The events given their createdAt so far: eventHub stamps an event when its
\* turn in the thread's queue begins, so the oldest of the chain already has one.
Stamped == log.count + IF chain = <<>> THEN 0 ELSE 1

\* setThreadRunState: the start time, the tool sets and queueHandoffPending
\* survive, a timer or a controller that is not passed is lost.
Slot(status, timer, ctl) ==
  [status |-> status, timer |-> timer, ctl |-> ctl,
   since  |-> IF Active THEN run.since ELSE Stamped,
   tools  |-> run.tools, handoff |-> run.handoff]

\* Mutant: the slot goes, the timer stays armed.
ClearRunKeepsTimer == run' = NoRun /\ UNCHANGED job

\* The runs when the slot's timer is cleared; one that has fired is not undone.
Disarmed ==
  [j \in Calls |-> IF j = run.timer /\ job[j] = "timer" THEN "dropped" ELSE job[j]]

\* clearThreadRunState: clearing the slot also clears its timer.
ClearRun == run' = NoRun /\ job' = Disarmed

\* markThreadRunning and markThreadWaiting change the status of whatever run
\* is in the slot.
Marked(status) == IF Active THEN [run EXCEPT !.status = status] ELSE run

\* rejectPendingPermissions and rejectPendingQuestions
Rejected == [j \in Calls |-> IF gate[j] = "pending" THEN "rejected" ELSE gate[j]]

\* scheduleAssistant: a timer in the slot is cleared first, and the new slot
\* entry has no controller.
Schedule(c) ==
  /\ job' = [Disarmed EXCEPT ![c] = "timer"]
  /\ run' = Slot("scheduled", c, None)

Emit(type, c) == chain' = Append(chain, [type |-> type, of |-> c])

Goto(c, step) == pc' = [pc EXCEPT ![c] = step]

----------------------------------------------------------------------------
(* Every call: load the thread row, reconcile a stale slot, go on *)

PlanOps      == {"approve", "handoff", "revise", "dismiss"}
ReconcileOps == {"send", "stop", "snapshot", "revise", "dismiss",
                  "request", "watch"}

\* await prisma.chatThread.findUnique: the row's pending plan is what the
\* call will believe.
Load(c) ==
  /\ pc[c] = "idle" /\ Op[c] \in ThreadOps \cup {"request"}
  /\ Cardinality({d \in Calls : InFlight(d)}) < MaxOpen
  /\ held' = [held EXCEPT ![c] = [@ EXCEPT !.row = plan, !.plan = plan]]
  /\ Goto(c, IF Op[c] \in PlanOps /\ plan = None THEN "recover"
             ELSE IF Op[c] \in PlanOps THEN "planned" ELSE "loaded")
  /\ UNCHANGED <<run, job, aborted, gate, did, plan, chain, log, closings>>

\* loadPendingPlan without a plan on the row: read it off the event log, ...
RecoverPlan(c) ==
  /\ pc[c] = "recover"
  /\ held' = [held EXCEPT ![c].plan = log.openPlan]
  /\ Goto(c, IF log.openPlan = None THEN "thrown" ELSE "rewrite")
  /\ UNCHANGED <<run, job, aborted, gate, did, plan, chain, log, closings>>

\* ... and write it back to the row.
RewritePlan(c) ==
  /\ pc[c] = "rewrite"
  /\ plan' = held[c].plan
  /\ Goto(c, "planned")
  /\ UNCHANGED <<run, held, job, aborted, gate, did, chain, log, closings>>

\* reconcileStaleTerminalThreadRun is given the row as Load read it.
MissingGate(c) ==
  \/ run.status = "waiting_gate" /\ Pending = {}
  \/ run.status = "waiting_plan" /\ held[c].row = None

LacksLiveSignals(c) == run.tools = {} /\ Pending = {} /\ held[c].row = None

\* reconcileStaleTerminalThreadRun up to its await: keep the slot, or look at
\* the last event.
Reconcile(c) ==
  /\ Op[c] \in ReconcileOps
  /\ pc[c] = IF Op[c] \in PlanOps THEN "planned" ELSE "loaded"
  /\ IF Active /\ (MissingGate(c) \/ LacksLiveSignals(c) \/ run.ctl \in aborted)
     THEN /\ held' = [held EXCEPT ![c].cur = run]
          /\ Goto(c, "lookup")
     ELSE Goto(c, "admit") /\ UNCHANGED held
  /\ UNCHANGED <<run, job, aborted, gate, did, plan, chain, log, closings>>

\* Mutant: any event since the run's start closes it.
ReadAnyEvent(c) ==
  /\ pc[c] = "lookup"
  /\ held' = [held EXCEPT ![c].closed = log.count > held[c].cur.since]
  /\ Goto(c, "judge")
  /\ UNCHANGED <<run, job, aborted, gate, did, plan, chain, log, closings>>

\* The last persisted event closes the run the call saw if it is terminal and
\* was stamped no earlier, to the millisecond, than that run's start.
ReadLastEvent(c) ==
  /\ pc[c] = "lookup"
  /\ \E tie \in {FALSE, SameMs} :
       held' = [held EXCEPT ![c].closed =
                  /\ log.last = "closed"
                  /\ \/ log.count > held[c].cur.since
                     \/ tie /\ log.count = held[c].cur.since]
  /\ Goto(c, "judge")
  /\ UNCHANGED <<run, job, aborted, gate, did, plan, chain, log, closings>>

\* reconcileStaleTerminalThreadRun after its await: whatever is in the slot
\* by now is cleared when the run the call saw was aborted or closed.
Judge(c) ==
  /\ pc[c] = "judge"
  /\ Goto(c, "admit")
  /\ held' = [held EXCEPT ![c] = [@ EXCEPT !.cur = NoRun, !.closed = FALSE]]
  /\ IF held[c].cur.ctl \in aborted \/ held[c].closed
     THEN ClearRun /\ gate' = Rejected
     ELSE /\ run' = IF \/ held[c].cur.status = "waiting_plan" /\ held[c].row = None
                       \/ held[c].cur.status = "waiting_gate"
                    THEN Marked("running") ELSE run
          /\ UNCHANGED <<job, gate>>
  /\ UNCHANGED <<aborted, did, plan, chain, log, closings>>

----------------------------------------------------------------------------
(* What each endpoint does once the slot is reconciled *)

\* The guard of sendMessage, revisePlan and dismissPlan, and stopRun's own.
Refuse(c) ==
  /\ pc[c] = "admit"
  /\ IF Op[c] = "stop" THEN ~Active
     ELSE Op[c] \in {"send", "revise", "dismiss"} /\ Active
  /\ Goto(c, "thrown")
  /\ UNCHANGED <<run, held, job, aborted, gate, did, plan, chain, log, closings>>

\* getThread, listThreads and listThreadStatusSnapshot only reconcile.
Snapshot(c) ==
  /\ pc[c] = "admit" /\ Op[c] = "snapshot"
  /\ Goto(c, "returned")
  /\ UNCHANGED <<run, held, job, aborted, gate, did, plan, chain, log, closings>>

\* Mutant: the slot is looked at and not taken.
ReserveNothing(c) ==
  /\ pc[c] = "admit" /\ Op[c] \in {"send", "revise"} /\ ~Active
  /\ Goto(c, "commit")
  /\ UNCHANGED <<run, held, job, aborted, gate, did, plan, chain, log, closings>>

\* sendMessage and revisePlan take the slot in the same turn as the guard.
Reserve(c) ==
  /\ pc[c] = "admit" /\ Op[c] \in {"send", "revise"} /\ ~Active
  /\ run' = Slot("scheduled", None, None)
  /\ Goto(c, "commit")
  /\ UNCHANGED <<held, job, aborted, gate, did, plan, chain, log, closings>>

\* commitUserMessageAndScheduleAssistant stores the message and announces it;
\* revisePlan and dismissPlan take the plan off the row and announce that.
Commit(c) ==
  /\ pc[c] = "commit" /\ Op[c] \in {"send", "revise", "dismiss"}
  /\ IF Op[c] = "send" THEN Emit("progress", c) /\ UNCHANGED plan
                       ELSE plan' = None /\ Emit("plan_settled", c)
  /\ Goto(c, IF Op[c] = "dismiss" THEN "emitting" ELSE "announce")
  /\ UNCHANGED <<run, held, job, aborted, gate, did, log, closings>>

\* Mutant: a failed commit keeps the reservation.
CommitFailsSilently(c) ==
  /\ "commit" \in Faults /\ Op[c] = "send"
  /\ \/ pc[c] = "commit"
     \/ pc[c] = "announce" /\ Persisted([type |-> "progress", of |-> c])
  /\ Goto(c, "thrown")
  /\ UNCHANGED <<run, held, job, aborted, gate, did, plan, chain, log, closings>>

\* sendMessage gives the slot back, whoever holds it, when its commit fails:
\* at the message, or once that is announced and the prompt is built.
CommitFails(c) ==
  /\ "commit" \in Faults /\ Op[c] = "send"
  /\ \/ pc[c] = "commit"
     \/ pc[c] = "announce" /\ Persisted([type |-> "progress", of |-> c])
  /\ ClearRun
  /\ Goto(c, "thrown")
  /\ UNCHANGED <<held, aborted, gate, did, plan, chain, log, closings>>

\* revisePlan has no handler of its own: the reservation stays.
ReviseFails(c) ==
  /\ "revise" \in Faults /\ pc[c] = "commit" /\ Op[c] = "revise"
  /\ Goto(c, "thrown")
  /\ UNCHANGED <<run, held, job, aborted, gate, did, plan, chain, log, closings>>

\* Mutant: a plan is executed while its run is still at work.
ApproveAnyway(c) ==
  /\ pc[c] = "planned" /\ Op[c] \in {"approve", "handoff"}
  /\ Goto(c, "commit")
  /\ UNCHANGED <<run, held, job, aborted, gate, did, plan, chain, log, closings>>

\* approvePlanExecution: the slot is looked at once and not reserved.
Approve(c) ==
  /\ pc[c] = "planned" /\ Op[c] \in {"approve", "handoff"}
  /\ Goto(c, IF Active THEN "thrown" ELSE "commit")
  /\ UNCHANGED <<run, held, job, aborted, gate, did, plan, chain, log, closings>>

\* Mutant: the plan stays on the row.
ApproveKeepsPlan(c) ==
  /\ pc[c] = "commit" /\ Op[c] \in {"approve", "handoff"}
  /\ Emit("plan_settled", c)
  /\ Goto(c, "announce")
  /\ UNCHANGED <<run, held, job, aborted, gate, did, plan, log, closings>>

\* Several awaits later the plan leaves the row and plan.approved is emitted.
ApproveClear(c) ==
  /\ pc[c] = "commit" /\ Op[c] \in {"approve", "handoff"}
  /\ plan' = None
  /\ Emit("plan_settled", c)
  /\ Goto(c, "announce")
  /\ UNCHANGED <<run, held, job, aborted, gate, did, log, closings>>

Announced(c) == [type |-> IF Op[c] = "send" THEN "progress" ELSE "plan_settled",
                 of |-> c]

\* The awaited emit is persisted: scheduleAssistant, on this thread's slot or,
\* for a handed-off plan, on the new thread's.
StartTurn(c) ==
  /\ pc[c] = "announce" /\ Persisted(Announced(c))
  /\ IF Op[c] = "handoff"
     THEN job' = [job EXCEPT ![c] = "elsewhere"] /\ UNCHANGED run
     ELSE Schedule(c)
  /\ Goto(c, IF Op[c] = "send" THEN "reread" ELSE "returned")
  /\ UNCHANGED <<held, aborted, gate, did, plan, chain, log, closings>>

\* sendMessage reads the stored message back for its response, ...
Reread(c) ==
  /\ pc[c] = "reread"
  /\ Goto(c, "returned")
  /\ UNCHANGED <<run, held, job, aborted, gate, did, plan, chain, log, closings>>

\* ... and if that fails it gives the slot back, the scheduled run with it.
RereadFails(c) ==
  /\ "reread" \in Faults /\ pc[c] = "reread"
  /\ ClearRun
  /\ Goto(c, "thrown")
  /\ UNCHANGED <<held, aborted, gate, did, plan, chain, log, closings>>

\* dismissPlan looks at the slot once and does not take it.
Dismiss(c) ==
  /\ pc[c] = "admit" /\ Op[c] = "dismiss" /\ ~Active
  /\ Goto(c, "commit")
  /\ UNCHANGED <<run, held, job, aborted, gate, did, plan, chain, log, closings>>

\* stopRun while a gate is open: only the gates are cancelled.
StopGates(c) ==
  /\ pc[c] = "admit" /\ Op[c] = "stop" /\ Active /\ Pending # {}
  /\ gate' = Rejected
  /\ Goto(c, "returned")
  /\ UNCHANGED <<run, held, job, aborted, did, plan, chain, log, closings>>

\* Mutant: the run is stopped but still begins.
StopTimerLate(c) ==
  /\ pc[c] = "admit" /\ Op[c] = "stop" /\ Active /\ Pending = {}
  /\ run.timer # None
  /\ run' = NoRun
  /\ held' = [held EXCEPT ![c].target = run.timer]
  /\ Emit("closed", run.timer)
  /\ Goto(c, "emitting")
  /\ UNCHANGED <<job, aborted, gate, did, plan, log, closings>>

\* Mutant: the event is built from the slot after it was cleared.
StopNobody(c) ==
  /\ pc[c] = "admit" /\ Op[c] = "stop" /\ Active /\ Pending = {}
  /\ run.timer # None
  /\ run' = NoRun
  /\ job' = [job EXCEPT ![run.timer] = IF @ = "timer" THEN "stopped" ELSE @]
  /\ held' = [held EXCEPT ![c].target = run.timer]
  /\ Emit("closed", NoRun.timer)
  /\ Goto(c, "emitting")
  /\ UNCHANGED <<aborted, gate, did, plan, log, closings>>

\* stopRun before the run starts: the timer and the slot go, and the turn is
\* closed on the run's behalf.
StopTimer(c) ==
  /\ pc[c] = "admit" /\ Op[c] = "stop" /\ Active /\ Pending = {}
  /\ run.timer # None
  /\ run' = NoRun
  /\ job' = [job EXCEPT ![run.timer] = IF @ = "timer" THEN "stopped" ELSE @]
  /\ held' = [held EXCEPT ![c].target = run.timer]
  /\ Emit("closed", run.timer)
  /\ Goto(c, "emitting")
  /\ UNCHANGED <<aborted, gate, did, plan, log, closings>>

\* stopRun of a run in progress, and of a reservation it cannot cancel.
StopAbort(c) ==
  /\ pc[c] = "admit" /\ Op[c] = "stop" /\ Active /\ Pending = {}
  /\ run.timer = None
  /\ IF run.ctl = None THEN Goto(c, "thrown") /\ UNCHANGED aborted
     ELSE aborted' = aborted \cup {run.ctl} /\ Goto(c, "returned")
  /\ UNCHANGED <<run, held, job, gate, did, plan, chain, log, closings>>

\* resolvePermission, answerQuestion: announce the decision first, also for a
\* request that is not pending (None), ...
Resolve(c) ==
  /\ pc[c] = "loaded" /\ Op[c] = "resolve"
  /\ \E j \in Pending \cup {None} : held' = [held EXCEPT ![c].target = j]
  /\ Emit("progress", c)
  /\ Goto(c, "emitting")
  /\ UNCHANGED <<run, job, aborted, gate, did, plan, log, closings>>

\* ... except a permission that is known to be resolved.
ResolvedAlready(c) ==
  /\ pc[c] = "loaded" /\ Op[c] = "resolve"
  /\ \E j \in Calls : gate[j] = "answered"
  /\ Goto(c, "returned")
  /\ UNCHANGED <<run, held, job, aborted, gate, did, plan, chain, log, closings>>

\* The finally block: settle the gate, and wake the thread if it was the last.
Resolved(c) ==
  /\ pc[c] = "emitting" /\ Op[c] = "resolve" /\ held[c].target # None
  /\ Persisted([type |-> "progress", of |-> c])
  /\ LET j == held[c].target IN
       /\ gate' = [gate EXCEPT ![j] = IF @ = "pending" THEN "answered" ELSE @]
       /\ run' = IF Pending \ {j} = {} THEN Marked("running") ELSE run
  /\ Goto(c, "returned")
  /\ UNCHANGED <<held, job, aborted, did, plan, chain, log, closings>>

Awaited(c) == CASE Op[c] = "stop"    -> [type |-> "closed", of |-> held[c].target]
                [] Op[c] = "dismiss" -> [type |-> "plan_settled", of |-> c]
                [] OTHER             -> [type |-> "progress", of |-> c]

\* A call whose last await is an emit.
Return(c) ==
  /\ pc[c] = "emitting" /\ ~(Op[c] = "resolve" /\ held[c].target # None)
  /\ Persisted(Awaited(c))
  /\ Goto(c, "returned")
  /\ UNCHANGED <<run, held, job, aborted, gate, did, plan, chain, log, closings>>

----------------------------------------------------------------------------
(* The assistant run of call j: runAssistant and the runner's callbacks *)

\* The timer's callback enters runAssistant, which takes the slot with its
\* own AbortController before its first await.
Begin(j) ==
  /\ job[j] = "timer"
  /\ job' = [job EXCEPT ![j] = "running"]
  /\ run' = Slot("running", None, j)
  /\ UNCHANGED <<pc, held, aborted, gate, did, plan, chain, log, closings>>

May(j, act) == job[j] = "running" /\ act \in Acts /\ act \notin did[j]

\* onText and the other callbacks that only emit.
Text(j) ==
  /\ May(j, "text")
  /\ did' = [did EXCEPT ![j] = @ \cup {"text"}]
  /\ Emit("progress", j)
  /\ UNCHANGED <<run, pc, held, job, aborted, gate, plan, log, closings>>

\* onToolStarted, onSubagentStarted: the id goes to the slot's current run.
ToolStart(j) ==
  /\ May(j, "tool")
  /\ did' = [did EXCEPT ![j] = @ \cup {"tool"}]
  /\ run' = IF Active THEN [run EXCEPT !.tools = @ \cup {j}] ELSE run
  /\ Emit("progress", j)
  /\ UNCHANGED <<pc, held, job, aborted, gate, plan, log, closings>>

\* onToolFinished, onSubagentStopped
ToolFinish(j) ==
  /\ job[j] = "running" /\ "tool" \in did[j] /\ "tool_end" \notin did[j]
  /\ did' = [did EXCEPT ![j] = @ \cup {"tool_end"}]
  /\ run' = IF Active THEN [run EXCEPT !.tools = @ \ {j}] ELSE run
  /\ Emit("progress", j)
  /\ UNCHANGED <<pc, held, job, aborted, gate, plan, log, closings>>

\* onPermissionRequest, onQuestionRequest: the runner waits for the answer.
AskGate(j) ==
  /\ May(j, "gate")
  /\ did' = [did EXCEPT ![j] = @ \cup {"gate"}]
  /\ gate' = [gate EXCEPT ![j] = "pending"]
  /\ run' = Marked("waiting_gate")
  /\ Emit("progress", j)
  /\ UNCHANGED <<pc, held, job, aborted, plan, log, closings>>

\* onPlanFileDetected: mark the slot, emit plan.created, ...
PlanDetect(j) ==
  /\ May(j, "plan")
  /\ did' = [did EXCEPT ![j] = @ \cup {"plan"}]
  /\ run' = Marked("waiting_plan")
  /\ Emit("plan_created", j)
  /\ UNCHANGED <<pc, held, job, aborted, gate, plan, log, closings>>

\* ... and, once that is persisted, write the plan on the thread row.
PlanSave(j) ==
  /\ "plan" \in did[j] /\ "plan_saved" \notin did[j]
  /\ Persisted([type |-> "plan_created", of |-> j])
  /\ did' = [did EXCEPT ![j] = @ \cup {"plan_saved"}]
  /\ plan' = j
  /\ UNCHANGED <<run, pc, held, job, aborted, gate, chain, log, closings>>

SavingPlan(j) == "plan" \in did[j] /\ "plan_saved" \notin did[j]

\* Mutant: a run that ends says nothing.
EndSilently(j) ==
  /\ job[j] = "running"
  /\ gate[j] # "pending" /\ ~SavingPlan(j)
  /\ job' = [job EXCEPT ![j] = "closing"]
  /\ Emit("progress", j)
  /\ UNCHANGED <<run, pc, held, aborted, gate, did, plan, log, closings>>

\* The runner returns or throws, and the terminal event is emitted.  A runner
\* waits for the callbacks it has made unless it is aborted or dies.
End(j) ==
  /\ job[j] = "running"
  /\ \/ gate[j] # "pending" /\ ~SavingPlan(j)
     \/ j \in aborted
     \/ "crash" \in Acts
  /\ job' = [job EXCEPT ![j] = "closing"]
  /\ Emit("closed", j)
  /\ UNCHANGED <<run, pc, held, aborted, gate, did, plan, log, closings>>

\* Mutant: the slot survives the run.
FinallyKeepsSlot(j) ==
  /\ job[j] = "closing" /\ Persisted([type |-> "closed", of |-> j])
  /\ job' = [job EXCEPT ![j] = "done"]
  /\ UNCHANGED <<run, pc, held, aborted, gate, did, plan, chain, log, closings>>

\* Mutant: the run's open gates survive it.
FinallyKeepsGates(j) ==
  /\ job[j] = "closing" /\ Persisted([type |-> "closed", of |-> j])
  /\ job' = [job EXCEPT ![j] = "done"]
  /\ run' = IF run.ctl = j THEN NoRun ELSE run
  /\ UNCHANGED <<pc, held, aborted, gate, did, plan, chain, log, closings>>

\* Mutant: a run clears the slot whoever owns it by now.
FinallyOfAnybody(j) ==
  /\ job[j] = "closing" /\ Persisted([type |-> "closed", of |-> j])
  /\ run' = NoRun /\ job' = [Disarmed EXCEPT ![j] = "done"] /\ gate' = Rejected
  /\ UNCHANGED <<pc, held, aborted, did, plan, chain, log, closings>>

\* The finally block: only the run that still owns the slot clears it.
Finally(j) ==
  /\ job[j] = "closing" /\ Persisted([type |-> "closed", of |-> j])
  /\ IF run.ctl = j
     THEN run' = NoRun /\ job' = [Disarmed EXCEPT ![j] = "done"] /\ gate' = Rejected
     ELSE job' = [job EXCEPT ![j] = "done"] /\ UNCHANGED <<run, gate>>
  /\ UNCHANGED <<pc, held, aborted, did, plan, chain, log, closings>>

\* emitPostCompletionMetadata: title and branch news after the turn closed.
Metadata(j) ==
  /\ "metadata" \in Acts \ did[j] /\ job[j] \in {"closing", "done"}
  /\ Persisted([type |-> "closed", of |-> j])
  /\ did' = [did EXCEPT ![j] = @ \cup {"metadata"}]
  /\ Emit("progress", j)
  /\ UNCHANGED <<run, pc, held, job, aborted, gate, plan, log, closings>>

----------------------------------------------------------------------------
(* The event chain: eventHub's per-thread queue persists one at a time *)

Persist ==
  /\ chain # <<>>
  /\ LET e == Head(chain) IN
       /\ log' = [count |-> log.count + 1, last |-> e.type,
                  openPlan |-> CASE e.type = "plan_created" -> e.of
                                 [] e.type = "plan_settled" -> None
                                 [] OTHER                   -> log.openPlan]
       /\ closings' = IF e.type = "closed"
                      THEN [closings EXCEPT ![e.of] = @ + 1] ELSE closings
  /\ chain' = Tail(chain)
  /\ UNCHANGED <<run, pc, held, job, aborted, gate, did, plan>>

----------------------------------------------------------------------------
Init ==
  /\ run = NoRun
  /\ pc = [c \in Calls |-> "idle"]
  /\ held = [c \in Calls |-> NoMemory]
  /\ job = [c \in Calls |-> "none"]
  /\ aborted = {}
  /\ gate = [c \in Calls |-> "none"]
  /\ did = [c \in Calls |-> {}]
  /\ plan = None
  /\ chain = <<>>
  /\ log = [count |-> 0, last |-> "none", openPlan |-> None]
  /\ closings = [c \in Calls |-> 0]

\* A call goes on from where it awaits.
Continue(c) ==
  \/ RecoverPlan(c) \/ RewritePlan(c) \/ Reconcile(c) \/ ReadLastEvent(c)
  \/ Judge(c) \/ Refuse(c) \/ Snapshot(c) \/ Reserve(c) \/ Commit(c)
  \/ CommitFails(c) \/ ReviseFails(c) \/ Approve(c) \/ ApproveClear(c)
  \/ StartTurn(c) \/ Dismiss(c) \/ StopGates(c) \/ StopTimer(c)
  \/ StopAbort(c) \/ Resolve(c) \/ Resolved(c) \/ Return(c)
  \/ ResolvedAlready(c) \/ Reread(c) \/ RereadFails(c)

\* What a run does of itself, and what its runner may choose to do.
Proceed(j) == Begin(j) \/ PlanSave(j) \/ End(j) \/ Finally(j)
Runner(j)  == \/ Text(j) \/ ToolStart(j) \/ ToolFinish(j) \/ AskGate(j)
              \/ PlanDetect(j) \/ Metadata(j)

Next ==
  \/ \E c \in Calls : Load(c) \/ Continue(c) \/ Proceed(c) \/ Runner(c)
  \/ Persist

Spec == Init /\ [][Next]_vars

\* Node resumes every settled await, fires every timer and persists every
\* event; that an agent runner eventually returns is assumed of the agent.
Fairness ==
  /\ \A c \in Calls : WF_vars(Continue(c)) /\ WF_vars(Proceed(c))
  /\ WF_vars(Persist)

FairSpec == Spec /\ Fairness

----------------------------------------------------------------------------
(* Properties *)

\* Types, with the step and phase names of every call.
TypeOK ==
  /\ run \in Slots
  /\ pc \in [Calls -> Steps]
  /\ held \in [Calls -> Memory]
  /\ job \in [Calls -> JobPhases]
  /\ aborted \subseteq Calls
  /\ gate \in [Calls -> {"none", "pending", "answered", "rejected"}]
  /\ did \in [Calls -> SUBSET Callbacks]
  /\ plan \in CallOrNone
  /\ chain \in Seq(Events)
  /\ log \in [count : Nat, last : EventTypes \cup {"none"}, openPlan : CallOrNone]
  /\ closings \in [Calls -> Nat]

Live(j) == job[j] = "running" /\ j \notin aborted

\* Two assistant runs never work on one thread at once, an aborted one that is
\* still winding down aside: what the guard "Assistant is still processing"
\* of sendMessage is there for.
OneLiveRun == \A i, j \in Calls : Live(i) /\ Live(j) => i = j

\* An armed timer is always the slot's own, and a controller in the slot
\* belongs to a run that has not finished: every scheduled turn can still be
\* stopped, and no finished run can keep its thread busy.
SlotOwned ==
  /\ \A j \in Calls : job[j] = "timer" <=> run.timer = j
  /\ \A j \in Calls : run.ctl = j => job[j] \in {"running", "closing"}

\* A turn is given at most one terminal event, and a run that is over, or was
\* stopped before it began, has been given it.
TurnClosedOnce ==
  \A j \in Calls :
    /\ closings[j] <= 1
    /\ job[j] = "done" => closings[j] = 1
    /\ closings[j] = 1 => job[j] \in {"closing", "done", "stopped"}

\* No scheduled turn is cancelled without a word: its timer is cleared only by
\* a stop, which emits chat.completed for it.
NoTurnDropped == \A j \in Calls : job[j] # "dropped"

\* Turns neither overlap nor push each other out: of calls that pass the guard of
\* sendMessage together, across the awaits of their reconciliations, one is let in.
TurnsKeepApart == OneLiveRun /\ NoTurnDropped

\* One plan is approved, handed off, revised or dismissed by one call only.
PlanSettledOnce ==
  \A c, d \in Calls :
    /\ c # d /\ Op[c] \in PlanOps /\ Op[d] \in PlanOps
    /\ {pc[c], pc[d]} \subseteq {"announce", "emitting", "returned"}
    => held[c].plan # held[d].plan

\* When nothing is scheduled, running or in flight, the thread is idle: no
\* leftover entry makes it refuse messages for good.
IdleWhenQuiet ==
  (\A c \in Calls : ~InFlight(c) /\ job[c] \notin {"timer", "running", "closing"})
    => ~Active

\* A request for a decision belongs to a run that can still act on it.
GateHasRun == \A j \in Pending : job[j] \in {"running", "closing"}

Turn(c) == Op[c] \in {"send", "revise", "approve"} /\ pc[c] = "returned"

\* Every turn that was accepted is closed by a terminal event: the stream the
\* user watches does not stay silent, unless it waits for the user.
EveryTurnCloses ==
  \A c \in Calls : Turn(c) ~> closings[c] = 1 \/ gate[c] = "pending"

\* A taken slot is free again some time later.
SlotIsFreed == Active ~> ~Active
=============================================================================
