--------------------------- MODULE ThreadRunProofs ---------------------------
(***************************************************************************)
(* Proofs about ThreadRun, for every set of calls, every choice of their   *)
(* endpoints, every degree of overlap and every fault.                     *)
(***************************************************************************)
EXTENDS ThreadRun, FiniteSetTheorems, TLAPS

(***************************************************************************)
(* Every variable stays within its type.                                   *)
(***************************************************************************)
LEMMA TypeInit == Init => TypeOK
  BY CallsAssumption
  DEF Init, TypeOK, NoRun, NoMemory, Memory, Slots, RunStatus, CallOrNone, Steps,
      JobPhases, Events

\* What is emitted is an event.
LEMMA EmitType ==
  ASSUME TypeOK, NEW type \in EventTypes, NEW c \in Calls, Emit(type, c)
  PROVE  chain' \in Seq(Events)
  BY DEF TypeOK, Emit, Events

\* A fresh entry of the slot has the slot's type, ...
LEMMA SlotType ==
  ASSUME TypeOK, NEW status \in RunStatus, NEW timer \in CallOrNone,
         NEW ctl \in CallOrNone
  PROVE  Slot(status, timer, ctl) \in Slots
  BY DEF TypeOK, Slot, Slots, Stamped

\* ... and so has an entry whose status is changed.
LEMMA MarkedType ==
  ASSUME TypeOK, NEW status \in RunStatus
  PROVE  Marked(status) \in Slots
  BY DEF TypeOK, Marked, Slots

\* The empty slot has the slot's type.
LEMMA NoRunType == NoRun \in Slots
  BY CallsAssumption DEF NoRun, Slots, RunStatus, CallOrNone

\* Clearing the slot keeps types, ...
LEMMA ClearRunType ==
  ASSUME TypeOK, ClearRun
  PROVE  run' \in Slots /\ job' \in [Calls -> JobPhases]
  BY NoRunType DEF TypeOK, ClearRun, JobPhases, Disarmed

\* ... and so does scheduling a run.
LEMMA ScheduleType ==
  ASSUME TypeOK, NEW c \in Calls, Schedule(c)
  PROVE  run' \in Slots /\ job' \in [Calls -> JobPhases]
  BY SlotType DEF TypeOK, Schedule, JobPhases, RunStatus, CallOrNone, Disarmed

\* A call that notes a target remembers what a call may remember.
LEMMA TargetType ==
  ASSUME TypeOK, NEW c \in Calls, NEW k \in CallOrNone,
         held' = [held EXCEPT ![c].target = k]
  PROVE  held' \in [Calls -> Memory]
<1>1. held[c] \in Memory
  BY DEF TypeOK
<1>2. [held[c] EXCEPT !.target = k] \in Memory
  BY <1>1 DEF Memory
<1>3. QED
  BY <1>2 DEF TypeOK

\* Rejecting the pending gates keeps the gates' type.
LEMMA RejectedType ==
  ASSUME TypeOK
  PROVE  Rejected \in [Calls -> {"none", "pending", "answered", "rejected"}]
  BY DEF TypeOK, Rejected

\* Every call is at a step.
LEMMA StepType == ASSUME TypeOK PROVE pc \in [Calls -> Steps]
  BY DEF TypeOK

\* What a call does after an await keeps the types, ...
LEMMA TypeContinue ==
  ASSUME TypeOK, NEW c \in Calls, Continue(c)
  PROVE  TypeOK'
<1>1. CASE RecoverPlan(c)
  <2>1. pc' \in [Calls -> Steps]
    BY <1>1, StepType DEF RecoverPlan, Goto, Steps
  <2>2. held' \in [Calls -> Memory]
    <3>1. held[c] \in Memory /\ log.openPlan \in CallOrNone
      BY <1>1 DEF TypeOK
    <3>2. [held[c] EXCEPT !.plan = log.openPlan] \in Memory
      BY <3>1 DEF Memory
    <3>3. QED
      BY <1>1, <3>2 DEF RecoverPlan, TypeOK
  <2>3. QED
    BY <1>1, <2>1, <2>2 DEF RecoverPlan, TypeOK
<1>2. CASE RewritePlan(c)
  <2>1. pc' \in [Calls -> Steps]
    BY <1>2, StepType DEF RewritePlan, Goto, Steps
  <2>2. plan' \in CallOrNone
    BY <1>2 DEF RewritePlan, TypeOK, Memory
  <2>3. QED
    BY <1>2, <2>1, <2>2 DEF RewritePlan, TypeOK
<1>3. CASE Reconcile(c)
  <2>1. pc' \in [Calls -> Steps]
    BY <1>3, StepType DEF Reconcile, Goto, Steps
  <2>2. held[c] \in Memory /\ [held[c] EXCEPT !.cur = run] \in Memory
    BY ZenonT(60), <1>3 DEF TypeOK, Memory
  <2>3. held' \in [Calls -> Memory]
    BY <1>3, <2>2 DEF Reconcile, TypeOK
  <2>4. QED
    BY <1>3, <2>1, <2>3 DEF Reconcile, TypeOK
<1>4. CASE ReadLastEvent(c)
  <2>1. pc' \in [Calls -> Steps]
    BY <1>4, StepType DEF ReadLastEvent, Goto, Steps
  <2>2. \A b \in BOOLEAN : [held[c] EXCEPT !.closed = b] \in Memory
    BY ZenonT(60), <1>4 DEF TypeOK, Memory
  <2>3. held' \in [Calls -> Memory]
    BY <1>4, <2>2 DEF ReadLastEvent, TypeOK
  <2>4. QED
    BY <1>4, <2>1, <2>3 DEF ReadLastEvent, TypeOK
<1>5. CASE Judge(c)
  <2>1. pc' \in [Calls -> Steps]
    BY <1>5, StepType DEF Judge, Goto, Steps
  <2>2. held' \in [Calls -> Memory]
    BY ZenonT(60), <1>5, NoRunType DEF Judge, TypeOK, Memory
  <2>3. run' \in Slots /\ job' \in [Calls -> JobPhases]
    BY <1>5, ClearRunType, MarkedType DEF Judge, TypeOK, RunStatus
  <2>4. gate' \in [Calls -> {"none", "pending", "answered", "rejected"}]
    BY <1>5, RejectedType DEF Judge, TypeOK
  <2>5. QED
    BY <1>5, <2>1, <2>2, <2>3, <2>4 DEF Judge, TypeOK
<1>6. CASE Refuse(c)
  <2>1. pc' \in [Calls -> Steps]
    BY <1>6, StepType DEF Refuse, Goto, Steps
  <2>2. QED
    BY <1>6, <2>1 DEF Refuse, TypeOK
<1>7. CASE Snapshot(c)
  <2>1. pc' \in [Calls -> Steps]
    BY <1>7, StepType DEF Snapshot, Goto, Steps
  <2>2. QED
    BY <1>7, <2>1 DEF Snapshot, TypeOK
<1>8. CASE Reserve(c)
  <2>1. pc' \in [Calls -> Steps]
    BY <1>8, StepType DEF Reserve, Goto, Steps
  <2>2. run' \in Slots
    BY <1>8, SlotType DEF Reserve, RunStatus, CallOrNone
  <2>3. QED
    BY <1>8, <2>1, <2>2 DEF Reserve, TypeOK
<1>9. CASE Commit(c)
  <2>1. pc' \in [Calls -> Steps]
    BY <1>9, StepType DEF Commit, Goto, Steps
  <2>2. chain' \in Seq(Events)
    BY <1>9, EmitType DEF Commit, EventTypes
  <2>3. plan' \in CallOrNone
    BY <1>9 DEF Commit, TypeOK, CallOrNone
  <2>4. QED
    BY <1>9, <2>1, <2>2, <2>3 DEF Commit, TypeOK
<1>10. CASE CommitFails(c)
  <2>1. pc' \in [Calls -> Steps]
    BY <1>10, StepType DEF CommitFails, Goto, Steps
  <2>2. run' \in Slots /\ job' \in [Calls -> JobPhases]
    BY <1>10, ClearRunType DEF CommitFails
  <2>3. QED
    BY <1>10, <2>1, <2>2 DEF CommitFails, TypeOK
<1>11. CASE ReviseFails(c)
  <2>1. pc' \in [Calls -> Steps]
    BY <1>11, StepType DEF ReviseFails, Goto, Steps
  <2>2. QED
    BY <1>11, <2>1 DEF ReviseFails, TypeOK
<1>12. CASE Approve(c)
  <2>1. pc' \in [Calls -> Steps]
    BY <1>12, StepType DEF Approve, Goto, Steps
  <2>2. QED
    BY <1>12, <2>1 DEF Approve, TypeOK
<1>13. CASE ApproveClear(c)
  <2>1. pc' \in [Calls -> Steps]
    BY <1>13, StepType DEF ApproveClear, Goto, Steps
  <2>2. chain' \in Seq(Events)
    BY <1>13, EmitType DEF ApproveClear, EventTypes
  <2>3. plan' \in CallOrNone
    BY <1>13 DEF ApproveClear, CallOrNone
  <2>4. QED
    BY <1>13, <2>1, <2>2, <2>3 DEF ApproveClear, TypeOK
<1>14. CASE StartTurn(c)
  <2>1. pc' \in [Calls -> Steps]
    BY <1>14, StepType DEF StartTurn, Goto, Steps
  <2>2. run' \in Slots /\ job' \in [Calls -> JobPhases]
    BY <1>14, ScheduleType DEF StartTurn, TypeOK, JobPhases
  <2>3. QED
    BY <1>14, <2>1, <2>2 DEF StartTurn, TypeOK
<1>15. CASE Dismiss(c)
  <2>1. pc' \in [Calls -> Steps]
    BY <1>15, StepType DEF Dismiss, Goto, Steps
  <2>2. QED
    BY <1>15, <2>1 DEF Dismiss, TypeOK
<1>16. CASE StopGates(c)
  <2>1. pc' \in [Calls -> Steps]
    BY <1>16, StepType DEF StopGates, Goto, Steps
  <2>2. gate' \in [Calls -> {"none", "pending", "answered", "rejected"}]
    BY <1>16, RejectedType DEF StopGates
  <2>3. QED
    BY <1>16, <2>1, <2>2 DEF StopGates, TypeOK
<1>17. CASE StopTimer(c)
  <2>1. run.timer \in Calls
    BY <1>17 DEF StopTimer, TypeOK, Slots, CallOrNone
  <2>2. pc' \in [Calls -> Steps]
    BY <1>17, StepType DEF StopTimer, Goto, Steps
  <2>3. run' \in Slots /\ job' \in [Calls -> JobPhases]
    BY <1>17, <2>1, NoRunType DEF StopTimer, TypeOK, JobPhases
  <2>4. held' \in [Calls -> Memory]
    BY <1>17, <2>1, TargetType DEF StopTimer, CallOrNone
  <2>5. chain' \in Seq(Events)
    BY <1>17, <2>1, EmitType DEF StopTimer, EventTypes
  <2>6. QED
    BY <1>17, <2>2, <2>3, <2>4, <2>5 DEF StopTimer, TypeOK
<1>18. CASE StopAbort(c)
  <2>1. pc' \in [Calls -> Steps]
    BY <1>18, StepType DEF StopAbort, Goto, Steps
  <2>2. aborted' \subseteq Calls
    BY <1>18 DEF StopAbort, TypeOK, Slots, CallOrNone
  <2>3. QED
    BY <1>18, <2>1, <2>2 DEF StopAbort, TypeOK
<1>19. CASE Resolve(c)
  <2>1. pc' \in [Calls -> Steps]
    BY <1>19, StepType DEF Resolve, Goto, Steps
  <2>3. held' \in [Calls -> Memory]
    <3>1. PICK k \in CallOrNone : held' = [held EXCEPT ![c].target = k]
      BY <1>19 DEF Resolve, Pending, CallOrNone
    <3>2. QED
      BY <3>1, TargetType
  <2>4. chain' \in Seq(Events)
    BY <1>19, EmitType DEF Resolve, EventTypes
  <2>5. QED
    BY <1>19, <2>1, <2>3, <2>4 DEF Resolve, TypeOK
<1>20. CASE Resolved(c)
  <2>1. pc' \in [Calls -> Steps]
    BY <1>20, StepType DEF Resolved, Goto, Steps
  <2>2. run' \in Slots
    BY <1>20, MarkedType DEF Resolved, TypeOK, RunStatus
  <2>3. gate' \in [Calls -> {"none", "pending", "answered", "rejected"}]
    BY <1>20 DEF Resolved, TypeOK
  <2>4. QED
    BY <1>20, <2>1, <2>2, <2>3 DEF Resolved, TypeOK
<1>21. CASE Return(c)
  <2>1. pc' \in [Calls -> Steps]
    BY <1>21, StepType DEF Return, Goto, Steps
  <2>2. QED
    BY <1>21, <2>1 DEF Return, TypeOK
<1>22. CASE ResolvedAlready(c) \/ Reread(c)
  <2>1. pc' \in [Calls -> Steps]
    BY <1>22, StepType DEF ResolvedAlready, Reread, Goto, Steps
  <2>2. QED
    BY <1>22, <2>1 DEF ResolvedAlready, Reread, TypeOK
<1>23. CASE RereadFails(c)
  <2>1. pc' \in [Calls -> Steps]
    BY <1>23, StepType DEF RereadFails, Goto, Steps
  <2>2. run' \in Slots /\ job' \in [Calls -> JobPhases]
    BY <1>23, ClearRunType DEF RereadFails
  <2>3. QED
    BY <1>23, <2>1, <2>2 DEF RereadFails, TypeOK
<1>24. QED
  BY <1>1, <1>2, <1>3, <1>4, <1>5, <1>6, <1>7, <1>8, <1>9, <1>10, <1>11,
     <1>12, <1>13, <1>14, <1>15, <1>16, <1>17, <1>18, <1>19, <1>20, <1>21,
     <1>22, <1>23
  DEF Continue

\* ... what a run does on its own, ...
LEMMA TypeProceed ==
  ASSUME TypeOK, NEW j \in Calls, Proceed(j)
  PROVE  TypeOK'
<1>1. CASE Begin(j)
  <2>1. run' \in Slots /\ job' \in [Calls -> JobPhases]
    BY <1>1, SlotType DEF Begin, TypeOK, JobPhases, RunStatus, CallOrNone
  <2>2. QED
    BY <1>1, <2>1 DEF Begin, TypeOK
<1>2. CASE PlanSave(j)
  <2>1. did' \in [Calls -> SUBSET Callbacks]
    BY <1>2 DEF PlanSave, TypeOK, Callbacks
  <2>2. plan' \in CallOrNone
    BY <1>2 DEF PlanSave, CallOrNone
  <2>3. QED
    BY <1>2, <2>1, <2>2 DEF PlanSave, TypeOK
<1>3. CASE End(j)
  <2>1. job' \in [Calls -> JobPhases]
    BY <1>3 DEF End, TypeOK, JobPhases
  <2>2. chain' \in Seq(Events)
    BY <1>3, EmitType DEF End, EventTypes
  <2>3. QED
    BY <1>3, <2>1, <2>2 DEF End, TypeOK
<1>4. CASE Finally(j)
  <2>1. run' \in Slots /\ job' \in [Calls -> JobPhases]
    BY <1>4, NoRunType DEF Finally, TypeOK, JobPhases, Disarmed
  <2>2. gate' \in [Calls -> {"none", "pending", "answered", "rejected"}]
    BY <1>4, RejectedType DEF Finally, TypeOK, Disarmed
  <2>3. QED
    BY <1>4, <2>1, <2>2 DEF Finally, TypeOK, Disarmed
<1>5. QED
  BY <1>1, <1>2, <1>3, <1>4 DEF Proceed

\* ... its callbacks, ...
LEMMA TypeRunner ==
  ASSUME TypeOK, NEW j \in Calls, Runner(j)
  PROVE  TypeOK'
<1>1. CASE Text(j)
  <2>1. did' \in [Calls -> SUBSET Callbacks]
    BY <1>1 DEF Text, TypeOK, Callbacks
  <2>2. chain' \in Seq(Events)
    BY <1>1, EmitType DEF Text, EventTypes
  <2>3. QED
    BY <1>1, <2>1, <2>2 DEF Text, TypeOK
<1>2. CASE ToolStart(j)
  <2>1. did' \in [Calls -> SUBSET Callbacks]
    BY <1>2 DEF ToolStart, TypeOK, Callbacks
  <2>2. chain' \in Seq(Events)
    BY <1>2, EmitType DEF ToolStart, EventTypes
  <2>3. run' \in Slots
    BY <1>2 DEF ToolStart, TypeOK, Slots
  <2>4. QED
    BY <1>2, <2>1, <2>2, <2>3 DEF ToolStart, TypeOK
<1>3. CASE ToolFinish(j)
  <2>1. did' \in [Calls -> SUBSET Callbacks]
    BY <1>3 DEF ToolFinish, TypeOK, Callbacks
  <2>2. chain' \in Seq(Events)
    BY <1>3, EmitType DEF ToolFinish, EventTypes
  <2>3. run' \in Slots
    BY <1>3 DEF ToolFinish, TypeOK, Slots
  <2>4. QED
    BY <1>3, <2>1, <2>2, <2>3 DEF ToolFinish, TypeOK
<1>4. CASE AskGate(j)
  <2>1. did' \in [Calls -> SUBSET Callbacks]
    BY <1>4 DEF AskGate, TypeOK, Callbacks
  <2>2. chain' \in Seq(Events)
    BY <1>4, EmitType DEF AskGate, EventTypes
  <2>3. run' \in Slots
    BY <1>4, MarkedType DEF AskGate, RunStatus
  <2>4. gate' \in [Calls -> {"none", "pending", "answered", "rejected"}]
    BY <1>4 DEF AskGate, TypeOK
  <2>5. QED
    BY <1>4, <2>1, <2>2, <2>3, <2>4 DEF AskGate, TypeOK
<1>5. CASE PlanDetect(j)
  <2>1. did' \in [Calls -> SUBSET Callbacks]
    BY <1>5 DEF PlanDetect, TypeOK, Callbacks
  <2>2. chain' \in Seq(Events)
    BY <1>5, EmitType DEF PlanDetect, EventTypes
  <2>3. run' \in Slots
    BY <1>5, MarkedType DEF PlanDetect, RunStatus
  <2>4. QED
    BY <1>5, <2>1, <2>2, <2>3 DEF PlanDetect, TypeOK
<1>6. CASE Metadata(j)
  <2>1. did' \in [Calls -> SUBSET Callbacks]
    BY <1>6 DEF Metadata, TypeOK, Callbacks
  <2>2. chain' \in Seq(Events)
    BY <1>6, EmitType DEF Metadata, EventTypes
  <2>3. QED
    BY <1>6, <2>1, <2>2 DEF Metadata, TypeOK
<1>7. QED
  BY <1>1, <1>2, <1>3, <1>4, <1>5, <1>6 DEF Runner

\* ... the arrival of a call ...
LEMMA TypeLoad ==
  ASSUME TypeOK, NEW c \in Calls, Load(c)
  PROVE  TypeOK'
<1>1. pc' \in [Calls -> Steps]
  BY DEF Load, Goto, TypeOK, Steps
<1>2. [held[c] EXCEPT !.row = plan, !.plan = plan] \in Memory
  BY ZenonT(60) DEF TypeOK, Memory
<1>3. held' \in [Calls -> Memory]
  BY <1>2 DEF Load, TypeOK
<1>4. QED
  BY <1>1, <1>3 DEF Load, TypeOK

\* ... and the persisting of an event.
LEMMA TypePersist ==
  ASSUME TypeOK, Persist
  PROVE  TypeOK'
<1>1. Head(chain) \in Events /\ chain' \in Seq(Events)
  BY DEF Persist, TypeOK
<1>2. log' \in [count : Nat, last : EventTypes \cup {"none"}, openPlan : CallOrNone]
  BY <1>1 DEF Persist, TypeOK, Events, EventTypes, CallOrNone
<1>3. closings' \in [Calls -> Nat]
  BY <1>1 DEF Persist, TypeOK, Events
<1>4. QED
  BY <1>1, <1>2, <1>3 DEF Persist, TypeOK

\* Every step keeps the types.
LEMMA TypeNext == TypeOK /\ [Next]_vars => TypeOK'
<1> SUFFICES ASSUME TypeOK, [Next]_vars PROVE TypeOK'
  OBVIOUS
<1>1. CASE UNCHANGED vars
  BY <1>1 DEF vars, TypeOK
<1>2. CASE Next
  BY <1>2, TypeLoad, TypeContinue, TypeProceed, TypeRunner, TypePersist
  DEF Next
<1>3. QED
  BY <1>1, <1>2

\* Whatever is called, overlaps and fails, the state keeps its types.
THEOREM TypeCorrect == Spec => []TypeOK
<1>1. Init => TypeOK
  BY TypeInit
<1>2. TypeOK /\ [Next]_vars => TypeOK'
  BY TypeNext
<1>3. QED
  BY <1>1, <1>2, PTL DEF Spec

(***************************************************************************)
(* The slot.  SlotOwned is not inductive: a reservation overwrites the     *)
(* entry, so an idle slot must hold no timer, and a call schedules its run *)
(* only once.                                                              *)
(***************************************************************************)
IdleIsEmpty == ~Active => run.timer = None /\ run.ctl = None
Past     == {"reread", "returned", "thrown"}
FreshJob == \A c \in Calls : pc[c] \notin Past => job[c] = "none"

\* Whatever is in the slot has an owner: a timer, a controller, or a call that
\* has reserved it and is on its way to scheduleAssistant.
Reserver(c) == pc[c] \in {"commit", "announce"} /\ Op[c] \in {"send", "revise"}
SlotHasOwner ==
  Active => run.timer # None \/ run.ctl # None \/ \E c \in Calls : Reserver(c)

SlotInv == SlotOwned /\ IdleIsEmpty /\ FreshJob

(***************************************************************************)
(* The terminal events.  An event on its way in the chain counts as given  *)
(* once: no other is in the chain for that run and none is persisted.      *)
(***************************************************************************)
Closing(j) == [type |-> "closed", of |-> j]

OneClosingInChain ==
  \A i, k \in DOMAIN chain :
    chain[i].type = "closed" /\ chain[i] = chain[k] => i = k

ClosingIsDue ==
  \A i \in DOMAIN chain :
    chain[i].type = "closed" =>
      closings[chain[i].of] = 0 /\ job[chain[i].of] \in {"closing", "stopped"}

ClosingIsGiven ==
  \A j \in Calls :
    job[j] \in {"closing", "stopped"} => ~Persisted(Closing(j)) \/ closings[j] = 1

ClosingInv == OneClosingInChain /\ ClosingIsDue /\ ClosingIsGiven /\ TurnClosedOnce

IInv == TypeOK /\ SlotInv /\ ClosingInv

\* The slot's invariant holds at first.
LEMMA SlotInit == Init => SlotInv
  BY CallsAssumption
  DEF Init, SlotInv, SlotOwned, IdleIsEmpty, FreshJob, Past, Active, NoRun

\* A step that moves calls forward, changes the status of a taken slot at most
\* and touches no run.
LEMMA SlotFrame ==
  ASSUME SlotInv, UNCHANGED job,
         run'.timer = run.timer, run'.ctl = run.ctl,
         run'.status = "idle" => run.status = "idle",
         \A d \in Calls : pc[d] \in Past => pc'[d] \in Past
  PROVE  SlotInv'
  BY DEF SlotInv, SlotOwned, IdleIsEmpty, FreshJob, Active

\* Changing the status of the slot keeps its owner.
LEMMA MarkedKeeps ==
  ASSUME TypeOK, NEW status \in RunStatus \ {"idle"}
  PROVE  /\ Marked(status).timer = run.timer
         /\ Marked(status).ctl = run.ctl
         /\ Marked(status).status = "idle" => run.status = "idle"
  BY DEF TypeOK, Marked, Slots, Active

\* A step that empties the slot, whether its timer is dropped or stopped.
LEMMA SlotEmptied ==
  ASSUME TypeOK, SlotInv, run' = NoRun,
         \A j \in Calls : j # run.timer => job'[j] = job[j],
         \A j \in Calls : j = run.timer => job'[j] \in {"dropped", "stopped"},
         \A d \in Calls : pc[d] \in Past => pc'[d] \in Past
  PROVE  SlotInv'
<1>1. SlotOwned'
  BY CallsAssumption DEF SlotInv, SlotOwned, NoRun
<1>2. IdleIsEmpty'
  BY DEF IdleIsEmpty, NoRun
<1>3. FreshJob'
  BY DEF SlotInv, SlotOwned, FreshJob
<1>4. QED
  BY <1>1, <1>2, <1>3 DEF SlotInv

\* Clearing the slot drops the armed run and no other.
LEMMA ClearRunDrops ==
  ASSUME TypeOK, ClearRun
  PROVE  /\ run' = NoRun
         /\ \A j \in Calls : j # run.timer \/ job[j] # "timer" => job'[j] = job[j]
         /\ \A j \in Calls : j = run.timer /\ job[j] = "timer" => job'[j] = "dropped"
  BY CallsAssumption DEF TypeOK, ClearRun, Disarmed

\* What a call does after an await keeps the slot's invariant.
LEMMA SlotContinue ==
  ASSUME TypeOK, SlotInv, NEW c \in Calls, Continue(c)
  PROVE  SlotInv'
<1>1. CASE RecoverPlan(c)
  BY <1>1, StepType, SlotFrame DEF RecoverPlan, Goto, Past
<1>2. CASE RewritePlan(c)
  BY <1>2, StepType, SlotFrame DEF RewritePlan, Goto, Past
<1>3. CASE Reconcile(c)
  BY <1>3, StepType, SlotFrame DEF Reconcile, Goto, Past
<1>4. CASE ReadLastEvent(c)
  BY <1>4, StepType, SlotFrame DEF ReadLastEvent, Goto, Past
<1>5. CASE Judge(c)
  <2>1. \A d \in Calls : pc[d] \in Past => pc'[d] \in Past
    BY <1>5, StepType DEF Judge, Goto, Past
  <2>2. CASE held[c].cur.ctl \in aborted \/ held[c].closed
    BY <1>5, <2>1, <2>2, SlotEmptied, ClearRunDrops DEF Judge, SlotInv, SlotOwned
  <2>3. CASE ~(held[c].cur.ctl \in aborted \/ held[c].closed)
    BY <1>5, <2>1, <2>3, SlotFrame, MarkedKeeps DEF Judge, RunStatus
  <2>4. QED
    BY <2>2, <2>3
<1>6. CASE Refuse(c)
  BY <1>6, StepType, SlotFrame DEF Refuse, Goto, Past
<1>7. CASE Snapshot(c)
  BY <1>7, StepType, SlotFrame DEF Snapshot, Goto, Past
<1>8. CASE Reserve(c)
  <2>1. \A d \in Calls : pc[d] \in Past => pc'[d] \in Past
    BY <1>8, StepType DEF Reserve, Goto, Past
  <2>2. run.timer = None /\ run.ctl = None
    BY <1>8 DEF Reserve, SlotInv, IdleIsEmpty
  <2>3. QED
    BY <1>8, <2>1, <2>2, SlotFrame DEF Reserve, Slot
<1>9. CASE Commit(c)
  BY <1>9, StepType, SlotFrame DEF Commit, Goto, Past
<1>10. CASE CommitFails(c)
  <2>1. \A d \in Calls : pc[d] \in Past => pc'[d] \in Past
    BY <1>10, StepType DEF CommitFails, Goto, Past
  <2>2. QED
    BY <1>10, <2>1, SlotEmptied, ClearRunDrops DEF CommitFails, SlotInv, SlotOwned
<1>11. CASE ReviseFails(c)
  BY <1>11, StepType, SlotFrame DEF ReviseFails, Goto, Past
<1>12. CASE Approve(c)
  BY <1>12, StepType, SlotFrame DEF Approve, Goto, Past
<1>13. CASE ApproveClear(c)
  BY <1>13, StepType, SlotFrame DEF ApproveClear, Goto, Past
<1>14. CASE StartTurn(c)
  <2>1. \A d \in Calls : pc[d] \in Past => pc'[d] \in Past
    BY <1>14, StepType DEF StartTurn, Goto, Past
  <2>2. job[c] = "none" /\ pc'[c] \in Past /\ run.timer # c /\ run.ctl # c
    BY <1>14, StepType DEF StartTurn, SlotInv, SlotOwned, FreshJob, Goto, Past
  <2>3. CASE Op[c] = "handoff"
    BY <1>14, <2>1, <2>2, <2>3
    DEF StartTurn, SlotInv, SlotOwned, IdleIsEmpty, FreshJob, Active, TypeOK
  <2>4. CASE Op[c] # "handoff"
    <3>1. SlotOwned'
      <4>1. run'.timer = c /\ run'.ctl = None
        BY <1>14, <2>4 DEF StartTurn, Schedule, Slot, Disarmed
      <4>2. \A j \in Calls : job'[j] = "timer" <=> j = c
        BY <1>14, <2>4 DEF StartTurn, Schedule, SlotInv, SlotOwned, Disarmed
      <4>3. QED
        BY <4>1, <4>2, CallsAssumption DEF SlotOwned
    <3>2. IdleIsEmpty'
      BY <1>14, <2>4 DEF StartTurn, Schedule, Slot, IdleIsEmpty, Active, Disarmed
    <3>3. FreshJob'
      BY <1>14, <2>1, <2>2, <2>4
      DEF StartTurn, Schedule, SlotInv, SlotOwned, FreshJob, Disarmed
    <3>4. QED
      BY <3>1, <3>2, <3>3 DEF SlotInv
  <2>5. QED
    BY <2>3, <2>4
<1>15. CASE Dismiss(c)
  BY <1>15, StepType, SlotFrame DEF Dismiss, Goto, Past
<1>16. CASE StopGates(c)
  BY <1>16, StepType, SlotFrame DEF StopGates, Goto, Past
<1>17. CASE StopTimer(c)
  <2>1. \A d \in Calls : pc[d] \in Past => pc'[d] \in Past
    BY <1>17, StepType DEF StopTimer, Goto, Past
  <2>2. QED
    BY <1>17, <2>1, SlotEmptied DEF StopTimer, TypeOK, SlotInv, SlotOwned
<1>18. CASE StopAbort(c)
  BY <1>18, StepType, SlotFrame DEF StopAbort, Goto, Past
<1>19. CASE Resolve(c)
  BY <1>19, StepType, SlotFrame DEF Resolve, Goto, Past
<1>20. CASE Resolved(c)
  <2>1. \A d \in Calls : pc[d] \in Past => pc'[d] \in Past
    BY <1>20, StepType DEF Resolved, Goto, Past
  <2>2. QED
    BY <1>20, <2>1, SlotFrame, MarkedKeeps DEF Resolved, RunStatus
<1>21. CASE Return(c)
  BY <1>21, StepType, SlotFrame DEF Return, Goto, Past
<1>22. CASE ResolvedAlready(c) \/ Reread(c)
  BY <1>22, StepType, SlotFrame DEF ResolvedAlready, Reread, Goto, Past
<1>23. CASE RereadFails(c)
  <2>1. \A d \in Calls : pc[d] \in Past => pc'[d] \in Past
    BY <1>23, StepType DEF RereadFails, Goto, Past
  <2>2. QED
    BY <1>23, <2>1, SlotEmptied, ClearRunDrops DEF RereadFails, SlotInv, SlotOwned
<1>24. QED
  BY <1>1, <1>2, <1>3, <1>4, <1>5, <1>6, <1>7, <1>8, <1>9, <1>10, <1>11,
     <1>12, <1>13, <1>14, <1>15, <1>16, <1>17, <1>18, <1>19, <1>20, <1>21,
     <1>22, <1>23
  DEF Continue

\* Every step keeps the slot's invariant.
LEMMA SlotNext == TypeOK /\ SlotInv /\ [Next]_vars => SlotInv'
<1> SUFFICES ASSUME TypeOK, SlotInv, [Next]_vars PROVE SlotInv'
  OBVIOUS
<1>1. CASE UNCHANGED vars
  BY <1>1, SlotFrame DEF vars
<1>2. CASE Persist
  BY <1>2, SlotFrame DEF Persist
<1>3. ASSUME NEW j \in Calls, Load(j) \/ PlanSave(j) PROVE SlotInv'
  BY <1>3, StepType, SlotFrame DEF Load, PlanSave, Goto, Past
<1>4. ASSUME NEW j \in Calls, Begin(j) PROVE SlotInv'
  <2>1. run.timer = j
    BY <1>4 DEF Begin, SlotInv, SlotOwned
  <2>2. SlotOwned'
    BY <1>4, <2>1, CallsAssumption DEF Begin, Slot, SlotInv, SlotOwned, TypeOK
  <2>3. IdleIsEmpty'
    BY <1>4 DEF Begin, Slot, IdleIsEmpty, Active
  <2>4. FreshJob'
    BY <1>4 DEF Begin, SlotInv, FreshJob, TypeOK
  <2>5. QED
    BY <2>2, <2>3, <2>4 DEF SlotInv
<1>5. ASSUME NEW j \in Calls, End(j) PROVE SlotInv'
  BY <1>5
  DEF End, SlotInv, SlotOwned, IdleIsEmpty, FreshJob, Active, TypeOK
<1>6. ASSUME NEW j \in Calls, Finally(j) PROVE SlotInv'
  <2>1. CASE run.ctl = j
    <3>1. SlotOwned'
      <4>1. run' = NoRun /\ job' = [Disarmed EXCEPT ![j] = "done"]
        BY <1>6, <2>1 DEF Finally
      <4>2. \A i \in Calls : Disarmed[i] # "timer"
        BY DEF SlotInv, SlotOwned, Disarmed
      <4>3. \A i \in Calls : job'[i] # "timer"
        BY <4>1, <4>2 DEF Disarmed
      <4>4. QED
        BY <4>1, <4>3, CallsAssumption DEF SlotOwned, NoRun
    <3>2. IdleIsEmpty'
      BY <1>6, <2>1 DEF Finally, IdleIsEmpty, NoRun, Disarmed
    <3>3. FreshJob'
      BY <1>6, <2>1 DEF Finally, SlotInv, SlotOwned, FreshJob, Disarmed
    <3>4. QED
      BY <3>1, <3>2, <3>3 DEF SlotInv
  <2>2. CASE run.ctl # j
    BY <1>6, <2>2
    DEF Finally, SlotInv, SlotOwned, IdleIsEmpty, FreshJob, Active, TypeOK, Disarmed
  <2>3. QED
    BY <2>1, <2>2
<1>7. ASSUME NEW j \in Calls, Runner(j) PROVE SlotInv'
  <2>1. CASE Text(j) \/ Metadata(j)
    BY <2>1, SlotFrame DEF Text, Metadata
  <2>2. CASE ToolStart(j) \/ ToolFinish(j)
    <3>1. /\ run'.timer = run.timer /\ run'.ctl = run.ctl
          /\ run'.status = run.status
      BY <2>2 DEF ToolStart, ToolFinish, TypeOK, Slots
    <3>2. QED
      BY <2>2, <3>1, SlotFrame DEF ToolStart, ToolFinish
  <2>3. CASE AskGate(j) \/ PlanDetect(j)
    BY <2>3, SlotFrame, MarkedKeeps DEF AskGate, PlanDetect, RunStatus
  <2>4. QED
    BY <1>7, <2>1, <2>2, <2>3 DEF Runner
<1>8. QED
  BY <1>1, <1>2, <1>3, <1>4, <1>5, <1>6, <1>7, SlotContinue DEF Next, Proceed

(***************************************************************************)
(* An armed timer is always the slot's own and a controller in the slot    *)
(* belongs to a run that has not finished, however the calls of a thread   *)
(* overlap and whichever writes fail.                                      *)
(***************************************************************************)
THEOREM SlotAlwaysOwned == Spec => []SlotOwned
<1>1. Init => TypeOK /\ SlotInv
  BY TypeInit, SlotInit
<1>2. TypeOK /\ SlotInv /\ [Next]_vars => (TypeOK /\ SlotInv)'
  BY TypeNext, SlotNext
<1>3. TypeOK /\ SlotInv => SlotOwned
  BY DEF SlotInv
<1>4. QED
  BY <1>1, <1>2, <1>3, PTL DEF Spec

(***************************************************************************)
(* A turn is closed once: how the terminal events in the chain and the     *)
(* persisted ones change.                                                  *)
(***************************************************************************)
LEMMA ClosingInit == Init => ClosingInv
  BY DEF Init, ClosingInv, OneClosingInChain, ClosingIsDue, ClosingIsGiven,
         TurnClosedOnce

\* A run may go through every phase that owes no terminal event.
Quiet == {"none", "timer", "running", "dropped", "elsewhere"}

\* An element of the chain is an event of a call's run.
LEMMA ChainType ==
  ASSUME TypeOK, NEW i \in DOMAIN chain
  PROVE  chain[i] \in Events /\ chain[i].of \in Calls
<1>1. DOMAIN chain = 1..Len(chain)
  BY DEF TypeOK
<1>2. chain[i] \in Events
  BY <1>1 DEF TypeOK
<1>3. QED
  BY <1>2 DEF Events

\* A step that emits and persists nothing and moves runs between phases without a
\* terminal event keeps the accounts of terminal events.
LEMMA ClosingKept ==
  ASSUME TypeOK, ClosingInv, UNCHANGED <<chain, closings>>,
         \A j \in Calls : job'[j] # job[j] =>
           job[j] \in Quiet /\ job'[j] \in Quiet
  PROVE  ClosingInv'
<1> USE DEF Quiet
<1>1. OneClosingInChain'
  BY DEF ClosingInv, OneClosingInChain
<1>2. ClosingIsDue'
  BY ChainType DEF ClosingInv, ClosingIsDue
<1>3. ClosingIsGiven'
  BY DEF ClosingInv, ClosingIsGiven, Persisted
<1>4. TurnClosedOnce'
  BY DEF ClosingInv, TurnClosedOnce
<1>5. QED
  BY <1>1, <1>2, <1>3, <1>4 DEF ClosingInv

\* An event that closes nothing joins the chain.
LEMMA OtherEventQueued ==
  ASSUME TypeOK, ClosingInv, UNCHANGED <<closings, job>>,
         NEW type \in EventTypes \ {"closed"}, NEW c \in Calls, Emit(type, c)
  PROVE  ClosingInv'
<1> DEFINE e == [type |-> type, of |-> c]
<1>1. /\ Len(chain') = Len(chain) + 1
      /\ DOMAIN chain = 1..Len(chain) /\ DOMAIN chain' = 1..Len(chain')
      /\ chain'[Len(chain')] = e
      /\ \A i \in 1..Len(chain) : chain'[i] = chain[i]
      /\ Len(chain) \in Nat
  BY DEF Emit, TypeOK, Events
<1>2. OneClosingInChain'
  BY <1>1 DEF ClosingInv, OneClosingInChain
<1>3. ClosingIsDue'
  BY <1>1 DEF ClosingInv, ClosingIsDue
<1>4. ClosingIsGiven'
  BY <1>1 DEF ClosingInv, ClosingIsGiven, Persisted
<1>5. TurnClosedOnce'
  BY DEF ClosingInv, TurnClosedOnce
<1>6. QED
  BY <1>2, <1>3, <1>4, <1>5 DEF ClosingInv

\* The terminal event of a run joins the chain as the run ends or is stopped.
LEMMA ClosingQueued ==
  ASSUME TypeOK, ClosingInv, UNCHANGED closings,
         NEW j \in Calls, Emit("closed", j), job[j] \in {"timer", "running"},
         NEW phase \in {"closing", "stopped"}, job' = [job EXCEPT ![j] = phase]
  PROVE  ClosingInv'
<1>1. /\ Len(chain') = Len(chain) + 1
      /\ DOMAIN chain = 1..Len(chain) /\ DOMAIN chain' = 1..Len(chain')
      /\ chain'[Len(chain')] = Closing(j)
      /\ \A i \in 1..Len(chain) : chain'[i] = chain[i]
      /\ Len(chain) \in Nat
  BY DEF Emit, Closing, TypeOK, Events, EventTypes
<1>2. closings[j] = 0
  <2>1. closings[j] \in Nat /\ closings[j] <= 1
    BY DEF ClosingInv, TurnClosedOnce, TypeOK
  <2>2. closings[j] # 1
    BY DEF ClosingInv, TurnClosedOnce
  <2>3. QED
    BY <2>1, <2>2
<1>3. \A i \in 1..Len(chain) : chain[i] # Closing(j)
  BY <1>1 DEF ClosingInv, ClosingIsDue, Closing
<1>4. OneClosingInChain'
  BY <1>1, <1>3 DEF ClosingInv, OneClosingInChain
<1>5. ClosingIsDue'
  <2>1. ASSUME NEW i \in DOMAIN chain', chain'[i].type = "closed"
        PROVE  /\ closings'[chain'[i].of] = 0
               /\ job'[chain'[i].of] \in {"closing", "stopped"}
    <3>1. CASE i = Len(chain')
      BY <1>1, <1>2, <3>1 DEF Closing, TypeOK
    <3>2. CASE i # Len(chain')
      <4>1. i \in DOMAIN chain /\ chain'[i] = chain[i]
        BY <1>1, <2>1, <3>2
      <4>2. /\ closings[chain[i].of] = 0
            /\ job[chain[i].of] \in {"closing", "stopped"}
        BY <2>1, <4>1 DEF ClosingInv, ClosingIsDue
      <4>3. chain[i].of \in Calls
        BY <4>1, ChainType
      <4>4. QED
        BY <4>1, <4>2, <4>3 DEF TypeOK
    <3>3. QED
      BY <3>1, <3>2
  <2>2. QED
    BY <2>1 DEF ClosingIsDue
<1>6. ClosingIsGiven'
  <2>1. ASSUME NEW k \in Calls, job'[k] \in {"closing", "stopped"}
        PROVE  ~Persisted(Closing(k))' \/ closings'[k] = 1
    <3>1. CASE k = j
      BY <1>1, <3>1 DEF Persisted, Closing
    <3>2. CASE k # j
      BY <1>1, <2>1, <3>2 DEF ClosingInv, ClosingIsGiven, Persisted, Closing, TypeOK
    <3>3. QED
      BY <3>1, <3>2
  <2>2. QED
    BY <2>1 DEF ClosingIsGiven, Closing
<1>7. TurnClosedOnce'
  BY <1>2 DEF ClosingInv, TurnClosedOnce, TypeOK
<1>8. QED
  BY <1>4, <1>5, <1>6, <1>7 DEF ClosingInv

\* A run that waits for its terminal event is over once that is persisted.
LEMMA ClosingDone ==
  ASSUME TypeOK, SlotInv, ClosingInv, NEW j \in Calls, Finally(j)
  PROVE  ClosingInv'
<1>1. closings[j] = 1 /\ UNCHANGED <<chain, closings>>
  BY DEF Finally, ClosingInv, ClosingIsGiven, Persisted, Closing, Disarmed
<1>2. /\ job'[j] = "done"
      /\ \A k \in Calls \ {j} :
           \/ job'[k] = job[k]
           \/ job[k] = "timer" /\ job'[k] = "dropped"
  <2>1. job \in [Calls -> JobPhases]
    BY DEF TypeOK
  <2>2. \A k \in Calls : k = run.timer => job[k] = "timer"
    BY DEF SlotInv, SlotOwned
  <2>3. CASE run.ctl = j
    BY <2>2, <2>3 DEF Finally, Disarmed
  <2>4. CASE run.ctl # j
    BY <2>1, <2>4 DEF Finally, Disarmed
  <2>5. QED
    BY <2>3, <2>4
<1>3. OneClosingInChain'
  <2>1. OneClosingInChain /\ chain' = chain
    BY <1>1 DEF ClosingInv
  <2>2. QED
    BY <2>1, Zenon DEF OneClosingInChain
<1>4. ClosingIsDue'
  BY <1>1, <1>2, ChainType DEF ClosingInv, ClosingIsDue
<1>5. ClosingIsGiven'
  BY <1>1, <1>2 DEF ClosingInv, ClosingIsGiven, Persisted, Closing
<1>6. TurnClosedOnce'
  BY <1>1, <1>2 DEF ClosingInv, TurnClosedOnce
<1>7. QED
  BY <1>3, <1>4, <1>5, <1>6 DEF ClosingInv

\* Persisting an event keeps the accounts of terminal events, ...
LEMMA ClosingPersisted ==
  ASSUME TypeOK, ClosingInv, Persist
  PROVE  ClosingInv'
<1> DEFINE e == Head(chain)
<1>1. /\ chain # <<>> /\ UNCHANGED job
      /\ closings' = IF e.type = "closed"
                     THEN [closings EXCEPT ![e.of] = @ + 1] ELSE closings
  BY DEF Persist
<1>2. /\ Len(chain) \in Nat \ {0} /\ DOMAIN chain = 1..Len(chain)
      /\ Len(chain') = Len(chain) - 1 /\ DOMAIN chain' = 1..Len(chain')
      /\ \A i \in 1..Len(chain') : chain'[i] = chain[i + 1]
      /\ e = chain[1] /\ e \in Events
  BY DEF Persist, TypeOK
<1>3. \A i \in 1..Len(chain') : chain'[i].type = "closed" => chain'[i] # e
  BY <1>2 DEF ClosingInv, OneClosingInChain
<1>4. e.type = "closed" =>
        closings[e.of] = 0 /\ job[e.of] \in {"closing", "stopped"}
  BY <1>2 DEF ClosingInv, ClosingIsDue
<1>5. OneClosingInChain'
  <2>1. ASSUME NEW i \in DOMAIN chain', NEW k \in DOMAIN chain',
               chain'[i].type = "closed", chain'[i] = chain'[k]
        PROVE  i = k
    <3>1. /\ i \in Nat /\ k \in Nat
          /\ i + 1 \in DOMAIN chain /\ k + 1 \in DOMAIN chain
          /\ chain'[i] = chain[i + 1] /\ chain'[k] = chain[k + 1]
      BY <1>2, <2>1
    <3>2. i + 1 = k + 1
      BY <2>1, <3>1 DEF ClosingInv, OneClosingInChain
    <3>3. QED
      BY <3>1, <3>2
  <2>2. QED
    BY <2>1 DEF OneClosingInChain
<1>6. ClosingIsDue'
  <2>1. ASSUME NEW i \in DOMAIN chain', chain'[i].type = "closed"
        PROVE  /\ closings'[chain'[i].of] = 0
               /\ job'[chain'[i].of] \in {"closing", "stopped"}
    <3>1. chain'[i] = chain[i + 1] /\ i + 1 \in DOMAIN chain
      BY <1>2, <2>1
    <3>2. /\ closings[chain'[i].of] = 0
          /\ job[chain'[i].of] \in {"closing", "stopped"}
      BY <2>1, <3>1 DEF ClosingInv, ClosingIsDue
    <3>3. chain'[i] \in Events /\ chain'[i] # e
      BY <1>2, <1>3, <2>1, <3>1 DEF TypeOK
    <3>4. e.type = "closed" => chain'[i].of # e.of
      BY <1>2, <2>1, <3>3 DEF Events
    <3>5. QED
      BY <1>1, <1>2, <3>2, <3>3, <3>4 DEF Events, TypeOK
  <2>2. QED
    BY <2>1 DEF ClosingIsDue
<1>7. ClosingIsGiven'
  <2>1. ASSUME NEW k \in Calls, job'[k] \in {"closing", "stopped"}
        PROVE  ~Persisted(Closing(k))' \/ closings'[k] = 1
    <3>1. ~Persisted(Closing(k)) \/ closings[k] = 1
      BY <1>1, <2>1 DEF ClosingInv, ClosingIsGiven
    <3>2. CASE closings[k] = 1
      BY <1>1, <1>2, <1>4, <3>2 DEF Events, TypeOK
    <3>3. CASE e = Closing(k)
      BY <1>1, <1>2, <1>4, <3>3 DEF Closing, Events, TypeOK
    <3>4. CASE e # Closing(k) /\ ~Persisted(Closing(k))
      <4>1. PICK i \in 1..Len(chain) : chain[i] = Closing(k)
        BY <1>2, <3>4 DEF Persisted
      <4>2. i - 1 \in DOMAIN chain' /\ chain'[i - 1] = Closing(k)
        BY <1>2, <3>4, <4>1
      <4>3. QED
        BY <4>2 DEF Persisted, Closing
    <3>5. QED
      BY <3>1, <3>2, <3>3, <3>4
  <2>2. QED
    BY <2>1 DEF ClosingIsGiven, Closing
<1>8. TurnClosedOnce'
  BY <1>1, <1>2, <1>4 DEF ClosingInv, TurnClosedOnce, Events, TypeOK
<1>9. QED
  BY <1>5, <1>6, <1>7, <1>8 DEF ClosingInv

\* ... and so does what a call does after an await.
LEMMA ClosingContinue ==
  ASSUME TypeOK, SlotInv, ClosingInv, NEW c \in Calls, Continue(c)
  PROVE  ClosingInv'
<1>1. CASE RecoverPlan(c)
  BY <1>1, ClosingKept DEF RecoverPlan
<1>2. CASE RewritePlan(c)
  BY <1>2, ClosingKept DEF RewritePlan
<1>3. CASE Reconcile(c)
  BY <1>3, ClosingKept DEF Reconcile
<1>4. CASE ReadLastEvent(c)
  BY <1>4, ClosingKept DEF ReadLastEvent
<1>5. CASE Judge(c)
  <2>1. CASE UNCHANGED job
    BY <1>5, <2>1, ClosingKept DEF Judge
  <2>2. CASE ClearRun
    BY <1>5, <2>2, ClearRunDrops, ClosingKept
    DEF Judge, Quiet, SlotInv, SlotOwned
  <2>3. QED
    BY <1>5, <2>1, <2>2 DEF Judge
<1>6. CASE Refuse(c)
  BY <1>6, ClosingKept DEF Refuse
<1>7. CASE Snapshot(c)
  BY <1>7, ClosingKept DEF Snapshot
<1>8. CASE Reserve(c)
  BY <1>8, ClosingKept DEF Reserve
<1>9. CASE Commit(c)
  <2>1. CASE Op[c] = "send"
    BY <1>9, <2>1, OtherEventQueued DEF Commit, EventTypes
  <2>2. CASE Op[c] # "send"
    BY <1>9, <2>2, OtherEventQueued DEF Commit, EventTypes
  <2>3. QED
    BY <2>1, <2>2
<1>10. CASE CommitFails(c)
  BY <1>10, ClearRunDrops, ClosingKept
  DEF CommitFails, Quiet, SlotInv, SlotOwned
<1>11. CASE ReviseFails(c)
  BY <1>11, ClosingKept DEF ReviseFails
<1>12. CASE Approve(c)
  BY <1>12, ClosingKept DEF Approve
<1>13. CASE ApproveClear(c)
  BY <1>13, OtherEventQueued DEF ApproveClear, EventTypes
<1>14. CASE StartTurn(c)
  <2>1. job[c] = "none"
    BY <1>14 DEF StartTurn, SlotInv, FreshJob, Past
  <2>2. CASE Op[c] = "handoff"
    BY <1>14, <2>1, <2>2, ClosingKept DEF StartTurn, Quiet, TypeOK
  <2>3. CASE Op[c] # "handoff"
    BY <1>14, <2>1, <2>3, ClosingKept
    DEF StartTurn, Schedule, Quiet, SlotInv, SlotOwned, Disarmed
  <2>4. QED
    BY <2>2, <2>3
<1>15. CASE Dismiss(c)
  BY <1>15, ClosingKept DEF Dismiss
<1>16. CASE StopGates(c)
  BY <1>16, ClosingKept DEF StopGates
<1>17. CASE StopTimer(c)
  <2>1. run.timer \in Calls /\ job[run.timer] = "timer"
    BY <1>17 DEF StopTimer, SlotInv, SlotOwned, TypeOK, Slots, CallOrNone
  <2>2. QED
    BY <1>17, <2>1, ClosingQueued DEF StopTimer
<1>18. CASE StopAbort(c)
  BY <1>18, ClosingKept DEF StopAbort
<1>19. CASE Resolve(c)
  BY <1>19, OtherEventQueued DEF Resolve, EventTypes
<1>20. CASE Resolved(c)
  BY <1>20, ClosingKept DEF Resolved
<1>21. CASE Return(c)
  BY <1>21, ClosingKept DEF Return
<1>22. CASE ResolvedAlready(c) \/ Reread(c)
  BY <1>22, ClosingKept DEF ResolvedAlready, Reread
<1>23. CASE RereadFails(c)
  BY <1>23, ClearRunDrops, ClosingKept
  DEF RereadFails, Quiet, SlotInv, SlotOwned
<1>24. QED
  BY <1>1, <1>2, <1>3, <1>4, <1>5, <1>6, <1>7, <1>8, <1>9, <1>10, <1>11,
     <1>12, <1>13, <1>14, <1>15, <1>16, <1>17, <1>18, <1>19, <1>20, <1>21,
     <1>22, <1>23
  DEF Continue

\* Every step keeps the accounts of terminal events.
LEMMA ClosingNext == TypeOK /\ SlotInv /\ ClosingInv /\ [Next]_vars => ClosingInv'
<1> SUFFICES ASSUME TypeOK, SlotInv, ClosingInv, [Next]_vars PROVE ClosingInv'
  OBVIOUS
<1>1. CASE UNCHANGED vars
  BY <1>1, ClosingKept DEF vars
<1>2. ASSUME NEW j \in Calls, Load(j) \/ PlanSave(j) PROVE ClosingInv'
  BY <1>2, ClosingKept DEF Load, PlanSave
<1>3. ASSUME NEW j \in Calls, Begin(j) PROVE ClosingInv'
  BY <1>3, ClosingKept DEF Begin, Quiet, TypeOK
<1>4. ASSUME NEW j \in Calls, End(j) PROVE ClosingInv'
  BY <1>4, ClosingQueued DEF End
<1>5. ASSUME NEW j \in Calls, Runner(j) PROVE ClosingInv'
  <2>1. CASE Text(j) \/ ToolStart(j) \/ ToolFinish(j) \/ AskGate(j) \/ Metadata(j)
    BY <2>1, OtherEventQueued
    DEF Text, ToolStart, ToolFinish, AskGate, Metadata, EventTypes
  <2>2. CASE PlanDetect(j)
    BY <2>2, OtherEventQueued DEF PlanDetect, EventTypes
  <2>3. QED
    BY <1>5, <2>1, <2>2 DEF Runner
<1>6. QED
  BY <1>1, <1>2, <1>3, <1>4, <1>5, ClosingContinue, ClosingDone, ClosingPersisted
  DEF Next, Proceed

(***************************************************************************)
(* A turn is given at most one terminal event, and one that ran to its end *)
(* has been given it.                                                      *)
(***************************************************************************)
THEOREM TurnsClosedOnce == Spec => []TurnClosedOnce
<1>1. Init => IInv
  BY TypeInit, SlotInit, ClosingInit DEF IInv
<1>2. IInv /\ [Next]_vars => IInv'
  BY TypeNext, SlotNext, ClosingNext DEF IInv
<1>3. IInv => TurnClosedOnce
  BY DEF IInv, ClosingInv
<1>4. QED
  BY <1>1, <1>2, <1>3, PTL DEF Spec

\* A step that keeps the slot's timer and controller and every call that will give
\* the slot back leaves a taken slot with an owner.
LEMMA OwnerKept ==
  ASSUME TypeOK, SlotHasOwner,
         run'.timer = run.timer, run'.ctl = run.ctl,
         run'.status # "idle" => run.status # "idle",
         \A d \in Calls : Reserver(d) => Reserver(d)'
  PROVE  SlotHasOwner'
  BY DEF SlotHasOwner, Active

\* Changing the status of the slot does not take it.
LEMMA MarkedKeepsIdle ==
  ASSUME TypeOK, NEW status \in RunStatus
  PROVE  Marked(status).status # "idle" => run.status # "idle"
  BY DEF Marked, Active

\* Unless revisePlan's writes fail, what a call does after an await leaves a taken
\* slot with an owner.
LEMMA OwnerContinue ==
  ASSUME TypeOK, SlotHasOwner, "revise" \notin Faults, NEW c \in Calls, Continue(c)
  PROVE  SlotHasOwner'
<1>1. CASE RecoverPlan(c)
  <2>1. \A d \in Calls : Reserver(d) => Reserver(d)'
    BY <1>1, StepType DEF RecoverPlan, Reserver, Goto
  <2>2. QED
    BY <1>1, <2>1, OwnerKept DEF RecoverPlan
<1>2. CASE RewritePlan(c)
  <2>1. \A d \in Calls : Reserver(d) => Reserver(d)'
    BY <1>2, StepType DEF RewritePlan, Reserver, Goto
  <2>2. QED
    BY <1>2, <2>1, OwnerKept DEF RewritePlan
<1>3. CASE Reconcile(c)
  <2>1. \A d \in Calls : Reserver(d) => Reserver(d)'
    BY <1>3, StepType DEF Reconcile, Reserver, Goto
  <2>2. QED
    BY <1>3, <2>1, OwnerKept DEF Reconcile
<1>4. CASE ReadLastEvent(c)
  <2>1. \A d \in Calls : Reserver(d) => Reserver(d)'
    BY <1>4, StepType DEF ReadLastEvent, Reserver, Goto
  <2>2. QED
    BY <1>4, <2>1, OwnerKept DEF ReadLastEvent
<1>5. CASE Judge(c)
  <2>1. \A d \in Calls : Reserver(d) => Reserver(d)'
    BY <1>5, StepType DEF Judge, Reserver, Goto
  <2>2. CASE ClearRun
    BY <2>2, ClearRunDrops DEF SlotHasOwner, Active, NoRun
  <2>3. CASE run' = run \/ run' = Marked("running")
    BY <2>1, <2>3, OwnerKept, MarkedKeeps, MarkedKeepsIdle DEF RunStatus
  <2>4. QED
    BY <1>5, <2>2, <2>3 DEF Judge
<1>6. CASE Refuse(c)
  <2>1. \A d \in Calls : Reserver(d) => Reserver(d)'
    BY <1>6, StepType DEF Refuse, Reserver, Goto
  <2>2. QED
    BY <1>6, <2>1, OwnerKept DEF Refuse
<1>7. CASE Snapshot(c)
  <2>1. \A d \in Calls : Reserver(d) => Reserver(d)'
    BY <1>7, StepType DEF Snapshot, Reserver, Goto
  <2>2. QED
    BY <1>7, <2>1, OwnerKept DEF Snapshot
<1>8. CASE Reserve(c)
  <2>1. Reserver(c)'
    BY <1>8, StepType DEF Reserve, Reserver, Goto
  <2>2. QED
    BY <2>1 DEF SlotHasOwner
<1>9. CASE Commit(c)
  <2>1. \A d \in Calls : Reserver(d) => Reserver(d)'
    BY <1>9, StepType DEF Commit, Reserver, Goto
  <2>2. QED
    BY <1>9, <2>1, OwnerKept DEF Commit
<1>10. CASE CommitFails(c)
  BY <1>10, ClearRunDrops DEF CommitFails, SlotHasOwner, Active, NoRun
<1>11. CASE ReviseFails(c)
  BY <1>11 DEF ReviseFails
<1>12. CASE Approve(c)
  <2>1. \A d \in Calls : Reserver(d) => Reserver(d)'
    BY <1>12, StepType DEF Approve, Reserver, Goto
  <2>2. QED
    BY <1>12, <2>1, OwnerKept DEF Approve
<1>13. CASE ApproveClear(c)
  <2>1. \A d \in Calls : Reserver(d) => Reserver(d)'
    BY <1>13, StepType DEF ApproveClear, Reserver, Goto
  <2>2. QED
    BY <1>13, <2>1, OwnerKept DEF ApproveClear
<1>14. CASE StartTurn(c)
  <2>1. CASE Op[c] = "handoff"
    BY <1>14, StepType, <2>1, OwnerKept DEF StartTurn, Reserver, Goto
  <2>2. CASE Op[c] # "handoff"
    BY <1>14, <2>2, CallsAssumption
    DEF StartTurn, Schedule, Slot, SlotHasOwner, Disarmed
  <2>3. QED
    BY <2>1, <2>2
<1>15. CASE Dismiss(c)
  <2>1. \A d \in Calls : Reserver(d) => Reserver(d)'
    BY <1>15, StepType DEF Dismiss, Reserver, Goto
  <2>2. QED
    BY <1>15, <2>1, OwnerKept DEF Dismiss
<1>16. CASE StopGates(c)
  <2>1. \A d \in Calls : Reserver(d) => Reserver(d)'
    BY <1>16, StepType DEF StopGates, Reserver, Goto
  <2>2. QED
    BY <1>16, <2>1, OwnerKept DEF StopGates
<1>17. CASE StopTimer(c)
  BY <1>17 DEF StopTimer, SlotHasOwner, Active, NoRun
<1>18. CASE StopAbort(c)
  <2>1. \A d \in Calls : Reserver(d) => Reserver(d)'
    BY <1>18, StepType DEF StopAbort, Reserver, Goto
  <2>2. QED
    BY <1>18, <2>1, OwnerKept DEF StopAbort
<1>19. CASE Resolve(c)
  <2>1. \A d \in Calls : Reserver(d) => Reserver(d)'
    BY <1>19, StepType DEF Resolve, Reserver, Goto
  <2>2. QED
    BY <1>19, <2>1, OwnerKept DEF Resolve
<1>20. CASE Resolved(c)
  <2>1. \A d \in Calls : Reserver(d) => Reserver(d)'
    BY <1>20, StepType DEF Resolved, Reserver, Goto
  <2>2. QED
    BY <1>20, <2>1, OwnerKept, MarkedKeeps, MarkedKeepsIdle
    DEF Resolved, RunStatus
<1>21. CASE Return(c)
  <2>1. \A d \in Calls : Reserver(d) => Reserver(d)'
    BY <1>21, StepType DEF Return, Reserver, Goto
  <2>2. QED
    BY <1>21, <2>1, OwnerKept DEF Return
<1>22. CASE ResolvedAlready(c) \/ Reread(c)
  <2>1. \A d \in Calls : Reserver(d) => Reserver(d)'
    BY <1>22, StepType DEF ResolvedAlready, Reread, Reserver, Goto
  <2>2. QED
    BY <1>22, <2>1, OwnerKept DEF ResolvedAlready, Reread
<1>23. CASE RereadFails(c)
  BY <1>23, ClearRunDrops DEF RereadFails, SlotHasOwner, Active, NoRun
<1>24. QED
  BY <1>1, <1>2, <1>3, <1>4, <1>5, <1>6, <1>7, <1>8, <1>9, <1>10, <1>11,
     <1>12, <1>13, <1>14, <1>15, <1>16, <1>17, <1>18, <1>19, <1>20, <1>21,
     <1>22, <1>23
  DEF Continue

\* Unless revisePlan's writes fail, every step does.
LEMMA OwnerNext ==
  ASSUME "revise" \notin Faults
  PROVE  TypeOK /\ SlotHasOwner /\ [Next]_vars => SlotHasOwner'
<1> SUFFICES ASSUME TypeOK, SlotHasOwner, [Next]_vars PROVE SlotHasOwner'
  OBVIOUS
<1>1. CASE UNCHANGED vars
  BY <1>1 DEF vars, SlotHasOwner, Reserver, Active
<1>2. CASE Persist
  BY <1>2 DEF Persist, SlotHasOwner, Reserver, Active
<1>3. ASSUME NEW c \in Calls, Load(c) PROVE SlotHasOwner'
  <2>1. \A d \in Calls : Reserver(d) => Reserver(d)'
    BY <1>3, StepType DEF Load, Reserver, Goto
  <2>2. QED
    BY <1>3, <2>1, OwnerKept DEF Load
<1>4. ASSUME NEW j \in Calls, Begin(j) PROVE SlotHasOwner'
  BY <1>4, CallsAssumption DEF Begin, Slot, SlotHasOwner
<1>5. ASSUME NEW j \in Calls, PlanSave(j) \/ End(j) PROVE SlotHasOwner'
  BY <1>5 DEF PlanSave, End, SlotHasOwner, Reserver, Active
<1>6. ASSUME NEW j \in Calls, Finally(j) PROVE SlotHasOwner'
  BY <1>6 DEF Finally, SlotHasOwner, Reserver, Active, NoRun, Disarmed
<1>7. ASSUME NEW j \in Calls, Runner(j) PROVE SlotHasOwner'
  <2>1. UNCHANGED pc
    BY <1>7
    DEF Runner, Text, ToolStart, ToolFinish, AskGate, PlanDetect, Metadata
  <2>2. CASE Text(j) \/ Metadata(j)
    BY <2>1, <2>2, OwnerKept DEF Text, Metadata, Reserver
  <2>3. CASE ToolStart(j) \/ ToolFinish(j)
    <3>1. /\ run'.timer = run.timer /\ run'.ctl = run.ctl
          /\ run'.status = run.status
      BY <2>3 DEF ToolStart, ToolFinish, TypeOK, Slots
    <3>2. QED
      BY <2>1, <3>1, OwnerKept DEF Reserver
  <2>4. CASE AskGate(j) \/ PlanDetect(j)
    BY <2>1, <2>4, OwnerKept, MarkedKeeps, MarkedKeepsIdle
    DEF AskGate, PlanDetect, RunStatus, Reserver
  <2>5. QED
    BY <1>7, <2>2, <2>3, <2>4 DEF Runner
<1>8. QED
  BY <1>1, <1>2, <1>3, <1>4, <1>5, <1>6, <1>7, OwnerContinue DEF Next, Proceed

(***************************************************************************)
(* A thread does not stay busy once its calls and its runs are over,       *)
(* provided revisePlan's writes succeed: that handler has no counterpart   *)
(* of the release in sendMessage's error path.                             *)
(***************************************************************************)
THEOREM QuietThreadIsIdle ==
  ASSUME "revise" \notin Faults
  PROVE  Spec => []IdleWhenQuiet
<1>1. Init => TypeOK /\ SlotInv /\ SlotHasOwner
  BY TypeInit, SlotInit DEF Init, SlotHasOwner, Active, NoRun
<1>2. TypeOK /\ SlotInv /\ SlotHasOwner /\ [Next]_vars
        => (TypeOK /\ SlotInv /\ SlotHasOwner)'
  BY TypeNext, SlotNext, OwnerNext
<1>3. TypeOK /\ SlotInv /\ SlotHasOwner => IdleWhenQuiet
  BY DEF SlotInv, SlotOwned, SlotHasOwner, IdleWhenQuiet, Reserver, InFlight,
         TypeOK, Slots, CallOrNone
<1>4. QED
  BY <1>1, <1>2, <1>3, PTL DEF Spec

(***************************************************************************)
(* A client that waits for each response and stops nothing.  The overlap   *)
(* of two approvals or of three calls that reconcile, a stop of a run that *)
(* winds down and a failed re-read all break TurnsKeepApart in the code    *)
(* (the run late_close shows the second); two messages that overlap do     *)
(* not, as the run gate shows for those two.                               *)
(***************************************************************************)
SerialUse ==
  /\ MaxOpen = 1
  /\ \A c \in Calls : Op[c] # "stop"
  /\ "reread" \notin Faults

\* The run in the slot has yet to be closed, or to begin.
Owed == run.timer # None \/ (run.ctl # None /\ closings[run.ctl] = 0)

\* The slot belongs to the run at work, to the one whose terminal event is on its
\* way and to the one that asks the user; a run that is owed its terminal event
\* keeps an earlier one from being the last of the log.
RunOwnsSlot    == \A j \in Calls : job[j] = "running" => run.ctl = j
TimerAlone     == run.timer # None => run.ctl = None
ClosingByOwner == \A i \in DOMAIN chain : chain[i].type = "closed" => run.ctl = chain[i].of
GateOwnsSlot   == \A j \in Pending : run.ctl = j
NotClosedYet   == Owed => log.last # "closed"

SerialSlot == /\ RunOwnsSlot /\ TimerAlone /\ ClosingByOwner /\ GateOwnsSlot
              /\ NotClosedYet /\ NoTurnDropped /\ aborted = {}

\* One call is in flight.  What it found closed stays closed, the slot is free of
\* runs from its guard to scheduleAssistant, and by then the log ends otherwise
\* than with the terminal event of the turn before.
OneInFlight  == \A c, d \in Calls : InFlight(c) /\ InFlight(d) => c = d
ClosedIsOver == \A c \in Calls : pc[c] = "judge" /\ held[c].closed => ~Owed
SlotKeptFree == \A c \in Calls :
                  pc[c] \in {"commit", "announce"} => run.timer = None /\ run.ctl = None
NewsIsLast   == \A c \in Calls :
                  pc[c] = "announce" /\ Persisted(Announced(c)) => log.last # "closed"

SerialCalls == OneInFlight /\ ClosedIsOver /\ SlotKeptFree /\ NewsIsLast

SerialInv == SerialSlot /\ SerialCalls

\* The invariant of serial use holds at first.
LEMMA SerialInit == Init => SerialInv
<1> SUFFICES ASSUME Init PROVE SerialInv
  OBVIOUS
<1> USE DEF Init, NoRun
<1>1. SerialSlot
  BY DEF SerialSlot, RunOwnsSlot, TimerAlone, ClosingByOwner, GateOwnsSlot, Pending,
         NotClosedYet, Owed, NoTurnDropped
<1>2. SerialCalls
  BY DEF SerialCalls, OneInFlight, InFlight, ClosedIsOver, SlotKeptFree, NewsIsLast
<1>3. QED
  BY <1>1, <1>2 DEF SerialInv

\* A call goes on from a step it has reached, and no other call moves.
LEMMA ContinueMoves ==
  ASSUME TypeOK, NEW c \in Calls, Continue(c)
  PROVE  /\ InFlight(c)
         /\ pc' = [pc EXCEPT ![c] = pc'[c]]
<1>1. /\ pc[c] \in {"recover", "rewrite", "loaded", "planned", "lookup", "judge", "admit",
                   "commit", "announce", "reread", "emitting"}
      /\ \E s \in Steps : Goto(c, s)
  BY DEF Continue, RecoverPlan, RewritePlan, Reconcile, ReadLastEvent, Judge, Refuse,
         Snapshot, Reserve, Commit, CommitFails, ReviseFails, Approve, ApproveClear,
         StartTurn, Dismiss, StopGates, StopTimer, StopAbort, Resolve, Resolved, Return,
         ResolvedAlready, Reread, RereadFails, Steps
<1>2. QED
  BY <1>1, StepType DEF InFlight, Goto

\* No call but the one that goes on is between its steps.
LEMMA OthersRest ==
  ASSUME TypeOK, OneInFlight, NEW c \in Calls, Continue(c), NEW d \in Calls, d # c
  PROVE  ~InFlight(d) /\ pc'[d] = pc[d]
  BY ContinueMoves, StepType DEF OneInFlight

\* With MaxOpen = 1 a call arrives when none is in flight.
LEMMA ArrivesAlone ==
  ASSUME TypeOK, OneInFlight, SerialUse, NEW c \in Calls, Load(c)
  PROVE  \A d \in Calls : ~InFlight(d)
<1> DEFINE flying == {d \in Calls : InFlight(d)}
<1>1. Cardinality(flying) < 1
  BY DEF Load, SerialUse
<1>2. ASSUME NEW d \in Calls, InFlight(d) PROVE FALSE
  <2>1. flying = {d}
    BY <1>2 DEF OneInFlight
  <2>2. Cardinality(flying) = 1
    BY <2>1, FS_Singleton
  <2>3. QED
    BY <1>1, <2>2
<1>3. QED
  BY <1>2

\* A run at work, and a terminal event on its way, are owed by the slot's run.
LEMMA OwedByOwner ==
  ASSUME IInv, SerialSlot
  PROVE  /\ \A j \in Calls : job[j] = "running" => Owed
         /\ \A i \in DOMAIN chain : chain[i].type = "closed" => Owed
<1>1. ASSUME NEW j \in Calls, job[j] = "running" PROVE Owed
  <2>1. run.ctl = j /\ j # None
    BY <1>1, CallsAssumption DEF SerialSlot, RunOwnsSlot
  <2>2. closings[j] \in Nat /\ closings[j] <= 1 /\ closings[j] # 1
    BY <1>1 DEF IInv, TypeOK, ClosingInv, TurnClosedOnce
  <2>3. closings[j] = 0
    BY <2>2
  <2>4. QED
    BY <2>1, <2>3 DEF Owed
<1>2. ASSUME NEW i \in DOMAIN chain, chain[i].type = "closed" PROVE Owed
  <2>1. run.ctl = chain[i].of
    BY <1>2 DEF SerialSlot, ClosingByOwner
  <2>2. chain[i].of \in Calls
    BY ChainType DEF IInv
  <2>3. closings[chain[i].of] = 0
    BY <1>2 DEF IInv, ClosingInv, ClosingIsDue
  <2>4. QED
    BY <2>1, <2>2, <2>3, CallsAssumption DEF Owed
<1>3. QED
  BY <1>1, <1>2

\* A step that leaves the slot to the same run, emits no terminal event and asks the
\* user on behalf of runs at work only.
LEMMA SerialSlotKept ==
  ASSUME SerialSlot, UNCHANGED <<job, aborted, log, closings>>,
         run'.timer = run.timer, run'.ctl = run.ctl,
         \A j \in Calls : gate'[j] = "pending" => gate[j] = "pending" \/ job[j] = "running",
         \A i \in DOMAIN chain' : chain'[i].type = "closed" =>
           \E k \in DOMAIN chain : chain[k] = chain'[i]
  PROVE  SerialSlot'
<1>1. RunOwnsSlot' /\ TimerAlone' /\ NoTurnDropped' /\ aborted' = {}
  BY DEF SerialSlot, RunOwnsSlot, TimerAlone, NoTurnDropped
<1>2. ClosingByOwner'
  BY DEF SerialSlot, ClosingByOwner
<1>3. GateOwnsSlot'
  BY DEF SerialSlot, GateOwnsSlot, Pending, RunOwnsSlot
<1>4. NotClosedYet'
  BY DEF SerialSlot, NotClosedYet, Owed
<1>5. QED
  BY <1>1, <1>2, <1>3, <1>4 DEF SerialSlot

\* Announcing a step brings no terminal event into the chain.
LEMMA ChainOfOthers ==
  ASSUME TypeOK, NEW type \in EventTypes \ {"closed"}, NEW c \in Calls, Emit(type, c)
  PROVE  /\ \A i \in DOMAIN chain' : chain'[i].type = "closed" =>
              \E k \in DOMAIN chain : chain[k] = chain'[i]
         /\ ~Persisted([type |-> type, of |-> c])'
<1> DEFINE e == [type |-> type, of |-> c]
<1>1. /\ Len(chain') = Len(chain) + 1
      /\ DOMAIN chain = 1..Len(chain) /\ DOMAIN chain' = 1..Len(chain')
      /\ chain'[Len(chain')] = e
      /\ \A i \in 1..Len(chain) : chain'[i] = chain[i]
      /\ Len(chain) \in Nat
  BY DEF Emit, TypeOK, Events
<1>2. QED
  BY <1>1 DEF Persisted

\* The slot is cleared while no run of its own is owed anything.
LEMMA SerialSlotCleared ==
  ASSUME IInv, SerialSlot, ~Owed, ClearRun, UNCHANGED <<aborted, chain, log, closings>>,
         gate' = Rejected \/ (UNCHANGED gate /\ run.ctl = None)
  PROVE  SerialSlot'
<1>1. UNCHANGED job
  <2>1. \A j \in Calls : ~(j = run.timer /\ job[j] = "timer")
    BY CallsAssumption DEF Owed, IInv, SlotInv, SlotOwned
  <2>2. QED
    BY <2>1 DEF ClearRun, Disarmed, IInv, TypeOK
<1>2. run' = NoRun
  BY DEF ClearRun, Disarmed
<1>3. \A j \in Calls : job[j] # "running"
  BY OwedByOwner
<1>4. \A i \in DOMAIN chain : chain[i].type # "closed"
  BY OwedByOwner
<1>5. \A j \in Calls : gate'[j] # "pending"
  BY CallsAssumption DEF Rejected, SerialSlot, GateOwnsSlot, Pending
<1>6. QED
  BY <1>1, <1>2, <1>3, <1>4, <1>5
  DEF SerialSlot, RunOwnsSlot, TimerAlone, ClosingByOwner, GateOwnsSlot, Pending,
      NotClosedYet, Owed, NoTurnDropped, NoRun

\* What a call does after an await keeps the slot to one run.
LEMMA SerialSlotContinue ==
  ASSUME SerialUse, IInv, SerialInv, NEW c \in Calls, Continue(c)
  PROVE  SerialSlot'
<1> USE DEF IInv, SerialInv
<1>1. CASE RecoverPlan(c) \/ RewritePlan(c) \/ Reconcile(c) \/ ReadLastEvent(c)
  BY <1>1, SerialSlotKept DEF RecoverPlan, RewritePlan, Reconcile, ReadLastEvent
<1>2. CASE Judge(c)
  <2>1. CASE held[c].cur.ctl \in aborted \/ held[c].closed
    <3>1. ~Owed
      BY <1>2, <2>1 DEF Judge, SerialSlot, SerialCalls, ClosedIsOver
    <3>2. QED
      BY <1>2, <2>1, <3>1, SerialSlotCleared DEF Judge
  <2>2. CASE ~(held[c].cur.ctl \in aborted \/ held[c].closed)
    <3>1. run'.timer = run.timer /\ run'.ctl = run.ctl
      BY <1>2, <2>2, MarkedKeeps DEF Judge, RunStatus
    <3>2. QED
      BY <1>2, <2>2, <3>1, SerialSlotKept DEF Judge
  <2>3. QED
    BY <2>1, <2>2
<1>3. CASE Refuse(c) \/ Snapshot(c) \/ ReviseFails(c) \/ Approve(c) \/ Dismiss(c)
           \/ Return(c) \/ ResolvedAlready(c) \/ Reread(c)
  BY <1>3, SerialSlotKept
  DEF Refuse, Snapshot, ReviseFails, Approve, Dismiss, Return, ResolvedAlready, Reread
<1>4. CASE Reserve(c)
  <2>1. run.timer = None /\ run.ctl = None
    BY <1>4 DEF Reserve, SlotInv, IdleIsEmpty
  <2>2. run'.timer = run.timer /\ run'.ctl = run.ctl
    BY <1>4, <2>1 DEF Reserve, Slot
  <2>3. QED
    BY <1>4, <2>2, SerialSlotKept DEF Reserve
<1>5. CASE Commit(c) \/ ApproveClear(c)
  <2>1. PICK type \in EventTypes \ {"closed"} : Emit(type, c)
    BY <1>5 DEF Commit, ApproveClear, EventTypes
  <2>2. QED
    BY <1>5, <2>1, ChainOfOthers, SerialSlotKept DEF Commit, ApproveClear
<1>6. CASE CommitFails(c)
  <2>1. run.timer = None /\ run.ctl = None
    BY <1>6 DEF CommitFails, SerialCalls, SlotKeptFree
  <2>2. QED
    BY <1>6, <2>1, SerialSlotCleared DEF CommitFails, Owed
<1>7. CASE StartTurn(c)
  <2>1. run.timer = None /\ run.ctl = None /\ job[c] = "none" /\ log.last # "closed"
    BY <1>7
    DEF StartTurn, SerialCalls, SlotKeptFree, NewsIsLast, SlotInv, FreshJob, Past
  <2>2. /\ \A j \in Calls : job[j] # "running"
        /\ \A i \in DOMAIN chain : chain[i].type # "closed"
        /\ Pending = {}
    BY <2>1, ChainType, CallsAssumption
    DEF SerialSlot, RunOwnsSlot, ClosingByOwner, GateOwnsSlot, Pending
  <2>3. CASE Op[c] = "handoff"
    BY <1>7, <2>1, <2>2, <2>3
    DEF StartTurn, TypeOK, SerialSlot, RunOwnsSlot, TimerAlone, ClosingByOwner,
        GateOwnsSlot, Pending, NotClosedYet, Owed, NoTurnDropped
  <2>4. CASE Op[c] # "handoff"
    <3>1. /\ run'.timer = c /\ run'.ctl = None
          /\ \A j \in Calls : job'[j] # "running" /\ job'[j] # "dropped"
      BY <1>7, <2>1, <2>2, <2>4, CallsAssumption
      DEF StartTurn, Schedule, Slot, SerialSlot, NoTurnDropped, Disarmed, TypeOK
    <3>2. UNCHANGED <<aborted, gate, chain, log, closings>>
      BY <1>7 DEF StartTurn
    <3>3. QED
      BY <2>1, <2>2, <3>1, <3>2
      DEF SerialSlot, RunOwnsSlot, TimerAlone, ClosingByOwner, GateOwnsSlot, Pending,
          NotClosedYet, Owed, NoTurnDropped
  <2>5. QED
    BY <2>3, <2>4
<1>8. CASE StopGates(c) \/ StopTimer(c) \/ StopAbort(c)
  BY <1>8 DEF SerialUse, StopGates, StopTimer, StopAbort
<1>9. CASE Resolve(c)
  <2>1. Emit("progress", c)
    BY <1>9 DEF Resolve
  <2>2. QED
    BY <1>9, <2>1, ChainOfOthers, SerialSlotKept DEF Resolve, EventTypes
<1>10. CASE Resolved(c)
  <2>1. run'.timer = run.timer /\ run'.ctl = run.ctl
    BY <1>10, MarkedKeeps DEF Resolved, RunStatus
  <2>2. \A j \in Calls : gate'[j] = "pending" => gate[j] = "pending"
    BY <1>10 DEF Resolved, TypeOK
  <2>3. QED
    BY <1>10, <2>1, <2>2, SerialSlotKept DEF Resolved
<1>11. CASE RereadFails(c)
  BY <1>11 DEF SerialUse, RereadFails
<1>12. QED
  BY <1>1, <1>2, <1>3, <1>4, <1>5, <1>6, <1>7, <1>8, <1>9, <1>10, <1>11 DEF Continue

\* The persisting of an event keeps the slot to one run.
LEMMA SerialSlotPersist ==
  ASSUME IInv, SerialSlot, Persist
  PROVE  /\ SerialSlot'
         /\ ~Owed => ~Owed'
<1> DEFINE e == Head(chain)
<1>0. /\ Len(chain) \in Nat /\ Len(chain') = Len(chain) - 1
      /\ DOMAIN chain = 1..Len(chain) /\ DOMAIN chain' = 1..Len(chain')
      /\ \A i \in 1..Len(chain') : chain'[i] = chain[i + 1]
      /\ e = chain[1] /\ e \in Events /\ 1 \in 1..Len(chain)
  BY DEF Persist, IInv, TypeOK
<1>1. /\ UNCHANGED <<run, job, aborted, gate>>
      /\ log'.last = e.type
      /\ closings' = IF e.type = "closed" THEN [closings EXCEPT ![e.of] = @ + 1]
                     ELSE closings
      /\ e = chain[1] /\ 1 \in DOMAIN chain /\ e.of \in Calls
      /\ \A i \in DOMAIN chain' : i + 1 \in DOMAIN chain /\ chain'[i] = chain[i + 1]
  BY <1>0 DEF Persist, Events
<1>2. e.type = "closed" => run.ctl = e.of /\ closings'[e.of] = 1
  BY <1>1 DEF SerialSlot, ClosingByOwner, IInv, ClosingInv, ClosingIsDue, TypeOK
<1>3. \A j \in Calls : closings'[j] = 0 => closings[j] = 0
  BY <1>1 DEF IInv, TypeOK
<1>4. run.ctl # None => run.ctl \in Calls
  BY DEF IInv, TypeOK, Slots, CallOrNone
<1>5. Owed' => Owed
  BY <1>1, <1>3, <1>4 DEF Owed
<1>6. NotClosedYet'
  <2>1. CASE e.type = "closed"
    BY <1>1, <1>2, <2>1, CallsAssumption DEF SerialSlot, TimerAlone, NotClosedYet, Owed
  <2>2. CASE e.type # "closed"
    BY <1>1, <2>2 DEF NotClosedYet
  <2>3. QED
    BY <2>1, <2>2
<1>7. ClosingByOwner'
  BY <1>1 DEF SerialSlot, ClosingByOwner
<1>8. RunOwnsSlot' /\ TimerAlone' /\ GateOwnsSlot' /\ NoTurnDropped' /\ aborted' = {}
  BY <1>1 DEF SerialSlot, RunOwnsSlot, TimerAlone, GateOwnsSlot, Pending, NoTurnDropped
<1>9. QED
  BY <1>5, <1>6, <1>7, <1>8 DEF SerialSlot

\* A run begins with the slot to itself.
LEMMA SerialSlotBegin ==
  ASSUME IInv, SerialSlot, NEW j \in Calls, Begin(j)
  PROVE  SerialSlot' /\ Owed
<1>1. run.timer = j /\ j # None
  BY CallsAssumption DEF Begin, IInv, SlotInv, SlotOwned
<1>2. Owed /\ run.ctl = None /\ log.last # "closed"
  BY <1>1 DEF Owed, SerialSlot, TimerAlone, NotClosedYet
<1>3. /\ \A k \in Calls : job[k] # "running"
      /\ \A i \in DOMAIN chain : chain[i].type # "closed"
      /\ Pending = {}
  BY <1>2, ChainType, CallsAssumption
  DEF IInv, SerialSlot, RunOwnsSlot, ClosingByOwner, GateOwnsSlot, Pending
<1>4. run'.timer = None /\ run'.ctl = j
  BY DEF Begin, Slot
<1>5. \A k \in Calls : job'[k] = IF k = j THEN "running" ELSE job[k]
  BY DEF Begin, IInv, TypeOK
<1>6. UNCHANGED <<aborted, gate, chain, log, closings>>
  BY DEF Begin
<1>7. QED
  BY <1>2, <1>3, <1>4, <1>5, <1>6
  DEF SerialSlot, RunOwnsSlot, TimerAlone, ClosingByOwner, GateOwnsSlot, Pending,
      NotClosedYet, NoTurnDropped

\* A run that ends leaves the slot owing its terminal event.
LEMMA SerialSlotEnd ==
  ASSUME IInv, SerialSlot, NEW j \in Calls, End(j)
  PROVE  SerialSlot'
<1>1. /\ UNCHANGED <<run, aborted, gate, log, closings>>
      /\ \A k \in Calls : job'[k] = IF k = j THEN "closing" ELSE job[k]
      /\ run.ctl = j
  BY DEF End, IInv, TypeOK, SerialSlot, RunOwnsSlot
<1>2. \A i \in DOMAIN chain' : chain'[i] = Closing(j) \/
        (i \in DOMAIN chain /\ chain'[i] = chain[i])
  BY DEF End, Emit, Closing, IInv, TypeOK, Events, EventTypes
<1>3. ClosingByOwner'
  BY <1>1, <1>2 DEF SerialSlot, ClosingByOwner, Closing
<1>4. QED
  BY <1>1, <1>3
  DEF SerialSlot, RunOwnsSlot, TimerAlone, GateOwnsSlot, Pending, NotClosedYet, Owed,
      NoTurnDropped

\* A run that is over gives the slot back with nothing owed and nobody asked.
LEMMA SerialSlotFinally ==
  ASSUME IInv, SerialSlot, NEW j \in Calls, Finally(j)
  PROVE  SerialSlot' /\ (~Owed => ~Owed') /\ (run.timer = None => run'.timer = None)
         /\ (run.ctl = None => run'.ctl = None)
<1> USE CallsAssumption DEF IInv
<1>1. UNCHANGED <<aborted, chain, log, closings>>
  BY DEF Finally, Disarmed
<1>2. CASE run.ctl = j
  <2>1. run.timer = None /\ run' = NoRun /\ gate' = Rejected
    BY <1>2 DEF Finally, SerialSlot, TimerAlone, Disarmed
  <2>2. \A k \in Calls : job'[k] = IF k = j THEN "done" ELSE job[k]
    BY <1>2, <2>1 DEF Finally, Disarmed
  <2>3. \A i \in DOMAIN chain : chain[i].type # "closed"
    <3>1. ASSUME NEW i \in DOMAIN chain, chain[i].type = "closed" PROVE FALSE
      <4>1. chain[i].of = j /\ chain[i] \in Events
        BY <1>2, <3>1, ChainType DEF SerialSlot, ClosingByOwner
      <4>2. chain[i] = Closing(j)
        BY <3>1, <4>1 DEF Events, Closing
      <4>3. QED
        BY <3>1, <4>2 DEF Finally, Persisted, Closing, Disarmed
    <3>2. QED
      BY <3>1
  <2>4. \A k \in Calls : job'[k] # "running"
    BY <1>2, <2>2 DEF SerialSlot, RunOwnsSlot
  <2>5. \A k \in Calls : gate'[k] # "pending"
    BY <2>1 DEF Rejected
  <2>6. \A k \in Calls : job'[k] # "dropped"
    BY <2>2 DEF SerialSlot, NoTurnDropped
  <2>7. QED
    BY <1>1, <2>1, <2>3, <2>4, <2>5, <2>6
    DEF SerialSlot, RunOwnsSlot, TimerAlone, ClosingByOwner, GateOwnsSlot, Pending,
        NotClosedYet, Owed, NoTurnDropped, NoRun
<1>3. CASE run.ctl # j
  <2>1. /\ UNCHANGED <<run, gate>>
        /\ \A k \in Calls : job'[k] = IF k = j THEN "done" ELSE job[k]
    BY <1>3 DEF Finally, TypeOK, Disarmed
  <2>2. QED
    BY <1>1, <2>1
    DEF SerialSlot, RunOwnsSlot, TimerAlone, ClosingByOwner, GateOwnsSlot, Pending,
        NotClosedYet, Owed, NoTurnDropped
<1>4. QED
  BY <1>2, <1>3

\* An event joins the chain behind those that wait there.
LEMMA EmitKeepsWaiting ==
  ASSUME TypeOK, NEW type \in EventTypes, NEW c \in Calls, Emit(type, c)
  PROVE  \A e \in Events : Persisted(e)' => Persisted(e)
<1>1. /\ Len(chain') = Len(chain) + 1 /\ Len(chain) \in Nat
      /\ DOMAIN chain = 1..Len(chain) /\ DOMAIN chain' = 1..Len(chain')
      /\ \A i \in 1..Len(chain) : chain'[i] = chain[i]
  BY DEF Emit, TypeOK, Events
<1>2. QED
  BY <1>1 DEF Persisted

\* What the callbacks of a run keep.
LEMMA SerialSlotRunner ==
  ASSUME IInv, SerialSlot, NEW j \in Calls, Runner(j)
  PROVE  /\ SerialSlot'
         /\ run'.timer = run.timer /\ run'.ctl = run.ctl
         /\ UNCHANGED <<pc, held, log, closings>>
         /\ \A e \in Events : Persisted(e)' => Persisted(e)
<1>1. PICK type \in EventTypes \ {"closed"} : Emit(type, j)
  BY DEF Runner, Text, ToolStart, ToolFinish, AskGate, PlanDetect, Metadata, EventTypes
<1>2. UNCHANGED <<pc, held, job, aborted, log, closings>>
  BY DEF Runner, Text, ToolStart, ToolFinish, AskGate, PlanDetect, Metadata
<1>3. run'.timer = run.timer /\ run'.ctl = run.ctl
  <2>1. CASE Text(j) \/ Metadata(j)
    BY <2>1 DEF Text, Metadata
  <2>2. CASE ToolStart(j) \/ ToolFinish(j)
    BY <2>2 DEF ToolStart, ToolFinish, IInv, TypeOK, Slots
  <2>3. CASE AskGate(j) \/ PlanDetect(j)
    BY <2>3, MarkedKeeps DEF AskGate, PlanDetect, RunStatus, IInv
  <2>4. QED
    BY <2>1, <2>2, <2>3 DEF Runner
<1>4. \A k \in Calls : gate'[k] = "pending" => gate[k] = "pending" \/ job[k] = "running"
  BY DEF Runner, Text, ToolStart, ToolFinish, AskGate, PlanDetect, Metadata, May, IInv,
         TypeOK
<1>5. SerialSlot'
  BY <1>1, <1>2, <1>3, <1>4, ChainOfOthers, SerialSlotKept DEF IInv
<1>6. \A e \in Events : Persisted(e)' => Persisted(e)
  BY <1>1, EmitKeepsWaiting DEF IInv
<1>7. QED
  BY <1>2, <1>3, <1>5, <1>6

\* A step of no call: what the calls count on survives.
LEMMA SerialCallsKept ==
  ASSUME TypeOK, SerialCalls, UNCHANGED <<pc, held, log>>,
         ~Owed => ~Owed',
         run.timer = None => run'.timer = None, run.ctl = None => run'.ctl = None,
         \A e \in Events : Persisted(e)' => Persisted(e)
  PROVE  SerialCalls'
<1>1. OneInFlight' /\ ClosedIsOver' /\ SlotKeptFree'
  BY DEF SerialCalls, OneInFlight, InFlight, ClosedIsOver, SlotKeptFree
<1>2. \A c \in Calls : Announced(c) \in Events
  BY DEF Announced, Events, EventTypes
<1>3. NewsIsLast'
  BY <1>2 DEF SerialCalls, NewsIsLast, Announced
<1>4. QED
  BY <1>1, <1>3 DEF SerialCalls

\* A step of the one call in flight.
LEMMA SerialCallsMoved ==
  ASSUME TypeOK, SerialCalls, NEW c \in Calls, Continue(c),
         pc'[c] = "judge" /\ held'[c].closed => ~Owed',
         pc'[c] \in {"commit", "announce"} => run'.timer = None /\ run'.ctl = None,
         pc'[c] = "announce" => ~Persisted(Announced(c))'
  PROVE  SerialCalls'
<1>1. \A d \in Calls : d # c => ~InFlight(d) /\ pc'[d] = pc[d]
  BY OthersRest DEF SerialCalls
<1>2. \A d \in Calls : d # c => pc'[d] \in {"idle", "returned", "thrown"}
  BY <1>1 DEF InFlight
<1>3. OneInFlight'
  BY <1>2 DEF OneInFlight, InFlight
<1>4. ClosedIsOver' /\ SlotKeptFree'
  BY <1>2 DEF ClosedIsOver, SlotKeptFree
<1>5. NewsIsLast'
  BY <1>2 DEF NewsIsLast, Announced
<1>6. QED
  BY <1>3, <1>4, <1>5 DEF SerialCalls

\* What a call does after an await is what the next step of the call counts on.
LEMMA SerialCallsContinue ==
  ASSUME SerialUse, IInv, SerialInv, NEW c \in Calls, Continue(c)
  PROVE  SerialCalls'
<1> USE DEF IInv, SerialInv
<1> DEFINE Elsewhere == pc'[c] \notin {"judge", "commit", "announce"}
<1>1. Elsewhere => SerialCalls'
  BY SerialCallsMoved
<1>2. CASE \/ RecoverPlan(c) \/ RewritePlan(c) \/ Reconcile(c) \/ Judge(c) \/ Refuse(c)
           \/ Snapshot(c) \/ CommitFails(c) \/ ReviseFails(c) \/ StartTurn(c)
           \/ StopGates(c) \/ StopTimer(c) \/ StopAbort(c) \/ Resolve(c) \/ Resolved(c)
           \/ Return(c) \/ ResolvedAlready(c) \/ Reread(c) \/ RereadFails(c)
  <2>1. Elsewhere
    BY <1>2, StepType
    DEF RecoverPlan, RewritePlan, Reconcile, Judge, Refuse, Snapshot, CommitFails,
        ReviseFails, StartTurn, StopGates, StopTimer, StopAbort, Resolve, Resolved, Return,
        ResolvedAlready, Reread, RereadFails, Goto
  <2>2. QED
    BY <1>1, <2>1
<1>3. CASE ReadLastEvent(c)
  <2>1. pc'[c] = "judge" /\ Owed' = Owed
    BY <1>3, StepType DEF ReadLastEvent, Goto, Owed
  <2>2. held'[c].closed => log.last = "closed"
    <3>1. held[c] \in Memory
      BY DEF TypeOK
    <3>2. QED
      BY <1>3, <3>1 DEF ReadLastEvent, TypeOK, Memory
  <2>3. QED
    BY <2>1, <2>2, SerialCallsMoved DEF SerialSlot, NotClosedYet
<1>4. CASE Reserve(c) \/ Dismiss(c)
  <2>1. pc'[c] = "commit" /\ run'.timer = None /\ run'.ctl = None
    BY <1>4, StepType DEF Reserve, Dismiss, Goto, Slot, SlotInv, IdleIsEmpty
  <2>2. QED
    BY <2>1, SerialCallsMoved
<1>5. CASE Approve(c)
  <2>1. pc'[c] = "commit" => run'.timer = None /\ run'.ctl = None
    BY <1>5, StepType DEF Approve, Goto, SlotInv, IdleIsEmpty
  <2>2. pc'[c] \in {"commit", "thrown"}
    BY <1>5, StepType DEF Approve, Goto
  <2>3. QED
    BY <2>1, <2>2, SerialCallsMoved
<1>6. CASE Commit(c) \/ ApproveClear(c)
  <2>1. run'.timer = None /\ run'.ctl = None
    BY <1>6 DEF Commit, ApproveClear, SerialCalls, SlotKeptFree
  <2>2. pc'[c] \in {"announce", "emitting"}
    BY <1>6, StepType DEF Commit, ApproveClear, Goto
  <2>3. Emit(Announced(c).type, c) /\ Announced(c).type \in EventTypes \ {"closed"}
    BY <1>6 DEF Commit, ApproveClear, Announced, EventTypes
  <2>4. ~Persisted([type |-> Announced(c).type, of |-> c])'
    BY <2>3, ChainOfOthers DEF Announced
  <2>5. ~Persisted(Announced(c))'
    BY <2>4 DEF Announced, Persisted
  <2>6. QED
    BY <2>1, <2>2, <2>5, SerialCallsMoved
<1>7. QED
  BY <1>2, <1>3, <1>4, <1>5, <1>6 DEF Continue

\* In serial use every step keeps the slot to one run and what the call counts on.
LEMMA SerialNext ==
  ASSUME SerialUse
  PROVE  IInv /\ SerialInv /\ [Next]_vars => SerialInv'
<1> SUFFICES ASSUME IInv, SerialInv, [Next]_vars PROVE SerialInv'
  OBVIOUS
<1> USE DEF SerialInv
<1>1. CASE UNCHANGED vars
  <2>1. SerialSlot'
    BY <1>1, SerialSlotKept DEF vars
  <2>2. SerialCalls'
    BY <1>1, SerialCallsKept DEF vars, Owed, Persisted, IInv
  <2>3. QED
    BY <2>1, <2>2
<1>2. ASSUME NEW c \in Calls, Load(c) PROVE SerialInv'
  <2>1. SerialSlot'
    BY <1>2, SerialSlotKept DEF Load
  <2>2. \A d \in Calls : d # c => pc'[d] \in {"idle", "returned", "thrown"}
    BY <1>2, ArrivesAlone, StepType DEF Load, Goto, InFlight, SerialCalls, IInv
  <2>3. pc'[c] \in {"recover", "planned", "loaded"}
    BY <1>2, StepType DEF Load, Goto, IInv
  <2>4. SerialCalls'
    BY <2>2, <2>3
    DEF SerialCalls, OneInFlight, InFlight, ClosedIsOver, SlotKeptFree, NewsIsLast
  <2>5. QED
    BY <2>1, <2>4
<1>3. ASSUME NEW c \in Calls, Continue(c) PROVE SerialInv'
  BY <1>3, SerialSlotContinue, SerialCallsContinue
<1>4. ASSUME NEW j \in Calls, Begin(j) PROVE SerialInv'
  <2>1. SerialSlot' /\ Owed /\ run.timer # None
    BY <1>4, SerialSlotBegin, CallsAssumption DEF Begin, IInv, SlotInv, SlotOwned
  <2>2. \A c \in Calls : /\ pc[c] \notin {"commit", "announce"}
                         /\ ~(pc[c] = "judge" /\ held[c].closed)
    BY <2>1 DEF SerialCalls, SlotKeptFree, ClosedIsOver
  <2>3. UNCHANGED <<pc, held>>
    BY <1>4 DEF Begin
  <2>4. SerialCalls'
    BY <2>2, <2>3
    DEF SerialCalls, OneInFlight, InFlight, ClosedIsOver, SlotKeptFree, NewsIsLast
  <2>5. QED
    BY <2>1, <2>4
<1>5. ASSUME NEW j \in Calls, PlanSave(j) PROVE SerialInv'
  <2>1. SerialSlot'
    BY <1>5, SerialSlotKept DEF PlanSave
  <2>2. SerialCalls'
    BY <1>5, SerialCallsKept DEF PlanSave, Owed, Persisted, IInv
  <2>3. QED
    BY <2>1, <2>2
<1>6. ASSUME NEW j \in Calls, End(j) PROVE SerialInv'
  <2>1. \A e \in Events : Persisted(e)' => Persisted(e)
    BY <1>6, EmitKeepsWaiting DEF End, EventTypes, IInv
  <2>2. SerialCalls'
    BY <1>6, <2>1, SerialCallsKept DEF End, Owed, IInv
  <2>3. QED
    BY <1>6, <2>2, SerialSlotEnd
<1>7. ASSUME NEW j \in Calls, Finally(j) PROVE SerialInv'
  <2>1. UNCHANGED <<pc, held, chain, log>>
    BY <1>7 DEF Finally, Disarmed
  <2>2. \A e \in Events : Persisted(e)' => Persisted(e)
    BY <2>1 DEF Persisted
  <2>3. SerialCalls'
    BY <1>7, <2>1, <2>2, SerialSlotFinally, SerialCallsKept DEF IInv
  <2>4. QED
    BY <1>7, <2>3, SerialSlotFinally
<1>8. ASSUME NEW j \in Calls, Runner(j) PROVE SerialInv'
  <2>1. ~Owed => ~Owed'
    BY <1>8, SerialSlotRunner DEF Owed
  <2>2. QED
    BY <1>8, <2>1, SerialSlotRunner, SerialCallsKept DEF IInv
<1>9. CASE Persist
  <2>1. SerialSlot' /\ (~Owed => ~Owed')
    BY <1>9, SerialSlotPersist
  <2>2. UNCHANGED <<run, pc, held>> /\ log'.last = Head(chain).type
    BY <1>9 DEF Persist
  <2>3. ASSUME NEW c \in Calls, pc[c] = "announce" PROVE log'.last # "closed"
    <3>1. run.ctl = None
      BY <2>3 DEF SerialCalls, SlotKeptFree
    <3>2. 1 \in DOMAIN chain /\ Head(chain) = chain[1]
      BY <1>9 DEF Persist, IInv, TypeOK
    <3>3. chain[1].type # "closed"
      BY <3>1, <3>2, ChainType, CallsAssumption DEF SerialSlot, ClosingByOwner, IInv
    <3>4. QED
      BY <2>2, <3>2, <3>3
  <2>4. SerialCalls'
    BY <2>1, <2>2, <2>3
    DEF SerialCalls, OneInFlight, InFlight, ClosedIsOver, SlotKeptFree, NewsIsLast
  <2>5. QED
    BY <2>1, <2>4
<1>10. QED
  BY <1>1, <1>2, <1>3, <1>4, <1>5, <1>6, <1>7, <1>8, <1>9 DEF Next, Proceed

\* Every step keeps the invariant of the slot and of the terminal events.
LEMMA InvNext == IInv /\ [Next]_vars => IInv'
  BY TypeNext, SlotNext, ClosingNext DEF IInv

\* The invariant of serial use holds throughout.
LEMMA SerialAlways == ASSUME SerialUse PROVE Spec => [](IInv /\ SerialInv)
<1>1. Init => IInv /\ SerialInv
  BY TypeInit, SlotInit, ClosingInit, SerialInit DEF IInv
<1>2. IInv /\ SerialInv /\ [Next]_vars => (IInv /\ SerialInv)'
  BY InvNext, SerialNext
<1>3. QED
  BY <1>1, <1>2, PTL DEF Spec

(***************************************************************************)
(* A client that waits for each response and stops nothing never has two   *)
(* runs at work on its thread (chatService.ts, sendMessage's guard and     *)
(* reconcileStaleTerminalThreadRun), whatever the runner does and whenever *)
(* its terminal event is persisted; and no turn it was promised is dropped *)
(* without a word: no path that clears the slot finds another call's timer *)
(* in it.                                                                  *)
(***************************************************************************)
THEOREM TurnsStayApart ==
  ASSUME SerialUse
  PROVE  Spec => []TurnsKeepApart
<1>1. IInv /\ SerialInv => TurnsKeepApart
  BY DEF SerialInv, SerialSlot, RunOwnsSlot, TurnsKeepApart, OneLiveRun, Live
<1>2. QED
  BY <1>1, SerialAlways, PTL

(***************************************************************************)
(* What such a client is asked, a run that has not finished is waiting     *)
(* for, also when runners die with their question open.                    *)
(***************************************************************************)
THEOREM GatesHaveRuns ==
  ASSUME SerialUse
  PROVE  Spec => []GateHasRun
<1>1. IInv /\ SerialInv => GateHasRun
  BY DEF IInv, SlotInv, SlotOwned, SerialInv, SerialSlot, GateOwnsSlot, GateHasRun, Pending
<1>2. QED
  BY <1>1, SerialAlways, PTL

(***************************************************************************)
(* The plan of such a client's thread is settled once, if a runner waits   *)
(* for the callbacks it has made.  One that dies after plan.created is     *)
(* persisted can still write on the row a plan the client has found in the *)
(* log and settled.                                                        *)
(***************************************************************************)
PatientRunners == "crash" \notin Acts

\* The calls that have settled a plan, those of them whose news is on its way, the
\* calls that work on a plan, and the plans settled.
Settling(c)   == /\ Op[c] \in PlanOps
                 /\ pc[c] \in {"announce", "emitting", "reread", "returned"}
Announcing(c) == /\ Op[c] \in PlanOps
                 /\ pc[c] = IF Op[c] = "dismiss" THEN "emitting" ELSE "announce"
                 /\ ~Persisted([type |-> "plan_settled", of |-> c])
Working(c)    == \/ pc[c] = "rewrite"
                 \/ /\ Op[c] \in PlanOps
                    /\ pc[c] \in {"planned", "lookup", "judge", "admit", "commit"}
Settled       == {p \in Calls : \E c \in Calls : Settling(c) /\ held[c].plan = p}

\* A plan was made by a run that detected it and is settled after the run has saved
\* it: neither the row nor a plan.created on its way brings a settled plan back, and
\* the log offers one only until the news of its settlement is persisted.
OpenPlan(p)    == p # None /\ "plan" \in did[p] /\ p \notin Settled
RowIsOpen      == plan # None => OpenPlan(plan)
WorkIsOpen     == \A c \in Calls : Working(c) => OpenPlan(held[c].plan)
LogIsOpen      == log.openPlan # None =>
                    \/ OpenPlan(log.openPlan)
                    \/ "plan" \in did[log.openPlan] /\ \E c \in Calls : Announcing(c)
SettledIsSaved == \A p \in Settled : "plan_saved" \in did[p]
SavedWasMade   == \A j \in Calls : "plan_saved" \in did[j] => "plan" \in did[j]
EndedHasSaved  == \A j \in Calls : job[j] # "running" => ~SavingPlan(j)
SettledByOne   == \A c, d \in Calls : c # d /\ Settling(c) /\ Settling(d)
                                      => held[c].plan # held[d].plan
CreatedIsNew   == \A i \in DOMAIN chain :
                    chain[i].type = "plan_created" => SavingPlan(chain[i].of)

PlanInv == /\ RowIsOpen /\ WorkIsOpen /\ LogIsOpen /\ SettledIsSaved /\ SavedWasMade
           /\ EndedHasSaved /\ CreatedIsNew /\ SettledByOne

\* The invariant of plans holds at first.
LEMMA PlanInit == Init => PlanInv
  BY DEF Init, PlanInv, RowIsOpen, WorkIsOpen, Working, LogIsOpen, Settled, Settling,
         SettledIsSaved, SavedWasMade, EndedHasSaved, SavingPlan, CreatedIsNew,
         SettledByOne

\* What is settled is settled still.
SettlesNothing ==
  /\ \A d \in Calls : Settling(d)' => Settling(d) /\ held'[d].plan = held[d].plan
  /\ \A d \in Calls : Working(d)' => Working(d) /\ held'[d].plan = held[d].plan
  /\ \A d \in Calls : Announcing(d) => Announcing(d)'

\* A step that settles nothing, takes a plan off the row at most and lets no run stop
\* that has a plan to save.
LEMMA PlanKept ==
  ASSUME TypeOK, PlanInv, SettlesNothing, UNCHANGED log, plan' \in {plan, None},
         \A j \in Calls : did[j] \subseteq did'[j],
         \A j \in Calls : SavingPlan(j)' => SavingPlan(j) \/ job'[j] = "running",
         \A j \in Calls : job'[j] # "running" => job[j] # "running" \/ ~SavingPlan(j),
         SavedWasMade', CreatedIsNew'
  PROVE  PlanInv'
<1>1. \A p \in Settled' : p \in Settled
  BY DEF Settled, SettlesNothing
<1>2. \A p \in Calls : OpenPlan(p) => OpenPlan(p)'
  BY <1>1 DEF OpenPlan
<1>3. RowIsOpen'
  BY <1>2 DEF PlanInv, RowIsOpen, TypeOK, CallOrNone
<1>4. WorkIsOpen'
  <2>1. ASSUME NEW d \in Calls, Working(d)' PROVE OpenPlan(held[d].plan)'
    <3>1. Working(d) /\ held'[d].plan = held[d].plan
      BY <2>1 DEF SettlesNothing
    <3>2. OpenPlan(held[d].plan) /\ held[d].plan \in Calls
      BY <3>1 DEF PlanInv, WorkIsOpen, OpenPlan, TypeOK, Memory, CallOrNone
    <3>3. QED
      BY <1>2, <3>1, <3>2 DEF OpenPlan
  <2>2. QED
    BY <2>1 DEF WorkIsOpen, OpenPlan
<1>5. LogIsOpen'
  <2>1. CASE log.openPlan = None
    BY <2>1 DEF LogIsOpen
  <2>2. CASE log.openPlan # None
    <3>1. log.openPlan \in Calls /\ log'.openPlan = log.openPlan
      BY <2>2 DEF TypeOK, CallOrNone
    <3>2. QED
      BY <1>2, <2>2, <3>1 DEF PlanInv, LogIsOpen, OpenPlan, SettlesNothing
  <2>3. QED
    BY <2>1, <2>2
<1>6. SettledIsSaved'
  BY <1>1 DEF PlanInv, SettledIsSaved, Settled
<1>7. EndedHasSaved'
  BY DEF PlanInv, EndedHasSaved
<1>8. SettledByOne'
  BY DEF PlanInv, SettledByOne, SettlesNothing, Settling
<1>9. QED
  BY <1>3, <1>4, <1>5, <1>6, <1>7, <1>8 DEF PlanInv

\* The same for a step that makes no callback and emits nothing about plans.
LEMMA PlanKeptQuietly ==
  ASSUME TypeOK, PlanInv, SettlesNothing, UNCHANGED <<did, log>>, plan' \in {plan, None},
         \A j \in Calls : job'[j] # "running" => job[j] # "running" \/ ~SavingPlan(j),
         \A i \in DOMAIN chain' : chain'[i].type = "plan_created" =>
           \E k \in DOMAIN chain : chain[k] = chain'[i]
  PROVE  PlanInv'
<1>1. SavedWasMade' /\ CreatedIsNew'
  BY DEF PlanInv, SavedWasMade, CreatedIsNew, SavingPlan
<1>2. QED
  BY <1>1, PlanKept DEF SavingPlan

\* What is not about plans brings none into the chain.
LEMMA ChainOfOtherNews ==
  ASSUME TypeOK, NEW type \in EventTypes \ {"plan_created"}, NEW c \in Calls, Emit(type, c)
  PROVE  \A i \in DOMAIN chain' : chain'[i].type = "plan_created" =>
           \E k \in DOMAIN chain : chain[k] = chain'[i]
<1> DEFINE e == [type |-> type, of |-> c]
<1>1. /\ Len(chain') = Len(chain) + 1
      /\ DOMAIN chain = 1..Len(chain) /\ DOMAIN chain' = 1..Len(chain')
      /\ chain'[Len(chain')] = e
      /\ \A i \in 1..Len(chain) : chain'[i] = chain[i]
      /\ Len(chain) \in Nat
  BY DEF Emit, TypeOK, Events
<1>2. QED
  BY <1>1

\* A call that goes on without settling a plan or finding another to work on.
LEMMA SettlesNothingElse ==
  ASSUME TypeOK, OneInFlight, NEW c \in Calls, Continue(c),
         Settling(c)' => Settling(c) /\ held'[c].plan = held[c].plan,
         Working(c)' => Working(c) /\ held'[c].plan = held[c].plan,
         ~Announcing(c),
         \A d \in Calls : d # c => held'[d] = held[d]
  PROVE  SettlesNothing
<1>1. \A d \in Calls : d # c => ~InFlight(d) /\ pc'[d] = pc[d]
  BY OthersRest
<1>2. \A d \in Calls : d # c => ~Announcing(d)
  BY <1>1 DEF Announcing, InFlight
<1>3. \A d \in Calls : d # c => (Settling(d)' => Settling(d))
  BY <1>1 DEF Settling
<1>4. \A d \in Calls : d # c => (Working(d)' => Working(d))
  BY <1>1 DEF Working
<1>5. QED
  BY <1>2, <1>3, <1>4 DEF SettlesNothing

\* A plan leaves the row, and its settlement joins the chain.
LEMMA PlanSettles ==
  ASSUME SerialUse, IInv, SerialInv, PlanInv, NEW c \in Calls, Continue(c),
         Op[c] \in PlanOps, pc[c] = "commit",
         pc'[c] = IF Op[c] = "dismiss" THEN "emitting" ELSE "announce",
         plan' = None, Emit("plan_settled", c), UNCHANGED <<held, did, log, job>>
  PROVE  PlanInv'
<1> USE DEF IInv, SerialInv
<1> DEFINE p == held[c].plan
<1>1. \A d \in Calls : d # c => ~InFlight(d) /\ pc'[d] = pc[d]
  BY OthersRest DEF SerialCalls
<1>2. p \in Calls /\ OpenPlan(p)
  BY DEF PlanInv, WorkIsOpen, Working, OpenPlan, TypeOK, Memory, CallOrNone
<1>3. "plan_saved" \in did[p]
  <2>1. run.ctl = None
    BY DEF SerialCalls, SlotKeptFree
  <2>2. job[p] # "running"
    BY <1>2, <2>1, CallsAssumption DEF SerialSlot, RunOwnsSlot
  <2>3. QED
    BY <1>2, <2>2 DEF PlanInv, EndedHasSaved, SavingPlan, OpenPlan
<1>4. \A d \in Calls : Settling(d)' => Settling(d) \/ d = c
  BY <1>1 DEF Settling
<1>5. RowIsOpen'
  BY DEF RowIsOpen
<1>6. WorkIsOpen'
  BY <1>1 DEF WorkIsOpen, Working, InFlight
<1>7. LogIsOpen'
  <2>1. ~Persisted([type |-> "plan_settled", of |-> c])'
    BY ChainOfOthers DEF EventTypes
  <2>2. Announcing(c)'
    BY <2>1 DEF Announcing, Persisted
  <2>3. log.openPlan # None => "plan" \in did[log.openPlan]
    BY DEF PlanInv, LogIsOpen, OpenPlan
  <2>4. QED
    BY <2>2, <2>3 DEF LogIsOpen
<1>8. SettledIsSaved'
  BY <1>3, <1>4 DEF PlanInv, SettledIsSaved, Settled
<1>9. SavedWasMade' /\ EndedHasSaved'
  BY DEF PlanInv, SavedWasMade, EndedHasSaved, SavingPlan
<1>10. CreatedIsNew'
  BY ChainOfOtherNews DEF PlanInv, CreatedIsNew, SavingPlan, EventTypes
<1>11. SettledByOne'
  <2>1. \A d \in Calls : Settling(d) => held[d].plan # p
    BY <1>2 DEF OpenPlan, Settled
  <2>2. \A d \in Calls : d # c => (Settling(d)' => Settling(d))
    BY <1>4
  <2>3. ASSUME NEW d \in Calls, NEW e \in Calls, d # e, Settling(d)', Settling(e)'
        PROVE  held[d].plan # held[e].plan
    <3>1. CASE d = c
      BY <2>1, <2>2, <2>3, <3>1
    <3>2. CASE e = c
      BY <2>1, <2>2, <2>3, <3>2
    <3>3. CASE d # c /\ e # c
      BY <2>2, <2>3, <3>3 DEF PlanInv, SettledByOne, Settling
    <3>4. QED
      BY <3>1, <3>2, <3>3
  <2>4. QED
    BY <2>3 DEF SettledByOne, Settling
<1>12. QED
  BY <1>5, <1>6, <1>7, <1>8, <1>9, <1>10, <1>11 DEF PlanInv

\* What a call does after an await keeps the invariant of plans.
LEMMA PlanContinue ==
  ASSUME SerialUse, IInv, SerialInv, PlanInv, NEW c \in Calls, Continue(c)
  PROVE  PlanInv'
<1> USE DEF IInv, SerialInv
<1>0. OneInFlight
  BY DEF SerialCalls
<1>1. CASE RecoverPlan(c)
  <2>1. \A d \in Calls : d # c => ~InFlight(d) /\ pc'[d] = pc[d]
    BY <1>0, OthersRest
  <2>2. \A d \in Calls : ~Announcing(d)
    BY <1>1, <2>1 DEF RecoverPlan, Announcing, InFlight
  <2>3. /\ pc'[c] = IF log.openPlan = None THEN "thrown" ELSE "rewrite"
        /\ held'[c].plan = log.openPlan
    BY <1>1, StepType DEF RecoverPlan, Goto, TypeOK, Memory
  <2>4. \A d \in Calls : d # c => held'[d] = held[d]
    BY <1>1 DEF RecoverPlan, TypeOK
  <2>5. \A d \in Calls : Settling(d)' => d # c /\ Settling(d)
    BY <2>1, <2>3 DEF Settling
  <2>6. Settled' = Settled /\ UNCHANGED did
    BY <1>1, <2>1, <2>3, <2>4 DEF Settled, Settling, RecoverPlan
  <2>7. \A p : OpenPlan(p) => OpenPlan(p)'
    BY <2>6 DEF OpenPlan
  <2>8. WorkIsOpen'
    <3>1. ASSUME NEW d \in Calls, Working(d)' PROVE OpenPlan(held[d].plan)'
      <4>1. CASE d # c
        BY <2>1, <3>1, <4>1 DEF Working, InFlight
      <4>2. CASE d = c
        <5>1. log.openPlan # None
          BY <2>3, <3>1, <4>2 DEF Working
        <5>2. OpenPlan(log.openPlan)
          BY <2>2, <5>1 DEF PlanInv, LogIsOpen
        <5>3. QED
          BY <2>3, <2>7, <4>2, <5>2 DEF OpenPlan
      <4>3. QED
        BY <4>1, <4>2
    <3>2. QED
      BY <3>1 DEF WorkIsOpen, OpenPlan
  <2>9. RowIsOpen' /\ LogIsOpen'
    BY <1>1, <2>2, <2>7 DEF RecoverPlan, PlanInv, RowIsOpen, LogIsOpen, OpenPlan
  <2>10. SettledIsSaved' /\ SavedWasMade' /\ EndedHasSaved' /\ CreatedIsNew'
    BY <1>1, <2>6
    DEF RecoverPlan, PlanInv, SettledIsSaved, SavedWasMade, EndedHasSaved, CreatedIsNew,
        SavingPlan
  <2>11. SettledByOne'
    BY <2>4, <2>5 DEF PlanInv, SettledByOne, Settling
  <2>12. QED
    BY <2>8, <2>9, <2>10, <2>11 DEF PlanInv
<1>2. CASE RewritePlan(c)
  <2>1. /\ Working(c) /\ plan' = held[c].plan /\ pc'[c] = "planned" /\ ~Settling(c)
        /\ UNCHANGED <<held, did, job, chain, log>>
    BY <1>2, StepType DEF RewritePlan, Working, Settling, Goto
  <2>2. ~Announcing(c)
    BY <1>2 DEF RewritePlan, Announcing
  <2>3. ~Settling(c)' /\ (Working(c)' => Working(c))
    BY <2>1 DEF Settling, Working
  <2>4. SettlesNothing
    BY <1>0, <2>1, <2>2, <2>3, SettlesNothingElse
  <2>5. Settled' \subseteq Settled
    BY <2>1, <2>4 DEF SettlesNothing, Settled
  <2>6. RowIsOpen'
    BY <2>1, <2>5 DEF PlanInv, WorkIsOpen, RowIsOpen, OpenPlan
  <2>7. WorkIsOpen' /\ LogIsOpen' /\ SettledIsSaved' /\ SavedWasMade'
    BY <2>1, <2>4, <2>5
    DEF PlanInv, WorkIsOpen, LogIsOpen, SettledIsSaved, SavedWasMade, OpenPlan,
        SettlesNothing
  <2>8. EndedHasSaved' /\ CreatedIsNew'
    BY <2>1 DEF PlanInv, EndedHasSaved, CreatedIsNew, SavingPlan
  <2>9. SettledByOne'
    BY <2>1, <2>4 DEF PlanInv, SettledByOne, SettlesNothing, Settling
  <2>10. QED
    BY <2>6, <2>7, <2>8, <2>9 DEF PlanInv
<1>3. CASE \/ Commit(c) /\ Op[c] # "send"
           \/ ApproveClear(c)
  <2>1. /\ Op[c] \in PlanOps /\ pc[c] = "commit" /\ plan' = None
        /\ Emit("plan_settled", c) /\ UNCHANGED <<held, did, log, job>>
        /\ pc'[c] = IF Op[c] = "dismiss" THEN "emitting" ELSE "announce"
    BY <1>3, StepType DEF Commit, ApproveClear, PlanOps, Goto
  <2>2. QED
    BY <2>1, PlanSettles
<1>4. ASSUME SettlesNothing, UNCHANGED <<did, plan, log>>,
             \A j \in Calls : job'[j] # "running" => job[j] # "running",
             \A i \in DOMAIN chain' : chain'[i].type = "plan_created" =>
               \E k \in DOMAIN chain : chain[k] = chain'[i]
      PROVE  PlanInv'
  BY <1>4, PlanKeptQuietly
<1>5. ASSUME Settling(c)' => Settling(c), Working(c)' => Working(c), ~Announcing(c),
             held'[c].plan = held[c].plan,
             \A d \in Calls : d # c => held'[d] = held[d]
      PROVE  SettlesNothing
  BY <1>0, <1>5, SettlesNothingElse
<1>6. ASSUME ClearRun
      PROVE  \A j \in Calls : job'[j] # "running" => job[j] # "running"
  BY <1>6, ClearRunDrops DEF SlotInv, SlotOwned
<1>7. CASE Reconcile(c) \/ ReadLastEvent(c) \/ Judge(c)
  <2>1. /\ pc[c] \in {"planned", "loaded", "lookup", "judge"}
        /\ pc'[c] \in {"lookup", "judge", "admit"}
        /\ pc[c] = "loaded" => Op[c] \notin PlanOps
    BY <1>7, StepType DEF Reconcile, ReadLastEvent, Judge, Goto
  <2>2. /\ held'[c].plan = held[c].plan
        /\ \A d \in Calls : d # c => held'[d] = held[d]
    <3>1. CASE Reconcile(c)
      BY <3>1 DEF Reconcile, TypeOK, Memory
    <3>2. CASE ReadLastEvent(c)
      BY <3>2 DEF ReadLastEvent, TypeOK, Memory
    <3>3. CASE Judge(c)
      BY <3>3 DEF Judge, TypeOK, Memory
    <3>4. QED
      BY <1>7, <3>1, <3>2, <3>3
  <2>3. /\ Settling(c)' => Settling(c)
        /\ Working(c)' => Working(c)
        /\ ~Announcing(c)
    BY <2>1 DEF Settling, Working, Announcing
  <2>4. SettlesNothing
    BY <1>5, <2>2, <2>3
  <2>5. /\ UNCHANGED <<did, plan, chain, log>>
        /\ \A j \in Calls : job'[j] # "running" => job[j] # "running"
    BY <1>6, <1>7 DEF Reconcile, ReadLastEvent, Judge
  <2>6. QED
    BY <1>4, <2>4, <2>5
<1>8. CASE Refuse(c) \/ Snapshot(c) \/ Reserve(c) \/ ReviseFails(c) \/ Approve(c)
           \/ Dismiss(c) \/ StopGates(c) \/ StopAbort(c)
  <2>1. /\ pc[c] \in {"planned", "admit", "commit"}
        /\ pc'[c] \in {"thrown", "returned", "commit"}
        /\ pc'[c] = "returned" => Op[c] \notin PlanOps
        /\ UNCHANGED <<held, job, did, plan, chain, log>>
    BY <1>8, StepType
    DEF Refuse, Snapshot, Reserve, ReviseFails, Approve, Dismiss, StopGates, StopAbort,
        PlanOps, Goto
  <2>2. /\ Settling(c)' => Settling(c)
        /\ Working(c)' => Working(c)
        /\ ~Announcing(c)
    BY <2>1 DEF Settling, Working, Announcing
  <2>3. QED
    BY <1>4, <1>5, <2>1, <2>2
<1>9. CASE CommitFails(c) \/ Reread(c) \/ RereadFails(c) \/ Resolved(c)
           \/ ResolvedAlready(c)
  <2>1. /\ Op[c] \notin PlanOps \/ pc[c] = "reread"
        /\ pc[c] # "rewrite"
        /\ pc'[c] \in {"thrown", "returned"}
        /\ UNCHANGED <<held, did, plan, chain, log>>
    BY <1>9, StepType
    DEF CommitFails, Reread, RereadFails, Resolved, ResolvedAlready, PlanOps, Goto
  <2>2. /\ Settling(c)' => Settling(c)
        /\ Working(c)' => Working(c)
        /\ ~Announcing(c)
    BY <2>1 DEF Settling, Working, Announcing
  <2>3. \A j \in Calls : job'[j] # "running" => job[j] # "running"
    BY <1>6, <1>9 DEF CommitFails, Reread, RereadFails, Resolved, ResolvedAlready
  <2>4. QED
    BY <1>4, <1>5, <2>1, <2>2, <2>3
<1>10. CASE StartTurn(c) \/ Return(c)
  <2>1. /\ pc[c] \in {"announce", "emitting"} /\ pc'[c] \in {"reread", "returned"}
        /\ UNCHANGED <<held, did, plan, chain, log>>
    BY <1>10, StepType DEF StartTurn, Return, Goto
  <2>2. /\ Settling(c)' => Settling(c)
        /\ Working(c)' => Working(c)
    BY <2>1 DEF Settling, Working
  <2>3. ~Announcing(c)
    BY <1>10 DEF StartTurn, Return, Announced, Awaited, Announcing, PlanOps
  <2>4. \A j \in Calls : job'[j] # "running" => job[j] # "running"
    <3>1. CASE StartTurn(c)
      <4>1. job[c] = "none" /\ (run.timer \in Calls => job[run.timer] = "timer")
        BY <3>1 DEF StartTurn, SlotInv, SlotOwned, FreshJob, Past
      <4>2. QED
        BY <3>1, <4>1 DEF StartTurn, Schedule, TypeOK, Disarmed
    <3>2. CASE Return(c)
      BY <3>2 DEF Return
    <3>3. QED
      BY <1>10, <3>1, <3>2
  <2>5. QED
    BY <1>4, <1>5, <2>1, <2>2, <2>3, <2>4
<1>11. CASE \/ Resolve(c)
            \/ Commit(c) /\ Op[c] = "send"
  <2>1. /\ Op[c] \notin PlanOps /\ pc'[c] \in {"announce", "emitting"}
        /\ UNCHANGED <<did, plan, log, job>> /\ Emit("progress", c)
    BY <1>11, StepType DEF Resolve, Commit, PlanOps, Goto
  <2>2. /\ held'[c].plan = held[c].plan
        /\ \A d \in Calls : d # c => held'[d] = held[d]
    BY <1>11 DEF Resolve, Commit, TypeOK, Memory
  <2>3. /\ Settling(c)' => Settling(c)
        /\ Working(c)' => Working(c)
        /\ ~Announcing(c)
    BY <2>1 DEF Settling, Working, Announcing
  <2>4. QED
    BY <1>4, <1>5, <2>1, <2>2, <2>3, ChainOfOtherNews DEF EventTypes
<1>12. CASE StopTimer(c)
  BY <1>12 DEF SerialUse, StopTimer
<1>13. QED
  BY <1>1, <1>2, <1>3, <1>7, <1>8, <1>9, <1>10, <1>11, <1>12 DEF Continue, Commit

\* The arrival of a call, with nobody else in flight, does.
LEMMA PlanLoad ==
  ASSUME SerialUse, IInv, SerialInv, PlanInv, NEW c \in Calls, Load(c)
  PROVE  PlanInv'
<1> USE DEF IInv, SerialInv
<1>1. \A d \in Calls : ~InFlight(d)
  BY ArrivesAlone DEF SerialCalls
<1>2. /\ UNCHANGED <<did, plan, log, job, chain>>
      /\ \A d \in Calls : d # c => held'[d] = held[d] /\ pc'[d] = pc[d]
      /\ pc'[c] \in {"recover", "planned", "loaded"}
      /\ Op[c] \in PlanOps /\ pc'[c] = "planned" => plan # None
      /\ held'[c].plan = plan
  BY StepType DEF Load, Goto, TypeOK, Memory
<1>3. \A d \in Calls : ~Announcing(d) /\ ~Working(d)
  BY <1>1 DEF Announcing, Working, InFlight
<1>4. \A d \in Calls : Settling(d)' => d # c /\ Settling(d)
  BY <1>2 DEF Settling
<1>5. \A p : OpenPlan(p) => OpenPlan(p)'
  BY <1>2, <1>4 DEF OpenPlan, Settled
<1>6. WorkIsOpen'
  <2>1. ASSUME NEW d \in Calls, Working(d)' PROVE OpenPlan(held[d].plan)'
    <3>1. d = c /\ plan # None
      BY <1>2, <1>3, <2>1 DEF Working
    <3>2. OpenPlan(plan)
      BY <3>1 DEF PlanInv, RowIsOpen
    <3>3. QED
      BY <1>2, <1>5, <3>1, <3>2 DEF OpenPlan
  <2>2. QED
    BY <2>1 DEF WorkIsOpen
<1>7. RowIsOpen' /\ LogIsOpen'
  BY <1>2, <1>3, <1>5 DEF PlanInv, RowIsOpen, LogIsOpen, OpenPlan
<1>8. SettledIsSaved' /\ SavedWasMade' /\ EndedHasSaved' /\ CreatedIsNew'
  BY <1>2, <1>4
  DEF PlanInv, SettledIsSaved, Settled, SavedWasMade, EndedHasSaved, CreatedIsNew,
      SavingPlan
<1>9. SettledByOne'
  BY <1>2, <1>4 DEF PlanInv, SettledByOne
<1>10. QED
  BY <1>6, <1>7, <1>8, <1>9 DEF PlanInv

\* A step that moves no call settles nothing unless it persists an event.
LEMMA CallsRest ==
  ASSUME TypeOK, UNCHANGED <<pc, held>>, \A e \in Events : Persisted(e)' => Persisted(e)
  PROVE  SettlesNothing
<1>1. \A c \in Calls : [type |-> "plan_settled", of |-> c] \in Events
  BY DEF Events, EventTypes
<1>2. QED
  BY <1>1 DEF SettlesNothing, Settling, Working, Announcing

\* A run that saves its plan saves it before anyone has settled it, ...
LEMMA PlanSaved ==
  ASSUME IInv, PlanInv, NEW j \in Calls, PlanSave(j)
  PROVE  PlanInv'
<1> USE DEF IInv
<1>1. /\ UNCHANGED <<pc, held, log, job, chain>> /\ plan' = j /\ j # None
      /\ "plan" \in did[j] /\ "plan_saved" \notin did[j]
      /\ \A k \in Calls : did'[k] = IF k = j THEN did[k] \cup {"plan_saved"} ELSE did[k]
  BY CallsAssumption DEF PlanSave, TypeOK
<1>2. Settled' = Settled /\ j \notin Settled
  BY <1>1 DEF PlanInv, SettledIsSaved, Settled, Settling
<1>3. \A p \in Calls : OpenPlan(p) => OpenPlan(p)'
  BY <1>1, <1>2 DEF OpenPlan
<1>4. RowIsOpen'
  BY <1>1, <1>2 DEF RowIsOpen, OpenPlan
<1>5. WorkIsOpen'
  BY <1>1, <1>3 DEF PlanInv, WorkIsOpen, Working, OpenPlan, TypeOK, Memory, CallOrNone
<1>6. LogIsOpen'
  <2>1. log.openPlan \in CallOrNone /\ \A c \in Calls : Announcing(c)' = Announcing(c)
    BY <1>1 DEF TypeOK, Announcing, Persisted
  <2>2. QED
    BY <1>1, <1>3, <2>1 DEF PlanInv, LogIsOpen, OpenPlan, CallOrNone
<1>7. SettledIsSaved' /\ SavedWasMade' /\ EndedHasSaved'
  BY <1>1, <1>2 DEF PlanInv, SettledIsSaved, Settled, SavedWasMade, EndedHasSaved, SavingPlan
<1>8. CreatedIsNew'
  <2>1. ASSUME NEW i \in DOMAIN chain, chain[i].type = "plan_created"
        PROVE  chain[i].of \in Calls /\ chain[i].of # j
    BY <2>1, ChainType DEF PlanSave, Persisted, Events
  <2>2. QED
    BY <1>1, <2>1 DEF PlanInv, CreatedIsNew, SavingPlan
<1>9. SettledByOne'
  BY <1>1 DEF PlanInv, SettledByOne, Settling
<1>10. QED
  BY <1>4, <1>5, <1>6, <1>7, <1>8, <1>9 DEF PlanInv

\* ... and announces one once.
LEMMA PlanRunner ==
  ASSUME IInv, SerialInv, PlanInv, NEW j \in Calls, Runner(j)
  PROVE  PlanInv'
<1> USE DEF IInv, SerialInv
<1>1. UNCHANGED <<pc, held, job, plan, log>>
  BY DEF Runner, Text, ToolStart, ToolFinish, AskGate, PlanDetect, Metadata
<1>2. PICK what \in Callbacks \ {"plan_saved"} :
        /\ \A k \in Calls : did'[k] = IF k = j THEN did[k] \cup {what} ELSE did[k]
        /\ what = "plan" => PlanDetect(j)
        /\ what # "plan" => Emit("progress", j)
  <2>1. did \in [Calls -> SUBSET Callbacks]
    BY DEF TypeOK
  <2>2. CASE PlanDetect(j)
    <3>1. \A k \in Calls : did'[k] = IF k = j THEN did[k] \cup {"plan"} ELSE did[k]
      BY <2>1, <2>2 DEF PlanDetect
    <3>2. "plan" \in Callbacks \ {"plan_saved"}
      BY DEF Callbacks
    <3>3. QED
      BY <2>2, <3>1, <3>2
  <2>3. ASSUME NEW what \in Callbacks \ {"plan", "plan_saved"}, Emit("progress", j),
               did' = [did EXCEPT ![j] = @ \cup {what}]
        PROVE  /\ \A k \in Calls : did'[k] = IF k = j THEN did[k] \cup {what} ELSE did[k]
               /\ what = "plan" => PlanDetect(j)
               /\ what # "plan" => Emit("progress", j)
    BY <2>1, <2>3
  <2>4. CASE ~PlanDetect(j)
    <3>1. PICK what \in Callbacks \ {"plan", "plan_saved"} :
            Emit("progress", j) /\ did' = [did EXCEPT ![j] = @ \cup {what}]
      BY <2>4 DEF Runner, Text, ToolStart, ToolFinish, AskGate, Metadata, Callbacks
    <3>2. QED
      BY <2>3, <3>1
  <2>5. QED
    BY <2>2, <2>4
<1>3. SettlesNothing
  BY <1>1, SerialSlotRunner, CallsRest
<1>4. SavedWasMade'
  BY <1>2 DEF PlanInv, SavedWasMade
<1>5. CASE what # "plan"
  <2>1. \A k \in Calls : SavingPlan(k)' = SavingPlan(k)
    BY <1>2, <1>5 DEF SavingPlan
  <2>2. CreatedIsNew'
    <3>1. \A i \in DOMAIN chain' : chain'[i].type = "plan_created" =>
            chain'[i].of \in Calls /\ SavingPlan(chain'[i].of)
      BY <1>2, <1>5, ChainOfOtherNews, ChainType DEF PlanInv, CreatedIsNew, EventTypes
    <3>2. QED
      BY <2>1, <3>1 DEF CreatedIsNew, SavingPlan
  <2>3. QED
    BY <1>1, <1>2, <1>3, <1>4, <2>1, <2>2, PlanKept
<1>6. CASE what = "plan"
  <2>1. job[j] = "running" /\ "plan" \notin did[j] /\ Emit("plan_created", j)
    BY <1>2, <1>6 DEF PlanDetect, May
  <2>2. \A k \in Calls : SavingPlan(k)' <=> SavingPlan(k) \/ k = j
    BY ZenonT(60), <1>2, <1>6, <2>1 DEF SavingPlan, PlanInv, SavedWasMade
  <2>3. CreatedIsNew'
    <3>1. \A i \in DOMAIN chain' : \/ i \in DOMAIN chain /\ chain'[i] = chain[i]
                                  \/ chain'[i].of = j
      BY <2>1 DEF Emit, TypeOK, Events, EventTypes
    <3>2. QED
      BY <2>2, <3>1, ChainType DEF PlanInv, CreatedIsNew, SavingPlan
  <2>4. QED
    BY <1>1, <1>2, <1>3, <1>4, <2>1, <2>2, <2>3, PlanKept
<1>7. QED
  BY <1>5, <1>6

\* The persisting of an event keeps the invariant of plans.
LEMMA PlanPersist ==
  ASSUME IInv, PlanInv, Persist
  PROVE  PlanInv'
<1> USE DEF IInv
<1> DEFINE e == Head(chain)
<1>1. /\ Len(chain) \in Nat /\ Len(chain') = Len(chain) - 1
      /\ DOMAIN chain = 1..Len(chain) /\ DOMAIN chain' = 1..Len(chain')
      /\ \A i \in 1..Len(chain') : chain'[i] = chain[i + 1]
      /\ e = chain[1] /\ e \in Events /\ 1 \in 1..Len(chain)
  BY DEF Persist, TypeOK
<1>2. /\ UNCHANGED <<pc, held, job, plan, did>> /\ e.of \in Calls
      /\ log'.openPlan = CASE e.type = "plan_created" -> e.of
                            [] e.type = "plan_settled" -> None
                            [] OTHER                   -> log.openPlan
  BY <1>1 DEF Persist, Events
<1>3. \A c \in Calls : Announcing(c) => \/ Announcing(c)'
                                        \/ e.type = "plan_settled"
  <2>1. ASSUME NEW c \in Calls, Announcing(c), e.type # "plan_settled"
        PROVE  Announcing(c)'
    <3>1. PICK i \in 1..Len(chain) : chain[i] = [type |-> "plan_settled", of |-> c]
      BY <1>1, <2>1 DEF Announcing, Persisted
    <3>2. i - 1 \in 1..Len(chain') /\ chain'[i - 1] = chain[i]
      BY <1>1, <2>1, <3>1
    <3>3. QED
      BY <1>1, <1>2, <2>1, <3>1, <3>2 DEF Announcing, Persisted
  <2>2. QED
    BY <2>1
<1>4. Settled' = Settled
  BY <1>2 DEF Settled, Settling
<1>5. \A p : OpenPlan(p)' = OpenPlan(p)
  BY <1>2, <1>4 DEF OpenPlan
<1>6. LogIsOpen'
  <2>1. CASE e.type = "plan_created"
    <3>1. SavingPlan(e.of)
      BY <1>1, <2>1 DEF PlanInv, CreatedIsNew
    <3>2. OpenPlan(e.of)
      BY <1>2, <3>1, CallsAssumption DEF PlanInv, SettledIsSaved, OpenPlan, SavingPlan
    <3>3. QED
      BY <1>2, <1>5, <2>1, <3>2 DEF LogIsOpen, OpenPlan
  <2>2. CASE e.type = "plan_settled"
    BY <1>2, <2>2 DEF LogIsOpen
  <2>3. CASE e.type \notin {"plan_created", "plan_settled"}
    BY <1>2, <1>3, <1>5, <2>3 DEF PlanInv, LogIsOpen, OpenPlan
  <2>4. QED
    BY <2>1, <2>2, <2>3
<1>7. CreatedIsNew'
  BY <1>1, <1>2 DEF PlanInv, CreatedIsNew, SavingPlan
<1>8. RowIsOpen' /\ WorkIsOpen'
  BY <1>2, <1>5 DEF PlanInv, RowIsOpen, WorkIsOpen, Working, OpenPlan
<1>9. SettledIsSaved' /\ SavedWasMade' /\ EndedHasSaved' /\ SettledByOne'
  BY <1>2, <1>4
  DEF PlanInv, SettledIsSaved, SavedWasMade, EndedHasSaved, SavingPlan, SettledByOne,
      Settling
<1>10. QED
  BY <1>6, <1>7, <1>8, <1>9 DEF PlanInv

\* With patient runners every step of serial use keeps the invariant of plans.
LEMMA PlanNext ==
  ASSUME SerialUse, PatientRunners
  PROVE  IInv /\ SerialInv /\ PlanInv /\ [Next]_vars => PlanInv'
<1> SUFFICES ASSUME IInv, SerialInv, PlanInv, [Next]_vars PROVE PlanInv'
  OBVIOUS
<1> USE DEF IInv, SerialInv
<1>1. CASE UNCHANGED vars
  <2>1. SettlesNothing
    BY <1>1, CallsRest DEF vars, Persisted
  <2>2. QED
    BY <1>1, <2>1, PlanKeptQuietly DEF vars
<1>2. ASSUME NEW j \in Calls, Begin(j) PROVE PlanInv'
  <2>1. SettlesNothing
    BY <1>2, CallsRest DEF Begin, Persisted
  <2>2. \A k \in Calls : job'[k] # "running" => job[k] # "running"
    BY <1>2 DEF Begin, TypeOK
  <2>3. QED
    BY <1>2, <2>1, <2>2, PlanKeptQuietly DEF Begin
<1>3. ASSUME NEW j \in Calls, End(j) PROVE PlanInv'
  <2>1. ~SavingPlan(j)
    BY <1>3 DEF End, PatientRunners, SerialSlot
  <2>2. SettlesNothing
    BY <1>3, EmitKeepsWaiting, CallsRest DEF End, EventTypes
  <2>3. \A k \in Calls : job'[k] # "running" => job[k] # "running" \/ ~SavingPlan(k)
    BY <1>3, <2>1 DEF End, TypeOK
  <2>4. QED
    BY <1>3, <2>2, <2>3, ChainOfOtherNews, PlanKeptQuietly DEF End, EventTypes
<1>4. ASSUME NEW j \in Calls, Finally(j) PROVE PlanInv'
  <2>1. SettlesNothing
    BY <1>4, CallsRest DEF Finally, Persisted, Disarmed
  <2>2. \A k \in Calls : job'[k] # "running" => job[k] # "running"
    <3>1. run.timer \in Calls => job[run.timer] = "timer"
      BY DEF SlotInv, SlotOwned
    <3>2. QED
      BY <1>4, <3>1 DEF Finally, TypeOK, Disarmed
  <2>3. QED
    BY <1>4, <2>1, <2>2, PlanKeptQuietly DEF Finally, Disarmed
<1>5. QED
  BY <1>1, <1>2, <1>3, <1>4, PlanContinue, PlanLoad, PlanSaved, PlanRunner, PlanPersist
  DEF Next, Proceed

(***************************************************************************)
(* A plan is approved, handed off, revised or dismissed by one call only   *)
(* (chatService.ts, approvePlan, revisePlan and dismissPlan), for a client *)
(* that waits for each response and runners that wait for their callbacks. *)
(***************************************************************************)
THEOREM PlansSettleOnce ==
  ASSUME SerialUse, PatientRunners
  PROVE  Spec => []PlanSettledOnce
<1>1. Init => IInv /\ SerialInv /\ PlanInv
  BY TypeInit, SlotInit, ClosingInit, SerialInit, PlanInit DEF IInv
<1>2. IInv /\ SerialInv /\ PlanInv /\ [Next]_vars => (IInv /\ SerialInv /\ PlanInv)'
  BY InvNext, SerialNext, PlanNext
<1>3. PlanInv => PlanSettledOnce
  BY DEF PlanInv, SettledByOne, Settling, PlanSettledOnce
<1>4. QED
  BY <1>1, <1>2, <1>3, PTL DEF Spec

=============================================================================
