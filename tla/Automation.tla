----------------------------- MODULE Automation -----------------------------
(***************************************************************************)
(* The runs of one automation: the schedule and the passes of the          *)
(* scheduler that claim its slots, runs asked for by hand, the dispatching *)
(* of a run to a thread of its own, the thread's events that set the run's *)
(* status, and a restart of the runtime with its recovery.                 *)
(*                                                                         *)
(* Time is counted in slots of the schedule: slot s is due once the clock  *)
(* has reached s.  A thread is reduced to what its run sees of it.         *)
(***************************************************************************)
EXTENDS Integers, SequencesExt, FiniteSets

CONSTANTS
    Passes,         \* calls of dispatchDueAutomations that may overlap
    ManualCalls,    \* calls of runAutomationNow
    OrderedWrites,  \* do the handlers' updates land in the order of the events?
    LateThreads,    \* the threads that emit an event after the one that ends their turn
    EarlyCalls,     \* may a call by hand arrive before the startup is over?
    FailingSteps,   \* the steps of a dispatch that may fail
    ActivityKinds,  \* the statuses a thread's events before the last give a run
    Outcomes,       \* the statuses its last event may give it
    MaxSlots,       \* bound: slots that come due
    MaxEdits,       \* bound: edits of the automation
    MaxActivity,    \* bound: events of a thread beside the one that ends its turn
    MaxRuntimes     \* bound: restarts

Dispatchers == Passes \cup ManualCalls \cup {"startup"}

ASSUME AutomationAssumption ==
    /\ ActivityKinds \subseteq {"running", "waiting_input"}
    /\ Outcomes \subseteq {"succeeded", "failed", "canceled"}
    /\ FailingSteps \subseteq {"begin", "thread", "bind", "send", "stamp"}
    /\ {MaxSlots, MaxEdits, MaxActivity, MaxRuntimes} \cup LateThreads \subseteq Nat

VARIABLES
    clock,          \* the slots due
    schedule,       \* the automation's enabled and nextRunAt
    runs,           \* the rows of AutomationRun, in the order of their creation
    jobs,           \* jobs[d]: what call d is doing
    threads,        \* the threads created for runs
    bindings,       \* threadBindingsByRunId: pairs of a run and its thread
    updates,        \* handlers of thread events that have not written yet
    boot,           \* the startup: its phase and the runs it has yet to recover
    skipped,        \* history: the slots an edit of the automation passed over
    edits, autoRestarts

autoVars == <<clock, schedule, runs, jobs, threads, bindings, updates, boot, skipped,
              edits, autoRestarts>>

-----------------------------------------------------------------------------
ActiveStatus   == {"queued", "dispatching", "running", "waiting_input"}
SettledStatus  == {"succeeded", "failed", "canceled"}
NoJob    == [step |-> "idle", run |-> 0, saw |-> 0, now |-> 0]
SchedulerOn  == boot.phase = "up"

ActiveRuns == {i \in DOMAIN runs : runs[i].status \in ActiveStatus}

\* createAutomationRunRecord; slot 0 is the present moment of a manual run.
NewRun(slot, status, kind) ==
    [slot |-> slot, status |-> status, kind |-> kind, thread |-> 0]

WithStatus(i, s) == [runs EXCEPT ![i].status = s]
Unbound(i)      == {b \in bindings : b.run # i}

\* A call ends, and a pass looks for the next slot due.
CallEnds(d) ==
    IF d \in Passes THEN [NoJob EXCEPT !.step = "find", !.now = jobs[d].now]
    ELSE [NoJob EXCEPT !.step = IF d \in ManualCalls THEN "done" ELSE "idle"]

AutoInit ==
    /\ clock = 0
    /\ schedule = [enabled |-> TRUE, next |-> 1]
    /\ runs = << >>
    /\ jobs = [d \in Dispatchers |-> NoJob]
    /\ threads = << >>
    /\ bindings = {}
    /\ updates = << >>
    /\ boot = [phase |-> "up", todo |-> << >>]
    /\ skipped = {}
    /\ edits = 0 /\ autoRestarts = 0

-----------------------------------------------------------------------------
(* The schedule.                                                           *)
-----------------------------------------------------------------------------
SlotDue ==
    /\ clock < MaxSlots
    /\ clock' = clock + 1
    /\ UNCHANGED <<schedule, runs, jobs, threads, bindings, updates, boot, skipped,
                   edits, autoRestarts>>

\* updateAutomation and setAutomationEnabled: the schedule starts again from the
\* present moment.
EditSchedule ==
    /\ edits < MaxEdits
    /\ edits' = edits + 1
    /\ \/ /\ schedule' = [enabled |-> TRUE, next |-> clock + 1]
          /\ skipped' = skipped \cup (schedule.next..clock)
       \/ /\ schedule' = [schedule EXCEPT !.enabled = FALSE]
          /\ UNCHANGED skipped
    /\ UNCHANGED <<clock, runs, jobs, threads, bindings, updates, boot, autoRestarts>>

-----------------------------------------------------------------------------
(* The passes of the scheduler and the calls by hand.                      *)
-----------------------------------------------------------------------------
\* dispatchDueAutomations, with the moment it was called at for all of its loop.
FindDue(d) ==
    /\ SchedulerOn
    /\ \/ /\ jobs[d].step = "idle" /\ schedule.enabled /\ schedule.next <= clock
          /\ jobs' = [jobs EXCEPT ![d] = [NoJob EXCEPT !.step = "claim",
                                            !.saw = schedule.next, !.now = clock]]
       \/ /\ jobs[d].step = "find"
          /\ jobs' = [jobs EXCEPT ![d] =
                IF schedule.enabled /\ schedule.next <= jobs[d].now
                THEN [@ EXCEPT !.step = "claim", !.saw = schedule.next] ELSE NoJob]
    /\ UNCHANGED <<clock, schedule, runs, threads, bindings, updates, boot, skipped,
                   edits, autoRestarts>>

\* Mutants of ClaimDue: the slot is not compared with the one the pass read; active
\* runs are not looked for.
ClaimUnread(d) ==
    /\ jobs[d].step = "claim"
    /\ schedule' = [schedule EXCEPT !.next = jobs[d].now + 1]
    /\ runs' = Append(runs, NewRun(jobs[d].now, "queued", "schedule"))
    /\ jobs' = [jobs EXCEPT ![d].step = "begin", ![d].run = Len(runs')]
    /\ UNCHANGED <<clock, threads, bindings, updates, boot, skipped, edits, autoRestarts>>

ClaimBesideActive(d) ==
    /\ jobs[d].step = "claim"
    /\ IF ~schedule.enabled \/ schedule.next # jobs[d].saw
       THEN /\ jobs' = [jobs EXCEPT ![d] = CallEnds(d)]
            /\ UNCHANGED <<schedule, runs>>
       ELSE /\ schedule' = [schedule EXCEPT !.next = jobs[d].now + 1]
            /\ runs' = Append(runs, NewRun(jobs[d].now, "queued", "schedule"))
            /\ jobs' = [jobs EXCEPT ![d].step = "begin", ![d].run = Len(runs')]
    /\ UNCHANGED <<clock, threads, bindings, updates, boot, skipped, edits, autoRestarts>>

\* claimDueRunBatch: one transaction.  The slot is the pass's if the automation is
\* as the pass read it; a run still active makes all due slots missed, otherwise
\* the latest is run and the ones before it are missed.
ClaimDue(d) ==
    LET missed(last, why) ==
            [n \in 1..(last - jobs[d].saw + 1) |-> NewRun(jobs[d].saw + n - 1, "missed", why)]
        latest == jobs[d].now
    IN
    /\ jobs[d].step = "claim"
    /\ IF ~schedule.enabled \/ schedule.next # jobs[d].saw
       THEN /\ jobs' = [jobs EXCEPT ![d] = CallEnds(d)]
            /\ UNCHANGED <<schedule, runs>>
       ELSE /\ schedule' = [schedule EXCEPT !.next = latest + 1]
            /\ IF ActiveRuns # {}
               THEN /\ runs' = runs \o missed(latest, "active")
                    /\ jobs' = [jobs EXCEPT ![d] = CallEnds(d)]
               ELSE /\ runs' = Append(runs \o missed(latest - 1, "away"),
                                      NewRun(latest, "queued", "schedule"))
                    /\ jobs' = [jobs EXCEPT ![d].step = "begin", ![d].run = Len(runs')]
    /\ UNCHANGED <<clock, threads, bindings, updates, boot, skipped, edits, autoRestarts>>

\* runAutomationNow: the check, and after an await the run.
ManualCheck(d) ==
    /\ EarlyCalls \/ SchedulerOn
    /\ jobs[d].step = "idle"
    /\ jobs' = [jobs EXCEPT ![d].step = IF ActiveRuns # {} THEN "done" ELSE "create"]
    /\ UNCHANGED <<clock, schedule, runs, threads, bindings, updates, boot, skipped,
                   edits, autoRestarts>>

ManualCreate(d) ==
    /\ jobs[d].step = "create"
    /\ runs' = Append(runs, NewRun(0, "queued", "manual"))
    /\ jobs' = [jobs EXCEPT ![d].step = "begin", ![d].run = Len(runs')]
    /\ UNCHANGED <<clock, schedule, threads, bindings, updates, boot, skipped, edits,
                   autoRestarts>>

-----------------------------------------------------------------------------
(* dispatchAutomationRun.                                                  *)
-----------------------------------------------------------------------------
BeginRun(d) ==
    /\ jobs[d].step = "begin"
    /\ runs' = WithStatus(jobs[d].run, "dispatching")
    /\ jobs' = [jobs EXCEPT ![d].step = "thread"]
    /\ UNCHANGED <<clock, schedule, threads, bindings, updates, boot, skipped, edits,
                   autoRestarts>>

\* The worktree is there; the thread is created and listened to.
CreateRunThread(d) ==
    /\ jobs[d].step = "thread"
    /\ threads' = Append(threads, [run |-> jobs[d].run, state |-> "new", events |-> 0])
    /\ bindings' = Unbound(jobs[d].run)
                     \cup {[run |-> jobs[d].run, thread |-> Len(threads')]}
    /\ jobs' = [jobs EXCEPT ![d].step = "bind"]
    /\ UNCHANGED <<clock, schedule, runs, updates, boot, skipped, edits, autoRestarts>>

JobThread(d) == CHOOSE t \in DOMAIN threads :
                   /\ threads[t].run = jobs[d].run
                   /\ \A u \in DOMAIN threads : threads[u].run = jobs[d].run => u <= t

BindThread(d) ==
    /\ jobs[d].step = "bind"
    /\ runs' = [runs EXCEPT ![jobs[d].run].thread = JobThread(d),
                            ![jobs[d].run].status = "running"]
    /\ jobs' = [jobs EXCEPT ![d].step = "send"]
    /\ UNCHANGED <<clock, schedule, threads, bindings, updates, boot, skipped, edits,
                   autoRestarts>>

SendPrompt(d) ==
    /\ jobs[d].step = "send"
    /\ threads' = [threads EXCEPT ![JobThread(d)].state = "working"]
    /\ jobs' = [jobs EXCEPT ![d].step = "stamp"]
    /\ UNCHANGED <<clock, schedule, runs, bindings, updates, boot, skipped, edits,
                   autoRestarts>>

\* lastRunAt is written.
StampAutomation(d) ==
    /\ jobs[d].step = "stamp"
    /\ jobs' = [jobs EXCEPT ![d] = CallEnds(d)]
    /\ UNCHANGED <<clock, schedule, runs, threads, bindings, updates, boot, skipped,
                   edits, autoRestarts>>

\* Mutant of DispatchFails: the failure is not recorded.
DispatchFailsSilently(d) ==
    /\ jobs[d].step \in FailingSteps
    /\ bindings' = Unbound(jobs[d].run)
    /\ jobs' = [jobs EXCEPT ![d] = CallEnds(d)]
    /\ UNCHANGED <<clock, schedule, runs, threads, updates, boot, skipped, edits, autoRestarts>>

\* The catch block.
DispatchFails(d) ==
    /\ jobs[d].step \in FailingSteps
    /\ bindings' = Unbound(jobs[d].run)
    /\ runs' = WithStatus(jobs[d].run, "failed")
    /\ jobs' = [jobs EXCEPT ![d] = CallEnds(d)]
    /\ UNCHANGED <<clock, schedule, threads, updates, boot, skipped, edits, autoRestarts>>

-----------------------------------------------------------------------------
(* The threads and the handlers of their events.                           *)
-----------------------------------------------------------------------------
\* An event of each of the threads ts starts a handler, if somebody listens.  The
\* handler of chat.completed reads the run's summary before it writes.
HeardBy(ts, s) ==
    updates \o SetToSeq({[run |-> b.run, status |-> s,
                          reads |-> s \in {"succeeded", "canceled"}]
                         : b \in {c \in bindings : c.thread \in ts}})

ThreadActivity(t) ==
    /\ threads[t].state = "working" /\ threads[t].events < MaxActivity
    /\ threads' = [threads EXCEPT ![t].events = @ + 1]
    /\ \E s \in ActivityKinds : updates' = HeardBy({t}, s)
    /\ UNCHANGED <<clock, schedule, runs, jobs, bindings, boot, skipped, edits, autoRestarts>>

TurnEnds(t) ==
    /\ threads[t].state = "working"
    /\ threads' = [threads EXCEPT ![t].state = "over"]
    /\ \E s \in Outcomes : updates' = HeardBy({t}, s)
    /\ UNCHANGED <<clock, schedule, runs, jobs, bindings, boot, skipped, edits, autoRestarts>>

\* The metadata of a thread is announced as a finished tool after chat.completed.
LateMetadata(t) ==
    /\ t \in LateThreads /\ threads[t].state = "over" /\ threads[t].events < MaxActivity
    /\ threads' = [threads EXCEPT ![t].state = "silent"]
    /\ updates' = HeardBy({t}, "running")
    /\ UNCHANGED <<clock, schedule, runs, jobs, bindings, boot, skipped, edits, autoRestarts>>

\* Mutant of HandleUpdate: a settled run is still listened to.
HandleAndListen ==
    \E n \in DOMAIN updates :
       LET u == updates[n] IN
       /\ OrderedWrites => n = 1
       /\ updates' = RemoveAt(updates, n)
       /\ runs' = WithStatus(u.run, u.status)
       /\ UNCHANGED <<clock, schedule, jobs, threads, bindings, boot, skipped, edits,
                      autoRestarts>>

\* handleThreadEventForRun and updateRunStatus: the row is written as the event
\* says, whatever it holds.
HandleUpdate ==
    \E n \in DOMAIN updates :
       LET u == updates[n] IN
       /\ OrderedWrites => n = 1
       /\ IF u.reads
          THEN /\ updates' = Append(RemoveAt(updates, n), [u EXCEPT !.reads = FALSE])
               /\ UNCHANGED <<runs, bindings>>
          ELSE /\ updates' = RemoveAt(updates, n)
               /\ runs' = WithStatus(u.run, u.status)
               /\ bindings' = IF u.status \in SettledStatus THEN Unbound(u.run) ELSE bindings
       /\ UNCHANGED <<clock, schedule, jobs, threads, boot, skipped, edits, autoRestarts>>

-----------------------------------------------------------------------------
(* A restart and the startup.                                              *)
-----------------------------------------------------------------------------
RuntimeRestarts ==
    /\ autoRestarts < MaxRuntimes
    /\ autoRestarts' = autoRestarts + 1
    /\ jobs' = [d \in Dispatchers |->
                  IF d \in ManualCalls /\ jobs[d].step # "idle"
                  THEN [NoJob EXCEPT !.step = "done"] ELSE NoJob]
    /\ threads' = [t \in DOMAIN threads |->
                     IF threads[t].state = "working"
                     THEN [threads[t] EXCEPT !.state = "stuck"] ELSE threads[t]]
    /\ bindings' = {} /\ updates' = << >>
    /\ boot' = [phase |-> "threads", todo |-> << >>]
    /\ UNCHANGED <<clock, schedule, runs, skipped, edits>>

\* recoverStuckThreads: the interrupted turns are closed with chat.failed.
RecoverThreads ==
    /\ boot.phase = "threads"
    /\ threads' = [t \in DOMAIN threads |->
                     IF threads[t].state = "stuck"
                     THEN [threads[t] EXCEPT !.state = "over"] ELSE threads[t]]
    /\ updates' = HeardBy({t \in DOMAIN threads : threads[t].state = "stuck"}, "failed")
    /\ boot' = [phase |-> "runs",
                todo |-> SetToSeq({[run |-> i, thread |-> runs[i].thread] : i \in ActiveRuns})]
    /\ UNCHANGED <<clock, schedule, runs, jobs, bindings, skipped, edits, autoRestarts>>

\* Mutant of RecoverRun: every run is dispatched again.
RecoverByDispatch ==
    /\ boot.phase = "runs" /\ jobs["startup"].step = "idle"
    /\ IF boot.todo = << >>
       THEN boot' = [boot EXCEPT !.phase = "up"] /\ UNCHANGED jobs
       ELSE /\ boot' = [boot EXCEPT !.todo = Tail(@)]
            /\ jobs' = [jobs EXCEPT !["startup"] =
                          [NoJob EXCEPT !.step = "begin", !.run = Head(boot.todo).run]]
    /\ UNCHANGED <<clock, schedule, runs, threads, bindings, updates, skipped, edits,
                   autoRestarts>>

\* recoverInFlightRuns: a run with a thread is listened to again, one without is
\* dispatched again, one after the other; then the scheduler starts.
RecoverRun ==
    /\ boot.phase = "runs" /\ jobs["startup"].step = "idle"
    /\ IF boot.todo = << >>
       THEN boot' = [boot EXCEPT !.phase = "up"] /\ UNCHANGED <<bindings, jobs>>
       ELSE LET r == Head(boot.todo) IN
            /\ boot' = [boot EXCEPT !.todo = Tail(@)]
            /\ IF r.thread # 0
               THEN bindings' = Unbound(r.run) \cup {r} /\ UNCHANGED jobs
               ELSE /\ jobs' = [jobs EXCEPT !["startup"] =
                                  [NoJob EXCEPT !.step = "begin", !.run = r.run]]
                    /\ UNCHANGED bindings
    /\ UNCHANGED <<clock, schedule, runs, threads, updates, skipped, edits, autoRestarts>>

-----------------------------------------------------------------------------
DispatchRun(d) ==
    BeginRun(d) \/ CreateRunThread(d) \/ BindThread(d) \/ SendPrompt(d) \/ StampAutomation(d) \/ DispatchFails(d)

AutoStartup == RecoverThreads \/ RecoverRun

RunThreads == \E t \in DOMAIN threads : ThreadActivity(t) \/ TurnEnds(t) \/ LateMetadata(t)

AutoNext ==
    \/ SlotDue \/ EditSchedule \/ RuntimeRestarts \/ AutoStartup \/ HandleUpdate \/ RunThreads
    \/ \E d \in Passes : FindDue(d) \/ ClaimDue(d)
    \/ \E d \in ManualCalls : ManualCheck(d) \/ ManualCreate(d)
    \/ \E d \in Dispatchers : DispatchRun(d)

AutoSpec == AutoInit /\ [][AutoNext]_autoVars

\* Rows there can be, one a slot and one a call by hand; and threads, as a run may
\* be dispatched again after each restart.
MaxRuns == MaxSlots + Cardinality(ManualCalls)
MaxThreads == MaxRuns * (MaxRuntimes + 1)

\* Queries settle, the steps of a call follow each other, handlers write, a turn
\* that was begun ends, and the scheduler looks again every 30 seconds.
AutoFairness ==
    /\ WF_autoVars(AutoStartup) /\ WF_autoVars(HandleUpdate)
    /\ \A d \in Dispatchers :
          WF_autoVars(DispatchRun(d) \/ (d \in ManualCalls /\ ManualCreate(d)))
    /\ \A d \in Passes : WF_autoVars(FindDue(d) \/ ClaimDue(d))
    /\ \A t \in 1..MaxThreads : WF_autoVars(t \in DOMAIN threads /\ TurnEnds(t))

-----------------------------------------------------------------------------
\* Whatever passes overlap, and whatever edits and restarts fall between them,
\* every slot the schedule has left behind is in the table once, as a run or as
\* missed, unless an edit passed over it (automationService.ts:917).
SlotsRecordedOnce ==
    \A s \in 1..MaxSlots :
       Cardinality({i \in DOMAIN runs : runs[i].slot = s}) =
          IF s < schedule.next /\ s \notin skipped THEN 1 ELSE 0

\* Runs and their threads keep to each other, across overlapping passes, updates out of
\* order and restarts.  Two scheduled runs never have their threads at work together; the
\* prompt of a run is sent once, though its dispatch may be begun again; and a run that
\* has settled is listened to only while something works on it still, for its thread may
\* live on and be used by hand (automationService.ts:576, 934, 1310).
RunsAndThreadsAgree ==
    /\ Cardinality({t \in DOMAIN threads :
                      threads[t].state = "working" /\ runs[threads[t].run].kind # "manual"}) <= 1
    /\ \A i \in DOMAIN runs :
          Cardinality({t \in DOMAIN threads : threads[t].run = i /\ threads[t].state # "new"}) <= 1
    /\ \A b \in bindings :
          \/ runs[b.run].status \in ActiveStatus
          \/ \E d \in Dispatchers : jobs[d].run = b.run /\ jobs[d].step # "done"
          \/ \E n \in DOMAIN updates : updates[n].run = b.run

\* A thread that has spoken after the end of its turn.
SpokeLate(i) == \E t \in DOMAIN threads : threads[t].run = i /\ threads[t].state = "silent"

\* While the runtime stays up every run ends, and the slots after it are not
\* blocked by it, unless metadata arrive after the turn's end and are written
\* last (automationService.ts:639, 692).
EveryRunSettles ==
    []<>(\A i \in ActiveRuns : autoRestarts > 0 \/ SpokeLate(i))
=============================================================================
