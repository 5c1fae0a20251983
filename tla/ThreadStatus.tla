---------------------------- MODULE ThreadStatus ----------------------------
(***************************************************************************)
(* What a thread and a worktree are said to be doing.  The runtime reads   *)
(* the status of a thread without a run from its latest events, the client *)
(* from all it has, each with a walk over the events that keeps sets of    *)
(* open requests, running tools and the latest plan; the badge of a        *)
(* worktree is the most urgent of its threads.  The state is a log that    *)
(* grows in every way the runtime may write it, and a list of threads.     *)
(*                                                                         *)
(* Permissions and questions are one kind of request, subagents are tools. *)
(* The text of a plan counts only as fit or unfit for review, and as a     *)
(* sketch that waits for the plan file to be written.                      *)
(***************************************************************************)
EXTENDS Integers, FiniteSets, SequencesExt

CONSTANTS
    Gates,          \* requests
    Tools,          \* tool uses
    ExitTool,       \* the use of the tool that ends plan mode
    Window,         \* STATUS_SNAPSHOT_RECENT_EVENT_LIMIT
    MaxLog, MaxListed

ASSUME StatusAssumption ==
    /\ ExitTool \in Tools /\ "none" \notin Gates \cup Tools
    /\ {Window, MaxLog, MaxListed} \subseteq Nat

VARIABLES
    log,        \* the events of a thread: [kind, of]
    badges      \* the threads of a worktree: [tabOpen, active, status, updatedAt]

statusVars == <<log, badges>>

PlanEvents == {"plan", "sketch", "unfit"}
Decisions  == {"approved", "dismissed", "revision"}
Plain      == {"text", "todo", "metadata", "diff", "written", "terminal"} \cup PlanEvents \cup Decisions

Event(kind, of) == [kind |-> kind, of |-> of]
Events ==
    [kind : {"asked", "settled"}, of : Gates] \cup [kind : {"started", "finished"}, of : Tools]
        \cup [kind : Plain, of : {"none"}]

\* Urgency of a status, the most urgent first.
Priority == [waiting_approval |-> 1, review_plan |-> 2, running |-> 3, idle |-> 4]
Summaries ==
    [tabOpen : BOOLEAN, active : BOOLEAN, status : DOMAIN Priority, updatedAt : 1..MaxListed]

StatusInit == log = << >> /\ badges = << >>

\* The runtime writes an event: a tool ends and a request is settled after it began,
\* a plan is decided on after it was announced.
WriteEvent(e) ==
    /\ Len(log) < MaxLog
    /\ CASE e.kind = "settled"  -> Event("asked", e.of) \in Range(log)
         [] e.kind = "finished" -> Event("started", e.of) \in Range(log)
         [] e.kind \in Decisions -> \E i \in DOMAIN log : log[i].kind \in PlanEvents
         [] OTHER -> TRUE
    /\ log' = Append(log, e)
    /\ UNCHANGED badges

\* A thread is listed, no two of them last changed at the same time.
ListThread(s) ==
    /\ Len(badges) < MaxListed
    /\ \A i \in DOMAIN badges : badges[i].updatedAt # s.updatedAt
    /\ badges' = Append(badges, s)
    /\ UNCHANGED log

StatusNext == (\E e \in Events : WriteEvent(e)) \/ (\E s \in Summaries : ListThread(s))

StatusSpec == StatusInit /\ [][StatusNext]_statusVars

-----------------------------------------------------------------------------
(* The walks of chatThreadStatus.ts and worktreeThreadStatus.ts.           *)
-----------------------------------------------------------------------------
PendingRequests(evs) ==
    FoldLeft(LAMBDA pending, e :
                IF e.kind = "asked" THEN pending \cup {e.of}
                ELSE IF e.kind = "settled" THEN pending \ {e.of}
                ELSE IF e.kind = "terminal" THEN {} ELSE pending,
             {}, evs)

\* normalizePlanCreatedEvent: the index at which the plan of event i exists, or 0.
PlanIndex(evs, i) ==
    LET writes == {j \in DOMAIN evs : j > i /\ evs[j].kind = "written"} IN
    CASE evs[i].kind = "plan" -> i
      [] evs[i].kind = "sketch" /\ writes # {} -> Min(writes)
      [] OTHER -> 0

NoPlan == [at |-> 0, status |-> "none"]

LatestPlan(evs) ==
    FoldLeftDomain(LAMBDA plan, i :
                      LET e == evs[i] IN
                      IF PlanIndex(evs, i) > 0 THEN [at |-> PlanIndex(evs, i), status |-> "pending"]
                      ELSE IF plan = NoPlan \/ e.kind = "dismissed"
                           THEN IF e.kind = "dismissed" THEN NoPlan ELSE plan
                      ELSE IF e.kind = "approved" THEN [plan EXCEPT !.status = "approved"]
                      ELSE IF e.kind = "revision" THEN [plan EXCEPT !.status = "sending"]
                      ELSE plan,
                   NoPlan, evs)

\* findPlanReviewReadyIdx: where the tool that ends plan mode finished after the plan,
\* or else the turn; 0 if neither did.
ReviewReadyAt(evs, plan) ==
    LET after(kinds) == {j \in DOMAIN evs : j > plan.at /\ evs[j] \in kinds}
        exits == after({Event("finished", ExitTool)})
        ends  == after({Event("terminal", "none")})
    IN IF plan.status # "pending" THEN 0
       ELSE IF exits # {} THEN Min(exits) ELSE IF ends # {} THEN Min(ends) ELSE 0

\* hasRunningAssistantActivity: the walk clears everything at the end of a turn; what
\* counts as activity differs in one kind between the runtime and the client.
Idle == [tools |-> {}, saw |-> FALSE]

RunningLingers(evs, kinds) ==
    LET last == FoldLeft(LAMBDA acc, e :
                    IF e.kind = "terminal" THEN [acc EXCEPT !.saw = FALSE]
                    ELSE IF e.kind = "started"
                         THEN [tools |-> acc.tools \cup {e.of}, saw |-> TRUE]
                    ELSE IF e.kind = "finished"
                         THEN [tools |-> acc.tools \ {e.of}, saw |-> TRUE]
                    ELSE [acc EXCEPT !.saw = @ \/ e.kind \in kinds],
                  Idle, evs)
    IN last.tools # {} \/ last.saw

Running(evs, kinds) ==
    LET last == FoldLeft(LAMBDA acc, e :
                    IF e.kind = "terminal" THEN Idle
                    ELSE IF e.kind = "started"
                         THEN [tools |-> acc.tools \cup {e.of}, saw |-> TRUE]
                    ELSE IF e.kind = "finished"
                         THEN [tools |-> acc.tools \ {e.of}, saw |-> TRUE]
                    ELSE [acc EXCEPT !.saw = @ \/ e.kind \in kinds],
                  Idle, evs)
    IN last.tools # {} \/ last.saw

RuntimeActivity == {"text", "diff", "written", "asked"} \cup PlanEvents
ClientActivity  == RuntimeActivity \cup {"todo"}

\* deriveThreadStatusFromEvents, of the latest events of a thread without a run.
Recent == SubSeq(log, Max({1, Len(log) - Window + 1}), Len(log))

RuntimeStatus(evs) ==
    IF PendingRequests(evs) # {} THEN "waiting_approval"
    ELSE IF ReviewReadyAt(evs, LatestPlan(evs)) > 0 THEN "review_plan"
    ELSE IF Running(evs, RuntimeActivity) THEN "running" ELSE "idle"

\* hasAssistantExecutionAfterPlanReview: the plan was carried on with all the same.
CarriedOn(evs, ready) ==
    \E j \in DOMAIN evs :
       /\ j > ready
       /\ \/ evs[j].kind \in {"text", "todo", "written"}
          \/ evs[j].kind \in {"started", "finished"} /\ evs[j].of # ExitTool

\* deriveThreadUiStatusFromEvents.
ClientStatus(evs, active) ==
    LET ready == ReviewReadyAt(evs, LatestPlan(evs)) IN
    IF PendingRequests(evs) # {} THEN "waiting_approval"
    ELSE IF ready > 0 /\ ~CarriedOn(evs, ready) THEN "review_plan"
    ELSE IF active \/ Running(evs, ClientActivity) THEN "running" ELSE "idle"

\* aggregateWorktreeStatus: [kind, thread], a walk that keeps the best so far.
Preferred(s, best) ==
    \/ Priority[s.status] < Priority[best.kind]
    \/ /\ s.status = best.kind
       /\ \/ best.thread = 0
          \/ s.active /\ ~badges[best.thread].active
          \/ s.active = badges[best.thread].active
             /\ s.updatedAt > badges[best.thread].updatedAt

WorktreeBadge ==
    FoldLeftDomain(LAMBDA best, i :
                      LET s == badges[i] IN
                      IF (s.tabOpen \/ s.active) /\ Preferred(s, best)
                      THEN [kind |-> s.status, thread |-> i] ELSE best,
                   [kind |-> "idle", thread |-> 0], badges)

-----------------------------------------------------------------------------
(* What the statuses mean, said of the log as a whole.                     *)
-----------------------------------------------------------------------------
SinceTurn(evs) == {i \in DOMAIN evs : \A j \in DOMAIN evs : j > i => evs[j].kind # "terminal"}

\* A request of the turn at hand that was not settled after it.
IsWaiting(evs) ==
    \E i \in SinceTurn(evs) :
       /\ evs[i].kind = "asked"
       /\ \A j \in DOMAIN evs : j > i => evs[j] # Event("settled", evs[i].of)

\* The last plan fit for review, nothing decided after it was announced, and after it
\* exists the tool that ends plan mode has finished or the turn has ended.
IsReviewable(evs, i) ==
    /\ PlanIndex(evs, i) > 0
    /\ \A j \in DOMAIN evs : j > i => evs[j].kind \notin Decisions /\ PlanIndex(evs, j) = 0
    /\ \E j \in DOMAIN evs : /\ j > PlanIndex(evs, i)
                             /\ evs[j] \in {Event("terminal", "none"), Event("finished", ExitTool)}

IsBusy(evs, kinds) ==
    \E i \in SinceTurn(evs) : evs[i].kind \in kinds \cup {"started", "finished"}

Meaning(evs, reviewable, busy) ==
    IF IsWaiting(evs) THEN "waiting_approval" ELSE IF reviewable THEN "review_plan"
    ELSE IF busy THEN "running" ELSE "idle"

RuntimeSaysSo ==
    RuntimeStatus(Recent) = Meaning(Recent, \E i \in DOMAIN Recent : IsReviewable(Recent, i),
                                    IsBusy(Recent, RuntimeActivity))

\* Runtime and client differ only about a plan that was carried on with, about a list of
\* things to do, and about events beyond the runtime's window.
ClientAgrees ==
    \/ ClientStatus(log, FALSE) = RuntimeStatus(Recent)
    \/ CarriedOn(log, ReviewReadyAt(log, LatestPlan(log)))
    \/ \E i \in DOMAIN log : log[i].kind = "todo"
    \/ Len(log) > Window /\ \A i \in DOMAIN Recent : Recent[i].kind # "terminal"
    \/ Len(log) > Window /\ \E i \in DOMAIN log : log[i].kind \in PlanEvents

\* The badge is that of the most urgent thread which is open or at work, of the active
\* ones before others, of the latest: whatever order they are listed in.
BadgeIsMostUrgent ==
    LET listed == {i \in DOMAIN badges : badges[i].tabOpen \/ badges[i].active}
        Rank(i) == <<Priority[badges[i].status], IF badges[i].active THEN 0 ELSE 1,
                     -badges[i].updatedAt>>
        Before(i, k) == \E n \in 1..3 : Rank(i)[n] < Rank(k)[n] /\ \A m \in 1..(n - 1) : Rank(i)[m] = Rank(k)[m]
    IN IF listed = {} THEN WorktreeBadge = [kind |-> "idle", thread |-> 0]
       ELSE /\ WorktreeBadge.thread \in listed
            /\ WorktreeBadge.kind = badges[WorktreeBadge.thread].status
            /\ \A i \in listed \ {WorktreeBadge.thread} : Before(WorktreeBadge.thread, i)

\* The statuses that the walks over the events arrive at are what the log says, however
\* requests, tools, plans, decisions and ends of turns are mixed (chatThreadStatus.ts:397,
\* worktreeThreadStatus.ts:395, 443).
StatusesMatchLog == RuntimeSaysSo /\ ClientAgrees /\ BadgeIsMostUrgent
=============================================================================
