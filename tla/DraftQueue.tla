----------------------------- MODULE DraftQueue -----------------------------
(***************************************************************************)
(* The drafts a thread keeps for later: the table chatQueuedMessage, the   *)
(* endpoints that fill and edit it, the dispatcher that turns the next     *)
(* draft into a user message and an assistant run whenever the thread is   *)
(* idle (maybeDispatchQueuedMessages), and the hand-off that stops a run   *)
(* at a tool boundary for the sake of a draft the user wants sent now.     *)
(*                                                                         *)
(* The module composes with ThreadRun: its actions are those of ThreadRun, *)
(* three of which also wake the dispatcher, and the ones below.  A draft   *)
(* is named by the call that queued it, and so is the run it becomes.      *)
(***************************************************************************)
EXTENDS ThreadRun, SequencesExt

VARIABLES
  queue,     \* the drafts' rows in the order of their seq
  st,        \* the status of each draft's row
  asked,     \* the rows with a dispatchRequestedAt, oldest first
  canceled,  \* canceledQueuedDispatchIds
  disp,      \* the dispatcher: queuedDispatchesByThread has it unless "idle"
  hand,      \* maybeRequestQueuedHandoff, called when a run's tool finishes
  sent       \* how often each draft has been stored as a user message

dvars == <<queue, st, asked, canceled, disp, hand, sent>>
tvars == vars
allvars == <<tvars, dvars>>

Drafts == {c \in Calls : Op[c] = "queue"}
Rows   == ToSet(queue)

\* was: the status of the row when the dispatcher read it.
NoDispatch == [step |-> "idle", draft |-> None, was |-> "none"]
NoHandoff  == [step |-> "idle", cur |-> NoRun]

WaitingOnGate ==
  \/ run.status = "waiting_plan"
  \/ run.status = "waiting_gate" /\ Pending # {}

\* findFirst: of the rows that are wanted, the one that stands first.
FindFirst(rows, wanted) ==
  rows[CHOOSE i \in DOMAIN rows :
         rows[i] \in wanted /\ \A k \in DOMAIN rows : k < i => rows[k] \notin wanted]

\* The rows of getNextQueuedMessage's first query; one without a time of request comes
\* before those with one.
Requested == {d \in Rows : st[d] \in {"requested", "dispatching"}}
FirstRequested ==
  LET untimed == Requested \ ToSet(asked) IN
  IF untimed # {} THEN FindFirst(queue, untimed) ELSE FindFirst(asked, Requested)

\* Those of the second: rows the user has not put back.
Waiting == {d \in Rows : st[d] = "queued" /\ d \notin canceled}

\* The rows without the one of draft d.
Without(rows, d) ==
  IF d \in ToSet(rows) THEN RemoveAt(rows, CHOOSE i \in DOMAIN rows : rows[i] = d) ELSE rows

MayStart(c) == pc[c] = "idle" /\ Cardinality({d \in Calls : InFlight(d)}) < MaxOpen

----------------------------------------------------------------------------
(* Waking the dispatcher *)

\* Mutant: nobody looks whether the thread is busy.
KickAnyway ==
  disp' = IF disp.step = "idle" THEN [NoDispatch EXCEPT !.step = "select"] ELSE disp

\* maybeDispatchQueuedMessages up to its first await: join the dispatcher that
\* is at work, or become it unless the thread is busy.
Kick ==
  disp' = IF disp.step = "idle" /\ run'.status = "idle"
          THEN [NoDispatch EXCEPT !.step = "select"] ELSE disp

----------------------------------------------------------------------------
(* The endpoints of the queue *)

\* queueMessage stores the draft, ...
Queue(c) ==
  /\ MayStart(c) /\ Op[c] = "queue"
  /\ queue' = Append(queue, c)
  /\ st' = [st EXCEPT ![c] = "queued"]
  /\ Goto(c, "kick")
  /\ UNCHANGED <<run, held, job, aborted, gate, did, plan, chain, log, closings>>
  /\ UNCHANGED <<asked, canceled, disp, hand, sent>>

\* listQueuedMessages only wakes the dispatcher.  A client that watches the
\* thread reads its status snapshot again and again, whenever it hears of it.
List(c) ==
  /\ MayStart(c) /\ Op[c] \in {"list", "watch"}
  /\ Goto(c, "kick")
  /\ UNCHANGED <<run, held, job, aborted, gate, did, plan, chain, log, closings, dvars>>

\* Mutant: a status snapshot wakes nobody.
WakeUnlessWatched(c) ==
  /\ pc[c] = "kick"
  /\ Goto(c, "draining")
  /\ UNCHANGED <<run, held, job, aborted, gate, did, plan, chain, log, closings>>
  /\ IF Op[c] = "watch" THEN UNCHANGED disp ELSE Kick
  /\ UNCHANGED <<queue, st, asked, canceled, hand, sent>>

\* ... and wakes the dispatcher, ...
Wake(c) ==
  /\ pc[c] = "kick"
  /\ Goto(c, "draining")
  /\ UNCHANGED <<run, held, job, aborted, gate, did, plan, chain, log, closings>>
  /\ Kick
  /\ UNCHANGED <<queue, st, asked, canceled, hand, sent>>

\* ... whose promise it awaits.  A status snapshot goes on to load the thread
\* row and reconcile the slot.
Drained(c) ==
  /\ pc[c] = "draining" /\ disp.step = "idle"
  /\ IF Op[c] = "watch"
     THEN Goto(c, "loaded") /\ held' = [held EXCEPT ![c].row = plan]
     ELSE Goto(c, "returned") /\ UNCHANGED held
  /\ UNCHANGED <<run, job, aborted, gate, did, plan, chain, log, closings, dvars>>

\* The snapshot is answered; there will be another.
Watched(c) ==
  /\ pc[c] = "admit" /\ Op[c] = "watch"
  /\ Goto(c, "idle")
  /\ UNCHANGED <<run, held, job, aborted, gate, did, plan, chain, log, closings, dvars>>

\* requestQueuedMessageDispatch, once reconciled: not while a gate is open.
RequestFind(c) ==
  /\ pc[c] = "admit" /\ Op[c] = "request"
  /\ \/ /\ WaitingOnGate \/ Rows = {}
        /\ Goto(c, "thrown") /\ UNCHANGED <<held, canceled>>
     \/ /\ ~WaitingOnGate
        /\ \E d \in Rows :
             /\ held' = [held EXCEPT ![c].target = d]
             /\ IF st[d] = "queued"
                THEN Goto(c, "found") /\ UNCHANGED canceled
                ELSE Goto(c, "kick") /\ canceled' = canceled \ {d}
  /\ UNCHANGED <<run, job, aborted, gate, did, plan, chain, log, closings>>
  /\ UNCHANGED <<queue, st, asked, disp, hand, sent>>

\* The row becomes dispatch_requested, whatever it is by now.
RequestStore(c) ==
  /\ pc[c] = "found" /\ Op[c] = "request"
  /\ LET d == held[c].target IN
       IF d \in Rows
       THEN /\ st' = [st EXCEPT ![d] = "requested"]
            /\ asked' = Append(Without(asked, d), d)
            /\ canceled' = canceled \ {d}
            /\ Goto(c, "kick")
       ELSE Goto(c, "thrown") /\ UNCHANGED <<st, asked, canceled>>
  /\ UNCHANGED <<run, held, job, aborted, gate, did, plan, chain, log, closings>>
  /\ UNCHANGED <<queue, disp, hand, sent>>

\* cancelQueuedMessageDispatch and deleteQueuedMessage look the row up, ...
EditFind(c) ==
  /\ MayStart(c) /\ Op[c] \in {"cancel", "delete"}
  /\ \E d \in Rows :
       /\ held' = [held EXCEPT ![c].target = d]
       /\ Goto(c, IF Op[c] = "delete" \/ st[d] = "requested" THEN "found"
                  ELSE IF st[d] = "dispatching" THEN "thrown" ELSE "returned")
  /\ UNCHANGED <<run, job, aborted, gate, did, plan, chain, log, closings, dvars>>

\* ... and put it back among the queued, out of the dispatcher's sight, ...
CancelStore(c) ==
  /\ pc[c] = "found" /\ Op[c] = "cancel"
  /\ LET d == held[c].target IN
       IF d \in Rows
       THEN /\ st' = [st EXCEPT ![d] = "queued"]
            /\ asked' = Without(asked, d)
            /\ canceled' = canceled \cup {d}
            /\ Goto(c, "returned")
       ELSE Goto(c, "thrown") /\ UNCHANGED <<st, asked, canceled>>
  /\ UNCHANGED <<run, held, job, aborted, gate, did, plan, chain, log, closings>>
  /\ UNCHANGED <<queue, disp, hand, sent>>

\* Taking a row off the table.
RemoveRow(d) ==
  /\ queue' = Without(queue, d)
  /\ asked' = Without(asked, d)
  /\ st' = [st EXCEPT ![d] = "gone"]
  /\ canceled' = canceled \ {d}

\* ... or remove it, even one that is dispatching.
DeleteStore(c) ==
  /\ pc[c] = "found" /\ Op[c] = "delete"
  /\ IF held[c].target \in Rows
     THEN RemoveRow(held[c].target) /\ Goto(c, "returned")
     ELSE Goto(c, "thrown") /\ UNCHANGED <<queue, st, asked, canceled>>
  /\ UNCHANGED <<run, held, job, aborted, gate, did, plan, chain, log, closings>>
  /\ UNCHANGED <<disp, hand, sent>>

----------------------------------------------------------------------------
(* The dispatcher *)

At(step) == disp.step = step
Stage(step) == disp' = [disp EXCEPT !.step = step]
Picked(d) ==
  disp' = [step |-> IF st[d] = "dispatching" THEN "show" ELSE "mark",
           draft |-> d, was |-> st[d]]

\* getNextQueuedMessage: a requested draft, ...
SelectRequested ==
  /\ At("select")
  /\ IF Requested # {} THEN Picked(FirstRequested) ELSE Stage("select_queued")
  /\ UNCHANGED <<tvars, queue, st, asked, canceled, hand, sent>>

\* Mutant: the newest one.
SelectNewest ==
  /\ At("select_queued")
  /\ IF Waiting # {} THEN Picked(FindFirst(Reverse(queue), Waiting)) ELSE disp' = NoDispatch
  /\ UNCHANGED <<tvars, queue, st, asked, canceled, hand, sent>>

\* ... or else the oldest one waiting.
SelectQueued ==
  /\ At("select_queued")
  /\ IF Waiting # {} THEN Picked(FindFirst(queue, Waiting)) ELSE disp' = NoDispatch
  /\ UNCHANGED <<tvars, queue, st, asked, canceled, hand, sent>>

\* The row becomes dispatching, with the time of request it was read with; a
\* row that is gone ends the dispatcher with an error.
Mark ==
  /\ At("mark")
  /\ LET d == disp.draft IN
       IF d \in Rows
       THEN /\ st' = [st EXCEPT ![d] = "dispatching"]
            /\ asked' = IF disp.was = "queued" THEN Without(asked, d)
                        ELSE IF d \in ToSet(asked) THEN asked ELSE <<d>> \o asked
            /\ Stage("show")
       ELSE disp' = NoDispatch /\ UNCHANGED <<st, asked>>
  /\ UNCHANGED <<tvars, queue, canceled, hand, sent>>

\* The slot is taken, whether or not it is still free.
Show ==
  /\ At("show")
  /\ run' = Slot("scheduled", None, None)
  /\ Stage("store")
  /\ UNCHANGED <<pc, held, job, aborted, gate, did, plan, chain, log, closings>>
  /\ UNCHANGED <<queue, st, asked, canceled, hand, sent>>

\* commitUserMessageAndScheduleAssistant: the user message, ...
Store ==
  /\ At("store")
  /\ sent' = [sent EXCEPT ![disp.draft] = @ + 1]
  /\ Stage("remove")
  /\ UNCHANGED <<tvars, queue, st, asked, canceled, hand>>

\* Mutant: the draft's row survives.
DiscardNothing ==
  /\ At("remove")
  /\ Emit("progress", disp.draft)
  /\ Stage("announce")
  /\ UNCHANGED <<run, pc, held, job, aborted, gate, did, plan, log, closings>>
  /\ UNCHANGED <<queue, st, asked, canceled, hand, sent>>

\* ... the end of the draft's row, the message's announcement, ...
Discard ==
  /\ At("remove")
  /\ RemoveRow(disp.draft)
  /\ Emit("progress", disp.draft)
  /\ Stage("announce")
  /\ UNCHANGED <<run, pc, held, job, aborted, gate, did, plan, log, closings>>
  /\ UNCHANGED <<hand, sent>>

\* ... the assistant run, ...
Dispatch ==
  /\ At("announce") /\ Persisted([type |-> "progress", of |-> disp.draft])
  /\ Schedule(disp.draft)
  /\ Stage("finish")
  /\ UNCHANGED <<pc, held, aborted, gate, did, plan, chain, log, closings>>
  /\ UNCHANGED <<queue, st, asked, canceled, hand, sent>>

\* ... and the awaits after it, during which the dispatcher can still be joined.
Finish ==
  /\ At("finish")
  /\ disp' = NoDispatch
  /\ UNCHANGED <<tvars, queue, st, asked, canceled, hand, sent>>

\* Mutant: the failed draft stays dispatching.
DispatchFailsForGood ==
  /\ \/ "draft" \in Faults /\ At("store")
     \/ "draft_late" \in Faults /\ disp.step \in {"remove", "announce", "finish"}
  /\ ClearRun
  /\ disp' = NoDispatch
  /\ UNCHANGED <<pc, held, aborted, gate, did, plan, chain, log, closings>>
  /\ UNCHANGED <<queue, st, asked, canceled, hand, sent>>

\* A failure once the slot is taken gives the slot back, whoever holds it, and
\* the draft waits to be dispatched again if its row is still there.
DispatchFails ==
  /\ \/ "draft" \in Faults /\ At("store")
     \/ "draft_late" \in Faults /\ disp.step \in {"remove", "announce", "finish"}
  /\ ClearRun
  /\ disp' = NoDispatch
  /\ IF disp.draft \in Rows
     THEN /\ st' = [st EXCEPT ![disp.draft] = "requested"]
          /\ asked' = IF disp.draft \in ToSet(asked) THEN asked
                      ELSE Append(asked, disp.draft)
     ELSE UNCHANGED <<st, asked>>
  /\ UNCHANGED <<pc, held, aborted, gate, did, plan, chain, log, closings>>
  /\ UNCHANGED <<queue, canceled, hand, sent>>

----------------------------------------------------------------------------
(* maybeRequestQueuedHandoff, at the end of a tool *)

\* The run is looked up, ...
HandoffLook(j) ==
  /\ hand[j].step = "due" /\ Persisted([type |-> "progress", of |-> j])
  /\ hand' = [hand EXCEPT ![j] = IF Active /\ ~WaitingOnGate
                                 THEN [step |-> "look", cur |-> run] ELSE NoHandoff]
  /\ UNCHANGED <<tvars, queue, st, asked, canceled, disp, sent>>

\* A slot entry written back shares its sets of tools with the entry it came
\* from, if that is still in the slot.
WrittenBack(cur, pending) ==
  [cur EXCEPT !.handoff = pending,
              !.tools = IF Active /\ run.since = cur.since THEN run.tools ELSE @]

\* Mutant: any draft will do.
HandoffDecideForAny(j) ==
  /\ hand[j].step = "look"
  /\ LET back == WrittenBack(hand[j].cur, queue # <<>>) IN
       /\ run' = IF queue # <<>> THEN back ELSE run
       /\ hand' = [hand EXCEPT ![j] =
                     IF queue # <<>> /\ back.tools = {}
                     THEN [NoHandoff EXCEPT !.step = "cancel"] ELSE NoHandoff]
  /\ UNCHANGED <<pc, held, job, aborted, gate, did, plan, chain, log, closings>>
  /\ UNCHANGED <<queue, st, asked, canceled, disp, sent>>

\* ... and, after a read, written back as it was, marked if a draft is wanted.
HandoffDecide(j) ==
  /\ hand[j].step = "look"
  /\ LET cur == hand[j].cur
         back == WrittenBack(cur, Requested # {}) IN
       /\ run' = IF Requested # {} \/ cur.handoff THEN back ELSE run
       /\ hand' = [hand EXCEPT ![j] =
                     IF Requested # {} /\ back.tools = {}
                     THEN [NoHandoff EXCEPT !.step = "cancel"] ELSE NoHandoff]
  /\ UNCHANGED <<pc, held, job, aborted, gate, did, plan, chain, log, closings>>
  /\ UNCHANGED <<queue, st, asked, canceled, disp, sent>>

\* cancelCurrentRunForQueuedDispatch: a run that has not begun is closed like
\* stopRun does, ...
HandoffTimer(j) ==
  /\ hand[j].step = "cancel" /\ run.timer # None
  /\ run' = NoRun
  /\ job' = [job EXCEPT ![run.timer] = IF @ = "timer" THEN "stopped" ELSE @]
  /\ Emit("closed", run.timer)
  /\ hand' = [hand EXCEPT ![j].step = "kick"]
  /\ UNCHANGED <<pc, held, aborted, gate, did, plan, log, closings>>
  /\ UNCHANGED <<queue, st, asked, canceled, disp, sent>>

\* ... once that is announced the dispatcher is woken, ...
HandoffKick(j) ==
  /\ hand[j].step = "kick" /\ \A i \in DOMAIN chain : chain[i].type # "closed"
  /\ UNCHANGED tvars
  /\ Kick
  /\ hand' = [hand EXCEPT ![j] = NoHandoff]
  /\ UNCHANGED <<queue, st, asked, canceled, sent>>

\* ... and a run in progress is aborted.
HandoffAbort(j) ==
  /\ hand[j].step = "cancel" /\ run.timer = None
  /\ hand' = [hand EXCEPT ![j] = NoHandoff]
  /\ IF run.ctl \in {None} \cup aborted THEN UNCHANGED <<run, aborted>>
     ELSE run' = [run EXCEPT !.handoff = TRUE] /\ aborted' = aborted \cup {run.ctl}
  /\ UNCHANGED <<pc, held, job, gate, did, plan, chain, log, closings>>
  /\ UNCHANGED <<queue, st, asked, canceled, disp, sent>>

----------------------------------------------------------------------------
(* The actions of ThreadRun that concern the queue *)

\* The run that clears its slot wakes the dispatcher, ...
FinallyAndKick(j) ==
  /\ Finally(j)
  /\ IF run.ctl = j THEN Kick ELSE UNCHANGED disp
  /\ UNCHANGED <<queue, st, asked, canceled, hand, sent>>

\* ... stopRun does once its terminal event is out, ...
ReturnAndKick(c) ==
  /\ Return(c)
  /\ IF Op[c] = "stop" THEN Kick ELSE UNCHANGED disp
  /\ UNCHANGED <<queue, st, asked, canceled, hand, sent>>

\* ... and the end of a tool is the boundary at which a run may be handed off.
ToolFinishAndHandoff(j) ==
  /\ ToolFinish(j)
  /\ hand' = [hand EXCEPT ![j].step = "due"]
  /\ UNCHANGED <<queue, st, asked, canceled, disp, sent>>

\* A runner waits for the callback it has made.
EndAfterHandoff(j) ==
  /\ End(j)
  /\ hand[j].step = "idle" \/ j \in aborted \/ "crash" \in Acts
  /\ UNCHANGED dvars

ThreadContinue(c) ==
  /\ \/ RecoverPlan(c) \/ RewritePlan(c) \/ Reconcile(c) \/ ReadLastEvent(c)
     \/ Judge(c) \/ Refuse(c) \/ Snapshot(c) \/ Reserve(c) \/ Commit(c)
     \/ CommitFails(c) \/ ReviseFails(c) \/ Approve(c) \/ ApproveClear(c)
     \/ StartTurn(c) \/ Dismiss(c) \/ StopGates(c) \/ StopTimer(c)
     \/ StopAbort(c) \/ Resolve(c) \/ Resolved(c) \/ ResolvedAlready(c)
     \/ Reread(c) \/ RereadFails(c)
  /\ UNCHANGED dvars

ThreadRunner(j) ==
  /\ Text(j) \/ ToolStart(j) \/ AskGate(j) \/ PlanDetect(j) \/ Metadata(j)
  /\ UNCHANGED dvars

----------------------------------------------------------------------------
DraftInit ==
  /\ Init
  /\ queue = <<>>
  /\ st = [c \in Calls |-> "none"]
  /\ asked = <<>>
  /\ canceled = {}
  /\ disp = NoDispatch
  /\ hand = [c \in Calls |-> NoHandoff]
  /\ sent = [c \in Calls |-> 0]

DraftContinue(c) ==
  \/ Wake(c) \/ Drained(c) \/ Watched(c) \/ RequestFind(c) \/ RequestStore(c)
  \/ CancelStore(c) \/ DeleteStore(c) \/ ReturnAndKick(c)

Dispatcher ==
  \/ SelectRequested \/ SelectQueued \/ Mark \/ Show \/ Store \/ Discard
  \/ Dispatch \/ Finish \/ DispatchFails

DraftProceed(j) ==
  \/ (Begin(j) \/ PlanSave(j)) /\ UNCHANGED dvars
  \/ EndAfterHandoff(j) \/ FinallyAndKick(j)
  \/ HandoffLook(j) \/ HandoffDecide(j) \/ HandoffTimer(j) \/ HandoffKick(j)
  \/ HandoffAbort(j)

DraftNext ==
  \/ \E c \in Calls :
       \/ Load(c) /\ UNCHANGED dvars
       \/ ThreadContinue(c) \/ ThreadRunner(c) \/ ToolFinishAndHandoff(c)
       \/ Queue(c) \/ List(c) \/ EditFind(c)
       \/ DraftContinue(c) \/ DraftProceed(c)
  \/ Dispatcher
  \/ Persist /\ UNCHANGED dvars

DraftSpec == DraftInit /\ [][DraftNext]_allvars

\* As in ThreadRun: awaits settle, timers fire, runners return, and a client
\* that watches the thread keeps watching.
DraftFairness ==
  /\ \A c \in Calls : /\ WF_allvars(ThreadContinue(c)) /\ WF_allvars(DraftContinue(c))
                      /\ WF_allvars(DraftProceed(c))
  /\ \A c \in {d \in Calls : Op[d] = "watch"} : WF_allvars(List(c))
  /\ WF_allvars(Dispatcher)
  /\ WF_allvars(Persist /\ UNCHANGED dvars)

DraftFairSpec == DraftSpec /\ DraftFairness

----------------------------------------------------------------------------
(* Properties *)

\* A draft is stored as a user message once, and then the dispatcher still has it or a
\* run has been scheduled for it.  What becomes of that run is not said here.
MessageIsScheduled ==
  \A d \in Drafts : /\ sent[d] <= 1
                    /\ sent[d] > 0 => job[d] # "none" \/ disp.draft = d

\* The ways the code does have to disarm a timer it did not set: a reconciliation that
\* judges by what it saw before its await, or takes an earlier run's end for this
\* one's (chatService.ts:983), and a call of another turn, which takes the slot over
\* or, failing, gives it back (2632, 3691).
TakesSlotAway(c) == Judge(c) \/ StartTurn(c) \/ CommitFails(c) \/ RereadFails(c)

\* However many clients poll a draft, request it, retry it, delete it or stop its run,
\* it becomes one user message, for which a run is armed.  That run then begins or is
\* closed by a stop: its timer is not disarmed in silence by the end of an earlier
\* run, by the dispatcher, by a hand-off or by any other step than those of
\* TakesSlotAway, which do leave the message in the thread without a run.
DraftBecomesOneTurn ==
  /\ []MessageIsScheduled
  /\ [][\A d \in Drafts : job[d] # "dropped" /\ job'[d] = "dropped" =>
                          \E c \in Calls : TakesSlotAway(c)]_allvars

DispatchingIsAtWork ==
  \A d \in Drafts : st[d] = "dispatching" => disp.draft = d /\ disp.step # "idle"

QuietIsFree ==
  (/\ disp.step = "idle"
   /\ \A c \in Calls : /\ hand[c].step = "idle"
                       /\ ~InFlight(c) /\ job[c] \notin {"timer", "running", "closing"})
    => ~Active \/ run.ctl \in aborted

\* Only the dispatcher's own draft is dispatching: another row with that status could
\* neither be cancelled nor edited.  And when nothing is in flight, the dispatcher
\* included, the thread is idle, or it holds an entry of an aborted run, which the next
\* reconciliation clears (chatService.ts:1570).
DraftsAreHandled == DispatchingIsAtWork /\ QuietIsFree

\* Drafts nobody asked for leave in the order they were queued.
OldestFirst ==
  [][\A d \in Drafts :
       sent'[d] > sent[d] /\ disp.was = "queued" =>
         \A i, k \in DOMAIN queue :
           queue[k] = d /\ i < k => st[queue[i]] # "queued" \/ queue[i] \in canceled]_allvars

TakenBack(d) == d \in canceled \/ (st[d] = "gone" /\ sent[d] = 0)

\* A run that reaches the end of a tool is cut short there only for a draft the
\* user asked for, and may have taken back since.
YieldsToRequestOnly ==
  [][\A j \in Calls \ aborted : hand[j].step = "cancel" /\ aborted' # aborted =>
       \E d \in Drafts : st[d] \in {"requested", "dispatching"} \/ TakenBack(d)]_allvars

\* A draft that is queued is sent, or taken back by the user.
EveryDraftSent == \A d \in Drafts : st[d] = "queued" ~> sent[d] > 0 \/ TakenBack(d)
=============================================================================
