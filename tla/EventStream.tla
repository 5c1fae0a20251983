---------------------------- MODULE EventStream ----------------------------
(***************************************************************************)
(* The events of one thread on their way to the web client: the event hub  *)
(* that numbers, stores and hands them out, the SSE route that replays the *)
(* stored ones and then follows the hub, the EventSource of each client,   *)
(* and the client's collection of events, which it also mends with whole   *)
(* snapshots of the timeline.  The connection may drop at every moment and *)
(* the runtime may restart.                                                *)
(***************************************************************************)
EXTENDS Integers, Sequences, Functions, FiniteSetsExt

CONSTANTS
    Readers,        \* the clients (panes) that show the thread
    MaxEvents,      \* bound: events emitted
    MaxDrops,       \* bound: connections lost or refused
    MaxRestarts,    \* bound: restarts of the runtime
    MaxResyncs,     \* bound: snapshots fetched by a client
    MaxAttempts     \* MAX_RECONNECT_ATTEMPTS

ASSUME StreamAssumption ==
    {MaxEvents, MaxDrops, MaxRestarts, MaxResyncs, MaxAttempts} \subseteq Nat

None == -1          \* null, where the code has a number or null

VARIABLES
    emitted,        \* calls of emit so far
    queue,          \* calls waiting in the thread's dispatch queue
    hub,            \* what the call at the head of the queue is doing
    event,          \* the number of the event it is working on
    nextIdx,        \* ThreadState.nextIdx: volatile
    db,             \* the numbers of the ChatEvent rows, in the order of idx
    sub,            \* sub[r]: the route's side of r's connection
    wire,           \* wire[r]: written by the route, not yet received
    source,         \* source[r]: r's EventSource
    tab,            \* tab[r]: the state r keeps of the thread
    resync,         \* resync[r]: r's fetch of a snapshot
    timeline,       \* the snapshot request in flight, shared by the clients
    drops, resyncs, restarts

hubVars    == <<emitted, queue, hub, event, nextIdx, db>>
streamVars == <<hubVars, sub, wire, source, tab, resync, timeline, drops, resyncs, restarts>>

-----------------------------------------------------------------------------
Newest(S)   == IF S = {} THEN None ELSE Max(S)
Later(i, j) == IF i < j THEN j ELSE i

\* A set of numbers in increasing order, each once.
InOrder(S) ==
    CHOOSE s \in [1..Cardinality(S) -> S] :
       Range(s) = S /\ \A i, j \in DOMAIN s : i < j => s[i] < s[j]

\* The rows with a number above i, as the query sorts them.
After(s, i) == InOrder({n \in Range(s) : n > i})

\* A sequence without the elements of T.
Without(s, T) ==
    LET kept == InOrder({i \in DOMAIN s : s[i] \notin T}) IN
    [i \in DOMAIN kept |-> s[kept[i]]]

NoSub == [after |-> None, history |-> << >>, buffer |-> << >>]

NoTab == [cursor |-> None, seen |-> {}, pending |-> << >>, rows |-> {},
          cached |-> {}]

Idle == [phase |-> "idle", rows |-> {}]

\* What the client shows: its collection, and the events it has accepted and
\* will insert with the next animation frame.
Shown(r) == tab[r].rows \cup Range(tab[r].pending)

Subscribed(r) == source[r].state \in {"replaying", "replayed", "live"}
Connected(r)  == source[r].state = "asked" \/ Subscribed(r)

StreamInit ==
    /\ emitted = 0 /\ queue = 0 /\ hub = "free" /\ event = None
    /\ nextIdx = None /\ db = << >>
    /\ sub = [r \in Readers |-> NoSub]
    /\ wire = [r \in Readers |-> << >>]
    /\ source = [r \in Readers |-> [state |-> "off", url |-> None, lastId |-> None,
                                    attempts |-> 0]]
    /\ tab = [r \in Readers |-> NoTab]
    /\ resync = [r \in Readers |-> Idle]
    /\ timeline = Idle
    /\ drops = 0 /\ resyncs = 0 /\ restarts = 0

-----------------------------------------------------------------------------
(* The hub.                                                                *)
-----------------------------------------------------------------------------
Emit ==
    /\ emitted < MaxEvents
    /\ emitted' = emitted + 1
    /\ queue' = queue + 1
    /\ UNCHANGED <<hub, event, nextIdx, db, sub, wire, source, tab, resync, timeline,
                   drops, resyncs, restarts>>

\* The next call of the queue takes the next number, which the first call after
\* a start reads from the table.
Number ==
    /\ hub = "free" /\ queue > 0
    /\ LET n == IF nextIdx = None THEN Newest(Range(db)) + 1 ELSE nextIdx IN
       /\ event' = n
       /\ nextIdx' = n + 1
    /\ queue' = queue - 1
    /\ hub' = "writing"
    /\ UNCHANGED <<emitted, db, sub, wire, source, tab, resync, timeline, drops, resyncs, restarts>>

Write ==
    /\ hub = "writing"
    /\ db' = Append(db, event)
    /\ hub' = "written"
    /\ UNCHANGED <<emitted, queue, event, nextIdx, sub, wire, source, tab, resync,
                   timeline, drops, resyncs, restarts>>

\* The call is rejected; its number stays unused until the next start.
WriteFails ==
    /\ hub = "writing"
    /\ hub' = "free"
    /\ UNCHANGED <<emitted, queue, event, nextIdx, db, sub, wire, source, tab, resync,
                   timeline, drops, resyncs, restarts>>

\* Mutant of Deliver: a connection whose history is still being read is skipped.
DeliverToLive ==
    /\ hub = "written"
    /\ hub' = "free"
    /\ wire' = [r \in Readers |->
                  IF source[r].state = "live" /\ event > sub[r].after
                  THEN Append(wire[r], event) ELSE wire[r]]
    /\ UNCHANGED <<emitted, queue, event, nextIdx, db, sub, source, tab, resync, timeline,
                   drops, resyncs, restarts>>

\* All listeners are called before the next call of the queue begins.
Deliver ==
    /\ hub = "written"
    /\ hub' = "free"
    /\ LET heard == {r \in Readers : Subscribed(r) /\ event > sub[r].after} IN
       /\ sub' = [r \in Readers |->
                    IF r \in heard /\ source[r].state # "live"
                    THEN [sub[r] EXCEPT !.buffer = Append(@, event)] ELSE sub[r]]
       /\ wire' = [r \in Readers |->
                    IF r \in heard /\ source[r].state = "live"
                    THEN Append(wire[r], event) ELSE wire[r]]
    /\ UNCHANGED <<emitted, queue, event, nextIdx, db, source, tab, resync, timeline,
                   drops, resyncs, restarts>>

-----------------------------------------------------------------------------
(* The route.                                                              *)
-----------------------------------------------------------------------------
\* The response has begun, so the client's reconnect attempts are forgotten.
Subscribe(r) ==
    /\ source[r].state = "asked"
    /\ sub' = [sub EXCEPT ![r] =
                 [NoSub EXCEPT !.after = Later(source[r].url, source[r].lastId)]]
    /\ source' = [source EXCEPT ![r].state = "replaying", ![r].attempts = 0]
    /\ UNCHANGED <<hubVars, wire, tab, resync, timeline, drops, resyncs, restarts>>

ReadHistory(r) ==
    /\ source[r].state = "replaying"
    /\ sub' = [sub EXCEPT ![r].history = After(db, sub[r].after)]
    /\ source' = [source EXCEPT ![r].state = "replayed"]
    /\ UNCHANGED <<hubVars, wire, tab, resync, timeline, drops, resyncs, restarts>>

\* Mutant of FlushHistory: what arrived meanwhile is forgotten.
FlushHistoryOnly(r) ==
    /\ source[r].state = "replayed"
    /\ wire' = [wire EXCEPT ![r] = sub[r].history]
    /\ sub' = [sub EXCEPT ![r].history = << >>, ![r].buffer = << >>]
    /\ source' = [source EXCEPT ![r].state = "live"]
    /\ UNCHANGED <<hubVars, tab, resync, timeline, drops, resyncs, restarts>>

FlushHistory(r) ==
    /\ source[r].state = "replayed"
    /\ wire' = [wire EXCEPT ![r] = sub[r].history \o
                                     Without(sub[r].buffer, Range(sub[r].history))]
    /\ sub' = [sub EXCEPT ![r].history = << >>, ![r].buffer = << >>]
    /\ source' = [source EXCEPT ![r].state = "live"]
    /\ UNCHANGED <<hubVars, tab, resync, timeline, drops, resyncs, restarts>>

-----------------------------------------------------------------------------
(* The client.                                                             *)
-----------------------------------------------------------------------------
\* syncThreadStreamCursorFromSnapshot
Synced(t, rows) ==
    IF Newest(rows) < t.cursor THEN t
    ELSE [t EXCEPT !.seen = IF rows = {} THEN @ ELSE rows,
                   !.cursor = Later(@, Newest(rows))]

\* startStream: at mount, after a delay, or by the watchdog on a connection
\* that does not open.
StartStream(r) ==
    /\ source[r].state \in {"off", "waiting", "retrying", "asked"}
    /\ source[r].state = "asked" => drops < MaxDrops
    /\ drops' = IF source[r].state = "asked" THEN drops + 1 ELSE drops
    /\ LET t == Synced(tab[r], tab[r].cached)
           c == Later(t.cursor, Newest(t.rows)) IN
       /\ tab' = [tab EXCEPT ![r] = [t EXCEPT !.cursor = c]]
       /\ source' = [source EXCEPT ![r].state = "asked", ![r].url = c,
                                   ![r].lastId = None]
    /\ UNCHANGED <<hubVars, sub, wire, resync, timeline, resyncs, restarts>>

\* Mutant of Receive: events are not compared with those seen.
ReceiveAll(r) ==
    /\ wire[r] # << >>
    /\ LET n == Head(wire[r]) IN
       /\ source' = [source EXCEPT ![r].lastId = n]
       /\ tab' = [tab EXCEPT ![r].seen = @ \cup {n}, ![r].cursor = Later(@, n),
                             ![r].pending = Append(@, n)]
    /\ wire' = [wire EXCEPT ![r] = Tail(@)]
    /\ UNCHANGED <<hubVars, sub, resync, timeline, drops, resyncs, restarts>>

\* onEvent
Receive(r) ==
    /\ wire[r] # << >>
    /\ LET n == Head(wire[r]) IN
       /\ source' = [source EXCEPT ![r].lastId = n]
       /\ tab' = IF n \in tab[r].seen THEN tab
                 ELSE [tab EXCEPT ![r].seen = @ \cup {n},
                                  ![r].cursor = Later(@, n),
                                  ![r].pending = Append(@, n)]
    /\ wire' = [wire EXCEPT ![r] = Tail(@)]
    /\ UNCHANGED <<hubVars, sub, resync, timeline, drops, resyncs, restarts>>

\* flushPendingEventsToCollection
Flushed(t) ==
    LET new == Range(t.pending) \ t.rows IN
    [t EXCEPT !.pending = << >>, !.rows = @ \cup new, !.cursor = Later(@, Newest(new))]

Frame(r) ==
    /\ tab[r].pending # << >>
    /\ tab' = [tab EXCEPT ![r] = Flushed(@)]
    /\ UNCHANGED <<hubVars, sub, wire, source, resync, timeline, drops, resyncs, restarts>>

\* The cleanup of the effect: the thread is no longer shown.
Unmount(r) ==
    /\ source[r].state # "off" /\ drops < MaxDrops
    /\ drops' = drops + 1
    /\ tab' = [tab EXCEPT ![r] = Flushed(@)]
    /\ source' = [source EXCEPT ![r].state = "off"]
    /\ sub' = [sub EXCEPT ![r] = NoSub]
    /\ wire' = [wire EXCEPT ![r] = << >>]
    /\ resync' = [resync EXCEPT ![r] = Idle]
    /\ UNCHANGED <<hubVars, timeline, resyncs, restarts>>

\* Mutant of Lost: the attempts are not limited.
LostAgain(s, retried) ==
    IF retried THEN [s EXCEPT !.state = "retrying"]
    ELSE [s EXCEPT !.state = "waiting", !.attempts = @ + 1]

\* onerror: the browser retries by itself, or has given up and the client tries
\* again after a delay, a limited number of times.
Lost(s, retried) ==
    IF retried THEN [s EXCEPT !.state = "retrying"]
    ELSE IF s.attempts < MaxAttempts
    THEN [s EXCEPT !.state = "waiting", !.attempts = @ + 1]
    ELSE [s EXCEPT !.state = "exhausted"]

Drop(r) ==
    /\ Connected(r) /\ drops < MaxDrops
    /\ drops' = drops + 1
    /\ \E retried \in BOOLEAN : source' = [source EXCEPT ![r] = Lost(@, retried)]
    /\ sub' = [sub EXCEPT ![r] = NoSub]
    /\ wire' = [wire EXCEPT ![r] = << >>]
    /\ UNCHANGED <<hubVars, tab, resync, timeline, resyncs, restarts>>

\* The browser repeats its request with the id of the last event it received.
Retry(r) ==
    /\ source[r].state = "retrying"
    /\ source' = [source EXCEPT ![r].state = "asked"]
    /\ UNCHANGED <<hubVars, sub, wire, tab, resync, timeline, drops, resyncs, restarts>>

-----------------------------------------------------------------------------
(* The snapshots.                                                          *)
-----------------------------------------------------------------------------
\* resyncFromRemote, by the watchdog or when the window is looked at again: a
\* status shows newer events, and the timeline is asked for.  Requests that
\* overlap share one reading of the table.
Resync(r) ==
    /\ source[r].state # "off" /\ resync[r].phase = "idle"
    /\ Newest(Range(db)) > tab[r].cursor
    /\ resyncs < MaxResyncs
    /\ resyncs' = resyncs + 1
    /\ resync' = [resync EXCEPT ![r].phase = "asked"]
    /\ timeline' = IF timeline.phase = "idle" THEN [Idle EXCEPT !.phase = "asked"]
                   ELSE timeline
    /\ UNCHANGED <<hubVars, sub, wire, source, tab, drops, restarts>>

ReadTimeline ==
    /\ timeline.phase = "asked"
    /\ timeline' = [phase |-> "read", rows |-> Range(db)]
    /\ UNCHANGED <<hubVars, sub, wire, source, tab, resync, drops, resyncs, restarts>>

ReturnTimeline ==
    /\ timeline.phase = "read"
    /\ resync' = [r \in Readers |->
                    IF resync[r].phase = "asked"
                    THEN [phase |-> "returned", rows |-> timeline.rows] ELSE resync[r]]
    /\ timeline' = Idle
    /\ UNCHANGED <<hubVars, sub, wire, source, tab, drops, resyncs, restarts>>

\* mergeEventsWithCurrent
Merged(rows, current) ==
    IF /\ current # {}
       /\ Cardinality(current) >= Cardinality(rows)
       /\ Newest(current) >= Newest(rows)
    THEN current ELSE rows \cup current

\* Mutant of ApplyTimeline: the cursor follows the snapshot, the rows do not.
ApplyCursorOnly(r) ==
    /\ resync[r].phase = "returned"
    /\ tab' = [tab EXCEPT ![r] = Synced([@ EXCEPT !.cached = resync[r].rows], resync[r].rows)]
    /\ resync' = [resync EXCEPT ![r] = Idle]
    /\ UNCHANGED <<hubVars, sub, wire, source, timeline, drops, resyncs, restarts>>

\* hydrateThreadFromSnapshot, and the cursor.
ApplyTimeline(r) ==
    /\ resync[r].phase = "returned"
    /\ LET rows == Merged(resync[r].rows, tab[r].rows)
           t == [tab[r] EXCEPT !.cached = resync[r].rows, !.rows = rows, !.seen = rows,
                               !.cursor = Later(@, Newest(rows))] IN
       tab' = [tab EXCEPT ![r] = Synced(t, resync[r].rows)]
    /\ resync' = [resync EXCEPT ![r] = Idle]
    /\ UNCHANGED <<hubVars, sub, wire, source, timeline, drops, resyncs, restarts>>

-----------------------------------------------------------------------------
(* A restart of the runtime: the queue, the numbers and the connections are *)
(* gone, the rows are kept.                                                 *)
-----------------------------------------------------------------------------
Restart ==
    /\ restarts < MaxRestarts
    /\ restarts' = restarts + 1
    /\ queue' = 0 /\ hub' = "free" /\ nextIdx' = None
    /\ \E retried \in SUBSET {r \in Readers : Connected(r)} :
          source' = [r \in Readers |->
                       IF Connected(r) THEN Lost(source[r], r \in retried) ELSE source[r]]
    /\ sub' = [r \in Readers |-> NoSub]
    /\ wire' = [r \in Readers |-> << >>]
    /\ timeline' = Idle
    /\ resync' = [r \in Readers |->
                    IF resync[r].phase = "asked" THEN Idle ELSE resync[r]]
    /\ UNCHANGED <<emitted, event, db, tab, drops, resyncs>>

-----------------------------------------------------------------------------
Hub == Emit \/ Number \/ Write \/ WriteFails \/ Deliver

Route(r) == Subscribe(r) \/ ReadHistory(r) \/ FlushHistory(r)

Client(r) ==
    \/ StartStream(r) \/ Receive(r) \/ Frame(r) \/ Unmount(r) \/ Drop(r) \/ Retry(r)
    \/ Resync(r) \/ ApplyTimeline(r)

StreamNext ==
    \/ Hub \/ ReadTimeline \/ ReturnTimeline \/ Restart
    \/ \E r \in Readers : Route(r) \/ Client(r)

StreamSpec == StreamInit /\ [][StreamNext]_streamVars

(***************************************************************************)
(* Fairness: the runtime's promises and queries settle, a connection that  *)
(* was asked for opens, what was written arrives, timers and animation     *)
(* frames fire.  Nothing forces a call of emit, a fault, the thread to be  *)
(* looked at, or a resync, which waits for the watchdog's conditions or    *)
(* for the user.                                                           *)
(***************************************************************************)
StreamFairness ==
    /\ WF_streamVars(Number) /\ WF_streamVars(Write \/ WriteFails) /\ WF_streamVars(Deliver)
    /\ \A r \in Readers :
          /\ WF_streamVars(Route(r))
          /\ WF_streamVars(source[r].state = "waiting" /\ StartStream(r))
          /\ WF_streamVars(Retry(r))
          /\ WF_streamVars(Receive(r)) /\ WF_streamVars(Frame(r))

FairStreamSpec == StreamSpec /\ StreamFairness

-----------------------------------------------------------------------------
Numbers == None..(MaxEvents + 1)

\* The variables keep to their types, and the rows to the order of their
\* numbers (eventHub.ts, chats.ts, threadStreamState.ts).
StreamTypeOK ==
    /\ emitted \in 0..MaxEvents /\ queue \in 0..MaxEvents
    /\ hub \in {"free", "writing", "written"}
    /\ event \in Numbers /\ nextIdx \in Numbers /\ db \in Seq(Numbers)
    /\ \A r \in Readers :
          /\ sub[r].after \in Numbers
          /\ sub[r].history \in Seq(Numbers) /\ sub[r].buffer \in Seq(Numbers)
          /\ wire[r] \in Seq(Numbers)
          /\ source[r].state \in {"off", "asked", "replaying", "replayed", "live",
                                  "retrying", "waiting", "exhausted"}
          /\ {source[r].url, source[r].lastId, tab[r].cursor} \subseteq Numbers
          /\ source[r].attempts \in 0..MaxAttempts
          /\ tab[r].pending \in Seq(Numbers)
          /\ UNION {tab[r].seen, tab[r].rows, tab[r].cached} \subseteq Numbers
          /\ resync[r].phase \in {"idle", "asked", "returned"}
    /\ timeline.phase \in {"idle", "asked", "read"}

-----------------------------------------------------------------------------
(* The ledger the stream implements.                                       *)
-----------------------------------------------------------------------------
ShownInOrder == [r \in Readers |-> InOrder(Shown(r))]

Ledger == INSTANCE EventLedger WITH ledger <- db, view <- ShownInOrder

\* Whatever is dropped, retried, restarted or fetched meanwhile, what a client
\* shows is at every step a prefix of the stored events, and their numbers grow
\* (eventHub.ts:188, chats.ts:735, useThreadEventStream.ts:634).
ImplementsLedger == Ledger!LedgerSpec

\* A client never takes from the stream an event older than one it has accounted
\* for: the text of a message is put together in that order.  The newest may come
\* twice, when it is stored before the history is read and delivered after, and is
\* recognised by its text (useThreadEventStream.ts:634, messageEventMerge.ts:37).
AcceptedInOrder ==
    [][\A r \in Readers :
          Len(tab'[r].pending) > Len(tab[r].pending)
             => tab'[r].pending[Len(tab'[r].pending)] >= tab[r].cursor]_streamVars

\* The cursor a connection resumes from has not passed an event the client does
\* not show (chats.ts:50, useThreadEventStream.ts:897).
CursorIsShown ==
    \A r \in Readers : \A n \in Range(db) :
        n <= Later(tab[r].cursor, Later(source[r].url, source[r].lastId)) => n \in Shown(r)

\* Every stored event reaches every client that keeps the thread in view and has
\* not given up: again and again the client shows all there is
\* (chats.ts:735, useThreadEventStream.ts:976).
EveryEventArrives ==
    \A r \in Readers :
       []<>(Range(db) \subseteq Shown(r) \/ source[r].state \in {"off", "exhausted"})
=============================================================================
