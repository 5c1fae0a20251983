--------------------------- MODULE DeviceStreams ---------------------------
(***************************************************************************)
(* Phones and simulators streamed to clients (deviceService.ts): the       *)
(* inventory, refreshed by whoever needs it first while the others join,   *)
(* the sessions with the processes that bridge a simulator's video, the    *)
(* polling that goes on while somebody listens, and the clients' event     *)
(* streams and requests (routes/devices.ts, useDevices.ts).                *)
(*                                                                         *)
(* Of an inventory the sessions count.  A refresh lists the devices when   *)
(* it begins and the sessions when it ends.                                *)
(***************************************************************************)
EXTENDS Naturals, FiniteSets

CONSTANTS
    Simulators, Phones,
    Watchers,       \* the clients
    Requesters,     \* bound: those of them that start and stop streams
    MaxStarts,      \* bound: requests to start a stream
    MaxMoves,       \* bound: devices that come or go
    MaxDrops        \* bound: event streams lost

ASSUME DeviceAssumption ==
    /\ Simulators \cap Phones = {} /\ Requesters \subseteq Watchers
    /\ {MaxStarts, MaxMoves, MaxDrops} \subseteq Nat

Devices == Simulators \cup Phones
Starts  == 1..MaxStarts

VARIABLES
    here,           \* the devices that are booted or connected
    remembered,     \* rememberedAndroidDevices
    sessions,       \* streamSessions, by the request that started them
    start,          \* start[s]: what request s is doing
    bridge,         \* bridge[s]: its process
    attached,       \* the sessions whose video a client receives
    refresh,        \* refreshPromise: what it listed, and whether a caller will emit it
    polling,        \* refreshTimer
    watcher,        \* watcher[w]: the event stream of client w
    strays,         \* event streams whose client left while their first snapshot was
                    \* awaited, and their listeners
    wire,           \* wire[w]: the newest snapshot on its way, if any
    due, answers,   \* answers that await a refresh, and those on their way
    listed,         \* listed[w]: the sessions client w shows
    moves, dropped

deviceVars == <<here, remembered, sessions, start, bridge, attached, refresh, polling,
                watcher, strays, wire, due, answers, listed, moves, dropped>>

NoRefresh == [busy |-> FALSE, seen |-> {}, emits |-> FALSE]

DevicesInit ==
    /\ here \in SUBSET Devices /\ remembered = {} /\ sessions = {} /\ attached = {}
    /\ start = [s \in Starts |-> [step |-> "off"]] /\ bridge = [s \in Starts |-> "none"]
    /\ refresh = NoRefresh /\ polling = FALSE
    /\ watcher = [w \in Watchers |-> "off"] /\ strays = [asked |-> 0, open |-> 0]
    /\ wire = [w \in Watchers |-> {}] /\ due = {} /\ answers = {}
    /\ listed = [w \in Watchers |-> {}] /\ moves = 0 /\ dropped = 0

-----------------------------------------------------------------------------
Listening == {w \in Watchers : watcher[w] = "open"}
Of(d)     == {s \in sessions : start[s].device = d}
Answer(w, kind, s) == [to |-> w, kind |-> kind, session |-> s]

\* refreshSnapshot and refreshAndEmit: a refresh begins or is joined.
Join(emits) == refresh' = IF refresh.busy THEN [refresh EXCEPT !.emits = @ \/ emits]
                          ELSE [busy |-> TRUE, seen |-> here, emits |-> emits]

\* The end of a refresh, and what those who awaited it do next.  A missing phone is
\* remembered until its grace is over, its sessions until theirs is.
RefreshEnds ==
    /\ refresh.busy /\ refresh' = NoRefresh
    /\ \E expired \in SUBSET (remembered \ refresh.seen) :
          remembered' = (remembered \ expired) \cup (refresh.seen \cap Phones)
    /\ LET present == refresh.seen \cup remembered'
           missing == {s \in sessions : start[s].device \in Phones \ present}
           looking == {s \in Starts : start[s].step = "looking"}
           found   == {s \in looking : start[s].device \in present}
       IN  /\ \E stale \in SUBSET missing : sessions' = sessions \ stale
           /\ start' = [s \in Starts |->
                  IF s \notin looking THEN start[s]
                  ELSE [start[s] EXCEPT !.step = IF s \in found THEN "preparing" ELSE "failed"]]
           /\ bridge' = [s \in Starts |->
                  IF s \in found /\ start[s].device \in Simulators THEN "starting" ELSE bridge[s]]
    /\ wire' = [w \in Watchers |->
                  IF watcher[w] = "asked" \/ (refresh.emits /\ w \in Listening) THEN {sessions'}
                  ELSE wire[w]]
    /\ watcher' = [w \in Watchers |-> IF watcher[w] = "asked" THEN "open" ELSE watcher[w]]
    /\ strays' = [asked |-> 0, open |-> strays.open + strays.asked]
    /\ polling' = (polling \/ strays.asked > 0 \/ \E w \in Watchers : watcher[w] = "asked")
    /\ answers' = answers \cup due /\ due' = {}
    /\ UNCHANGED <<here, attached, listed, moves, dropped>>

\* ensurePolling's timer
Poll ==
    /\ polling /\ ~refresh.emits /\ Join(TRUE)
    /\ UNCHANGED <<here, remembered, sessions, start, bridge, attached, polling, watcher,
                   strays, wire, due, answers, listed, moves, dropped>>

-----------------------------------------------------------------------------
\* startStream: a session of the device serves, or a refresh tells whether it is there.
StartStream(w, d) ==
    /\ \E s \in Starts :
          /\ start[s].step = "off" /\ \A r \in 1..s - 1 : start[r].step # "off"
          /\ IF Of(d) # {}
             THEN /\ \E t \in Of(d) : answers' = answers \cup {Answer(w, "started", t)}
                  /\ start' = [start EXCEPT ![s] = [step |-> "joined"]]
                  /\ UNCHANGED refresh
             ELSE /\ start' = [start EXCEPT ![s] =
                         [step |-> "looking", device |-> d, by |-> w,
                          alone |-> \A r \in Starts : start[r].step \in {"looking", "preparing"}
                                                         => start[r].device # d]]
                  /\ Join(FALSE)
                  /\ UNCHANGED answers
    /\ polling' = TRUE
    /\ UNCHANGED <<here, remembered, sessions, bridge, attached, watcher, strays, wire,
                   due, listed, moves, dropped>>

\* A bridge has sent its first metadata, or the sidecar of the phones answers.
Prepared(s) ==
    /\ start[s].step = "preparing"
    /\ start' = [start EXCEPT ![s].step = "started"]
    /\ bridge' = IF bridge[s] = "starting" THEN [bridge EXCEPT ![s] = "ready"] ELSE bridge
    /\ sessions' = sessions \cup {s}
    /\ due' = due \cup {Answer(start[s].by, "started", s)}
    /\ Join(TRUE)
    /\ UNCHANGED <<here, remembered, attached, polling, watcher, strays, wire, answers,
                   listed, moves, dropped>>

\* A time limit, an early exit or an error.
PreparationFails(s) ==
    /\ start[s].step = "preparing"
    /\ start' = [start EXCEPT ![s].step = "failed"]
    /\ bridge' = IF bridge[s] = "starting" THEN [bridge EXCEPT ![s] = "ended"] ELSE bridge
    /\ UNCHANGED <<here, remembered, sessions, attached, refresh, polling, watcher, strays,
                   wire, due, answers, listed, moves, dropped>>

\* The exit handler of a bridge that was ready.  Mutant: its session stays.
BridgeExitsOnly(s) ==
    /\ bridge[s] = "ready"
    /\ bridge' = [bridge EXCEPT ![s] = "ended"] /\ attached' = attached \ {s} /\ Join(TRUE)
    /\ UNCHANGED <<here, remembered, sessions, start, polling, watcher, strays, wire,
                   due, answers, listed, moves, dropped>>

BridgeExits(s) ==
    /\ bridge[s] = "ready"
    /\ bridge' = [bridge EXCEPT ![s] = "ended"] /\ attached' = attached \ {s}
    /\ sessions' = sessions \ {s} /\ Join(TRUE)
    /\ UNCHANGED <<here, remembered, start, polling, watcher, strays, wire,
                   due, answers, listed, moves, dropped>>

\* stopStream with terminateIosVideoBridge
StopStream(w, s) ==
    /\ s \in sessions /\ sessions' = sessions \ {s}
    /\ bridge' = IF bridge[s] = "ready" THEN [bridge EXCEPT ![s] = "ended"] ELSE bridge
    /\ attached' = attached \ {s}
    /\ due' = due \cup {Answer(w, "stopped", s)} /\ Join(TRUE)
    /\ UNCHANGED <<here, remembered, start, polling, watcher, strays, wire, answers,
                   listed, moves, dropped>>

\* attachIosNativeVideoClient, and the close of its socket
AttachVideo(s) ==
    /\ s \in sessions /\ bridge[s] # "none"
    /\ \/ s \notin attached /\ attached' = attached \cup {s}
       \/ s \in attached /\ attached' = attached \ {s}
    /\ UNCHANGED <<here, remembered, sessions, start, bridge, refresh, polling, watcher,
                   strays, wire, due, answers, listed, moves, dropped>>

-----------------------------------------------------------------------------
\* GET /devices/stream: the first snapshot is awaited before the client is listened to.
Watch(w) ==
    /\ watcher[w] = "off" /\ watcher' = [watcher EXCEPT ![w] = "asked"]
    /\ polling' = TRUE /\ Join(FALSE)
    /\ UNCHANGED <<here, remembered, sessions, start, bridge, attached, strays, wire,
                   due, answers, listed, moves, dropped>>

\* stopPollingIfIdle.  Mutant: the timer goes with any listener.
NoLongerPolling(left) == FALSE
StillPolling(left) == polling /\ (left # {} \/ strays.open > 0)

\* The stream fails or its page is left.  The route listens for the end of a request
\* only once it has answered with the first snapshot.
ConnectionLost(w) ==
    /\ watcher[w] # "off" /\ dropped < MaxDrops /\ dropped' = dropped + 1
    /\ watcher' = [watcher EXCEPT ![w] = "off"]
    /\ wire' = [wire EXCEPT ![w] = {}]
    /\ IF watcher[w] = "asked"
       THEN strays' = [strays EXCEPT !.asked = @ + 1] /\ UNCHANGED polling
       ELSE polling' = StillPolling(Listening \ {w}) /\ UNCHANGED strays
    /\ UNCHANGED <<here, remembered, sessions, start, bridge, attached, refresh, due,
                   answers, listed, moves>>

\* applySnapshot
Receive(w) ==
    /\ \E snapshot \in wire[w] : listed' = [listed EXCEPT ![w] = snapshot]
    /\ wire' = [wire EXCEPT ![w] = {}]
    /\ UNCHANGED <<here, remembered, sessions, start, bridge, attached, refresh, polling,
                   watcher, strays, due, answers, moves, dropped>>

\* upsertSession and removeSession, when a request of the client is answered
ReceiveAnswer(a) ==
    /\ a \in answers /\ answers' = answers \ {a}
    /\ listed' = [listed EXCEPT ![a.to] = IF a.kind = "started" THEN @ \cup {a.session}
                                          ELSE @ \ {a.session}]
    /\ UNCHANGED <<here, remembered, sessions, start, bridge, attached, refresh, polling,
                   watcher, strays, wire, due, moves, dropped>>

\* A device is connected or unplugged, booted or shut down.
DeviceMoves(d) ==
    /\ moves < MaxMoves /\ moves' = moves + 1
    /\ here' = IF d \in here THEN here \ {d} ELSE here \cup {d}
    /\ UNCHANGED <<remembered, sessions, start, bridge, attached, refresh, polling, watcher,
                   strays, wire, due, answers, listed, dropped>>

-----------------------------------------------------------------------------
DevicesNext ==
    \/ RefreshEnds \/ Poll
    \/ \E d \in Devices : DeviceMoves(d) \/ \E w \in Requesters : StartStream(w, d)
    \/ \E s \in Starts : Prepared(s) \/ PreparationFails(s) \/ BridgeExits(s) \/ AttachVideo(s)
    \/ \E w \in Requesters, s \in Starts : StopStream(w, s)
    \/ \E w \in Watchers : Watch(w) \/ ConnectionLost(w) \/ Receive(w)
    \/ \E a \in answers : ReceiveAnswer(a)

\* Refreshes end (the discovery has time limits), the timer fires, and what is sent on a
\* connection that lasts arrives.
DevicesFairness ==
    /\ WF_deviceVars(RefreshEnds) /\ WF_deviceVars(Poll)
    /\ \A w \in Watchers : WF_deviceVars(Receive(w))
    /\ WF_deviceVars(\E a \in answers : ReceiveAnswer(a))

DevicesTypeOK ==
    /\ {here, remembered} \subseteq SUBSET Devices /\ remembered \subseteq Phones
    /\ sessions \cup attached \subseteq {s \in Starts : start[s].step = "started"}
    /\ \A s \in Starts : /\ start[s].step \in {"off", "joined", "looking", "preparing",
                                               "started", "failed"}
                         /\ bridge[s] \in {"none", "starting", "ready", "ended"}
    /\ refresh \in [busy : BOOLEAN, seen : SUBSET Devices, emits : BOOLEAN]
    /\ polling \in BOOLEAN /\ strays \in [asked : 0..MaxDrops, open : 0..MaxDrops]
    /\ watcher \in [Watchers -> {"off", "asked", "open"}]
    /\ wire \in [Watchers -> SUBSET SUBSET Starts]
    /\ listed \in [Watchers -> SUBSET Starts]
    /\ due \cup answers \subseteq [to : Watchers, kind : {"started", "stopped"}, session : Starts]
    /\ moves \in 0..MaxMoves /\ dropped \in 0..MaxDrops

\* The streams and the processes behind them agree, whatever fails in between: a
\* simulator is streamed as long as its bridge runs, no bridge runs on behind the back
\* of the sessions and of a start that awaits it, only a streamed session is watched; two
\* sessions of one device come of overlapping starts only; and a client that listens
\* has the inventory polled for it (deviceService.ts:891, 1186, 1289, 1953).
DevicesAreSound ==
    /\ \A s \in Starts : /\ bridge[s] = "ready" <=>
                               (s \in sessions /\ start[s].device \in Simulators)
                         /\ bridge[s] = "starting" => start[s].step = "preparing"
    /\ attached \subseteq sessions
    /\ \A s, t \in sessions : s < t /\ start[s].device = start[t].device => ~start[t].alone
    /\ Listening # {} => polling

\* A client whose connection lasts comes to show the sessions there are, in whichever
\* order snapshots and the answers of its own requests reach it (useDevices.ts:69).
DevicesCatchUp == \A w \in Watchers : []<>(watcher[w] = "open" => listed[w] = sessions)
=============================================================================
