---------------------------- MODULE LiveStatus ----------------------------
(***************************************************************************)
(* The git status of one worktree on its way to the clients: the watcher   *)
(* of its files, the cache in front of git status, the channel that turns  *)
(* snapshots into numbered events, and the sockets on which each client    *)
(* resumes after the last number it has seen.  Clients leave and come back *)
(* or lose their sockets, git may fail, and the runtime may restart.       *)
(*                                                                         *)
(* A status is reduced to the number of the change it shows last.          *)
(***************************************************************************)
EXTENDS Integers, SequencesExt

CONSTANTS
    Viewers,        \* clients that show the status
    Queries,        \* the computations of git status there may be at a time
    BufferLimit,    \* REPLAY_BUFFER_LIMIT
    MaxChanges,     \* bound: changes of the worktree
    MaxAsks,        \* bound: requests of the status over HTTP
    MaxLosses,      \* bound: failures of git, sockets lost, clients that leave
    MaxLives        \* bound: restarts

ASSUME LiveAssumption ==
    {BufferLimit, MaxChanges, MaxAsks, MaxLosses, MaxLives} \subseteq Nat /\ BufferLimit > 0

Nothing == -1       \* null

VARIABLES
    changes,        \* changes of the worktree so far
    batch,          \* does a watcher's batch wait for its flush?
    cached,         \* the status in the cache
    query,          \* query[q]: a computation, and the status it has read
    inFlight,       \* the computation later requests join
    channel,        \* the channel: its fetch, its next number, its replay buffer
    feed,           \* feed[v]: the runtime's side of v's subscription
    socket,         \* socket[v]: sent, not yet received
    viewer,         \* viewer[v]: v's side, the last number and the status it shows
    asks, losses, lives

cacheVars == <<cached, query, inFlight>>
liveVars  == <<changes, batch, cacheVars, channel, feed, socket, viewer, asks, losses, lives>>

-----------------------------------------------------------------------------
NoEvent     == [seq |-> Nothing, status |-> Nothing]
NoQuery     == [step |-> "idle", status |-> Nothing]
NewChannel  == [fetch |-> "off", from |-> Nothing, next |-> 1, current |-> NoEvent,
                replay |-> << >>]
NewViewer   == [state |-> "off", seq |-> Nothing, status |-> Nothing, life |-> 0]

Listening(v) == feed[v] # "none"
Audience     == {v \in Viewers : Listening(v)}

\* publishSnapshot: a fetch in flight is joined.
Published(c) == IF c.fetch = "off" THEN [c EXCEPT !.fetch = "asked"] ELSE c

LiveInit ==
    /\ changes = 0 /\ batch = FALSE
    /\ cached = Nothing /\ inFlight = Nothing
    /\ query = [q \in Queries |-> NoQuery]
    /\ channel = NewChannel
    /\ feed = [v \in Viewers |-> "none"]
    /\ socket = [v \in Viewers |-> << >>]
    /\ viewer = [v \in Viewers |-> NewViewer]
    /\ asks = 0 /\ losses = 0 /\ lives = 0

-----------------------------------------------------------------------------
(* The worktree and its watcher.                                           *)
-----------------------------------------------------------------------------
ChangeFiles ==
    /\ changes < MaxChanges
    /\ changes' = changes + 1 /\ batch' = TRUE
    /\ UNCHANGED <<cacheVars, channel, feed, socket, viewer, asks, losses, lives>>

\* flushWorktree: the cache is invalidated and the channel refreshed.
FlushBatch ==
    /\ batch
    /\ batch' = FALSE
    /\ cached' = Nothing /\ inFlight' = Nothing
    /\ channel' = IF Audience # {} THEN Published(channel) ELSE channel
    /\ UNCHANGED <<changes, query, feed, socket, viewer, asks, losses, lives>>

-----------------------------------------------------------------------------
(* getCachedWorktreeGitStatus.                                             *)
-----------------------------------------------------------------------------
\* Computation q begins, and requests without refresh join it from now on.
Begins(q) ==
    /\ query[q].step = "idle"
    /\ query' = [query EXCEPT ![q].step = "running"]
    /\ inFlight' = q

\* The channel has read the worktree's row and asks for the status.
ChannelAsks ==
    /\ channel.fetch = "asked"
    /\ \/ /\ cached # Nothing
          /\ channel' = [channel EXCEPT !.fetch = "got", !.from = cached]
          /\ UNCHANGED <<query, inFlight>>
       \/ /\ cached = Nothing /\ inFlight # Nothing
          /\ channel' = [channel EXCEPT !.fetch = "waiting", !.from = inFlight]
          /\ UNCHANGED <<query, inFlight>>
       \/ /\ cached = Nothing /\ inFlight = Nothing
          /\ \E q \in Queries :
                Begins(q) /\ channel' = [channel EXCEPT !.fetch = "waiting", !.from = q]
    /\ UNCHANGED <<changes, batch, cached, feed, socket, viewer, asks, losses, lives>>

\* A client asks over HTTP, with refresh or after the entry has expired.
AskDirectly ==
    /\ asks < MaxAsks
    /\ asks' = asks + 1
    /\ \E q \in Queries : Begins(q)
    /\ UNCHANGED <<changes, batch, cached, channel, feed, socket, viewer, losses, lives>>

ReadTree(q) ==
    /\ query[q].step = "running"
    /\ query' = [query EXCEPT ![q] = [step |-> "read", status |-> changes]]
    /\ UNCHANGED <<changes, batch, cached, inFlight, channel, feed, socket, viewer, asks,
                   losses, lives>>

\* The status is stored, even if the cache has been invalidated meanwhile.
FinishQuery(q) ==
    /\ query[q].step = "read"
    /\ cached' = query[q].status /\ inFlight' = Nothing
    /\ query' = [query EXCEPT ![q] = NoQuery]
    /\ channel' = IF channel.fetch = "waiting" /\ channel.from = q
                  THEN [channel EXCEPT !.fetch = "got", !.from = query[q].status]
                  ELSE channel
    /\ UNCHANGED <<changes, batch, feed, socket, viewer, asks, losses, lives>>

CacheExpires ==
    /\ cached # Nothing
    /\ cached' = Nothing
    /\ UNCHANGED <<changes, batch, query, inFlight, channel, feed, socket, viewer, asks,
                   losses, lives>>

-----------------------------------------------------------------------------
(* The channel.                                                            *)
-----------------------------------------------------------------------------
\* A new status becomes an event for every listener; subscriptions that wait for a
\* first snapshot get it or, when nothing has changed, the current event.
Publish ==
    LET new  == [seq |-> channel.next, status |-> channel.from]
        same == channel.current.status = channel.from
        now  == IF same THEN channel.current ELSE new
        kept == Append(channel.replay, new)
    IN
    /\ channel.fetch = "got"
    /\ channel' = [fetch |-> "off", from |-> Nothing, current |-> now,
                   next |-> IF same THEN channel.next ELSE channel.next + 1,
                   replay |-> IF same THEN channel.replay
                              ELSE IF Len(kept) > BufferLimit THEN Tail(kept) ELSE kept]
    /\ socket' = [v \in Viewers |->
                    IF feed[v] = "listing" \/ (feed[v] = "live" /\ ~same)
                    THEN Append(socket[v], now) ELSE socket[v]]
    /\ feed' = [v \in Viewers |-> IF Listening(v) THEN "live" ELSE "none"]
    /\ UNCHANGED <<changes, batch, cacheVars, viewer, asks, losses, lives>>

\* Git or the database fails: the refresh is dropped, and a subscription that waits
\* is ended with an error.
PublishFails ==
    /\ channel.fetch = "got" /\ losses < MaxLosses
    /\ losses' = losses + 1
    /\ channel' = [channel EXCEPT !.fetch = "off", !.from = Nothing]
    /\ feed' = [v \in Viewers |-> IF feed[v] = "listing" THEN "none" ELSE feed[v]]
    /\ viewer' = [v \in Viewers |-> IF feed[v] = "listing"
                                    THEN [viewer[v] EXCEPT !.state = "exhausted"] ELSE viewer[v]]
    /\ UNCHANGED <<changes, batch, cacheVars, socket, asks, lives>>

\* Mutant of Poll: there is no poller.
PollNever == FALSE /\ UNCHANGED liveVars

\* The poller of a channel with listeners.
Poll ==
    /\ Audience # {}
    /\ channel' = Published(channel)
    /\ UNCHANGED <<changes, batch, cacheVars, feed, socket, viewer, asks, losses, lives>>

-----------------------------------------------------------------------------
(* The socket and the client.                                              *)
-----------------------------------------------------------------------------
\* The socket opens and the client subscribes after the last number it has seen:
\* later events, which are the end of the buffer as its numbers ascend, are replayed, or
\* the current one is sent, or a snapshot is awaited.
Attach(v) ==
    LET seen   == {i \in DOMAIN channel.replay : channel.replay[i].seq <= viewer[v].seq}
        missed == IF viewer[v].seq = Nothing THEN << >>
                  ELSE SubSeq(channel.replay, Cardinality(seen) + 1, Len(channel.replay))
    IN
    /\ viewer[v].state \in {"off", "waiting"}
    /\ viewer' = [viewer EXCEPT ![v].state = "open"]
    /\ socket' = [socket EXCEPT ![v] = missed]
    /\ IF missed # << >>
       THEN feed' = [feed EXCEPT ![v] = "live"] /\ UNCHANGED channel
       ELSE feed' = [feed EXCEPT ![v] = "listing"] /\ channel' = Published(channel)
    /\ UNCHANGED <<changes, batch, cacheVars, asks, losses, lives>>

\* Mutant of ReceiveStatus: the number is not remembered.
ReceiveStatusOnly(v) ==
    /\ socket[v] # << >>
    /\ viewer' = [viewer EXCEPT ![v].status = Head(socket[v]).status]
    /\ socket' = [socket EXCEPT ![v] = Tail(@)]
    /\ UNCHANGED <<changes, batch, cacheVars, channel, feed, asks, losses, lives>>

\* handleLiveResourceEvent: numbers that are not new are dropped.
ReceiveStatus(v) ==
    /\ socket[v] # << >>
    /\ LET e == Head(socket[v]) IN
       viewer' = IF e.seq <= viewer[v].seq THEN viewer
                 ELSE [viewer EXCEPT ![v] = [@ EXCEPT !.seq = e.seq, !.status = e.status,
                                                      !.life = lives]]
    /\ socket' = [socket EXCEPT ![v] = Tail(@)]
    /\ UNCHANGED <<changes, batch, cacheVars, channel, feed, asks, losses, lives>>

\* The socket is lost, or the last component that shows the status goes away; the
\* number is kept for the next time.
Detach(v) ==
    /\ viewer[v].state = "open" /\ losses < MaxLosses
    /\ losses' = losses + 1
    /\ \E s \in {"waiting", "off"} : viewer' = [viewer EXCEPT ![v].state = s]
    /\ feed' = [feed EXCEPT ![v] = "none"]
    /\ socket' = [socket EXCEPT ![v] = << >>]
    /\ UNCHANGED <<changes, batch, cacheVars, channel, asks, lives>>

-----------------------------------------------------------------------------
\* The runtime keeps nothing of all this; numbers begin again at 1.
RestartLive ==
    /\ lives < MaxLives
    /\ lives' = lives + 1
    /\ batch' = FALSE /\ cached' = Nothing /\ inFlight' = Nothing
    /\ query' = [q \in Queries |-> NoQuery]
    /\ channel' = NewChannel
    /\ feed' = [v \in Viewers |-> "none"]
    /\ socket' = [v \in Viewers |-> << >>]
    /\ viewer' = [v \in Viewers |-> IF viewer[v].state = "off" THEN viewer[v]
                                    ELSE [viewer[v] EXCEPT !.state = "waiting"]]
    /\ UNCHANGED <<changes, asks, losses>>

-----------------------------------------------------------------------------
CacheStep   == CacheExpires \/ \E q \in Queries : ReadTree(q) \/ FinishQuery(q)
ChannelStep == ChannelAsks \/ Publish \/ PublishFails
ViewerStep(v) == Attach(v) \/ ReceiveStatus(v) \/ Detach(v)

LiveNext ==
    \/ ChangeFiles \/ FlushBatch \/ CacheStep \/ AskDirectly \/ ChannelStep \/ Poll
    \/ RestartLive
    \/ \E v \in Viewers : ViewerStep(v)

LiveSpec == LiveInit /\ [][LiveNext]_liveVars

\* Timers fire, git and the database answer, a lost socket is opened again and what
\* was sent arrives.  Nobody need change a file, ask, come or leave.
LiveFairness ==
    /\ WF_liveVars(FlushBatch) /\ WF_liveVars(Poll) /\ WF_liveVars(CacheExpires)
    /\ WF_liveVars(ChannelAsks) /\ WF_liveVars(Publish)
    /\ \A q \in Queries : WF_liveVars(ReadTree(q) \/ FinishQuery(q))
    /\ \A v \in Viewers : /\ WF_liveVars(viewer[v].state = "waiting" /\ Attach(v))
                          /\ WF_liveVars(ReceiveStatus(v))

FairLiveSpec == LiveSpec /\ LiveFairness

-----------------------------------------------------------------------------
Statuses == Nothing..MaxChanges

\* The variables keep to their types; the replay buffer holds the latest events, in
\* order, and no more than its limit (workspaceLiveUpdateService.ts:153).
LiveTypeOK ==
    /\ changes \in 0..MaxChanges /\ batch \in BOOLEAN /\ cached \in Statuses
    /\ \A q \in Queries : query[q].step \in {"idle", "running", "read"}
                          /\ query[q].status \in Statuses
    /\ channel.fetch \in {"off", "asked", "waiting", "got"}
    /\ channel.next \in Nat /\ channel.current.status \in Statuses
    /\ Len(channel.replay) <= BufferLimit
    /\ \A i \in 1..Len(channel.replay) :
          channel.replay[i].seq = channel.next - 1 - (Len(channel.replay) - i)
    /\ \A v \in Viewers : /\ feed[v] \in {"none", "listing", "live"}
                          /\ viewer[v].state \in {"off", "open", "waiting", "exhausted"}
                          /\ viewer[v].status \in Statuses

\* A subscription that is live has lost no number: what the client has seen and what
\* is on its socket lead up to the channel's latest event, unless the client's number
\* is from before a restart (workspaceLiveSocket.ts:140, workspaceLiveResource.ts:255).
NoEventLost ==
    \A v \in Viewers :
       feed[v] = "live" /\ viewer[v].life = lives
          => IF socket[v] = << >> THEN viewer[v].seq = channel.next - 1
             ELSE Last(socket[v]).seq = channel.next - 1

\* Once the files rest, every client with an open subscription shows their status in
\* the end, though refreshes are coalesced with fetches begun before the change and
\* the cache may be given an older status.  Excepted are clients that were told of an
\* error, and numbers from before a restart (workspaceLiveUpdateService.ts:168, 230).
StatusCatchesUp ==
    \A v \in Viewers :
       []<>(\/ viewer[v].state # "open"
            \/ viewer[v].status = changes
            \/ viewer[v].life # lives)
=============================================================================
