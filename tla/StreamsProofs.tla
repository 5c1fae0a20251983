---------------------------- MODULE StreamsProofs ----------------------------
(***************************************************************************)
(* Proofs about what clients show of the runtime's state: the live status  *)
(* of a worktree (LiveStatus) and the files of an editor (FileEditor),     *)
(* each on its own, and both beside the events of a thread                 *)
(* (EventStreamProofs) as the run streams checks them.                     *)
(***************************************************************************)
EXTENDS MCStreams, EventStreamProofs, SequenceTheorems

(***************************************************************************)
(* The live status of a worktree.  What NoEventLost needs: no number on a  *)
(* socket or shown is ahead of the channel's, a snapshot that was fetched  *)
(* is one of git's, and the current event is the latest.                   *)
(***************************************************************************)
Found      == 0..MaxChanges
StatusNews == [seq : Nat, status : Found]

Channels   == [fetch : {"off", "asked", "waiting", "got"}, from : Statuses \cup Queries,
               next : Nat \ {0}, current : StatusNews \cup {NoEvent}, replay : Seq(StatusNews)]
Clients    == [state : {"off", "open", "waiting", "exhausted"}, seq : Nat \cup {Nothing},
               status : Statuses, life : Nat]

\* The types, as sets.
LiveTypes ==
    /\ changes \in Found /\ batch \in BOOLEAN /\ cached \in Statuses
    /\ query \in [Queries -> [step : {"idle", "running", "read"}, status : Statuses]]
    /\ inFlight \in Queries \cup {Nothing}
    /\ channel \in Channels
    /\ feed \in [Viewers -> {"none", "listing", "live"}]
    /\ socket \in [Viewers -> Seq(StatusNews)]
    /\ viewer \in [Viewers -> Clients]
    /\ lives \in Nat

\* A computation that has read the tree, and a fetch that has its answer, have found
\* a status.
FetchInv ==
    /\ \A q \in Queries : query[q].step = "read" => query[q].status \in Found
    /\ channel.fetch = "got" => channel.from \in Found

\* Events with consecutive numbers, up to the last.
UpTo(s, last) == \A i \in 1..Len(s) : s[i].seq = last - (Len(s) - i)

\* The replay buffer ends with the latest event.
BufferInOrder   == Len(channel.replay) <= BufferLimit /\ UpTo(channel.replay, channel.next - 1)
CurrentIsLatest == channel.current # NoEvent => channel.current.seq = channel.next - 1

\* What viewer v has been sent and shows.
ViewerInv(v) ==
    /\ \A i \in 1..Len(socket[v]) : socket[v][i].seq <= channel.next - 1
    /\ viewer[v].life <= lives
    /\ viewer[v].life = lives => viewer[v].seq <= channel.next - 1
    /\ feed[v] = "live" =>
          /\ socket[v] # << >> => socket[v][Len(socket[v])].seq = channel.next - 1
          /\ socket[v] = << >> /\ viewer[v].life = lives => viewer[v].seq = channel.next - 1

LiveInv == /\ LiveTypes /\ FetchInv /\ BufferInOrder /\ CurrentIsLatest
           /\ \A v \in Viewers : ViewerInv(v)

\* What a status may be.
LEMMA FoundStatuses == Found \subseteq Statuses /\ Nothing \in Statuses /\ Nothing \notin Found
  BY LiveAssumption DEF Found, Statuses, Nothing

\* The invariant holds at first.
LEMMA LiveAtFirst == LiveInit => LiveInv
  <1> SUFFICES ASSUME LiveInit PROVE LiveInv
    OBVIOUS
  <1>1. channel \in Channels
    BY FoundStatuses DEF LiveInit, NewChannel, Channels
  <1>2. viewer \in [Viewers -> Clients]
    BY FoundStatuses DEF LiveInit, NewViewer, Clients
  <1>3. query \in [Queries -> [step : {"idle", "running", "read"}, status : Statuses]]
    BY FoundStatuses DEF LiveInit, NoQuery
  <1>4. LiveTypes
    <2>1. changes \in Found /\ lives \in Nat
      BY LiveAssumption DEF LiveInit, Found
    <2>2. batch \in BOOLEAN /\ cached \in Statuses /\ inFlight \in Queries \cup {Nothing}
      BY FoundStatuses DEF LiveInit
    <2>3. /\ feed \in [Viewers -> {"none", "listing", "live"}]
          /\ socket \in [Viewers -> Seq(StatusNews)]
      BY DEF LiveInit
    <2> QED BY <1>1, <1>2, <1>3, <2>1, <2>2, <2>3 DEF LiveTypes
  <1>5. FetchInv /\ BufferInOrder /\ CurrentIsLatest
    BY LiveAssumption
       DEF LiveInit, FetchInv, NoQuery, NewChannel, BufferInOrder, UpTo, CurrentIsLatest
  <1>6. \A v \in Viewers : ViewerInv(v)
    BY DEF LiveInit, ViewerInv, NewViewer, NewChannel, Nothing
  <1> QED BY <1>4, <1>5, <1>6 DEF LiveInv

\* A fetch that joins another changes nothing else of the channel.
LEMMA PublishedKeeps ==
  ASSUME LiveTypes
  PROVE  /\ Published(channel) \in Channels
         /\ Published(channel).next = channel.next /\ Published(channel).from = channel.from
         /\ Published(channel).current = channel.current
         /\ Published(channel).replay = channel.replay
         /\ Published(channel).fetch = "got" => channel.fetch = "got"
  BY DEF Published, LiveTypes, Channels

\* A step of git, of the cache or of the channel that publishes nothing.
LEMMA NothingPublished ==
  ASSUME LiveInv, LiveTypes', FetchInv', UNCHANGED <<feed, socket, viewer, lives>>,
         channel'.next = channel.next, channel'.current = channel.current,
         channel'.replay = channel.replay
  PROVE  LiveInv'
  <1>1. BufferInOrder' /\ CurrentIsLatest'
    BY DEF LiveInv, BufferInOrder, CurrentIsLatest
  <1>2. \A v \in Viewers : ViewerInv(v)'
    BY DEF LiveInv, ViewerInv
  <1> QED BY <1>1, <1>2 DEF LiveInv

\* The worktree changes, its batch is flushed, a poll is due.
LEMMA RefreshKeeps ==
  ASSUME LiveInv, ChangeFiles \/ FlushBatch \/ Poll
  PROVE  LiveInv'
  <1>1. /\ UNCHANGED <<query, feed, socket, viewer, lives>>
        /\ channel' = channel \/ channel' = Published(channel)
    BY DEF ChangeFiles, FlushBatch, Poll, cacheVars
  <1>2. /\ channel' \in Channels /\ channel'.next = channel.next
        /\ channel'.current = channel.current /\ channel'.replay = channel.replay
        /\ channel'.from = channel.from /\ (channel'.fetch = "got" => channel.fetch = "got")
    BY <1>1, PublishedKeeps DEF LiveInv, LiveTypes
  <1>3. FetchInv'
    BY <1>1, <1>2 DEF LiveInv, FetchInv
  <1>4. changes' \in Found /\ batch' \in BOOLEAN /\ cached' \in Statuses
        /\ inFlight' \in Queries \cup {Nothing}
    <2>1. changes \in Found /\ batch \in BOOLEAN /\ cached \in Statuses
          /\ inFlight \in Queries \cup {Nothing}
      BY DEF LiveInv, LiveTypes
    <2>2. CASE ChangeFiles
      <3>1. changes' \in Found
        BY <2>1, <2>2, LiveAssumption DEF ChangeFiles, Found
      <3> QED BY <2>1, <2>2, <3>1 DEF ChangeFiles, cacheVars
    <2>3. CASE FlushBatch
      BY <2>1, <2>3, FoundStatuses DEF FlushBatch
    <2>4. CASE Poll
      BY <2>1, <2>4 DEF Poll, cacheVars
    <2> QED BY <2>2, <2>3, <2>4
  <1>5. LiveTypes'
    BY <1>1, <1>2, <1>4 DEF LiveInv, LiveTypes
  <1> QED BY <1>1, <1>2, <1>3, <1>5, NothingPublished

\* The channel asks for the status, or a client does.
LEMMA AskKeeps ==
  ASSUME LiveInv, ChannelAsks \/ AskDirectly
  PROVE  LiveInv'
  <1>1. UNCHANGED <<changes, batch, cached, feed, socket, viewer, lives>>
    BY DEF ChannelAsks, AskDirectly
  <1>2. \/ UNCHANGED <<query, inFlight>>
        \/ \E q \in Queries : Begins(q)
    BY DEF ChannelAsks, AskDirectly
  <1>3. /\ query' \in [Queries -> [step : {"idle", "running", "read"}, status : Statuses]]
        /\ inFlight' \in Queries \cup {Nothing}
        /\ \A q \in Queries : query'[q].step = "read" => query'[q] = query[q]
    <2>1. CASE UNCHANGED <<query, inFlight>>
      BY <2>1 DEF LiveInv, LiveTypes
    <2>2. ASSUME NEW q \in Queries, Begins(q)
          PROVE  /\ query' \in [Queries -> [step : {"idle", "running", "read"}, status : Statuses]]
                 /\ inFlight' \in Queries \cup {Nothing}
                 /\ \A p \in Queries : query'[p].step = "read" => query'[p] = query[p]
      <3>1. [query[q] EXCEPT !.step = "running"]
              \in [step : {"idle", "running", "read"}, status : Statuses]
        BY DEF LiveInv, LiveTypes
      <3>2. query' = [query EXCEPT ![q] = [query[q] EXCEPT !.step = "running"]]
        BY <2>2 DEF Begins
      <3>3. [query[q] EXCEPT !.step = "running"].step = "running"
        BY DEF LiveInv, LiveTypes
      <3> QED BY <2>2, <3>1, <3>2, <3>3 DEF Begins, LiveInv, LiveTypes
    <2> QED BY <1>2, <2>1, <2>2
  <1>4. /\ channel' \in Channels /\ channel'.next = channel.next
        /\ channel'.current = channel.current /\ channel'.replay = channel.replay
        /\ channel'.fetch = "got" => channel'.from \in Found
    <2>1. CASE AskDirectly
      BY <2>1 DEF AskDirectly, LiveInv, LiveTypes, FetchInv
    <2>2. CASE ChannelAsks
      <3>1. \/ /\ cached # Nothing
               /\ channel' = [channel EXCEPT !.fetch = "got", !.from = cached]
            \/ \E q \in Queries : channel' = [channel EXCEPT !.fetch = "waiting", !.from = q]
        BY <2>2 DEF ChannelAsks, LiveInv, LiveTypes
      <3>2. cached # Nothing => cached \in Found
        BY DEF LiveInv, LiveTypes, Statuses, Found, Nothing
      <3> QED BY <3>1, <3>2 DEF LiveInv, LiveTypes, Channels
    <2> QED BY <2>1, <2>2
  <1>5. FetchInv'
    BY <1>3, <1>4 DEF LiveInv, FetchInv
  <1>6. LiveTypes'
    BY <1>1, <1>3, <1>4 DEF LiveInv, LiveTypes
  <1> QED BY <1>1, <1>4, <1>5, <1>6, NothingPublished

\* A computation goes on, or the cache expires.
LEMMA CacheKeeps ==
  ASSUME LiveInv, CacheStep
  PROVE  LiveInv'
  <1> DEFINE Computations == [step : {"idle", "running", "read"}, status : Statuses]
  <1>1. UNCHANGED <<changes, batch, feed, socket, viewer, lives>>
    BY DEF CacheStep, CacheExpires, ReadTree, FinishQuery
  <1>2. CASE CacheExpires
    <2>1. UNCHANGED <<query, inFlight, channel>> /\ cached' = Nothing
      BY <1>2 DEF CacheExpires
    <2>2. LiveTypes' /\ FetchInv'
      BY <1>1, <2>1, FoundStatuses DEF LiveInv, LiveTypes, FetchInv
    <2> QED BY <1>1, <2>1, <2>2, NothingPublished
  <1>3. ASSUME NEW q \in Queries, ReadTree(q) PROVE LiveInv'
    <2>1. /\ UNCHANGED <<cached, inFlight, channel>>
          /\ query' = [query EXCEPT ![q] = [step |-> "read", status |-> changes]]
      BY <1>3 DEF ReadTree
    <2>2. changes \in Found /\ [step |-> "read", status |-> changes] \in Computations
      BY FoundStatuses DEF LiveInv, LiveTypes
    <2>3. query' \in [Queries -> Computations]
      BY <2>1, <2>2 DEF LiveInv, LiveTypes
    <2>4. LiveTypes'
      BY <1>1, <2>1, <2>3 DEF LiveInv, LiveTypes
    <2>5. FetchInv'
      BY <2>1, <2>2 DEF LiveInv, LiveTypes, FetchInv
    <2> QED BY <1>1, <2>1, <2>4, <2>5, NothingPublished
  <1>4. ASSUME NEW q \in Queries, FinishQuery(q) PROVE LiveInv'
    <2>1. query[q].status \in Found
      BY <1>4 DEF FinishQuery, LiveInv, FetchInv
    <2>2. /\ cached' = query[q].status /\ inFlight' = Nothing
          /\ query' = [query EXCEPT ![q] = NoQuery]
          /\ \/ channel' = channel
             \/ channel' = [channel EXCEPT !.fetch = "got", !.from = query[q].status]
      BY <1>4 DEF FinishQuery
    <2>3. /\ channel' \in Channels /\ channel'.next = channel.next
          /\ channel'.current = channel.current /\ channel'.replay = channel.replay
          /\ channel'.fetch = "got" => channel'.from \in Found
      <3>1. channel \in Channels /\ (channel.fetch = "got" => channel.from \in Found)
        BY DEF LiveInv, LiveTypes, FetchInv
      <3>2. CASE channel' = channel
        BY <3>1, <3>2
      <3>3. CASE channel' = [channel EXCEPT !.fetch = "got", !.from = query[q].status]
        <4>1. query[q].status \in Statuses
          BY <2>1, FoundStatuses
        <4> QED BY <2>1, <3>1, <3>3, <4>1 DEF Channels
      <3> QED BY <2>2, <3>2, <3>3
    <2>4. NoQuery \in Computations /\ NoQuery.step # "read"
      BY FoundStatuses DEF NoQuery
    <2>5. query' \in [Queries -> Computations]
      BY <2>2, <2>4 DEF LiveInv, LiveTypes
    <2>6. LiveTypes'
      BY <1>1, <2>1, <2>2, <2>3, <2>5, FoundStatuses DEF LiveInv, LiveTypes
    <2>7. FetchInv'
      BY <2>2, <2>3, <2>4 DEF LiveInv, LiveTypes, FetchInv
    <2> QED BY <1>1, <2>3, <2>6, <2>7, NothingPublished
  <1> QED BY <1>2, <1>3, <1>4 DEF CacheStep


-----------------------------------------------------------------------------
\* What the next event, or the current one, is for those that listen.
LEMMA NowIsLatest ==
  ASSUME LiveInv, channel.fetch = "got",
         NEW same, same = (channel.current.status = channel.from),
         NEW new, new = [seq |-> channel.next, status |-> channel.from],
         NEW now, now = IF same THEN channel.current ELSE new,
         NEW next, next = IF same THEN channel.next ELSE channel.next + 1
  PROVE  /\ new \in StatusNews /\ new.seq = channel.next
         /\ now \in StatusNews /\ now.seq = next - 1
         /\ next \in Nat \ {0} /\ channel.next <= next
         /\ same => next = channel.next
         /\ ~same => next = channel.next + 1
  <1>1. channel \in Channels /\ channel.from \in Found
    BY DEF LiveInv, LiveTypes, FetchInv
  <1>2. channel.next \in Nat \ {0} /\ channel.current \in StatusNews \cup {NoEvent}
    BY <1>1 DEF Channels
  <1>3. new \in StatusNews /\ new.seq = channel.next
    BY <1>1, <1>2 DEF StatusNews
  <1>4. CASE same
    <2> channel.current.status = channel.from
      BY <1>4, Zenon
    <2>1. channel.current # NoEvent
      BY <1>1, FoundStatuses DEF NoEvent
    <2>2. channel.current.seq = channel.next - 1
      BY <2>1 DEF LiveInv, CurrentIsLatest
    <2> QED BY <1>2, <1>3, <1>4, <2>1, <2>2
  <1>5. CASE ~same
    BY <1>2, <1>3, <1>5
  <1> QED BY <1>4, <1>5

\* The buffer takes the new event, and gives up the oldest beyond its limit.
LEMMA BufferKeeps ==
  ASSUME NEW n \in Nat \ {0}, NEW s \in Seq(StatusNews), NEW e \in StatusNews, e.seq = n,
         Len(s) <= BufferLimit, UpTo(s, n - 1)
  PROVE  LET kept == Append(s, e)
             more == IF Len(kept) > BufferLimit THEN Tail(kept) ELSE kept
         IN  more \in Seq(StatusNews) /\ Len(more) <= BufferLimit /\ UpTo(more, n)
  <1> DEFINE kept == Append(s, e)
             more == IF Len(kept) > BufferLimit THEN Tail(kept) ELSE kept
  <1>1. /\ kept \in Seq(StatusNews) /\ Len(kept) = Len(s) + 1 /\ Len(s) \in Nat
        /\ kept # << >>
        /\ \A i \in 1..Len(s) : kept[i] = s[i]
        /\ kept[Len(s) + 1] = e
    BY AppendProperties
  <1> HIDE DEF kept
  <1>2. UpTo(kept, n)
    <2> SUFFICES ASSUME NEW i \in 1..Len(kept) PROVE kept[i].seq = n - (Len(kept) - i)
      BY DEF UpTo
    <2>1. CASE i \in 1..Len(s)
      BY <1>1, <2>1 DEF UpTo
    <2>2. CASE i = Len(s) + 1
      BY <1>1, <2>2
    <2> QED BY <1>1, <2>1, <2>2
  <1>3. CASE Len(kept) > BufferLimit
    <2>1. /\ more = Tail(kept) /\ more \in Seq(StatusNews) /\ Len(more) = Len(s)
          /\ \A i \in 1..Len(more) : more[i] = kept[i + 1]
      BY <1>1, <1>3, HeadTailProperties
    <2> HIDE DEF more
    <2>2. UpTo(more, n)
      <3> SUFFICES ASSUME NEW i \in 1..Len(more) PROVE more[i].seq = n - (Len(more) - i)
        BY DEF UpTo
      <3>1. i + 1 \in 1..Len(kept) /\ Len(kept) - (i + 1) = Len(more) - i
        BY <1>1, <2>1
      <3> QED BY <1>2, <2>1, <3>1 DEF UpTo
    <2>3. more \in Seq(StatusNews) /\ Len(more) <= BufferLimit /\ UpTo(more, n)
      BY <2>1, <2>2
    <2> QED BY <2>3 DEF more, kept
  <1>4. CASE ~(Len(kept) > BufferLimit)
    <2>1. more = kept /\ Len(kept) <= BufferLimit
      BY <1>1, <1>4, LiveAssumption
    <2> HIDE DEF more
    <2>2. more \in Seq(StatusNews) /\ Len(more) <= BufferLimit /\ UpTo(more, n)
      BY <1>1, <1>2, <2>1
    <2> QED BY <2>2 DEF more, kept
  <1> QED BY <1>3, <1>4

\* A snapshot is published.
LEMMA PublishKeeps ==
  ASSUME LiveInv, Publish
  PROVE  LiveInv'
  <1> DEFINE same == channel.current.status = channel.from
             new  == [seq |-> channel.next, status |-> channel.from]
             now  == IF same THEN channel.current ELSE new
             next == IF same THEN channel.next ELSE channel.next + 1
             kept == Append(channel.replay, new)
             more == IF Len(kept) > BufferLimit THEN Tail(kept) ELSE kept
  <1>1. /\ channel.fetch = "got"
        /\ channel' = [fetch |-> "off", from |-> Nothing, current |-> now, next |-> next,
                       replay |-> IF same THEN channel.replay ELSE more]
        /\ socket' = [v \in Viewers |->
                        IF feed[v] = "listing" \/ (feed[v] = "live" /\ ~same)
                        THEN Append(socket[v], now) ELSE socket[v]]
        /\ feed' = [v \in Viewers |-> IF Listening(v) THEN "live" ELSE "none"]
        /\ UNCHANGED <<changes, batch, cached, query, inFlight, viewer, lives>>
    BY DEF Publish, cacheVars
  <1>2. /\ new \in StatusNews /\ new.seq = channel.next
        /\ now \in StatusNews /\ now.seq = next - 1
        /\ next \in Nat \ {0} /\ channel.next <= next
        /\ same => next = channel.next
        /\ ~same => next = channel.next + 1
    BY ZenonT(60), <1>1, NowIsLatest
  <1>3. channel \in Channels /\ channel.replay \in Seq(StatusNews) /\ channel.next \in Nat \ {0}
    BY DEF LiveInv, LiveTypes, Channels
  <1>4. more \in Seq(StatusNews) /\ Len(more) <= BufferLimit /\ UpTo(more, channel.next)
    <2>1. Len(channel.replay) <= BufferLimit /\ UpTo(channel.replay, channel.next - 1)
      BY DEF LiveInv, BufferInOrder
    <2>2. new \in StatusNews /\ new.seq = channel.next
      BY <1>2
    <2> HIDE DEF new
    <2> QED BY <1>3, <2>1, <2>2, BufferKeeps
  <1> HIDE DEF now, next, more, same, new
  <1>5. /\ channel'.fetch = "off" /\ channel'.from = Nothing /\ channel'.current = now
        /\ channel'.next = next /\ channel'.replay = IF same THEN channel.replay ELSE more
    BY <1>1
  <1>6. BufferInOrder'
    <2>1. CASE same
      BY <1>2, <1>5, <2>1 DEF LiveInv, BufferInOrder
    <2>2. CASE ~same
      <3>1. Len(more) \in Nat /\ next - 1 = channel.next
        BY <1>2, <1>3, <1>4, <2>2
      <3> QED BY <1>4, <1>5, <2>2, <3>1 DEF BufferInOrder
    <2> QED BY <2>1, <2>2
  <1>7. channel' \in Channels
    <2>1. (IF same THEN channel.replay ELSE more) \in Seq(StatusNews)
      BY <1>3, <1>4
    <2> QED BY <1>1, <1>2, <2>1, FoundStatuses DEF Channels
  <1>8. socket' \in [Viewers -> Seq(StatusNews)]
    <2>1. \A v \in Viewers : socket[v] \in Seq(StatusNews)
      BY DEF LiveInv, LiveTypes
    <2>2. \A v \in Viewers : Append(socket[v], now) \in Seq(StatusNews)
      BY <1>2, <2>1
    <2> QED BY <1>1, <2>1, <2>2
  <1>9. LiveTypes'
    BY <1>1, <1>7, <1>8 DEF LiveInv, LiveTypes
  <1>10. ASSUME NEW v \in Viewers PROVE ViewerInv(v)'
    <2>1. /\ socket[v] \in Seq(StatusNews) /\ socket'[v] \in Seq(StatusNews)
          /\ viewer'[v] = viewer[v] /\ lives' = lives
          /\ feed[v] \in {"none", "listing", "live"}
      BY <1>1, <1>8 DEF LiveInv, LiveTypes
    <2>2. ViewerInv(v)
      BY DEF LiveInv
    <2>3. viewer[v].seq \in Nat \cup {Nothing} /\ lives \in Nat
      BY DEF LiveInv, LiveTypes, Clients
    <2>4. /\ viewer[v].life <= lives
          /\ viewer[v].life = lives => viewer[v].seq <= next - 1
      BY <1>2, <1>3, <2>2, <2>3 DEF ViewerInv, Nothing
    <2>5. \A i \in 1..Len(socket[v]) : socket[v][i].seq <= next - 1
      <3>1. \A i \in 1..Len(socket[v]) : socket[v][i].seq \in Nat
        <4>1. \A i \in 1..Len(socket[v]) : socket[v][i] \in StatusNews
          BY <2>1
        <4> QED BY <4>1 DEF StatusNews
      <3> QED BY <1>2, <1>3, <2>2, <3>1 DEF ViewerInv
    <2>6. CASE socket'[v] = Append(socket[v], now)
      <3>1. /\ socket'[v] # << >> /\ Len(socket'[v]) = Len(socket[v]) + 1
            /\ Len(socket[v]) \in Nat
            /\ socket'[v][Len(socket'[v])] = now
            /\ \A i \in 1..Len(socket[v]) : socket'[v][i] = socket[v][i]
        BY <1>2, <2>1, <2>6
      <3>2. \A i \in 1..Len(socket'[v]) : socket'[v][i].seq <= next - 1
        <4>1. \A i \in 1..Len(socket'[v]) : i \in 1..Len(socket[v]) \/ i = Len(socket'[v])
          BY <3>1
        <4>2. now.seq <= next - 1
          BY <1>2
        <4> QED BY <2>5, <3>1, <4>1, <4>2
      <3> QED BY <1>2, <1>5, <2>1, <2>4, <3>1, <3>2 DEF ViewerInv
    <2>7. CASE socket'[v] = socket[v] /\ ~(feed[v] = "listing" \/ (feed[v] = "live" /\ ~same))
      <3>1. feed'[v] = "live" => feed[v] = "live" /\ same
        BY <1>1, <2>1, <2>7 DEF Listening
      <3> QED BY <1>2, <1>5, <2>1, <2>2, <2>4, <2>5, <2>7, <3>1 DEF ViewerInv
    <2> QED BY <1>1, <2>6, <2>7
  <1>11. FetchInv' /\ CurrentIsLatest'
    BY <1>1, <1>2, <1>5 DEF LiveInv, FetchInv, CurrentIsLatest
  <1> QED BY <1>6, <1>9, <1>10, <1>11 DEF LiveInv

\* A refresh fails: those that wait for a first snapshot are ended.
LEMMA FailureKeeps ==
  ASSUME LiveInv, PublishFails
  PROVE  LiveInv'
  <1>1. /\ channel' = [channel EXCEPT !.fetch = "off", !.from = Nothing]
        /\ feed' = [v \in Viewers |-> IF feed[v] = "listing" THEN "none" ELSE feed[v]]
        /\ viewer' = [v \in Viewers |-> IF feed[v] = "listing"
                        THEN [viewer[v] EXCEPT !.state = "exhausted"] ELSE viewer[v]]
        /\ UNCHANGED <<changes, batch, cached, query, inFlight, socket, lives>>
    BY DEF PublishFails, cacheVars
  <1>2. channel \in Channels /\ \A v \in Viewers : viewer[v] \in Clients
    BY DEF LiveInv, LiveTypes
  <1>3. /\ channel' \in Channels /\ channel'.fetch = "off" /\ channel'.next = channel.next
        /\ channel'.current = channel.current /\ channel'.replay = channel.replay
    BY <1>1, <1>2, FoundStatuses DEF Channels
  <1>4. /\ viewer' \in [Viewers -> Clients]
        /\ \A v \in Viewers : viewer'[v].seq = viewer[v].seq /\ viewer'[v].life = viewer[v].life
    BY <1>1, <1>2 DEF Clients
  <1>5. LiveTypes'
    BY <1>1, <1>3, <1>4 DEF LiveInv, LiveTypes
  <1>6. FetchInv' /\ BufferInOrder' /\ CurrentIsLatest'
    BY <1>1, <1>3 DEF LiveInv, FetchInv, BufferInOrder, CurrentIsLatest
  <1>7. \A v \in Viewers : ViewerInv(v)'
    <2> SUFFICES ASSUME NEW v \in Viewers PROVE ViewerInv(v)'
      OBVIOUS
    <2>1. feed'[v] = "live" => feed[v] = "live"
      BY <1>1
    <2> QED BY <1>1, <1>3, <1>4, <2>1 DEF LiveInv, ViewerInv
  <1> QED BY <1>5, <1>6, <1>7 DEF LiveInv


-----------------------------------------------------------------------------
\* The numbers a client has seen are some of the buffer's.
LEMMA SeenAreSome ==
  ASSUME NEW s \in Seq(StatusNews), NEW n
  PROVE  Cardinality({i \in DOMAIN s : s[i].seq <= n}) \in 0..Len(s)
  <1> DEFINE seen == {i \in DOMAIN s : s[i].seq <= n}
  <1>1. seen \subseteq 1..Len(s) /\ Len(s) \in Nat
    OBVIOUS
  <1> HIDE DEF seen
  <1>2. IsFiniteSet(1..Len(s))
        /\ Cardinality(1..Len(s)) = IF 1 > Len(s) THEN 0 ELSE Len(s) - 1 + 1
    BY <1>1, FS_Interval
  <1>3. Cardinality(seen) <= Cardinality(1..Len(s)) /\ IsFiniteSet(seen)
    BY <1>1, <1>2, FS_Subset
  <1>4. Cardinality(seen) \in Nat
    BY <1>3, FS_CardinalityType
  <1>5. Cardinality(seen) \in 0..Len(s)
    BY <1>1, <1>2, <1>3, <1>4
  <1> QED BY <1>5 DEF seen

\* The end of a sequence, from element k + 1.
LEMMA EndOfSequence ==
  ASSUME NEW A, NEW s \in Seq(A), NEW k \in 0..Len(s)
  PROVE  /\ SubSeq(s, k + 1, Len(s)) \in Seq(A)
         /\ Len(SubSeq(s, k + 1, Len(s))) = Len(s) - k
         /\ \A i \in 1..Len(s) - k : SubSeq(s, k + 1, Len(s))[i] = s[k + i]
  <1>1. Len(s) \in Nat /\ k \in Int /\ k + 1 \in Int /\ k <= Len(s)
    OBVIOUS
  <1>2. \A i \in (k + 1)..Len(s) : s[i] \in A
    BY <1>1
  <1>3. /\ SubSeq(s, k + 1, Len(s)) \in Seq(A)
        /\ Len(SubSeq(s, k + 1, Len(s))) = IF k + 1 <= Len(s) THEN Len(s) - (k + 1) + 1 ELSE 0
        /\ \A i \in 1..Len(s) - (k + 1) + 1 : SubSeq(s, k + 1, Len(s))[i] = s[k + 1 + i - 1]
    BY <1>1, <1>2, SubSeqProperties
  <1> DEFINE t == SubSeq(s, k + 1, Len(s))
  <1> HIDE DEF t
  <1>4. /\ t \in Seq(A) /\ Len(t) = Len(s) - k
        /\ \A i \in 1..Len(s) - k : t[i] = s[k + i]
    <2>1. Len(s) - (k + 1) + 1 = Len(s) - k /\ \A i \in Int : k + 1 + i - 1 = k + i
      BY <1>1
    <2>2. /\ t \in Seq(A)
          /\ Len(t) = IF k + 1 <= Len(s) THEN Len(s) - (k + 1) + 1 ELSE 0
          /\ \A i \in 1..Len(s) - (k + 1) + 1 : t[i] = s[k + 1 + i - 1]
      BY <1>3 DEF t
    <2>3. Len(t) = Len(s) - k
      BY <1>1, <2>2
    <2>4. \A i \in 1..Len(s) - k : t[i] = s[k + i]
      <3> SUFFICES ASSUME NEW i \in 1..Len(s) - k PROVE t[i] = s[k + i]
        OBVIOUS
      <3>1. i \in 1..Len(s) - (k + 1) + 1 /\ i \in Int
        BY <1>1, <2>1
      <3>2. t[i] = s[k + 1 + i - 1]
        BY <2>2, <3>1
      <3> QED BY <2>1, <3>1, <3>2
    <2> QED BY <2>2, <2>3, <2>4
  <1> QED BY <1>4 DEF t

\* The end of a buffer in order ends with the latest event.
LEMMA EndOfBuffer ==
  ASSUME NEW s \in Seq(StatusNews), NEW last \in Int, UpTo(s, last), NEW k \in 0..Len(s)
  PROVE  LET t == SubSeq(s, k + 1, Len(s))
         IN  /\ t \in Seq(StatusNews) /\ \A i \in 1..Len(t) : t[i].seq <= last
             /\ t # << >> => t[Len(t)].seq = last
  <1> DEFINE t == SubSeq(s, k + 1, Len(s))
  <1>1. /\ t \in Seq(StatusNews) /\ Len(t) = Len(s) - k
        /\ \A i \in 1..Len(s) - k : t[i] = s[k + i]
    BY EndOfSequence
  <1> HIDE DEF t
  <1>2. Len(s) \in Nat /\ Len(t) \in Nat /\ (t # << >> => Len(t) >= 1)
    BY <1>1, EmptySeq
  <1>3. UpTo(t, last)
    <2> SUFFICES ASSUME NEW i \in 1..Len(t) PROVE t[i].seq = last - (Len(t) - i)
      BY DEF UpTo
    <2>1. k + i \in 1..Len(s) /\ i \in 1..Len(s) - k /\ Len(s) - (k + i) = Len(t) - i
      BY <1>1, <1>2
    <2> QED BY <1>1, <2>1 DEF UpTo
  <1>4. \A i \in 1..Len(t) : t[i].seq <= last
    BY <1>2, <1>3 DEF UpTo
  <1>5. t # << >> => t[Len(t)].seq = last - (Len(t) - Len(t))
    BY <1>2, <1>3 DEF UpTo
  <1>6. /\ t \in Seq(StatusNews) /\ \A i \in 1..Len(t) : t[i].seq <= last
        /\ t # << >> => t[Len(t)].seq = last
    BY <1>1, <1>2, <1>4, <1>5
  <1> QED BY <1>6 DEF t

\* A client subscribes.
LEMMA AttachKeeps ==
  ASSUME LiveInv, NEW v \in Viewers, Attach(v)
  PROVE  LiveInv'
  <1> DEFINE seen   == {i \in DOMAIN channel.replay : channel.replay[i].seq <= viewer[v].seq}
             missed == IF viewer[v].seq = Nothing THEN << >>
                       ELSE SubSeq(channel.replay, Cardinality(seen) + 1, Len(channel.replay))
  <1>1. /\ viewer' = [viewer EXCEPT ![v].state = "open"]
        /\ socket' = [socket EXCEPT ![v] = missed]
        /\ \/ /\ missed # << >> /\ feed' = [feed EXCEPT ![v] = "live"] /\ channel' = channel
           \/ /\ missed = << >> /\ feed' = [feed EXCEPT ![v] = "listing"]
              /\ channel' = Published(channel)
        /\ UNCHANGED <<changes, batch, cached, query, inFlight, lives>>
    BY DEF Attach, cacheVars
  <1>2. /\ viewer \in [Viewers -> Clients] /\ viewer[v] \in Clients
        /\ viewer[v].seq \in Nat \cup {Nothing}
        /\ socket \in [Viewers -> Seq(StatusNews)]
        /\ feed \in [Viewers -> {"none", "listing", "live"}]
    BY DEF LiveInv, LiveTypes, Clients
  <1>3. /\ missed \in Seq(StatusNews)
        /\ \A i \in 1..Len(missed) : missed[i].seq <= channel.next - 1
        /\ missed # << >> => missed[Len(missed)].seq = channel.next - 1
    <2>1. CASE viewer[v].seq = Nothing
      BY <2>1
    <2>2. CASE viewer[v].seq # Nothing
      <3>2. missed = SubSeq(channel.replay, Cardinality(seen) + 1, Len(channel.replay))
        BY <2>2
      <3>3. channel.replay \in Seq(StatusNews)
        BY DEF LiveInv, LiveTypes, Channels
      <3>4. Cardinality(seen) \in 0..Len(channel.replay)
        BY <3>3, SeenAreSome
      <3>5. UpTo(channel.replay, channel.next - 1) /\ channel.next - 1 \in Int
        BY DEF LiveInv, LiveTypes, Channels, BufferInOrder
      <3> HIDE DEF missed, seen
      <3> QED BY <3>2, <3>3, <3>4, <3>5, EndOfBuffer
    <2> QED BY <2>1, <2>2
  <1> HIDE DEF missed, seen
  <1>4. /\ channel' \in Channels /\ channel'.next = channel.next
        /\ channel'.current = channel.current /\ channel'.replay = channel.replay
        /\ channel'.fetch = "got" => channel.fetch = "got" /\ channel'.from = channel.from
    BY <1>1, PublishedKeeps DEF LiveInv, LiveTypes
  <1>5. /\ viewer' \in [Viewers -> Clients]
        /\ \A w \in Viewers : viewer'[w].seq = viewer[w].seq /\ viewer'[w].life = viewer[w].life
    <2>1. [viewer[v] EXCEPT !.state = "open"] \in Clients
      BY <1>2 DEF Clients
    <2>2. viewer' = [viewer EXCEPT ![v] = [viewer[v] EXCEPT !.state = "open"]]
      BY <1>1
    <2>3. /\ [viewer[v] EXCEPT !.state = "open"].seq = viewer[v].seq
          /\ [viewer[v] EXCEPT !.state = "open"].life = viewer[v].life
      BY <1>2 DEF Clients
    <2> QED BY <1>2, <2>1, <2>2, <2>3
  <1>6. LiveTypes'
    BY <1>1, <1>2, <1>3, <1>4, <1>5 DEF LiveInv, LiveTypes
  <1>7. FetchInv' /\ BufferInOrder' /\ CurrentIsLatest'
    BY <1>1, <1>4 DEF LiveInv, FetchInv, BufferInOrder, CurrentIsLatest
  <1>8. \A w \in Viewers : ViewerInv(w)'
    <2> SUFFICES ASSUME NEW w \in Viewers PROVE ViewerInv(w)'
      OBVIOUS
    <2>1. ViewerInv(w)
      BY DEF LiveInv
    <2>2. CASE w # v
      <3>1. feed'[w] = feed[w] /\ socket'[w] = socket[w]
        BY <1>1, <1>2, <2>2
      <3> QED BY <1>1, <1>4, <1>5, <2>1, <3>1 DEF ViewerInv
    <2>3. CASE w = v
      <3>1. socket'[w] = missed /\ (feed'[w] = "live" => missed # << >>)
        BY <1>1, <1>2, <2>3
      <3> QED BY <1>1, <1>3, <1>4, <1>5, <2>1, <3>1 DEF ViewerInv
    <2> QED BY <2>2, <2>3
  <1> QED BY <1>6, <1>7, <1>8 DEF LiveInv

\* An event arrives.
LEMMA ReceiptKeeps ==
  ASSUME LiveInv, NEW v \in Viewers, ReceiveStatus(v)
  PROVE  LiveInv'
  <1> DEFINE e == Head(socket[v])
             shown == [viewer[v] EXCEPT !.seq = e.seq, !.status = e.status, !.life = lives]
  <1>1. /\ socket[v] # << >>
        /\ socket' = [socket EXCEPT ![v] = Tail(socket[v])]
        /\ \/ e.seq <= viewer[v].seq /\ viewer' = viewer
           \/ ~(e.seq <= viewer[v].seq) /\ viewer' = [viewer EXCEPT ![v] = shown]
        /\ UNCHANGED <<changes, batch, cached, query, inFlight, channel, feed, lives>>
    BY DEF ReceiveStatus, cacheVars
  <1>2. /\ viewer \in [Viewers -> Clients] /\ viewer[v] \in Clients
        /\ socket \in [Viewers -> Seq(StatusNews)] /\ socket[v] \in Seq(StatusNews)
        /\ channel.next \in Nat /\ lives \in Nat
    BY DEF LiveInv, LiveTypes, Channels
  <1>3. e \in StatusNews /\ e.seq \in Nat /\ e.status \in Statuses /\ e = socket[v][1]
    <2>1. e \in StatusNews /\ e = socket[v][1]
      BY <1>1, <1>2
    <2> QED BY <2>1, FoundStatuses DEF StatusNews
  <1> HIDE DEF e
  <1>4. /\ shown \in Clients /\ shown.seq = e.seq /\ shown.life = lives
    BY <1>2, <1>3 DEF Clients
  <1> HIDE DEF shown
  <1>5. viewer' \in [Viewers -> Clients] /\ Tail(socket[v]) \in Seq(StatusNews)
    <2>1. viewer' = viewer \/ viewer' = [viewer EXCEPT ![v] = shown]
      BY <1>1
    <2> QED BY <1>1, <1>2, <1>4, <2>1, HeadTailProperties
  <1>6. LiveTypes'
    BY <1>1, <1>2, <1>5 DEF LiveInv, LiveTypes
  <1>7. FetchInv' /\ BufferInOrder' /\ CurrentIsLatest'
    BY <1>1 DEF LiveInv, FetchInv, BufferInOrder, CurrentIsLatest
  <1>8. \A w \in Viewers : ViewerInv(w)'
    <2> SUFFICES ASSUME NEW w \in Viewers PROVE ViewerInv(w)'
      OBVIOUS
    <2>1. ViewerInv(w) /\ ViewerInv(v)
      BY DEF LiveInv
    <2>2. CASE w # v
      <3>1. viewer'[w] = viewer[w] /\ socket'[w] = socket[w]
        BY <1>1, <1>2, <2>2
      <3> QED BY <1>1, <2>1, <3>1 DEF ViewerInv
    <2>3. CASE w = v
      <3> DEFINE s == socket[v]
                 t == Tail(s)
      <3>1. /\ Len(s) \in Nat /\ Len(s) >= 1 /\ Len(t) = Len(s) - 1
            /\ \A i \in 1..Len(t) : t[i] = s[i + 1] /\ i + 1 \in 1..Len(s)
            /\ t = << >> => Len(s) = 1
            /\ t # << >> => Len(t) >= 1
        <4>1. /\ Len(t) = Len(s) - 1 /\ t \in Seq(StatusNews)
              /\ \A i \in 1..Len(t) : t[i] = s[i + 1]
          BY <1>1, <1>2, HeadTailProperties
        <4>2. s \in Seq(StatusNews) /\ s # << >>
          BY <1>1, <1>2
        <4> HIDE DEF s
        <4>3. Len(s) \in Nat \ {0} /\ Len(t) \in Nat
          BY <4>1, <4>2, EmptySeq
        <4>4. t # << >> => Len(t) \in Nat \ {0}
          BY <4>1, EmptySeq
        <4>5. t = << >> => Len(t) = 0
          <5> HIDE DEF t
          <5> QED OBVIOUS
        <4> HIDE DEF t
        <4>6. \A i \in 1..Len(t) : i + 1 \in 1..Len(s)
          BY <4>1, <4>3
        <4>7. (t = << >> => Len(s) = 1) /\ (t # << >> => Len(t) >= 1)
          BY <4>1, <4>3, <4>4, <4>5
        <4> QED BY <4>1, <4>3, <4>6, <4>7
      <3>2. /\ \A i \in 1..Len(s) : s[i].seq <= channel.next - 1
            /\ feed[v] = "live" => s[Len(s)].seq = channel.next - 1
        BY <1>1, <2>1 DEF ViewerInv
      <3> HIDE DEF s
      <3>3. /\ \A i \in 1..Len(t) : t[i].seq <= channel.next - 1
            /\ feed[v] = "live" /\ t # << >> => t[Len(t)].seq = channel.next - 1
            /\ feed[v] = "live" /\ t = << >> => e.seq = channel.next - 1
            /\ e.seq <= channel.next - 1
        <4>1. e = s[1]
          BY <1>3 DEF s
        <4> QED BY <3>1, <3>2, <4>1
      <3>4. socket'[w] = t
        BY <1>1, <1>2, <2>3 DEF s
      <3> HIDE DEF t
      <3>5. viewer[v].life <= lives /\ viewer[v].seq \in Nat \cup {Nothing}
            /\ (viewer[v].life = lives => viewer[v].seq <= channel.next - 1)
        BY <1>2, <2>1 DEF ViewerInv, Clients
      <3>6. CASE e.seq <= viewer[v].seq /\ viewer' = viewer
        <4>1. viewer'[w] = viewer[v] /\ feed'[w] = feed[v] /\ channel' = channel
              /\ lives' = lives
          BY <1>1, <2>3, <3>6
        <4>2. feed[v] = "live" /\ t = << >> /\ viewer[v].life = lives
                => viewer[v].seq = channel.next - 1
          BY <1>2, <1>3, <3>3, <3>5, <3>6 DEF Nothing
        <4> QED BY <3>3, <3>4, <3>5, <4>1, <4>2 DEF ViewerInv
      <3>7. CASE viewer'[v] = shown
        <4>1. /\ viewer'[w].seq = e.seq /\ viewer'[w].life = lives /\ lives <= lives
              /\ feed'[w] = feed[v] /\ channel' = channel /\ lives' = lives
          BY <1>1, <1>2, <1>4, <2>3, <3>7
        <4> QED BY <3>3, <3>4, <4>1 DEF ViewerInv
      <3> QED BY <1>1, <1>2, <3>6, <3>7
    <2> QED BY <2>2, <2>3
  <1> QED BY <1>6, <1>7, <1>8 DEF LiveInv

\* A subscription ends.
LEMMA DetachKeeps ==
  ASSUME LiveInv, NEW v \in Viewers, Detach(v)
  PROVE  LiveInv'
  <1>1. PICK state \in {"waiting", "off"} : viewer' = [viewer EXCEPT ![v].state = state]
    BY DEF Detach
  <1>2. /\ feed' = [feed EXCEPT ![v] = "none"] /\ socket' = [socket EXCEPT ![v] = << >>]
        /\ UNCHANGED <<changes, batch, cached, query, inFlight, channel, lives>>
    BY DEF Detach, cacheVars
  <1>3. /\ viewer \in [Viewers -> Clients] /\ viewer[v] \in Clients
        /\ socket \in [Viewers -> Seq(StatusNews)]
        /\ feed \in [Viewers -> {"none", "listing", "live"}]
    BY DEF LiveInv, LiveTypes
  <1>4. /\ viewer' \in [Viewers -> Clients]
        /\ \A w \in Viewers : viewer'[w].seq = viewer[w].seq /\ viewer'[w].life = viewer[w].life
    <2>1. /\ [viewer[v] EXCEPT !.state = state] \in Clients
          /\ [viewer[v] EXCEPT !.state = state].seq = viewer[v].seq
          /\ [viewer[v] EXCEPT !.state = state].life = viewer[v].life
      BY <1>3 DEF Clients
    <2>2. viewer' = [viewer EXCEPT ![v] = [viewer[v] EXCEPT !.state = state]]
      BY <1>1
    <2> QED BY <1>3, <2>1, <2>2
  <1>5. LiveTypes'
    BY <1>2, <1>3, <1>4 DEF LiveInv, LiveTypes
  <1>6. FetchInv' /\ BufferInOrder' /\ CurrentIsLatest'
    BY <1>2 DEF LiveInv, FetchInv, BufferInOrder, CurrentIsLatest
  <1>7. \A w \in Viewers : ViewerInv(w)'
    <2> SUFFICES ASSUME NEW w \in Viewers PROVE ViewerInv(w)'
      OBVIOUS
    <2>1. \/ socket'[w] = << >> /\ feed'[w] = "none"
          \/ socket'[w] = socket[w] /\ feed'[w] = feed[w]
      BY <1>2, <1>3
    <2> QED BY <1>2, <1>4, <2>1 DEF LiveInv, ViewerInv
  <1> QED BY <1>5, <1>6, <1>7 DEF LiveInv

\* The runtime restarts.
LEMMA RestartKeeps ==
  ASSUME LiveInv, RestartLive
  PROVE  LiveInv'
  <1>1. /\ lives' = lives + 1 /\ batch' = FALSE /\ cached' = Nothing /\ inFlight' = Nothing
        /\ query' = [q \in Queries |-> NoQuery] /\ channel' = NewChannel
        /\ feed' = [v \in Viewers |-> "none"] /\ socket' = [v \in Viewers |-> << >>]
        /\ viewer' = [v \in Viewers |-> IF viewer[v].state = "off" THEN viewer[v]
                                        ELSE [viewer[v] EXCEPT !.state = "waiting"]]
        /\ changes' = changes
    BY DEF RestartLive
  <1>2. lives \in Nat /\ changes \in Found /\ \A v \in Viewers : viewer[v] \in Clients
    BY DEF LiveInv, LiveTypes
  <1>3. /\ viewer' \in [Viewers -> Clients]
        /\ \A v \in Viewers : viewer'[v].life = viewer[v].life
    BY <1>1, <1>2 DEF Clients
  <1>4. channel' \in Channels
    BY <1>1, FoundStatuses DEF NewChannel, Channels
  <1>5. query' \in [Queries -> [step : {"idle", "running", "read"}, status : Statuses]]
    BY <1>1, FoundStatuses DEF NoQuery
  <1>6. LiveTypes'
    <2>1. changes' \in Found /\ batch' \in BOOLEAN /\ cached' \in Statuses
          /\ inFlight' \in Queries \cup {Nothing} /\ lives' \in Nat
      <3>1. changes' \in Found /\ batch' \in BOOLEAN
        BY <1>1, <1>2
      <3>2. cached' \in Statuses /\ inFlight' \in Queries \cup {Nothing}
        BY <1>1, FoundStatuses
      <3>3. lives' \in Nat
        BY <1>1, <1>2
      <3> QED BY <3>1, <3>2, <3>3
    <2>2. /\ feed' \in [Viewers -> {"none", "listing", "live"}]
          /\ socket' \in [Viewers -> Seq(StatusNews)]
      BY <1>1
    <2> QED BY <1>3, <1>4, <1>5, <2>1, <2>2 DEF LiveTypes
  <1>7. FetchInv' /\ BufferInOrder' /\ CurrentIsLatest'
    BY <1>1, LiveAssumption
       DEF FetchInv, NoQuery, NewChannel, BufferInOrder, UpTo, CurrentIsLatest
  <1>8. \A v \in Viewers : ViewerInv(v)'
    <2> SUFFICES ASSUME NEW v \in Viewers PROVE ViewerInv(v)'
      OBVIOUS
    <2>1. viewer[v].life \in Nat /\ viewer[v].life <= lives
      BY <1>2 DEF LiveInv, ViewerInv, Clients
    <2> QED BY <1>1, <1>2, <1>3, <2>1 DEF ViewerInv
  <1> QED BY <1>6, <1>7, <1>8 DEF LiveInv

-----------------------------------------------------------------------------
\* Every step keeps the invariant.
LEMMA LiveInvKept ==
  ASSUME LiveInv, [LiveNext]_liveVars
  PROVE  LiveInv'
  <1>1. CASE UNCHANGED liveVars
    <2>1. UNCHANGED <<changes, batch, cached, query, inFlight, channel, feed, socket, viewer,
                      lives>>
      BY <1>1 DEF liveVars, cacheVars
    <2> QED BY <2>1 DEF LiveInv, LiveTypes, FetchInv, BufferInOrder, CurrentIsLatest, ViewerInv
  <1>2. CASE ChangeFiles \/ FlushBatch \/ Poll
    BY <1>2, RefreshKeeps
  <1>3. CASE ChannelAsks \/ AskDirectly
    BY <1>3, AskKeeps
  <1>4. CASE CacheStep
    BY <1>4, CacheKeeps
  <1>5. CASE Publish
    BY <1>5, PublishKeeps
  <1>6. CASE PublishFails
    BY <1>6, FailureKeeps
  <1>7. CASE RestartLive
    BY <1>7, RestartKeeps
  <1>8. CASE \E v \in Viewers : ViewerStep(v)
    BY <1>8, AttachKeeps, ReceiptKeeps, DetachKeeps DEF ViewerStep
  <1> QED BY <1>1, <1>2, <1>3, <1>4, <1>5, <1>6, <1>7, <1>8 DEF LiveNext, ChannelStep

\* The invariant implies what the run checks.
LEMMA LiveInvSuffices == LiveInv => LiveTypeOK /\ NoEventLost
  <1> SUFFICES ASSUME LiveInv PROVE LiveTypeOK /\ NoEventLost
    OBVIOUS
  <1>1. LiveTypeOK
    <2>1. channel.current.status \in Statuses
      <3>1. channel.current \in StatusNews \cup {NoEvent}
        BY DEF LiveInv, LiveTypes, Channels
      <3> QED BY <3>1, FoundStatuses DEF StatusNews, NoEvent
    <2>2. channel.fetch \in {"off", "asked", "waiting", "got"} /\ channel.next \in Nat
      BY DEF LiveInv, LiveTypes, Channels
    <2>3. \A v \in Viewers : /\ feed[v] \in {"none", "listing", "live"}
                             /\ viewer[v].state \in {"off", "open", "waiting", "exhausted"}
                             /\ viewer[v].status \in Statuses
      BY DEF LiveInv, LiveTypes, Clients
    <2>4. \A q \in Queries : query[q].step \in {"idle", "running", "read"}
                             /\ query[q].status \in Statuses
      BY DEF LiveInv, LiveTypes
    <2> QED BY <2>1, <2>2, <2>3, <2>4 DEF LiveInv, LiveTypes, BufferInOrder, UpTo, LiveTypeOK, Found
  <1>2. NoEventLost
    BY DEF LiveInv, ViewerInv, NoEventLost, Last
  <1> QED BY <1>1, <1>2

\* No number of a channel is lost on a live subscription (workspaceLiveSocket.ts:140),
\* for every number of clients, computations, losses and restarts and every limit of the
\* replay buffer.
THEOREM LiveStatusHolds == LiveSpec => [](LiveTypeOK /\ NoEventLost)
  <1>1. LiveInv /\ [LiveNext]_liveVars => LiveInv'
    BY LiveInvKept
  <1> QED BY LiveAtFirst, <1>1, LiveInvSuffices, PTL DEF LiveSpec


-----------------------------------------------------------------------------
(***************************************************************************)
(* The files of an editor.  What FilesAreTended needs: a text in flight is *)
(* the last one typed, or the file is exposed; the effect of the view owns *)
(* requests for the file in view only; a file without a state is as new.   *)
(***************************************************************************)
Typed == 0..typed
TabRecords == [path : Paths, pinned : BOOLEAN]
FileRecords(texts) ==
    [known : BOOLEAN, saved : texts, draft : texts, loading : BOOLEAN, loaded : BOOLEAN,
     saving : BOOLEAN, error : {"none", "load", "save"}]
LoadRecords(texts) == [path : Paths, owned : BOOLEAN, text : texts \cup {Unread}]
SaveRecords(texts) == [path : Paths, text : texts, written : BOOLEAN]

\* The types, as sets: no text is newer than the last one typed.
FileTypes ==
    /\ viewed \in Paths \cup {NoPath} /\ fileTabs \in Seq(TabRecords)
    /\ typed \in Nat /\ typed <= MaxTexts
    /\ fileState \in [Paths -> FileRecords(Typed)]
    /\ loads \subseteq LoadRecords(Typed) /\ saves \subseteq SaveRecords(Typed)
    /\ disk \in [Paths -> Typed] /\ newest \in [Paths -> Typed]
    /\ exposed \subseteq Paths /\ stranded \subseteq Paths

\* The tabs t: one at most is a preview, and no file has two.
SoundTabs(t) ==
    /\ \A i, j \in DOMAIN t : ~t[i].pinned /\ ~t[j].pinned => i = j
    /\ \A i, j \in DOMAIN t : t[i].path = t[j].path => i = j
Shows(t, p) == \E i \in DOMAIN t : t[i].path = p
Pins(t, p)  == \E i \in DOMAIN t : t[i].path = p /\ t[i].pinned

TabsInv ==
    /\ SoundTabs(fileTabs)
    /\ viewed # NoPath => Shows(fileTabs, viewed)
    /\ \A p \in Paths : IsDirty(p) => Pins(fileTabs, p)

\* What is asked for a file, and what is not.
RequestInv ==
    /\ \A p \in Paths : ~fileState[p].known => fileState[p] = Absent /\ p \notin stranded
    /\ \A l \in loads : l.owned => l.path = viewed
    /\ LoadingHasRequest

\* The text last typed, if neither given up nor exposed, is what the editor holds and
\* what is on its way; a file that is not loaded, or being loaded, has it on disk.
EditInv(p) ==
    newest[p] # NoText /\ p \notin exposed =>
       /\ fileState[p].loaded => fileState[p].draft = newest[p]
       /\ fileState[p].loaded /\ fileState[p].saved = newest[p] => disk[p] = newest[p]
       /\ ~fileState[p].loaded => disk[p] = newest[p]
       /\ \A l \in loads : l.path = p =>
             disk[p] = newest[p] /\ l.text \in {Unread, newest[p]}
       /\ \A s \in saves : s.path = p =>
             s.text = newest[p] /\ (s.written => disk[p] = newest[p])

FileInv == FileTypes /\ TabsInv /\ RequestInv /\ \A p \in Paths : EditInv(p)

-----------------------------------------------------------------------------
(* The tabs.                                                               *)
-----------------------------------------------------------------------------
\* Pinning a tab moves none.
LEMMA PinnedTabs ==
  ASSUME fileTabs \in Seq(TabRecords), SoundTabs(fileTabs), NEW p \in Paths
  PROVE  /\ PinTab(p) \in Seq(TabRecords) /\ SoundTabs(PinTab(p))
         /\ \A q : Shows(PinTab(p), q) <=> Shows(fileTabs, q)
         /\ \A q : Pins(fileTabs, q) => Pins(PinTab(p), q)
         /\ Shows(fileTabs, p) => Pins(PinTab(p), p)
  <1> DEFINE t == fileTabs
             u == PinTab(p)
  <1>1. /\ Len(t) \in Nat /\ DOMAIN t = 1..Len(t) /\ \A i \in DOMAIN t : t[i] \in TabRecords
    OBVIOUS
  <1>2. Tab(p, TRUE) \in TabRecords /\ Tab(p, TRUE).path = p /\ Tab(p, TRUE).pinned
    BY DEF Tab, TabRecords
  <1>3. u = [i \in 1..Len(t) |-> IF t[i].path = p THEN Tab(p, TRUE) ELSE t[i]]
    BY <1>1 DEF PinTab
  <1>4. \A i \in 1..Len(t) : u[i] = IF t[i].path = p THEN Tab(p, TRUE) ELSE t[i]
    BY <1>3
  <1>5. u \in [1..Len(t) -> TabRecords] /\ DOMAIN u = DOMAIN t
    BY <1>1, <1>2, <1>3
  <1>6. u \in Seq(TabRecords)
    BY <1>1, <1>5
  <1> HIDE DEF u
  <1>7. \A i \in DOMAIN t : /\ u[i].path = t[i].path
                            /\ t[i].pinned => u[i].pinned
                            /\ u[i].path = p => u[i].pinned
    BY <1>1, <1>2, <1>4
  <1> HIDE DEF t
  <1>8. SoundTabs(t)
    BY DEF t
  <1>9. SoundTabs(u)
    BY <1>5, <1>7, <1>8 DEF SoundTabs
  <1>10. /\ \A q : Shows(u, q) <=> Shows(t, q)
         /\ \A q : Pins(t, q) => Pins(u, q)
         /\ Shows(t, p) => Pins(u, p)
    BY <1>5, <1>7 DEF Shows, Pins
  <1> QED BY <1>6, <1>9, <1>10 DEF t, u

\* Where no tab is a preview, a file without a tab gets one at the end.
LEMMA AppendedTab ==
  ASSUME fileTabs \in Seq(TabRecords), SoundTabs(fileTabs), NEW p \in Paths,
         ~Shows(fileTabs, p), Previews = {}
  PROVE  LET u == Append(fileTabs, Tab(p, FALSE))
         IN  /\ u \in Seq(TabRecords) /\ SoundTabs(u) /\ Shows(u, p)
             /\ \A q : Pins(fileTabs, q) => Pins(u, q)
  <1> DEFINE t == fileTabs
             e == Tab(p, FALSE)
             u == Append(t, e)
             n == Len(t) + 1
  <1>1. e \in TabRecords /\ e.path = p /\ ~e.pinned
    BY DEF Tab, TabRecords
  <1> HIDE DEF e
  <1>2. /\ u \in Seq(TabRecords) /\ Len(u) = n /\ Len(t) \in Nat
        /\ \A i \in 1..Len(t) : u[i] = t[i]
        /\ u[n] = e
    BY <1>1, AppendProperties
  <1>3. DOMAIN t = 1..Len(t) /\ DOMAIN u = 1..n
    BY <1>2
  <1>4. n \in DOMAIN u /\ \A i \in DOMAIN u : i # n => i \in DOMAIN t /\ u[i] = t[i]
    BY <1>2, <1>3
  <1>5. \A i \in DOMAIN t : i \in DOMAIN u /\ u[i] = t[i]
    BY <1>2, <1>3
  <1>6. \A i \in DOMAIN t : t[i].pinned /\ t[i].path # p
    BY DEF Previews, Shows
  <1>7. u[n].path = p /\ ~u[n].pinned
    BY <1>1, <1>2
  <1> HIDE DEF u, n, t
  <1>8. SoundTabs(t)
    BY DEF t
  <1>9. SoundTabs(u)
    BY <1>4, <1>6, <1>7, <1>8 DEF SoundTabs
  <1>10. Shows(u, p) /\ \A q : Pins(t, q) => Pins(u, q)
    BY <1>4, <1>5, <1>7 DEF Shows, Pins
  <1> QED BY <1>2, <1>9, <1>10 DEF t, u, e

\* A file without a tab takes that of the preview.
LEMMA ReplacedTab ==
  ASSUME fileTabs \in Seq(TabRecords), SoundTabs(fileTabs), NEW p \in Paths,
         ~Shows(fileTabs, p), NEW k \in Previews
  PROVE  LET u == [fileTabs EXCEPT ![k] = Tab(p, FALSE)]
         IN  /\ u \in Seq(TabRecords) /\ SoundTabs(u) /\ Shows(u, p)
             /\ \A q : Pins(fileTabs, q) => Pins(u, q)
             /\ fileTabs[k].path \in Paths /\ fileTabs[k].path # p
  <1> DEFINE t == fileTabs
             u == [t EXCEPT ![k] = Tab(p, FALSE)]
  <1>1. Tab(p, FALSE) \in TabRecords /\ Tab(p, FALSE).path = p /\ ~Tab(p, FALSE).pinned
    BY DEF Tab, TabRecords
  <1>2. /\ Len(t) \in Nat /\ DOMAIN t = 1..Len(t) /\ \A i \in DOMAIN t : t[i] \in TabRecords
        /\ t \in [1..Len(t) -> TabRecords] /\ k \in DOMAIN t /\ ~t[k].pinned
    BY DEF Previews
  <1>3. u \in [1..Len(t) -> TabRecords] /\ DOMAIN u = DOMAIN t
    BY <1>1, <1>2
  <1>4. u \in Seq(TabRecords)
    <2> HIDE DEF u
    <2> QED BY <1>2, <1>3
  <1>5. u[k] = Tab(p, FALSE) /\ \A i \in DOMAIN t : i # k => u[i] = t[i]
    BY <1>2
  <1>6. \A i \in DOMAIN t : t[i].path # p /\ t[i].path \in Paths
    BY <1>2 DEF Shows, TabRecords
  <1> HIDE DEF u, t
  <1>7. SoundTabs(t)
    BY DEF t
  <1>8. SoundTabs(u)
    BY ZenonT(60), <1>1, <1>2, <1>3, <1>5, <1>6, <1>7 DEF SoundTabs
  <1>9. Shows(u, p) /\ \A q : Pins(t, q) => Pins(u, q)
    BY <1>1, <1>2, <1>3, <1>5 DEF Shows, Pins
  <1> QED BY <1>2, <1>4, <1>6, <1>8, <1>9 DEF t, u

\* A closed tab leaves the others as they were.
LEMMA RemovedTab ==
  ASSUME NEW t \in Seq(TabRecords), SoundTabs(t), NEW k \in DOMAIN t
  PROVE  LET u == RemoveAt(t, k)
         IN  /\ u \in Seq(TabRecords) /\ SoundTabs(u)
             /\ ~Shows(u, t[k].path)
             /\ \A q : q # t[k].path => /\ Shows(t, q) => Shows(u, q)
                                        /\ Pins(t, q) => Pins(u, q)
  <1> DEFINE n == Len(t)
             left == SubSeq(t, 1, k - 1)
             right == SubSeq(t, k + 1, n)
             u == left \o right
  <1>1. n \in Nat /\ DOMAIN t = 1..n /\ k \in 1..n /\ \A i \in 1..n : t[i] \in TabRecords
    OBVIOUS
  <1>2. /\ left \in Seq(TabRecords) /\ Len(left) = k - 1
        /\ \A i \in 1..k - 1 : left[i] = t[i]
    <2>1. k - 1 \in Int /\ 1 \in Int /\ \A i \in 1..k - 1 : i \in 1..n
      BY <1>1
    <2>2. \A i \in 1..k - 1 : t[i] \in TabRecords
      BY <1>1, <2>1
    <2>3. /\ left \in Seq(TabRecords)
          /\ Len(left) = IF 1 <= k - 1 THEN k - 1 - 1 + 1 ELSE 0
          /\ \A i \in 1..k - 1 - 1 + 1 : left[i] = t[1 + i - 1]
      BY <2>1, <2>2, SubSeqProperties
    <2> HIDE DEF left
    <2>4. k - 1 - 1 + 1 = k - 1 /\ \A i \in Int : 1 + i - 1 = i
      BY <1>1
    <2>5. Len(left) = k - 1
      BY <1>1, <2>3
    <2>6. ASSUME NEW i \in 1..k - 1 PROVE left[i] = t[i]
      BY <2>3, <2>4
    <2> QED BY <2>3, <2>5, <2>6
  <1>3. /\ right \in Seq(TabRecords) /\ Len(right) = n - k
        /\ \A i \in 1..n - k : right[i] = t[k + i]
    <2>1. k \in 0..Len(t)
      BY <1>1
    <2> QED BY <2>1, EndOfSequence
  <1> HIDE DEF left, right
  <1>4. /\ u \in Seq(TabRecords) /\ Len(u) = n - 1
        /\ \A i \in 1..n - 1 : u[i] = IF i < k THEN t[i] ELSE t[i + 1]
    <2>1. /\ u \in Seq(TabRecords) /\ Len(u) = Len(left) + Len(right)
          /\ \A i \in 1..Len(left) : u[i] = left[i]
          /\ \A i \in Len(left) + 1..Len(left) + Len(right) : u[i] = right[i - Len(left)]
      <3>1. /\ u \in Seq(TabRecords) /\ Len(u) = Len(left) + Len(right)
            /\ \A i \in 1..Len(left) + Len(right) :
                  u[i] = IF i <= Len(left) THEN left[i] ELSE right[i - Len(left)]
        BY <1>2, <1>3, ConcatProperties
      <3>2. Len(left) \in Nat /\ Len(right) \in Nat
        BY <1>2, <1>3
      <3> HIDE DEF u
      <3>3. \A i \in 1..Len(left) : u[i] = left[i]
        BY <3>1, <3>2
      <3>4. \A i \in Len(left) + 1..Len(left) + Len(right) : u[i] = right[i - Len(left)]
        BY <3>1, <3>2
      <3> QED BY <3>1, <3>3, <3>4
    <2> HIDE DEF u
    <2>2. Len(u) = n - 1 /\ Len(left) + Len(right) = n - 1
      BY <1>1, <1>2, <1>3, <2>1
    <2>3. ASSUME NEW i \in 1..n - 1 PROVE u[i] = IF i < k THEN t[i] ELSE t[i + 1]
      <3>1. CASE i < k
        <4>1. i \in 1..k - 1
          BY <1>1, <3>1
        <4> QED BY <1>2, <2>1, <3>1, <4>1
      <3>2. CASE ~(i < k)
        <4>1. i \in Len(left) + 1..Len(left) + Len(right)
          BY <1>1, <1>2, <2>2, <3>2
        <4>2. i - Len(left) \in 1..n - k /\ k + (i - Len(left)) = i + 1
          BY <1>1, <1>2, <3>2
        <4>3. u[i] = right[i - Len(left)]
          BY <2>1, <4>1
        <4>4. right[i - Len(left)] = t[k + (i - Len(left))]
          BY <1>3, <4>2
        <4> QED BY <3>2, <4>2, <4>3, <4>4
      <3> QED BY <3>1, <3>2
    <2> QED BY <2>1, <2>2, <2>3
  <1> HIDE DEF u
  <1> DEFINE Old(i) == IF i < k THEN i ELSE i + 1
  <1>5. DOMAIN u = 1..n - 1
    BY <1>1, <1>4
  <1>6. \A i \in DOMAIN u : Old(i) \in DOMAIN t /\ Old(i) # k /\ u[i] = t[Old(i)]
    BY <1>1, <1>4, <1>5
  <1>7. \A i, j \in DOMAIN u : Old(i) = Old(j) => i = j
    BY <1>1, <1>5
  <1>8. \A j \in DOMAIN t : j # k => \E i \in DOMAIN u : Old(i) = j
    <2> SUFFICES ASSUME NEW j \in DOMAIN t, j # k PROVE \E i \in DOMAIN u : Old(i) = j
      OBVIOUS
    <2>1. CASE j < k
      <3>1. j \in DOMAIN u /\ Old(j) = j
        BY <1>1, <1>5, <2>1
      <3> QED BY <3>1
    <2>2. CASE ~(j < k)
      <3>1. j - 1 \in DOMAIN u /\ Old(j - 1) = j
        BY <1>1, <1>5, <2>2
      <3> QED BY <3>1
    <2> QED BY <2>1, <2>2
  <1> HIDE DEF Old, n
  <1>9. SoundTabs(u)
    BY <1>6, <1>7 DEF SoundTabs
  <1>10. ~Shows(u, t[k].path)
    BY <1>6 DEF SoundTabs, Shows
  <1>11. ASSUME NEW q, q # t[k].path
         PROVE  (Shows(t, q) => Shows(u, q)) /\ (Pins(t, q) => Pins(u, q))
    BY <1>6, <1>8, <1>11 DEF Shows, Pins
  <1> QED BY <1>4, <1>9, <1>10, <1>11 DEF u, left, right, n, RemoveAt


-----------------------------------------------------------------------------
(* The files.                                                              *)
-----------------------------------------------------------------------------
\* The records of the files, and those of a file without a state.
LEMMA FileFacts ==
  ASSUME FileTypes
  PROVE  /\ \A p \in Paths : fileState[p] \in FileRecords(Typed)
         /\ Absent \in FileRecords(Typed) /\ Initial \in FileRecords(Typed)
         /\ ~Absent.known /\ ~Absent.loading /\ ~Absent.loaded /\ Initial.known
         /\ NoText \in Typed /\ Unread \notin Typed
  <1>1. typed \in Nat /\ typed <= MaxTexts /\ MaxTexts \in Nat
    BY FileAssumption DEF FileTypes
  <1>2. NoText \in Typed /\ Unread \notin Typed
    BY <1>1 DEF NoText, Unread, Typed
  <1>3. Initial \in FileRecords(Typed) /\ Initial.known
    BY <1>2 DEF Initial, FileRecords
  <1>4. Absent \in FileRecords(Typed) /\ ~Absent.known /\ ~Absent.loading /\ ~Absent.loaded
    BY <1>2 DEF Absent, Initial, FileRecords
  <1> QED BY <1>2, <1>3, <1>4 DEF FileTypes

\* A state that begins to load.
LEMMA LoadingRecord ==
  ASSUME NEW texts, NEW s \in FileRecords(texts)
  PROVE  /\ Loading(s) \in FileRecords(texts)
         /\ Loading(s).known /\ Loading(s).loading
         /\ Loading(s).loaded = s.loaded /\ Loading(s).draft = s.draft
         /\ Loading(s).saved = s.saved
  BY DEF Loading, FileRecords

\* What a turn of the view does to the requests.
LEMMA TurnMeans ==
  ASSUME NEW p, NEW states, Turn(p, states)
  PROVE  LET turned  == p # viewed
             loadsIt == turned /\ p # NoPath /\ NeedsLoad(states[p])
             kept    == IF turned THEN {l \in loads : ~l.owned} ELSE loads
             left    == {q \in stranded \cup {l.path : l \in loads \ kept} : states[q].known}
         IN  /\ viewed' = p
             /\ \/ /\ loadsIt
                   /\ loads' = kept \cup {Read(p, TRUE)}
                   /\ fileState' = [states EXCEPT ![p] = Loading(states[p])]
                   /\ stranded' = left \ {p}
                \/ /\ ~loadsIt
                   /\ loads' = kept /\ fileState' = states /\ stranded' = left
  BY DEF Turn

\* The view turns to file p, or to none; the files whose states change else lose them.
LEMMA TurnKeeps ==
  ASSUME FileInv, NEW p \in Paths \cup {NoPath}, NEW states \in [Paths -> FileRecords(Typed)],
         Turn(p, states), UNCHANGED <<saves, disk, typed>>,
         \A q \in Paths : states[q] = fileState[q] \/ (states[q] = Absent /\ q # p),
         fileTabs' \in Seq(TabRecords), SoundTabs(fileTabs'),
         p # NoPath => Shows(fileTabs', p),
         \A q \in Paths : states[q] = fileState[q] /\ IsDirty(q) /\ Pins(fileTabs, q)
                             => Pins(fileTabs', q),
         newest' \in [Paths -> Typed], exposed' \subseteq Paths,
         \A q \in Paths : \/ newest'[q] = NoText
                          \/ /\ newest'[q] = newest[q] /\ (q \in exposed' <=> q \in exposed)
                             /\ states[q] = fileState[q] \/ ~IsDirty(q)
  PROVE  FileInv'
  <1> DEFINE turned  == p # viewed
             loadsIt == turned /\ p # NoPath /\ NeedsLoad(states[p])
             kept    == IF turned THEN {l \in loads : ~l.owned} ELSE loads
             left    == {q \in stranded \cup {l.path : l \in loads \ kept} : states[q].known}
  <1>1. /\ viewed' = p
        /\ \/ /\ loadsIt
              /\ loads' = kept \cup {Read(p, TRUE)}
              /\ fileState' = [states EXCEPT ![p] = Loading(states[p])]
              /\ stranded' = left \ {p}
           \/ /\ ~loadsIt
              /\ loads' = kept /\ fileState' = states /\ stranded' = left
    BY TurnMeans
  <1>2. FileTypes /\ Typed' = Typed
    BY DEF FileInv, Typed
  <1>3. loadsIt => p \in Paths /\ ~states[p].loading /\ ~states[p].loaded
    BY DEF NeedsLoad
  <1>4. /\ kept \subseteq loads
        /\ \A l \in kept : l.owned => l.path = p
        /\ \A l \in loads : l \in kept \/ (turned /\ l.owned /\ l.path = viewed)
    BY DEF FileInv, RequestInv
  <1>5. left \subseteq Paths
    <2>1. \A l \in loads : l.path \in Paths
      BY <1>2 DEF FileTypes, LoadRecords
    <2> QED BY <1>2, <2>1 DEF FileTypes
  <1>6. /\ \A q \in stranded : states[q].known => q \in left
        /\ \A l \in loads \ kept : states[l.path].known => l.path \in left
        /\ \A q \in left : states[q].known
    OBVIOUS
  <1> HIDE DEF kept, left
  <1>7. /\ fileState' \in [Paths -> FileRecords(Typed)]
        /\ \A q \in Paths :
              \/ fileState'[q] = states[q] /\ ~(loadsIt /\ q = p)
              \/ /\ loadsIt /\ q = p /\ fileState'[q] = Loading(states[q])
                 /\ fileState'[q].known /\ fileState'[q].loading /\ ~fileState'[q].loaded
    <2>1. loadsIt => /\ Loading(states[p]) \in FileRecords(Typed)
                     /\ Loading(states[p]).known /\ Loading(states[p]).loading
                     /\ ~Loading(states[p]).loaded
      BY <1>3, LoadingRecord
    <2>2. CASE loadsIt
      BY ZenonT(60), <1>1, <1>3, <2>1, <2>2
    <2>3. CASE ~loadsIt
      BY <1>1, <2>3
    <2> QED BY <2>2, <2>3
  <1>8. /\ Read(p, TRUE).path = p /\ Read(p, TRUE).text = Unread /\ Read(p, TRUE).owned
        /\ loadsIt => Read(p, TRUE) \in LoadRecords(Typed)
    BY <1>3 DEF Read, LoadRecords
  <1>9. \A l : l \in loads' <=> l \in kept \/ (loadsIt /\ l = Read(p, TRUE))
    BY <1>1
  <1>10. stranded' = IF loadsIt THEN left \ {p} ELSE left
    BY <1>1
  <1>11. viewed' = p
    BY <1>1
  <1> HIDE DEF turned, loadsIt
  <1>12. FileTypes'
    <2>1. loads' \subseteq LoadRecords(Typed)
      BY <1>2, <1>4, <1>8, <1>9 DEF FileTypes
    <2>2. stranded' \subseteq Paths
      BY <1>5, <1>10
    <2> QED BY <1>2, <1>7, <1>11, <2>1, <2>2 DEF FileTypes
  <1>13. TabsInv'
    <2>1. ASSUME NEW q \in Paths, IsDirty(q)' PROVE Pins(fileTabs', q)
      <3>1. fileState'[q].loaded /\ fileState'[q].draft # fileState'[q].saved
        BY <2>1 DEF IsDirty
      <3>2. fileState'[q] = states[q] /\ states[q] = fileState[q]
        BY <1>2, <1>7, <3>1, FileFacts
      <3> QED BY <3>1, <3>2 DEF IsDirty, FileInv, TabsInv
    <2> QED BY <1>11, <2>1 DEF TabsInv
  <1>14. RequestInv'
    <2>1. \A q \in Paths :
             ~fileState'[q].known => fileState'[q] = Absent /\ q \notin stranded'
      BY <1>6, <1>7, <1>10 DEF FileInv, RequestInv
    <2>2. \A l \in loads' : l.owned => l.path = viewed'
      BY <1>4, <1>8, <1>9, <1>11
    <2>3. ASSUME NEW q \in Paths, q \notin stranded', fileState'[q].loading
          PROVE  \E l \in loads' : l.path = q
      <3>1. CASE loadsIt /\ q = p
        BY <1>8, <1>9, <3>1
      <3>2. CASE ~(loadsIt /\ q = p)
        <4>1. fileState'[q] = states[q] /\ states[q] = fileState[q]
          BY <1>2, <1>7, <2>3, <3>2, FileFacts
        <4>2. states[q].known
          BY <1>2, <2>3, <4>1, FileFacts DEF FileInv, RequestInv
        <4>3. q \notin left
          BY <1>10, <2>3, <3>2
        <4>4. PICK l \in loads : l.path = q
          BY <1>6, <2>3, <4>1, <4>2, <4>3 DEF FileInv, RequestInv, LoadingHasRequest
        <4> QED BY <1>6, <1>9, <4>2, <4>3, <4>4
      <3> QED BY <3>1, <3>2
    <2>4. ASSUME NEW q \in Paths, q \notin stranded', viewed' = q
          PROVE  \/ fileState'[q].loaded \/ fileState'[q].error # "none"
                 \/ \E l \in loads' : l.path = q
      <3>1. CASE loadsIt
        BY <1>8, <1>9, <1>11, <2>4, <3>1
      <3>2. CASE ~loadsIt /\ turned
        <4>1. ~NeedsLoad(states[q])
          BY <1>11, <2>4, <3>2, FileAssumption DEF loadsIt
        <4>2. fileState'[q] = states[q]
          BY <1>7, <3>2
        <4> QED BY <2>3, <2>4, <4>1, <4>2 DEF NeedsLoad
      <3>3. CASE ~loadsIt /\ ~turned
        <4>1. viewed = q /\ fileState'[q] = fileState[q]
          BY <1>7, <1>11, <2>4, <3>3 DEF turned
        <4>2. q \notin stranded
          BY <1>6, <1>7, <1>10, <2>4, <3>3, <4>1 DEF FileInv, RequestInv
        <4> QED BY <1>4, <1>9, <3>3, <4>1, <4>2 DEF FileInv, RequestInv, LoadingHasRequest
      <3> QED BY <3>1, <3>2, <3>3
    <2> QED BY <2>1, <2>2, <2>3, <2>4 DEF RequestInv, LoadingHasRequest
  <1>15. ASSUME NEW q \in Paths PROVE EditInv(q)'
    <2> SUFFICES ASSUME newest'[q] # NoText, q \notin exposed'
                 PROVE  /\ fileState'[q].loaded => fileState'[q].draft = newest'[q]
                        /\ fileState'[q].loaded /\ fileState'[q].saved = newest'[q]
                              => disk'[q] = newest'[q]
                        /\ ~fileState'[q].loaded => disk'[q] = newest'[q]
                        /\ \A l \in loads' : l.path = q =>
                              disk'[q] = newest'[q] /\ l.text \in {Unread', newest'[q]}
                        /\ \A s \in saves' : s.path = q =>
                              s.text = newest'[q] /\ (s.written => disk'[q] = newest'[q])
      BY DEF EditInv
    <2>1. /\ newest'[q] = newest[q] /\ q \notin exposed /\ disk'[q] = disk[q] /\ saves' = saves
          /\ states[q] = fileState[q] \/ ~IsDirty(q)
      OBVIOUS
    <2>2. EditInv(q) /\ newest[q] # NoText
      BY <2>1 DEF FileInv
    <2>3. /\ fileState'[q].loaded => fileState'[q] = fileState[q]
          /\ ~fileState'[q].loaded => disk[q] = newest[q]
      <3>1. CASE loadsIt /\ q = p
        BY <1>3, <1>7, <2>1, <2>2, <3>1 DEF EditInv
      <3>2. CASE ~(loadsIt /\ q = p)
        <4>1. fileState'[q] = states[q]
          BY <1>7, <3>2
        <4>2. CASE states[q] = fileState[q]
          BY <2>1, <2>2, <4>1, <4>2 DEF EditInv
        <4>3. CASE states[q] = Absent /\ ~IsDirty(q)
          BY <1>2, <2>1, <2>2, <4>1, <4>3, FileFacts DEF EditInv, IsDirty
        <4> QED BY <2>1, <4>2, <4>3
      <3> QED BY <3>1, <3>2
    <2>4. \A l \in loads' : l.path = q =>
             disk[q] = newest[q] /\ l.text \in {Unread, newest[q]}
      <3>1. CASE loadsIt /\ q = p
        BY <1>4, <1>7, <1>8, <1>9, <2>1, <2>2, <2>3, <3>1 DEF EditInv
      <3>2. CASE ~(loadsIt /\ q = p)
        BY <1>4, <1>8, <1>9, <2>1, <2>2, <3>2 DEF EditInv
      <3> QED BY <3>1, <3>2
    <2> QED BY <2>1, <2>2, <2>3, <2>4 DEF EditInv, Unread
  <1> QED BY <1>12, <1>13, <1>14, <1>15 DEF FileInv

-----------------------------------------------------------------------------
(* The steps.                                                              *)
-----------------------------------------------------------------------------
\* The invariant holds at first.
LEMMA FileAtFirst == FileInit => FileInv
  <1> SUFFICES ASSUME FileInit PROVE FileInv
    OBVIOUS
  <1>1. Absent \in FileRecords(Typed) /\ ~Absent.known /\ ~Absent.loading /\ ~Absent.loaded
    <2>1. NoText \in Typed
      BY DEF FileInit, Typed, NoText
    <2> QED BY <2>1 DEF Absent, Initial, FileRecords
  <1>2. typed \in Nat /\ typed <= MaxTexts /\ NoText \in Typed
    BY FileAssumption DEF FileInit, Typed, NoText
  <1>3. FileTypes
    BY <1>1, <1>2 DEF FileInit, FileTypes
  <1>4. TabsInv
    BY <1>1 DEF FileInit, TabsInv, SoundTabs, IsDirty
  <1>5. RequestInv
    BY <1>1, FileAssumption DEF FileInit, RequestInv, LoadingHasRequest
  <1>6. \A p \in Paths : EditInv(p)
    BY DEF FileInit, EditInv
  <1> QED BY <1>3, <1>4, <1>5, <1>6 DEF FileInv

\* A tab is selected or pinned, or the files are left.
LEMMA LookKeeps ==
  ASSUME FileInv, LeaveFiles \/ \E p \in Paths : SelectFileTab(p) \/ PinFileTab(p)
  PROVE  FileInv'
  <1>1. /\ fileTabs \in Seq(TabRecords) /\ SoundTabs(fileTabs)
        /\ fileState \in [Paths -> FileRecords(Typed)]
        /\ newest \in [Paths -> Typed] /\ exposed \subseteq Paths
    BY DEF FileInv, FileTypes, TabsInv
  <1>2. CASE LeaveFiles
    <2>1. Turn(NoPath, fileState) /\ UNCHANGED <<fileTabs, saves, disk, typed, newest, exposed>>
      BY <1>2 DEF LeaveFiles
    <2> QED BY <1>1, <2>1, TurnKeeps
  <1>3. ASSUME NEW p \in Paths, SelectFileTab(p) PROVE FileInv'
    <2>1. /\ Turn(p, fileState) /\ UNCHANGED <<fileTabs, saves, disk, typed, newest, exposed>>
          /\ Shows(fileTabs, p)
      BY <1>3 DEF SelectFileTab, HasTab, Shows
    <2> QED BY <1>1, <2>1, TurnKeeps
  <1>4. ASSUME NEW p \in Paths, PinFileTab(p) PROVE FileInv'
    <2>1. /\ Turn(p, fileState) /\ UNCHANGED <<saves, disk, typed, newest, exposed>>
          /\ fileTabs' = PinTab(p) /\ Shows(fileTabs, p)
      BY <1>4 DEF PinFileTab, HasTab, Shows
    <2>2. /\ fileTabs' \in Seq(TabRecords) /\ SoundTabs(fileTabs') /\ Shows(fileTabs', p)
          /\ \A q : Pins(fileTabs, q) => Pins(fileTabs', q)
      BY <1>1, <2>1, PinnedTabs
    <2> QED BY <1>1, <2>1, <2>2, TurnKeeps
  <1> QED BY <1>2, <1>3, <1>4

\* What the user gives up with the changes of a file.
LEMMA GivenUp ==
  ASSUME FileInv, NEW p \in Paths, GiveUp(p)
  PROVE  /\ newest' \in [Paths -> Typed] /\ exposed' \subseteq Paths
         /\ \A q \in Paths : q # p => newest'[q] = newest[q] /\ (q \in exposed' <=> q \in exposed)
         /\ \/ newest'[p] = NoText
            \/ ~IsDirty(p) /\ newest'[p] = newest[p] /\ exposed' = exposed
  <1>1. newest \in [Paths -> Typed] /\ exposed \subseteq Paths /\ NoText \in Typed
    BY FileFacts DEF FileInv, FileTypes
  <1>2. CASE IsDirty(p)
    BY <1>1, <1>2 DEF GiveUp
  <1>3. CASE ~IsDirty(p)
    BY <1>1, <1>3 DEF GiveUp
  <1> QED BY <1>2, <1>3

\* A file is opened, maybe in the place of the preview.
LEMMA OpenKeeps ==
  ASSUME FileInv, NEW p \in Paths, OpenReadFile(p)
  PROVE  FileInv'
  <1>1. /\ fileTabs \in Seq(TabRecords) /\ SoundTabs(fileTabs) /\ FileTypes
        /\ fileState \in [Paths -> FileRecords(Typed)]
        /\ newest \in [Paths -> Typed] /\ exposed \subseteq Paths
    BY DEF FileInv, FileTypes, TabsInv
  <1>2. UNCHANGED <<saves, disk, typed>>
    BY DEF OpenReadFile
  <1>3. CASE Shows(fileTabs, p)
    <2>1. Turn(p, fileState) /\ UNCHANGED <<fileTabs, newest, exposed>>
      BY <1>3 DEF OpenReadFile, HasTab, Shows
    <2> QED BY <1>1, <1>2, <1>3, <2>1, TurnKeeps
  <1>4. CASE ~Shows(fileTabs, p) /\ Previews = {}
    <2>1. /\ Turn(p, fileState) /\ UNCHANGED <<newest, exposed>>
          /\ fileTabs' = Append(fileTabs, Tab(p, FALSE))
      BY <1>4 DEF OpenReadFile, HasTab, Shows
    <2>2. /\ fileTabs' \in Seq(TabRecords) /\ SoundTabs(fileTabs') /\ Shows(fileTabs', p)
          /\ \A q : Pins(fileTabs, q) => Pins(fileTabs', q)
      BY <1>1, <1>4, <2>1, AppendedTab
    <2> QED BY <1>1, <1>2, <2>1, <2>2, TurnKeeps
  <1>5. CASE ~Shows(fileTabs, p) /\ Previews # {}
    <2>1. PICK i \in Previews : /\ fileTabs' = [fileTabs EXCEPT ![i] = Tab(p, FALSE)]
                                /\ Turn(p, [fileState EXCEPT ![fileTabs[i].path] = Absent])
                                /\ GiveUp(fileTabs[i].path)
      BY <1>5 DEF OpenReadFile, HasTab, Shows
    <2>2. /\ fileTabs' \in Seq(TabRecords) /\ SoundTabs(fileTabs') /\ Shows(fileTabs', p)
          /\ \A q : Pins(fileTabs, q) => Pins(fileTabs', q)
          /\ fileTabs[i].path \in Paths /\ fileTabs[i].path # p
      BY <1>1, <1>5, <2>1, ReplacedTab
    <2> DEFINE o == fileTabs[i].path
               states == [fileState EXCEPT ![o] = Absent]
    <2>3. /\ states \in [Paths -> FileRecords(Typed)]
          /\ states[o] = Absent /\ \A q \in Paths : q # o => states[q] = fileState[q]
      BY <1>1, <2>2, FileFacts
    <2>4. /\ newest' \in [Paths -> Typed] /\ exposed' \subseteq Paths
          /\ \A q \in Paths : q # o => newest'[q] = newest[q] /\ (q \in exposed' <=> q \in exposed)
          /\ \/ newest'[o] = NoText
             \/ ~IsDirty(o) /\ newest'[o] = newest[o] /\ exposed' = exposed
      BY <2>1, <2>2, GivenUp
    <2>5. Turn(p, states) /\ o \in Paths /\ o # p
      BY <2>1, <2>2
    <2> HIDE DEF states, o
    <2>6. \A q \in Paths : states[q] = fileState[q] \/ (states[q] = Absent /\ q # p)
      BY <2>3, <2>5
    <2>7. \A q \in Paths : \/ newest'[q] = NoText
                           \/ /\ newest'[q] = newest[q] /\ (q \in exposed' <=> q \in exposed)
                              /\ states[q] = fileState[q] \/ ~IsDirty(q)
      BY <2>3, <2>4
    <2> QED BY <1>2, <2>2, <2>3, <2>4, <2>5, <2>6, <2>7, TurnKeeps
  <1> QED BY <1>3, <1>4, <1>5

\* A tab is closed, and another comes into view.
LEMMA CloseKeeps ==
  ASSUME FileInv, NEW p \in Paths, CloseFileTab(p)
  PROVE  FileInv'
  <1> DEFINE k == PlaceOf(p)
             tabs == RemoveAt(fileTabs, k)
             after == IF viewed # p THEN viewed ELSE IF tabs = << >> THEN NoPath
                      ELSE IF k <= Len(tabs) THEN tabs[k].path ELSE Last(tabs).path
             states == [fileState EXCEPT ![p] = Absent]
  <1>1. /\ fileTabs \in Seq(TabRecords) /\ SoundTabs(fileTabs) /\ FileTypes
        /\ fileState \in [Paths -> FileRecords(Typed)] /\ viewed \in Paths \cup {NoPath}
        /\ viewed # NoPath => Shows(fileTabs, viewed)
    BY DEF FileInv, FileTypes, TabsInv
  <1>2. /\ UNCHANGED <<saves, disk, typed>> /\ GiveUp(p)
        /\ fileTabs' = tabs /\ Turn(after, states)
        /\ HasTab(p)
    BY DEF CloseFileTab
  <1>3. k \in DOMAIN fileTabs /\ fileTabs[k].path = p
    BY <1>2 DEF HasTab, PlaceOf
  <1>4. k \in Nat \ {0}
    BY <1>1, <1>3
  <1> HIDE DEF k
  <1>5. /\ tabs \in Seq(TabRecords) /\ SoundTabs(tabs) /\ ~Shows(tabs, p)
        /\ \A q : q # p => /\ Shows(fileTabs, q) => Shows(tabs, q)
                           /\ Pins(fileTabs, q) => Pins(tabs, q)
    BY <1>1, <1>3, RemovedTab
  <1> HIDE DEF tabs
  <1>6. /\ after \in Paths \cup {NoPath} /\ after # p /\ (after # NoPath => Shows(tabs, after))
    <2>1. CASE viewed # p
      BY <1>1, <1>5, <2>1
    <2>2. CASE viewed = p /\ tabs = << >>
      BY <2>2, FileAssumption
    <2>3. CASE viewed = p /\ tabs # << >>
      <3>1. Len(tabs) \in Nat \ {0} /\ DOMAIN tabs = 1..Len(tabs)
        BY <1>5, <2>3, EmptySeq
      <3>2. PICK j \in DOMAIN tabs : after = tabs[j].path
        <4>1. CASE k <= Len(tabs)
          <5>1. k \in DOMAIN tabs /\ after = tabs[k].path
            BY <1>4, <2>3, <3>1, <4>1
          <5> QED BY <5>1
        <4>2. CASE ~(k <= Len(tabs))
          <5>1. Len(tabs) \in DOMAIN tabs /\ after = tabs[Len(tabs)].path
            BY <2>3, <3>1, <4>2 DEF Last
          <5> QED BY <5>1
        <4> QED BY <4>1, <4>2
      <3>3. tabs[j].path \in Paths
        <4>1. tabs[j] \in TabRecords
          BY <1>5, <3>1
        <4> QED BY <4>1 DEF TabRecords
      <3>4. Shows(tabs, tabs[j].path)
        BY <3>2 DEF Shows
      <3> HIDE DEF after
      <3> QED BY <1>5, <3>2, <3>3, <3>4
    <2> QED BY <2>1, <2>2, <2>3
  <1> HIDE DEF after
  <1>7. /\ states \in [Paths -> FileRecords(Typed)]
        /\ states[p] = Absent /\ \A q \in Paths : q # p => states[q] = fileState[q]
    BY <1>1, FileFacts
  <1>8. /\ newest' \in [Paths -> Typed] /\ exposed' \subseteq Paths
        /\ \A q \in Paths : q # p => newest'[q] = newest[q] /\ (q \in exposed' <=> q \in exposed)
        /\ \/ newest'[p] = NoText
           \/ ~IsDirty(p) /\ newest'[p] = newest[p] /\ exposed' = exposed
    BY <1>2, GivenUp
  <1> HIDE DEF states
  <1>9. \A q \in Paths : states[q] = fileState[q] \/ (states[q] = Absent /\ q # after)
    BY <1>6, <1>7
  <1>10. \A q \in Paths : states[q] = fileState[q] /\ IsDirty(q) /\ Pins(fileTabs, q)
                              => Pins(tabs, q)
    <2>1. states[p] = fileState[p] => ~IsDirty(p)
      BY <1>1, <1>7, FileFacts DEF IsDirty
    <2> QED BY <1>5, <2>1
  <1>11. \A q \in Paths : \/ newest'[q] = NoText
                          \/ /\ newest'[q] = newest[q] /\ (q \in exposed' <=> q \in exposed)
                             /\ states[q] = fileState[q] \/ ~IsDirty(q)
    BY <1>7, <1>8
  <1> QED BY <1>2, <1>5, <1>6, <1>7, <1>8, <1>9, <1>10, <1>11, TurnKeeps

\* An answer, a save or a retry changes the state of file p and the requests for it.
LEMMA AnswerKeeps ==
  ASSUME FileInv, NEW p \in Paths, NEW state \in FileRecords(Typed),
         fileState' = [fileState EXCEPT ![p] = state],
         UNCHANGED <<viewed, fileTabs, disk, typed, newest>>,
         loads' \subseteq LoadRecords(Typed), saves' \subseteq SaveRecords(Typed),
         exposed' \subseteq Paths, stranded' \subseteq Paths,
         \A q \in Paths : q # p => /\ q \in exposed' <=> q \in exposed
                                   /\ q \in stranded' <=> q \in stranded,
         \A l : l.path # p => (l \in loads' <=> l \in loads),
         \A s : s.path # p => (s \in saves' <=> s \in saves),
         state.known, state.loaded /\ state.draft # state.saved => IsDirty(p),
         \A l \in loads' : l.owned => l.path = viewed,
         p \notin stranded' /\ state.loading => \E l \in loads' : l.path = p,
         p \notin stranded' /\ viewed = p => \/ state.loaded \/ state.error # "none"
                                             \/ \E l \in loads' : l.path = p,
         newest[p] # NoText /\ p \notin exposed' =>
            /\ state.loaded => state.draft = newest[p]
            /\ state.loaded /\ state.saved = newest[p] => disk[p] = newest[p]
            /\ ~state.loaded => disk[p] = newest[p]
            /\ \A l \in loads' : l.path = p =>
                  disk[p] = newest[p] /\ l.text \in {Unread, newest[p]}
            /\ \A s \in saves' : s.path = p =>
                  s.text = newest[p] /\ (s.written => disk[p] = newest[p])
  PROVE  FileInv'
  <1>1. FileTypes /\ Typed' = Typed
    BY DEF FileInv, Typed
  <1>2. /\ fileState' \in [Paths -> FileRecords(Typed)] /\ fileState'[p] = state
        /\ \A q \in Paths : q # p => fileState'[q] = fileState[q]
    BY <1>1 DEF FileTypes
  <1>3. FileTypes'
    BY <1>1, <1>2 DEF FileTypes
  <1>4. TabsInv'
    <2>1. ASSUME NEW q \in Paths, IsDirty(q)' PROVE IsDirty(q)
      BY <1>2, <2>1 DEF IsDirty
    <2> QED BY <2>1 DEF FileInv, TabsInv
  <1>5. RequestInv'
    <2>1. \A q \in Paths :
             ~fileState'[q].known => fileState'[q] = Absent /\ q \notin stranded'
      BY <1>2 DEF FileInv, RequestInv
    <2>2. ASSUME NEW q \in Paths, q \notin stranded'
          PROVE  /\ fileState'[q].loading => \E l \in loads' : l.path = q
                 /\ viewed = q => \/ fileState'[q].loaded \/ fileState'[q].error # "none"
                                  \/ \E l \in loads' : l.path = q
      <3>1. CASE q = p
        BY <1>2, <2>2, <3>1
      <3>2. CASE q # p
        <4>1. (\E l \in loads : l.path = q) => \E l \in loads' : l.path = q
          BY <3>2
        <4> QED BY <1>2, <2>2, <3>2, <4>1 DEF FileInv, RequestInv, LoadingHasRequest
      <3> QED BY <3>1, <3>2
    <2> QED BY <2>1, <2>2 DEF RequestInv, LoadingHasRequest
  <1>6. ASSUME NEW q \in Paths PROVE EditInv(q)'
    <2>1. CASE q = p
      BY <1>2, <2>1 DEF EditInv, Unread
    <2>2. CASE q # p
      <3>1. /\ \A l \in loads' : l.path = q => l \in loads
            /\ \A s \in saves' : s.path = q => s \in saves
        BY <2>2
      <3>2. EditInv(q)
        BY DEF FileInv
      <3> QED BY <1>2, <2>2, <3>1, <3>2 DEF EditInv, Unread
    <2> QED BY <2>1, <2>2
  <1> QED BY <1>3, <1>4, <1>5, <1>6 DEF FileInv

\* The file in view is saved.
LEMMA SaveKeeps ==
  ASSUME FileInv, NEW p \in Paths, SaveActiveFile(p)
  PROVE  FileInv'
  <1> DEFINE write == [path |-> p, text |-> fileState[p].draft, written |-> FALSE]
             state == [fileState[p] EXCEPT !.saving = TRUE, !.error = "none"]
  <1>1. /\ viewed = p /\ fileState[p].loaded
        /\ saves' = saves \cup {write}
        /\ fileState' = [fileState EXCEPT ![p] = state]
        /\ UNCHANGED <<viewed, fileTabs, loads, disk, typed, newest, exposed, stranded>>
    BY DEF SaveActiveFile
  <1>2. FileTypes /\ fileState[p] \in FileRecords(Typed)
    BY FileFacts DEF FileInv
  <1>3. /\ state \in FileRecords(Typed)
        /\ state.loaded = fileState[p].loaded /\ state.loading = fileState[p].loading
        /\ state.draft = fileState[p].draft /\ state.saved = fileState[p].saved
        /\ state.known = fileState[p].known
    BY <1>2 DEF FileRecords
  <1>4. write \in SaveRecords(Typed) /\ write.path = p /\ write.text = fileState[p].draft
        /\ ~write.written
    BY <1>2 DEF FileRecords, SaveRecords
  <1> HIDE DEF write, state
  <1>5. saves' \subseteq SaveRecords(Typed) /\ \A s : s.path # p => (s \in saves' <=> s \in saves)
    BY <1>1, <1>2, <1>4 DEF FileTypes
  <1>6. state.known
    BY <1>1, <1>2, <1>3, FileFacts DEF FileInv, RequestInv
  <1>7. newest[p] # NoText /\ p \notin exposed =>
           /\ state.loaded => state.draft = newest[p]
           /\ state.loaded /\ state.saved = newest[p] => disk[p] = newest[p]
           /\ ~state.loaded => disk[p] = newest[p]
           /\ \A l \in loads : l.path = p =>
                 disk[p] = newest[p] /\ l.text \in {Unread, newest[p]}
           /\ \A s \in saves' : s.path = p =>
                 s.text = newest[p] /\ (s.written => disk[p] = newest[p])
    BY <1>1, <1>3, <1>4 DEF FileInv, EditInv
  <1>8. /\ p \notin stranded /\ state.loading => \E l \in loads : l.path = p
        /\ \A l \in loads : l.owned => l.path = viewed
    BY <1>3 DEF FileInv, RequestInv, LoadingHasRequest
  <1>9. state.loaded /\ state.draft # state.saved => IsDirty(p)
    BY <1>3 DEF IsDirty
  <1> QED BY ZenonT(60), <1>1, <1>2, <1>3, <1>5, <1>6, <1>7, <1>8, <1>9, AnswerKeeps DEF FileTypes

\* A load that failed, or a save, is tried again.
LEMMA RetryKeeps ==
  ASSUME FileInv, NEW p \in Paths, RetryFileLoad(p)
  PROVE  FileInv'
  <1> DEFINE again == NeedsLoad(fileState[p])
             state == [fileState[p] EXCEPT !.loaded = FALSE, !.loading = again, !.error = "none"]
             r == Read(p, FALSE)
  <1>1. /\ fileState[p].error # "none"
        /\ fileState' = [fileState EXCEPT ![p] = state]
        /\ loads' = IF again THEN loads \cup {r} ELSE loads
        /\ stranded' = IF again THEN stranded \ {p} ELSE stranded \cup {p}
        /\ exposed' = IF fileState[p].loaded THEN exposed \cup {p} ELSE exposed
        /\ UNCHANGED <<viewed, fileTabs, saves, disk, typed, newest>>
    BY DEF RetryFileLoad
  <1>2. FileTypes /\ fileState[p] \in FileRecords(Typed)
    BY FileFacts DEF FileInv
  <1>3. again \in BOOLEAN /\ (again => ~fileState[p].loaded)
    BY <1>2 DEF NeedsLoad, FileRecords
  <1> HIDE DEF again
  <1>4. /\ state \in FileRecords(Typed) /\ ~state.loaded /\ state.loading = again
        /\ state.known = fileState[p].known
    BY <1>2, <1>3 DEF FileRecords
  <1>5. r \in LoadRecords(Typed) /\ r.path = p /\ r.text = Unread /\ ~r.owned
    BY DEF Read, LoadRecords
  <1> HIDE DEF state, r
  <1>6. state.known
    <2>1. Absent.error = "none"
      BY DEF Absent, Initial
    <2> QED BY <1>1, <1>4, <2>1 DEF FileInv, RequestInv
  <1>7. /\ loads' \subseteq LoadRecords(Typed)
        /\ \A l : l.path # p => (l \in loads' <=> l \in loads)
        /\ \A l \in loads' : l.owned => l.path = viewed
    BY <1>1, <1>2, <1>5 DEF FileTypes, FileInv, RequestInv
  <1>8. /\ exposed' \subseteq Paths /\ stranded' \subseteq Paths
        /\ \A q \in Paths : q # p => /\ q \in exposed' <=> q \in exposed
                                     /\ q \in stranded' <=> q \in stranded
    BY <1>1, <1>2 DEF FileTypes
  <1>9. p \notin stranded' => again /\ \E l \in loads' : l.path = p
    BY <1>1, <1>5
  <1>10. ASSUME newest[p] # NoText, p \notin exposed'
         PROVE  /\ disk[p] = newest[p]
                /\ \A l \in loads' : l.path = p => l.text \in {Unread, newest[p]}
                /\ \A s \in saves' : s.path = p => s.text = newest[p]
    <2>1. ~fileState[p].loaded /\ p \notin exposed
      BY <1>1, <1>10
    <2>2. EditInv(p)
      BY DEF FileInv
    <2> QED BY <1>1, <1>5, <1>10, <2>1, <2>2 DEF EditInv
  <1>11. saves' \subseteq SaveRecords(Typed)
    BY <1>1, <1>2 DEF FileTypes
  <1>12. state.loaded /\ state.draft # state.saved => IsDirty(p)
    BY <1>4
  <1> QED BY <1>1, <1>4, <1>6, <1>7, <1>8, <1>9, <1>10, <1>11, <1>12, AnswerKeeps

\* A read is answered, or fails.
LEMMA LoadAnswerKeeps ==
  ASSUME FileInv, NEW l \in loads, LoadAnswered(l) \/ LoadFails(l)
  PROVE  FileInv'
  <1> DEFINE p == l.path
  <1>1. /\ loads' = loads \ {l}
        /\ UNCHANGED <<viewed, fileTabs, saves, disk, typed, newest, exposed>>
    BY DEF LoadAnswered, LoadFails
  <1>2. FileTypes /\ l \in LoadRecords(Typed) /\ p \in Paths /\ fileState[p] \in FileRecords(Typed)
    BY FileFacts DEF FileInv, FileTypes, LoadRecords
  <1>3. PICK state \in FileRecords(Typed) :
           /\ fileState' = [fileState EXCEPT ![p] = state]
           /\ state.known /\ ~state.loading
           /\ \/ /\ l.text # Unread /\ state.loaded
                 /\ state.saved = l.text /\ state.draft = l.text
              \/ ~state.loaded /\ state.error = "load"
    <2>1. CASE LoadAnswered(l)
      <3> DEFINE s == [Initial EXCEPT !.saved = l.text, !.draft = l.text, !.loaded = TRUE]
      <3>1. l.text \in Typed /\ l.text # Unread
        BY <1>2, <2>1 DEF LoadAnswered, LoadRecords
      <3>2. /\ s \in FileRecords(Typed) /\ s.known /\ ~s.loading /\ s.loaded
            /\ s.saved = l.text /\ s.draft = l.text
        BY <3>1 DEF Initial, FileRecords, NoText
      <3>3. fileState' = [fileState EXCEPT ![p] = s]
        BY <2>1 DEF LoadAnswered
      <3> HIDE DEF s
      <3> QED BY <3>1, <3>2, <3>3
    <2>2. CASE LoadFails(l)
      <3> DEFINE s == [Current(p) EXCEPT !.loading = FALSE, !.loaded = FALSE,
                                         !.saving = FALSE, !.error = "load"]
      <3>1. s \in FileRecords(Typed) /\ s.known /\ ~s.loading /\ ~s.loaded /\ s.error = "load"
        BY <1>2 DEF Current, FileRecords
      <3>2. fileState' = [fileState EXCEPT ![p] = s]
        BY <2>2 DEF LoadFails
      <3> HIDE DEF s
      <3> QED BY <3>1, <3>2
    <2> QED BY <2>1, <2>2
  <1>4. stranded' = stranded \ {p} \/ stranded' = stranded
    BY DEF LoadAnswered, LoadFails
  <1>5. /\ loads' \subseteq LoadRecords(Typed)
        /\ \A m : m.path # p => (m \in loads' <=> m \in loads)
        /\ \A m \in loads' : m.owned => m.path = viewed
    BY <1>1, <1>2 DEF FileTypes, FileInv, RequestInv
  <1>6. /\ exposed' \subseteq Paths /\ stranded' \subseteq Paths
        /\ saves' \subseteq SaveRecords(Typed)
        /\ \A q \in Paths : q # p => /\ q \in exposed' <=> q \in exposed
                                     /\ q \in stranded' <=> q \in stranded
    BY <1>1, <1>2, <1>4 DEF FileTypes
  <1>7. ASSUME newest[p] # NoText, p \notin exposed'
        PROVE  /\ disk[p] = newest[p] /\ (state.loaded => state.draft = newest[p])
               /\ \A m \in loads' : m.path = p => m.text \in {Unread, newest[p]}
               /\ \A s \in saves' : s.path = p => s.text = newest[p]
    <2>1. EditInv(p) /\ p \notin exposed
      BY <1>1, <1>2, <1>7 DEF FileInv
    <2> QED BY <1>1, <1>3, <1>7, <2>1 DEF EditInv
  <1> HIDE DEF p
  <1>8. state.loaded /\ state.draft # state.saved => IsDirty(p)
    BY <1>3
  <1>9. state.loaded \/ state.error # "none"
    BY <1>3
  <1> QED BY <1>1, <1>2, <1>3, <1>5, <1>6, <1>7, <1>8, <1>9, AnswerKeeps

\* A write is answered, or fails.
LEMMA SaveAnswerKeeps ==
  ASSUME FileInv, NEW w \in saves, SaveAnswered(w) \/ SaveFails(w)
  PROVE  FileInv'
  <1> DEFINE p == w.path
  <1>1. /\ saves' = saves \ {w}
        /\ UNCHANGED <<viewed, fileTabs, loads, disk, typed, newest, exposed, stranded>>
    BY DEF SaveAnswered, SaveFails
  <1>2. FileTypes /\ w \in SaveRecords(Typed) /\ p \in Paths /\ fileState[p] \in FileRecords(Typed)
    BY FileFacts DEF FileInv, FileTypes, SaveRecords
  <1>3. PICK state \in FileRecords(Typed) :
           /\ fileState' = [fileState EXCEPT ![p] = state]
           /\ state.known /\ state.loading = fileState[p].loading
           /\ \/ /\ w.written /\ state.loaded
                 /\ state.saved = w.text /\ state.draft = w.text
              \/ /\ state.loaded = fileState[p].loaded /\ state.error = "save"
                 /\ state.saved = fileState[p].saved /\ state.draft = fileState[p].draft
    <2>1. CASE SaveAnswered(w)
      <3> DEFINE s == [Current(p) EXCEPT !.saved = w.text, !.draft = w.text,
                                         !.saving = FALSE, !.loaded = TRUE, !.error = "none"]
      <3>1. /\ s \in FileRecords(Typed) /\ s.known /\ s.loading = fileState[p].loading
            /\ s.loaded /\ s.saved = w.text /\ s.draft = w.text
        BY <1>2 DEF Current, FileRecords, SaveRecords
      <3>2. fileState' = [fileState EXCEPT ![p] = s] /\ w.written
        BY <2>1 DEF SaveAnswered
      <3> HIDE DEF s
      <3> QED BY <3>1, <3>2
    <2>2. CASE SaveFails(w)
      <3> DEFINE s == [Current(p) EXCEPT !.saving = FALSE, !.error = "save"]
      <3>1. /\ s \in FileRecords(Typed) /\ s.known /\ s.loading = fileState[p].loading
            /\ s.loaded = fileState[p].loaded /\ s.error = "save"
            /\ s.saved = fileState[p].saved /\ s.draft = fileState[p].draft
        BY <1>2 DEF Current, FileRecords
      <3>2. fileState' = [fileState EXCEPT ![p] = s]
        BY <2>2 DEF SaveFails
      <3> HIDE DEF s
      <3> QED BY <3>1, <3>2
    <2> QED BY <2>1, <2>2
  <1>4. saves' \subseteq SaveRecords(Typed) /\ \A s : s.path # p => (s \in saves' <=> s \in saves)
    BY <1>1, <1>2 DEF FileTypes
  <1>5. ASSUME newest[p] # NoText, p \notin exposed
        PROVE  /\ state.loaded => state.draft = newest[p]
               /\ state.loaded /\ state.saved = newest[p] => disk[p] = newest[p]
               /\ ~state.loaded => disk[p] = newest[p]
               /\ \A l \in loads : l.path = p =>
                     disk[p] = newest[p] /\ l.text \in {Unread, newest[p]}
               /\ \A s \in saves' : s.path = p =>
                     s.text = newest[p] /\ (s.written => disk[p] = newest[p])
    <2>1. EditInv(p)
      BY <1>2 DEF FileInv
    <2> QED BY <1>1, <1>3, <1>5, <2>1 DEF EditInv
  <1>6. /\ p \notin stranded /\ state.loading => \E l \in loads : l.path = p
        /\ \A l \in loads : l.owned => l.path = viewed
    BY <1>2, <1>3 DEF FileInv, RequestInv, LoadingHasRequest
  <1>7. p \notin stranded /\ viewed = p => \/ state.loaded \/ state.error # "none"
                                           \/ \E l \in loads : l.path = p
    BY <1>3
  <1>8. state.loaded /\ state.draft # state.saved => IsDirty(p)
    BY <1>3 DEF IsDirty
  <1> HIDE DEF p
  <1> QED BY <1>1, <1>2, <1>3, <1>4, <1>5, <1>6, <1>7, <1>8, AnswerKeeps DEF FileTypes

\* The runtime reads or writes a file.
LEMMA ServeKeeps ==
  ASSUME FileInv, (\E l \in loads : ServeRead(l)) \/ (\E w \in saves : ServeWrite(w))
  PROVE  FileInv'
  <1>1. UNCHANGED <<viewed, fileTabs, fileState, typed, newest, exposed, stranded>>
    BY DEF ServeRead, ServeWrite
  <1>2. FileTypes /\ Typed' = Typed
    BY <1>1 DEF FileInv, Typed
  <1>3. TabsInv'
    BY <1>1 DEF FileInv, TabsInv, IsDirty
  <1>4. ASSUME NEW l \in loads, ServeRead(l) PROVE FileInv'
    <2> DEFINE m == [l EXCEPT !.text = disk[l.path]]
    <2>1. loads' = (loads \ {l}) \cup {m} /\ UNCHANGED <<saves, disk>>
      BY <1>4 DEF ServeRead
    <2>2. l \in LoadRecords(Typed) /\ l.path \in Paths /\ disk[l.path] \in Typed
      BY <1>2 DEF FileTypes, LoadRecords
    <2>3. /\ m \in LoadRecords(Typed) /\ m.path = l.path /\ m.owned = l.owned
          /\ m.text = disk[l.path]
      BY <2>2 DEF LoadRecords
    <2> HIDE DEF m
    <2>4. FileTypes'
      BY <1>1, <1>2, <2>1, <2>3 DEF FileTypes
    <2>5. \A p \in Paths : (\E k \in loads : k.path = p) => \E k \in loads' : k.path = p
      BY <2>1, <2>3
    <2>6. RequestInv'
      <3>1. \A k \in loads' : k.owned => k.path = viewed
        BY <2>1, <2>3 DEF FileInv, RequestInv
      <3> QED BY <1>1, <2>5, <3>1 DEF FileInv, RequestInv, LoadingHasRequest
    <2>7. ASSUME NEW p \in Paths PROVE EditInv(p)'
      <3>1. EditInv(p)
        BY DEF FileInv
      <3> QED BY <1>1, <2>1, <2>3, <3>1 DEF EditInv, Unread
    <2> QED BY <1>3, <2>4, <2>6, <2>7 DEF FileInv
  <1>5. ASSUME NEW w \in saves, ServeWrite(w) PROVE FileInv'
    <2> DEFINE x == [w EXCEPT !.written = TRUE]
    <2>1. /\ saves' = (saves \ {w}) \cup {x} /\ loads' = loads
          /\ disk' = [disk EXCEPT ![w.path] = w.text]
      BY <1>5 DEF ServeWrite
    <2>2. w \in SaveRecords(Typed) /\ w.path \in Paths /\ w.text \in Typed
      BY <1>2 DEF FileTypes, SaveRecords
    <2>3. x \in SaveRecords(Typed) /\ x.path = w.path /\ x.text = w.text
      BY <2>2 DEF SaveRecords
    <2> HIDE DEF x
    <2>4. /\ disk' \in [Paths -> Typed] /\ disk'[w.path] = w.text
          /\ \A p \in Paths : p # w.path => disk'[p] = disk[p]
      BY <1>2, <2>1, <2>2 DEF FileTypes
    <2>5. FileTypes'
      BY <1>1, <1>2, <2>1, <2>3, <2>4 DEF FileTypes
    <2>6. RequestInv'
      BY <1>1, <2>1 DEF FileInv, RequestInv, LoadingHasRequest
    <2>7. ASSUME NEW p \in Paths PROVE EditInv(p)'
      <3>1. EditInv(p)
        BY DEF FileInv
      <3>2. CASE p # w.path
        BY <1>1, <2>1, <2>3, <2>4, <3>1, <3>2 DEF EditInv, Unread
      <3>3. CASE p = w.path
        BY <1>1, <2>1, <2>3, <2>4, <3>1, <3>3 DEF EditInv, Unread
      <3> QED BY <3>2, <3>3
    <2> QED BY <1>3, <2>5, <2>6, <2>7 DEF FileInv
  <1> QED BY <1>4, <1>5

\* The user types a new text.
LEMMA TypingKeeps ==
  ASSUME FileInv, NEW p \in Paths, DraftChange(p)
  PROVE  FileInv'
  <1> DEFINE state == [fileState[p] EXCEPT !.draft = typed + 1, !.error = "none"]
  <1>1. /\ viewed = p /\ ~fileState[p].loading /\ fileState[p].loaded
        /\ typed < MaxTexts /\ typed' = typed + 1
        /\ fileTabs' = PinTab(p)
        /\ fileState' = [fileState EXCEPT ![p] = state]
        /\ newest' = [newest EXCEPT ![p] = typed + 1]
        /\ exposed' = IF InFlight(p) THEN exposed \cup {p} ELSE exposed \ {p}
        /\ UNCHANGED <<viewed, loads, saves, disk, stranded>>
    BY DEF DraftChange, Editable
  <1>2. FileTypes /\ fileState[p] \in FileRecords(Typed) /\ MaxTexts \in Nat /\ typed \in Nat
    BY FileFacts, FileAssumption DEF FileInv, FileTypes
  <1>3. /\ Typed \subseteq Typed' /\ typed + 1 \in Typed' /\ typed + 1 \notin Typed
        /\ typed + 1 # NoText /\ typed' \in Nat /\ typed' <= MaxTexts
    BY <1>1, <1>2 DEF Typed, NoText
  <1> DEFINE texts == Typed'
  <1>4. Typed \subseteq texts /\ typed + 1 \in texts
    BY <1>3
  <1> HIDE DEF texts
  <1>5. /\ FileRecords(Typed) \subseteq FileRecords(texts)
        /\ LoadRecords(Typed) \subseteq LoadRecords(texts)
        /\ SaveRecords(Typed) \subseteq SaveRecords(texts)
    BY <1>4 DEF FileRecords, LoadRecords, SaveRecords
  <1>6. /\ state \in FileRecords(texts) /\ state.loaded /\ ~state.loading
        /\ state.draft = typed + 1 /\ state.saved = fileState[p].saved
        /\ state.known = fileState[p].known
    <2>1. fileState[p] \in FileRecords(texts)
      BY <1>2, <1>5
    <2> QED BY <1>1, <1>4, <2>1 DEF FileRecords
  <1> HIDE DEF state
  <1>7. /\ fileState' \in [Paths -> FileRecords(texts)] /\ fileState'[p] = state
        /\ \A q \in Paths : q # p => fileState'[q] = fileState[q]
    BY <1>1, <1>2, <1>5, <1>6 DEF FileTypes
  <1>8. /\ newest' \in [Paths -> texts] /\ newest'[p] = typed + 1
        /\ \A q \in Paths : q # p => newest'[q] = newest[q]
    BY <1>1, <1>2, <1>4 DEF FileTypes
  <1>9. /\ fileTabs' \in Seq(TabRecords) /\ SoundTabs(fileTabs')
        /\ \A q : Shows(fileTabs, q) => Shows(fileTabs', q)
        /\ \A q : Pins(fileTabs, q) => Pins(fileTabs', q)
        /\ Pins(fileTabs', p)
    <2>1. fileTabs \in Seq(TabRecords) /\ SoundTabs(fileTabs) /\ Shows(fileTabs, p)
      BY <1>1, FileAssumption DEF FileInv, FileTypes, TabsInv
    <2> QED BY <1>1, <2>1, PinnedTabs
  <1>10. FileTypes'
    <2>1. loads' \subseteq LoadRecords(texts) /\ saves' \subseteq SaveRecords(texts)
      BY <1>1, <1>2, <1>5 DEF FileTypes
    <2>2. disk' \in [Paths -> texts] /\ exposed' \subseteq Paths /\ stranded' \subseteq Paths
      BY <1>1, <1>2, <1>4 DEF FileTypes
    <2> QED BY <1>1, <1>2, <1>3, <1>7, <1>8, <1>9, <2>1, <2>2 DEF FileTypes, texts
  <1>11. TabsInv'
    <2>1. ASSUME NEW q \in Paths, IsDirty(q)' PROVE Pins(fileTabs', q)
      <3>1. CASE q = p
        BY <1>9, <3>1
      <3>2. CASE q # p
        BY <1>7, <1>9, <2>1, <3>2 DEF IsDirty, FileInv, TabsInv
      <3> QED BY <3>1, <3>2
    <2> QED BY <1>1, <1>9, <2>1 DEF FileInv, TabsInv
  <1>12. RequestInv'
    <2>1. fileState[p].known
      BY <1>1, <1>2, FileFacts DEF FileInv, RequestInv
    <2> QED BY <1>1, <1>6, <1>7, <2>1 DEF FileInv, RequestInv, LoadingHasRequest
  <1>13. ASSUME NEW q \in Paths PROVE EditInv(q)'
    <2>1. EditInv(q)
      BY DEF FileInv
    <2>2. CASE q # p
      BY <1>1, <1>7, <1>8, <2>1, <2>2 DEF EditInv, Unread
    <2>3. CASE q = p
      <3>1. q \notin exposed' => /\ \A l \in loads : l.path # p
                                 /\ \A s \in saves : s.path # p
        BY <1>1, <2>3 DEF InFlight
      <3>2. state.saved # typed + 1
        BY <1>2, <1>3, <1>6 DEF FileRecords
      <3> QED BY <1>1, <1>6, <1>7, <1>8, <2>3, <3>1, <3>2 DEF EditInv
    <2> QED BY <2>2, <2>3
  <1> QED BY <1>10, <1>11, <1>12, <1>13 DEF FileInv

-----------------------------------------------------------------------------
\* Every step keeps the invariant.
LEMMA FileInvKept ==
  ASSUME FileInv, [FileNext]_fileVars
  PROVE  FileInv'
  <1>1. CASE UNCHANGED fileVars
    BY <1>1 DEF fileVars, FileInv, FileTypes, TabsInv, RequestInv, EditInv, Typed, IsDirty,
                LoadingHasRequest, Unread
  <1>2. ASSUME NEW p \in Paths,
               \/ OpenReadFile(p) \/ SelectFileTab(p) \/ PinFileTab(p) \/ CloseFileTab(p)
               \/ DraftChange(p) \/ SaveActiveFile(p) \/ RetryFileLoad(p)
        PROVE  FileInv'
    BY <1>2, OpenKeeps, LookKeeps, CloseKeeps, TypingKeeps, SaveKeeps, RetryKeeps
  <1>3. CASE LeaveFiles
    BY <1>3, LookKeeps
  <1>4. ASSUME NEW l \in loads, ServeRead(l) \/ LoadAnswered(l) \/ LoadFails(l) PROVE FileInv'
    BY <1>4, ServeKeeps, LoadAnswerKeeps
  <1>5. ASSUME NEW s \in saves, ServeWrite(s) \/ SaveAnswered(s) \/ SaveFails(s) PROVE FileInv'
    BY <1>5, ServeKeeps, SaveAnswerKeeps
  <1> QED BY <1>1, <1>2, <1>3, <1>4, <1>5 DEF FileNext

\* The invariant implies what the run checks.
LEMMA FileInvSuffices == FileInv => FilesAreTended
  <1> SUFFICES ASSUME FileInv PROVE FilesAreTended
    OBVIOUS
  <1>1. EditsAreKept
    BY DEF FileInv, EditInv, EditsAreKept
  <1>2. LoadingHasRequest
    BY DEF FileInv, RequestInv
  <1>3. TabsAreSound
    <2>1. SoundTabs(fileTabs) /\ \A i, j \in Previews : i = j
      BY DEF FileInv, TabsInv, SoundTabs, Previews
    <2>2. Cardinality(Previews) <= 1
      <3>1. CASE Previews = {}
        BY <3>1, FS_EmptySet
      <3>2. ASSUME NEW i \in Previews PROVE Cardinality(Previews) <= 1
        <4>1. Previews = {i}
          BY <2>1
        <4>2. Cardinality({i}) = 1
          BY FS_Singleton
        <4> QED BY <4>1, <4>2
      <3> QED BY <3>1, <3>2
    <2>3. \A i, j \in DOMAIN fileTabs : fileTabs[i].path = fileTabs[j].path => i = j
      BY <2>1 DEF SoundTabs
    <2>4. viewed # NoPath => HasTab(viewed)
      BY DEF FileInv, TabsInv, HasTab, Shows
    <2>5. ASSUME NEW p \in Paths, IsDirty(p) PROVE HasTab(p) /\ fileTabs[PlaceOf(p)].pinned
      <3>1. PICK i \in DOMAIN fileTabs : fileTabs[i].path = p /\ fileTabs[i].pinned
        BY <2>5 DEF FileInv, TabsInv, Pins
      <3>2. PlaceOf(p) \in DOMAIN fileTabs /\ fileTabs[PlaceOf(p)].path = p
        BY <3>1 DEF PlaceOf
      <3>3. PlaceOf(p) = i
        BY <2>3, <3>1, <3>2
      <3> QED BY <3>1, <3>3 DEF HasTab
    <2> QED BY <2>2, <2>3, <2>4, <2>5 DEF TabsAreSound
  <1> QED BY <1>1, <1>2, <1>3 DEF FilesAreTended

\* The editor loses neither text nor tabs and waits for nothing that does not come
\* (useWorkspaceFileEditor.ts), for every number of files, texts, requests and failures.
THEOREM FilesHold == FileSpec => []FilesAreTended
  <1>1. FileInv /\ [FileNext]_fileVars => FileInv'
    BY FileInvKept
  <1> QED BY FileAtFirst, <1>1, FileInvSuffices, PTL DEF FileSpec

-----------------------------------------------------------------------------
(* The three parts beside each other.                                      *)
-----------------------------------------------------------------------------
\* A step of the run is a step of each stream, or leaves it alone.
LEMMA StreamsStep ==
  [StreamsNext]_<<streamVars, liveVars, fileVars>>
     => [StreamNext]_streamVars /\ [LiveNext]_liveVars /\ [FileNext]_fileVars
  BY DEF StreamsNext

\* What the three parts keep to.
LEMMA StreamsInvariant == StreamsSpec => [](StreamInv /\ LiveInv /\ FileInv)
  <1>1. StreamsInit => StreamInv /\ LiveInv /\ FileInv
    BY InvariantAtFirst, LiveAtFirst, FileAtFirst DEF StreamsInit
  <1>2. StreamInv /\ LiveInv /\ FileInv /\ [StreamsNext]_<<streamVars, liveVars, fileVars>>
           => (StreamInv /\ LiveInv /\ FileInv)'
    BY StreamsStep, StreamInvKept, LiveInvKept, FileInvKept
  <1> QED BY <1>1, <1>2, PTL DEF StreamsSpec

\* The types of both streams (useThreadEventStream.ts, workspaceLiveUpdateService.ts).
THEOREM StreamsTypesHold == StreamsSpec => []StreamsTypeOK
  <1>1. StreamInv /\ LiveInv => StreamsTypeOK
    BY InvariantTypes, LiveInvSuffices DEF StreamsTypeOK
  <1> QED BY <1>1, StreamsInvariant, PTL

\* No stream goes on behind something its client has missed (chats.ts:50,
\* workspaceLiveUpdateService.ts:153).
THEOREM NothingIsEverSkipped == StreamsSpec => []NothingIsSkipped
  <1>1. StreamInv /\ LiveInv => NothingIsSkipped
    BY InvariantShows, LiveInvSuffices DEF NothingIsSkipped
  <1> QED BY <1>1, StreamsInvariant, PTL

\* The editor of files beside the streams: no text is lost, and no tab
\* (useWorkspaceFileEditor.ts).
THEOREM FilesAreAlwaysTended == StreamsSpec => []FilesAreTended
  BY StreamsInvariant, FileInvSuffices, PTL

=============================================================================
