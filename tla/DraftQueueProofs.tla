-------------------------- MODULE DraftQueueProofs --------------------------
(***************************************************************************)
(* Proofs about the draft queue of a thread and its dispatcher             *)
(* (DraftQueue), for every set of calls, every choice of their endpoints,  *)
(* every degree of overlap and whatever the runner does.                   *)
(***************************************************************************)
EXTENDS DraftQueue, ThreadRunProofs, SequenceTheorems, WellFoundedInduction

(***************************************************************************)
(* The invariant.  RowsInv relates the table to the time of request, to    *)
(* the status of a row and to the call that made it; DispInv says where    *)
(* the dispatcher's draft is, OrderInv that no draft that waits stands     *)
(* before the one picked in its turn, SentInv what a draft that was stored *)
(* as a message has come to.                                               *)
(***************************************************************************)
RowStatus == {"queued", "requested", "dispatching"}
Searches  == {"idle", "select", "select_queued"}
DispSteps == Searches \cup {"mark", "show", "store", "remove", "announce", "finish"}
HandSteps == {"idle", "due", "look", "cancel", "kick"}

DraftTypes ==
  /\ queue \in Seq(Drafts) /\ asked \in Seq(Drafts)
  /\ st \in [Calls -> RowStatus \cup {"none", "gone"}]
  /\ canceled \subseteq Drafts
  /\ disp \in [step : DispSteps, draft : Drafts \cup {None}, was : RowStatus \cup {"none"}]
  /\ hand \in [Calls -> [step : HandSteps, cur : Slots]]
  /\ sent \in [Calls -> Nat]

\* A row stands in its list once.
Once(s) == \A i, k \in DOMAIN s : s[i] = s[k] => i = k

\* x stands before y.
Precedes(s, x, y) == \E i, k \in DOMAIN s : i < k /\ s[i] = x /\ s[k] = y

RowsInv ==
  /\ Once(queue) /\ Once(asked)
  /\ ToSet(asked) \subseteq Rows
  /\ \A d \in Drafts : d \in Rows <=> st[d] \in RowStatus
  /\ \A d \in Drafts : pc[d] = "idle" => st[d] = "none"

DispInv ==
  /\ disp.draft = None <=> disp.step \in Searches
  /\ disp.draft # None => st[disp.draft] # "none"
  /\ disp.step \in {"announce", "finish"} => st[disp.draft] = "gone"
  /\ DispatchingIsAtWork

OrderInv ==
  disp.was = "queued" /\ disp.step \in {"mark", "show", "store"} =>
    \A d \in Waiting : ~Precedes(queue, d, disp.draft)

SentInv ==
  /\ \A d \in Drafts : sent[d] <= 1
  /\ disp.step \in {"mark", "show", "store"} => sent[disp.draft] = 0
  /\ \A d \in Drafts : sent[d] > 0 =>
       \/ disp.draft = d /\ disp.step = "remove"
       \/ st[d] = "gone" /\ disp.draft = d /\ disp.step = "announce"
       \/ st[d] = "gone" /\ job[d] # "none"

DraftInv == TypeOK /\ DraftTypes /\ RowsInv /\ DispInv /\ OrderInv

(***************************************************************************)
(* When no runner uses tools, no hand-off is ever due, and whatever is in  *)
(* the slot has an owner: a timer, a controller, a call that has reserved  *)
(* it or the dispatcher.                                                   *)
(***************************************************************************)
NoHands == \A j \in Calls : hand[j].step = "idle" /\ "tool" \notin did[j]

SlotHasJob ==
  \A j \in Calls : /\ run.timer = j => job[j] = "timer"
                   /\ run.ctl = j => job[j] \in {"running", "closing"}

FreshTurn == \A c \in Calls \ Drafts : pc[c] \notin Past => job[c] = "none"

SlotHasHolder == SlotHasOwner \/ disp.step \in {"store", "remove", "announce"}

OwnersInv == NoHands /\ SlotHasJob /\ FreshTurn /\ SlotHasHolder

(***************************************************************************)
(* Lists of rows.                                                          *)
(***************************************************************************)

\* What stands in a list stands at one of its places.
LEMMA StandsSomewhere ==
  ASSUME NEW s, NEW x \in ToSet(s)
  PROVE  \E i \in DOMAIN s : s[i] = x
  BY DEF ToSet

\* A row put last stands behind all others, which keep their places.
LEMMA AppendHolds ==
  ASSUME NEW T, NEW s \in Seq(T), NEW e \in T
  PROVE  /\ Append(s, e) \in Seq(T)
         /\ ToSet(Append(s, e)) = ToSet(s) \cup {e}
         /\ Once(s) /\ e \notin ToSet(s) => Once(Append(s, e))
         /\ \A x, y : Precedes(Append(s, e), x, y) => Precedes(s, x, y) \/ y = e
  <1> DEFINE t == Append(s, e)
             n == Len(s)
  <1>1. /\ t \in Seq(T) /\ Len(t) = n + 1
        /\ \A i \in 1..n : t[i] = s[i]
        /\ t[n + 1] = e
    BY AppendProperties
  <1>2. n \in Nat /\ DOMAIN s = 1..n /\ DOMAIN t = 1..(n + 1)
    BY <1>1
  <1> HIDE DEF t, n
  <1>3. /\ \A i \in DOMAIN s : i \in DOMAIN t /\ t[i] = s[i] /\ i < n + 1
        /\ n + 1 \in DOMAIN t /\ t[n + 1] = e
        /\ \A i \in DOMAIN t : i \in DOMAIN s \/ i = n + 1
        /\ \A i \in DOMAIN t : ~(n + 1 < i)
    BY <1>1, <1>2
  <1>4. ToSet(t) = ToSet(s) \cup {e}
    BY <1>3 DEF ToSet
  <1>5. ASSUME Once(s), e \notin ToSet(s) PROVE Once(t)
    BY <1>3, <1>5 DEF Once, ToSet
  <1>6. ASSUME NEW x, NEW y, Precedes(t, x, y), y # e PROVE Precedes(s, x, y)
    BY <1>3, <1>6 DEF Precedes
  <1> QED BY <1>1, <1>4, <1>5, <1>6 DEF t

\* A row put first stands before all others.
LEMMA PrependHolds ==
  ASSUME NEW T, NEW s \in Seq(T), NEW e \in T
  PROVE  /\ <<e>> \o s \in Seq(T)
         /\ ToSet(<<e>> \o s) = ToSet(s) \cup {e}
         /\ Once(s) /\ e \notin ToSet(s) => Once(<<e>> \o s)
  <1> DEFINE o == <<e>>
             t == o \o s
             n == Len(s)
  <1>1. o \in Seq(T) /\ Len(o) = 1 /\ o[1] = e
    OBVIOUS
  <1> HIDE DEF o
  <1>2. /\ t \in Seq(T) /\ Len(t) = 1 + n
        /\ \A i \in 1..(1 + n) : t[i] = IF i <= 1 THEN o[i] ELSE s[i - 1]
    <2>1. /\ t \in Seq(T) /\ Len(t) = Len(o) + n
          /\ \A i \in 1..(Len(o) + n) : t[i] = IF i <= Len(o) THEN o[i] ELSE s[i - Len(o)]
      BY <1>1, ConcatProperties, Zenon
    <2> QED BY ONLY <1>1, <2>1
  <1>3. n \in Nat /\ DOMAIN s = 1..n /\ DOMAIN t = 1..(1 + n)
    BY <1>2
  <1> HIDE DEF t, n
  <1>4. 1 \in DOMAIN t /\ t[1] = e
    BY <1>1, <1>2, <1>3
  <1>5. ASSUME NEW i \in DOMAIN s PROVE i + 1 \in DOMAIN t /\ t[i + 1] = s[i]
    <2>1. i \in 1..n /\ i + 1 \in 1..(1 + n) /\ ~(i + 1 <= 1) /\ (i + 1) - 1 = i
      BY <1>3
    <2> QED BY <1>2, <1>3, <2>1
  <1>6. ASSUME NEW i \in DOMAIN t, i # 1 PROVE i - 1 \in DOMAIN s /\ t[i] = s[i - 1]
    BY <1>2, <1>3, <1>6
  <1>7. ToSet(t) = ToSet(s) \cup {e}
    BY <1>4, <1>5, <1>6 DEF ToSet
  <1>8. ASSUME Once(s), e \notin ToSet(s), NEW i \in DOMAIN t, NEW k \in DOMAIN t, t[i] = t[k]
        PROVE  i = k
    <2>1. i # 1 => t[i] # e
      BY <1>6, <1>8 DEF ToSet
    <2>2. k # 1 => t[k] # e
      BY <1>6, <1>8 DEF ToSet
    <2>3. CASE i = 1 \/ k = 1
      BY <1>4, <1>8, <2>1, <2>2, <2>3
    <2>4. CASE i # 1 /\ k # 1
      <3>1. i - 1 = k - 1
        BY <1>6, <1>8, <2>4 DEF Once
      <3>2. i \in Nat /\ k \in Nat
        BY <1>3
      <3> QED BY <3>1, <3>2
    <2> QED BY <2>3, <2>4
  <1>9. ASSUME Once(s), e \notin ToSet(s) PROVE Once(t)
    BY <1>8, <1>9 DEF Once
  <1> QED BY <1>2, <1>7, <1>9 DEF t, o

\* Taking out the row at one place leaves the others in their order.
LEMMA TakenOut ==
  ASSUME NEW T, NEW s \in Seq(T), NEW n \in DOMAIN s
  PROVE  LET t == RemoveAt(s, n) IN
         /\ t \in Seq(T)
         /\ \E f \in [DOMAIN t -> DOMAIN s] :
               /\ \A i \in DOMAIN t : t[i] = s[f[i]] /\ f[i] # n
               /\ \A i, k \in DOMAIN t : i < k => f[i] < f[k]
               /\ \A k \in DOMAIN s : k # n => \E i \in DOMAIN t : f[i] = k
  <1> DEFINE a == SubSeq(s, 1, n - 1)
             b == SubSeq(s, n + 1, Len(s))
             l == Len(s)
  <1>1. n \in 1..l /\ l \in Nat /\ DOMAIN s = 1..l
    OBVIOUS
  <1>2. a \in Seq(T) /\ Len(a) = n - 1 /\ \A i \in 1..(n - 1) : a[i] = s[i]
    BY <1>1
  <1>3. b \in Seq(T) /\ Len(b) = l - n /\ \A i \in 1..(l - n) : b[i] = s[n + i]
    BY <1>1
  <1> DEFINE t == a \o b
  <1> HIDE DEF a, b, l
  <1>4. /\ t \in Seq(T)
        /\ Len(t) = Len(a) + Len(b)
        /\ \A i \in 1..(Len(a) + Len(b)) : t[i] = IF i <= Len(a) THEN a[i] ELSE b[i - Len(a)]
    BY <1>2, <1>3, ConcatProperties
  <1>5. DOMAIN t = 1..(l - 1)
    BY <1>1, <1>2, <1>3, <1>4
  <1> HIDE DEF t
  <1> DEFINE f == [i \in 1..(l - 1) |-> IF i <= n - 1 THEN i ELSE i + 1]
  <1>6. f \in [1..(l - 1) -> 1..l]
    BY <1>1
  <1>7. ASSUME NEW i \in 1..(l - 1) PROVE t[i] = s[f[i]] /\ f[i] # n
    <2>1. CASE i <= n - 1
      BY <1>1, <1>2, <1>3, <1>4, <2>1
    <2>2. CASE ~(i <= n - 1)
      <3>1. i - (n - 1) \in 1..(l - n) /\ n + (i - (n - 1)) = i + 1 /\ i + 1 # n
        BY <1>1, <2>2
      <3>2. t[i] = b[i - (n - 1)]
        BY <1>1, <1>2, <1>3, <1>4, <2>2
      <3>3. t[i] = s[i + 1]
        BY <1>3, <3>1, <3>2
      <3> QED BY <2>2, <3>1, <3>3
    <2> QED BY <2>1, <2>2
  <1>8. ASSUME NEW i \in 1..(l - 1), NEW k \in 1..(l - 1), i < k PROVE f[i] < f[k]
    BY <1>1, <1>8
  <1>9. ASSUME NEW k \in 1..l, k # n PROVE \E i \in 1..(l - 1) : f[i] = k
    <2>1. CASE k < n
      <3>1. k \in 1..(l - 1) /\ f[k] = k
        BY <1>1, <2>1
      <3> QED BY <3>1
    <2>2. CASE ~(k < n)
      <3>1. k - 1 \in 1..(l - 1) /\ f[k - 1] = k
        BY <1>1, <1>9, <2>2
      <3> QED BY <3>1
    <2> QED BY <2>1, <2>2
  <1>10. t = RemoveAt(s, n)
    BY DEF t, a, b, RemoveAt
  <1>11. DOMAIN s = 1..l
    BY <1>1
  <1> HIDE DEF f
  <1>12. /\ f \in [DOMAIN t -> DOMAIN s]
         /\ \A i \in DOMAIN t : t[i] = s[f[i]] /\ f[i] # n
         /\ \A i, k \in DOMAIN t : i < k => f[i] < f[k]
         /\ \A k \in DOMAIN s : k # n => \E i \in DOMAIN t : f[i] = k
    BY <1>5, <1>6, <1>7, <1>8, <1>9, <1>11, Zenon
  <1>13. \E g \in [DOMAIN t -> DOMAIN s] :
            /\ \A i \in DOMAIN t : t[i] = s[g[i]] /\ g[i] # n
            /\ \A i, k \in DOMAIN t : i < k => g[i] < g[k]
            /\ \A k \in DOMAIN s : k # n => \E i \in DOMAIN t : g[i] = k
    BY <1>12, Zenon
  <1> QED BY ZenonT(60), <1>4, <1>10, <1>13

\* The rows without one of them: the others stay, in their order.
LEMMA WithoutHolds ==
  ASSUME NEW T, NEW s \in Seq(T), NEW d
  PROVE  /\ Without(s, d) \in Seq(T)
         /\ ToSet(Without(s, d)) \subseteq ToSet(s)
         /\ Once(s) => Once(Without(s, d)) /\ ToSet(Without(s, d)) = ToSet(s) \ {d}
         /\ \A x, y : Precedes(Without(s, d), x, y) => Precedes(s, x, y)
  <1>1. CASE d \notin ToSet(s)
    <2>1. Without(s, d) = s
      BY <1>1 DEF Without
    <2> QED BY <1>1, <2>1
  <1>2. CASE d \in ToSet(s)
    <2> DEFINE n == CHOOSE i \in DOMAIN s : s[i] = d
               t == RemoveAt(s, n)
    <2>1. n \in DOMAIN s /\ s[n] = d
      BY <1>2, StandsSomewhere
    <2>2. Without(s, d) = t
      BY <1>2 DEF Without
    <2> HIDE DEF n, t
    <2>3. t \in Seq(T)
      BY <2>1, TakenOut DEF t
    <2>4. PICK f \in [DOMAIN t -> DOMAIN s] :
               /\ \A i \in DOMAIN t : t[i] = s[f[i]] /\ f[i] # n
               /\ \A i, k \in DOMAIN t : i < k => f[i] < f[k]
               /\ \A k \in DOMAIN s : k # n => \E i \in DOMAIN t : f[i] = k
      BY <2>1, TakenOut DEF t
    <2>5. ToSet(t) \subseteq ToSet(s)
      BY <2>4 DEF ToSet
    <2>6. \A i, k \in DOMAIN t : f[i] = f[k] => i = k
      <3>1. \A i, k \in DOMAIN t : i < k => f[i] # f[k]
        <4>1. DOMAIN s \subseteq Nat
          OBVIOUS
        <4> QED BY <2>4, <4>1
      <3>2. DOMAIN t \subseteq Nat
        BY <2>3
      <3> QED BY <3>1, <3>2
    <2>7. ASSUME Once(s) PROVE Once(t) /\ ToSet(t) = ToSet(s) \ {d}
      <3>1. Once(t)
        BY <2>4, <2>6, <2>7 DEF Once
      <3>2. d \notin ToSet(t)
        BY <2>1, <2>4, <2>7 DEF Once, ToSet
      <3>3. \A x \in ToSet(s) : x # d => x \in ToSet(t)
        BY <2>1, <2>4, <2>7 DEF Once, ToSet
      <3> QED BY <2>5, <3>1, <3>2, <3>3
    <2>8. ASSUME NEW x, NEW y, Precedes(t, x, y) PROVE Precedes(s, x, y)
      BY <2>4, <2>8 DEF Precedes
    <2> QED BY <2>2, <2>3, <2>5, <2>7, <2>8
  <1> QED BY <1>1, <1>2

\* The first of the rows that are wanted is one of them, and none stands before it.
LEMMA FirstIsFound ==
  ASSUME NEW T, NEW s \in Seq(T), NEW wanted, \E x \in ToSet(s) : x \in wanted
  PROVE  /\ FindFirst(s, wanted) \in wanted /\ FindFirst(s, wanted) \in ToSet(s)
         /\ Once(s) => \A x \in wanted : ~Precedes(s, x, FindFirst(s, wanted))
  <1> DEFINE P == {i \in DOMAIN s : s[i] \in wanted}
             R == OpToRel(<, Nat)
  <1>1. P \subseteq Nat /\ P # {}
    BY StandsSomewhere
  <1>2. PICK m \in P : \A y \in P : ~(<<y, m>> \in R)
    <2> HIDE DEF P, R
    <2>1. IsWellFoundedOn(R, Nat)
      BY NatLessThanWellFounded DEF R
    <2> QED BY <1>1, <2>1, WFMin
  <1>3. \A x, y \in Nat : y < x => <<y, x>> \in R
    BY DEF OpToRel
  <1>4. \A k \in DOMAIN s : k < m => s[k] \notin wanted
    BY <1>1, <1>2, <1>3
  <1> DEFINE n == CHOOSE i \in DOMAIN s :
                    s[i] \in wanted /\ \A k \in DOMAIN s : k < i => s[k] \notin wanted
  <1>5. n \in DOMAIN s /\ s[n] \in wanted /\ \A k \in DOMAIN s : k < n => s[k] \notin wanted
    BY <1>2, <1>4
  <1>6. FindFirst(s, wanted) = s[n]
    BY DEF FindFirst
  <1> HIDE DEF n
  <1>7. s[n] \in ToSet(s)
    BY <1>5 DEF ToSet
  <1>8. ASSUME Once(s), NEW x \in wanted, Precedes(s, x, s[n]) PROVE FALSE
    <2>1. PICK i, k \in DOMAIN s : i < k /\ s[i] = x /\ s[k] = s[n]
      BY <1>8 DEF Precedes
    <2>2. k = n
      BY <1>5, <1>8, <2>1 DEF Once
    <2> QED BY <1>5, <1>8, <2>1, <2>2
  <1> QED BY <1>5, <1>6, <1>7, <1>8

(***************************************************************************)
(* What the operators of the model give.                                   *)
(***************************************************************************)

\* A draft is a call, and not None.
LEMMA DraftsAreCalls == Drafts \subseteq Calls /\ None \notin Drafts
  BY CallsAssumption DEF Drafts

\* The rows are drafts.
LEMMA RowsAreDrafts ==
  ASSUME DraftTypes
  PROVE  Rows \subseteq Drafts /\ ToSet(asked) \subseteq Drafts
  BY DEF DraftTypes, Rows, ToSet

\* If rows were requested, the dispatcher picks one of them.
LEMMA RequestedIsFound ==
  ASSUME DraftTypes, Requested # {}
  PROVE  FirstRequested \in Requested
  <1> DEFINE untimed == Requested \ ToSet(asked)
  <1>1. queue \in Seq(Drafts) /\ asked \in Seq(Drafts)
    BY DEF DraftTypes
  <1>2. CASE untimed # {}
    <2>1. \E x \in ToSet(queue) : x \in untimed
      BY <1>2 DEF Requested, Rows
    <2>2. FindFirst(queue, untimed) \in untimed
      <3> HIDE DEF untimed
      <3> QED BY <1>1, <2>1, FirstIsFound
    <2> QED BY <1>2, <2>2 DEF FirstRequested
  <1>3. CASE untimed = {}
    <2>1. \E x \in ToSet(asked) : x \in Requested
      BY <1>3
    <2>2. FindFirst(asked, Requested) \in Requested
      BY <1>1, <2>1, FirstIsFound
    <2> QED BY <1>3, <2>2 DEF FirstRequested
  <1> QED BY <1>2, <1>3

\* If rows wait, it picks one of them, and none that waits stands before it.
LEMMA WaitingIsFound ==
  ASSUME DraftTypes, Waiting # {}
  PROVE  /\ FindFirst(queue, Waiting) \in Waiting
         /\ Once(queue) =>
              \A d \in Waiting : ~Precedes(queue, d, FindFirst(queue, Waiting))
  <1>1. queue \in Seq(Drafts) /\ \E x \in ToSet(queue) : x \in Waiting
    BY DEF DraftTypes, Waiting, Rows
  <1> QED BY <1>1, FirstIsFound

\* Waking the dispatcher leaves it as it is or sets it to search.
LEMMA KickMoves ==
  ASSUME Kick
  PROVE  \/ disp' = disp
         \/ disp.step = "idle" /\ disp' = [NoDispatch EXCEPT !.step = "select"]
  BY DEF Kick

\* The dispatcher at another step.
LEMMA StageHolds ==
  ASSUME DraftTypes, NEW s \in DispSteps, Stage(s)
  PROVE  /\ disp'.step = s /\ disp'.draft = disp.draft /\ disp'.was = disp.was
         /\ disp' \in [step : DispSteps, draft : Drafts \cup {None},
                       was : RowStatus \cup {"none"}]
  BY DEF DraftTypes, Stage

\* The dispatcher with a draft.
LEMMA PickedHolds ==
  ASSUME DraftTypes, NEW d \in Drafts, st[d] \in RowStatus, Picked(d)
  PROVE  /\ disp'.draft = d /\ disp'.was = st[d]
         /\ disp'.step = IF st[d] = "dispatching" THEN "show" ELSE "mark"
         /\ disp' \in [step : DispSteps, draft : Drafts \cup {None},
                       was : RowStatus \cup {"none"}]
  BY DEF Picked, DispSteps

\* The dispatcher at rest, and just woken.
LEMMA RestingHolds ==
  /\ NoDispatch \in [step : DispSteps, draft : Drafts \cup {None}, was : RowStatus \cup {"none"}]
  /\ [NoDispatch EXCEPT !.step = "select"]
       \in [step : DispSteps, draft : Drafts \cup {None}, was : RowStatus \cup {"none"}]
  BY DEF NoDispatch, DispSteps, Searches

\* No hand-off.
LEMMA NoHandoffHolds == NoHandoff \in [step : HandSteps, cur : Slots]
  BY NoRunType DEF NoHandoff, HandSteps

\* A run's hand-off at another step.
LEMMA HandHolds ==
  ASSUME DraftTypes, NEW j \in Calls, NEW h \in [step : HandSteps, cur : Slots],
         hand' = [hand EXCEPT ![j] = h]
  PROVE  hand' \in [Calls -> [step : HandSteps, cur : Slots]]
  BY DEF DraftTypes

\* An entry that is written back is one of the slot's.
LEMMA WrittenBackHolds ==
  ASSUME TypeOK, NEW cur \in Slots, NEW b \in BOOLEAN
  PROVE  WrittenBack(cur, b) \in Slots
  <1> DEFINE t == IF Active /\ run.since = cur.since THEN run.tools ELSE cur.tools
             w == [cur EXCEPT !.handoff = b, !.tools = t]
  <1>1. t \in SUBSET Calls
    BY DEF TypeOK, Slots
  <1>2. w \in Slots
    <2> HIDE DEF t
    <2> QED BY <1>1 DEF Slots
  <1>3. WrittenBack(cur, b) = w
    BY DEF WrittenBack
  <1> QED BY <1>2, <1>3

(***************************************************************************)
(* Every variable stays within its type.                                   *)
(***************************************************************************)

\* The types hold at first.
LEMMA DraftTypesInit == DraftInit => TypeOK /\ DraftTypes
  <1> SUFFICES ASSUME DraftInit PROVE TypeOK /\ DraftTypes
    OBVIOUS
  <1>1. TypeOK
    BY TypeInit DEF DraftInit
  <1>2. DraftTypes
    BY NoHandoffHolds, RestingHolds DEF DraftInit, DraftTypes
  <1> QED BY <1>1, <1>2

\* A step that moves a call and nothing else of the thread keeps the thread's types.
LEMMA TypeMoved ==
  ASSUME TypeOK, NEW c \in Calls, NEW s \in Steps, Goto(c, s), held' \in [Calls -> Memory],
         UNCHANGED <<run, job, aborted, gate, did, plan, chain, log, closings>>
  PROVE  TypeOK'
  BY DEF TypeOK, Goto

\* The endpoints of the queue keep the thread's types, ...
LEMMA TypeEndpoint ==
  ASSUME TypeOK, DraftTypes, NEW c \in Calls,
         \/ Queue(c) \/ List(c) \/ EditFind(c) \/ Wake(c) \/ Drained(c) \/ Watched(c)
         \/ RequestFind(c) \/ RequestStore(c) \/ CancelStore(c) \/ DeleteStore(c)
  PROVE  TypeOK'
  <1>0. held \in [Calls -> Memory]
    BY DEF TypeOK
  <1>1. CASE Queue(c) \/ List(c) \/ Wake(c) \/ Watched(c)
    BY <1>0, <1>1, TypeMoved DEF Queue, List, Wake, Watched, Steps
  <1>2. CASE RequestStore(c) \/ CancelStore(c) \/ DeleteStore(c)
    BY <1>0, <1>2, TypeMoved DEF RequestStore, CancelStore, DeleteStore, Steps
  <1>3. CASE Drained(c)
    <2>1. held[c] \in Memory /\ plan \in CallOrNone
      BY DEF TypeOK
    <2>2. [held[c] EXCEPT !.row = plan] \in Memory
      BY <2>1 DEF Memory
    <2>3. held' \in [Calls -> Memory]
      BY <1>3, <1>0, <2>2 DEF Drained
    <2> QED BY <1>3, <2>3, TypeMoved DEF Drained, Steps
  <1>4. CASE RequestFind(c) \/ EditFind(c)
    <2>1. held' \in [Calls -> Memory]
      BY <1>0, <1>4, TargetType, RowsAreDrafts, DraftsAreCalls
      DEF RequestFind, EditFind, CallOrNone
    <2>2. CASE RequestFind(c)
      BY <2>1, <2>2, TypeMoved DEF RequestFind, Steps
    <2>3. CASE EditFind(c)
      <3>1. \E s \in Steps : Goto(c, s)
        BY <2>3 DEF EditFind, Steps
      <3> QED BY <2>1, <2>3, <3>1, TypeMoved DEF EditFind
    <2> QED BY <1>4, <2>2, <2>3
  <1> QED BY <1>1, <1>2, <1>3, <1>4

\* ... the dispatcher does, ...
LEMMA TypeDispatcher ==
  ASSUME TypeOK, DraftTypes, DispInv, Dispatcher
  PROVE  TypeOK'
  <1>1. CASE SelectRequested \/ SelectQueued \/ Mark \/ Store \/ Finish
    <2>1. UNCHANGED tvars
      BY <1>1 DEF SelectRequested, SelectQueued, Mark, Store, Finish
    <2> QED BY <2>1 DEF tvars, vars, TypeOK
  <1>2. CASE Show
    <2>1. run' \in Slots
      BY <1>2, SlotType DEF Show, RunStatus, CallOrNone
    <2> QED BY <1>2, <2>1 DEF Show, TypeOK
  <1>3. disp.step \notin Searches => disp.draft \in Calls
    BY DraftsAreCalls DEF DispInv, DraftTypes
  <1>4. CASE Discard
    <2>1. chain' \in Seq(Events)
      BY <1>3, <1>4, EmitType DEF Discard, At, Searches, EventTypes
    <2> QED BY <1>4, <2>1 DEF Discard, TypeOK
  <1>5. CASE Dispatch
    <2>1. run' \in Slots /\ job' \in [Calls -> JobPhases]
      BY <1>3, <1>5, ScheduleType DEF Dispatch, At, Searches
    <2> QED BY <1>5, <2>1 DEF Dispatch, TypeOK
  <1>6. CASE DispatchFails
    <2>1. run' \in Slots /\ job' \in [Calls -> JobPhases]
      BY <1>6, ClearRunType DEF DispatchFails
    <2> QED BY <1>6, <2>1 DEF DispatchFails, TypeOK
  <1> QED BY <1>1, <1>2, <1>4, <1>5, <1>6 DEF Dispatcher

\* ... and the hand-off does.
LEMMA TypeHandoff ==
  ASSUME TypeOK, DraftTypes, NEW j \in Calls,
         \/ HandoffLook(j) \/ HandoffDecide(j) \/ HandoffTimer(j) \/ HandoffKick(j)
         \/ HandoffAbort(j)
  PROVE  TypeOK'
  <1>1. CASE HandoffLook(j) \/ HandoffKick(j)
    BY <1>1 DEF HandoffLook, HandoffKick, tvars, vars, TypeOK
  <1>2. CASE HandoffDecide(j)
    <2>1. hand[j].cur \in Slots
      BY DEF DraftTypes
    <2>2. WrittenBack(hand[j].cur, Requested # {}) \in Slots
      BY <2>1, WrittenBackHolds
    <2>3. run' \in Slots
      BY <1>2, <2>2 DEF HandoffDecide, TypeOK
    <2> QED BY <1>2, <2>3 DEF HandoffDecide, TypeOK
  <1>3. CASE HandoffTimer(j)
    <2>1. run.timer \in Calls
      BY <1>3 DEF HandoffTimer, TypeOK, Slots, CallOrNone
    <2>2. run' \in Slots /\ job' \in [Calls -> JobPhases]
      BY <1>3, <2>1, NoRunType DEF HandoffTimer, TypeOK, JobPhases
    <2>3. chain' \in Seq(Events)
      BY <1>3, <2>1, EmitType DEF HandoffTimer, EventTypes
    <2> QED BY <1>3, <2>2, <2>3 DEF HandoffTimer, TypeOK
  <1>4. CASE HandoffAbort(j)
    <2>1. run' \in Slots /\ aborted' \subseteq Calls
      BY ZenonT(60), <1>4 DEF HandoffAbort, TypeOK, Slots, CallOrNone
    <2> QED BY <1>4, <2>1 DEF HandoffAbort, TypeOK
  <1> QED BY <1>1, <1>2, <1>3, <1>4

\* The actions of ThreadRun, whatever they wake.
LEMMA TypeThread ==
  ASSUME TypeOK, NEW c \in Calls,
         \/ Load(c) \/ ThreadContinue(c) \/ ThreadRunner(c) \/ ToolFinishAndHandoff(c)
         \/ ReturnAndKick(c) \/ Begin(c) \/ PlanSave(c) \/ EndAfterHandoff(c)
         \/ FinallyAndKick(c)
  PROVE  TypeOK'
  BY TypeLoad, TypeContinue, TypeRunner, TypeProceed
  DEF ThreadContinue, ThreadRunner, ToolFinishAndHandoff, ReturnAndKick, EndAfterHandoff,
      FinallyAndKick, Continue, Runner, Proceed

\* Every step keeps the thread's types, ...
LEMMA ThreadTypesNext ==
  ASSUME TypeOK, DraftTypes, DispInv, [DraftNext]_allvars
  PROVE  TypeOK'
  <1>1. CASE UNCHANGED allvars
    BY <1>1 DEF allvars, tvars, vars, TypeOK
  <1>2. CASE Persist
    BY <1>2, TypePersist
  <1>3. CASE Dispatcher
    BY <1>3, TypeDispatcher
  <1>4. ASSUME NEW c \in Calls,
               \/ Load(c) \/ ThreadContinue(c) \/ ThreadRunner(c) \/ ToolFinishAndHandoff(c)
               \/ Queue(c) \/ List(c) \/ EditFind(c) \/ DraftContinue(c) \/ DraftProceed(c)
        PROVE  TypeOK'
    <2>1. CASE Load(c) \/ ThreadContinue(c) \/ ThreadRunner(c) \/ ToolFinishAndHandoff(c)
      BY <2>1, TypeThread
    <2>2. CASE Queue(c) \/ List(c) \/ EditFind(c)
      BY <2>2, TypeEndpoint
    <2>3. CASE DraftContinue(c)
      BY <2>3, TypeEndpoint, TypeThread DEF DraftContinue
    <2>4. CASE DraftProceed(c)
      BY <2>4, TypeHandoff, TypeThread DEF DraftProceed
    <2> QED BY <1>4, <2>1, <2>2, <2>3, <2>4
  <1> QED BY <1>1, <1>2, <1>3, <1>4 DEF DraftNext

(***************************************************************************)
(* How the calls move.                                                     *)
(***************************************************************************)

\* A call that has arrived goes on to a later step, ...
LEMMA ContinueGoes ==
  ASSUME NEW c \in Calls, Continue(c)
  PROVE  \E s \in Steps \ {"idle"} : Goto(c, s)
  BY DEF Continue, RecoverPlan, RewritePlan, Reconcile, ReadLastEvent, Judge, Refuse,
         Snapshot, Reserve, Commit, CommitFails, ReviseFails, Approve, ApproveClear,
         StartTurn, Dismiss, StopGates, StopTimer, StopAbort, Resolve, Resolved, Return,
         ResolvedAlready, Reread, RereadFails, Steps

\* ... the runs and the chain move no call, ...
LEMMA RunsMoveNoCall ==
  ASSUME NEW j \in Calls, Proceed(j) \/ Runner(j) \/ Persist
  PROVE  UNCHANGED pc
  BY DEF Proceed, Runner, Persist, Begin, PlanSave, End, Finally, Text, ToolStart, ToolFinish,
         AskGate, PlanDetect, Metadata, Disarmed

\* ... nor do the dispatcher and the hand-off.
LEMMA DispatchMovesNoCall ==
  ASSUME Dispatcher
  PROVE  UNCHANGED <<pc, hand>>
  BY DEF Dispatcher, SelectRequested, SelectQueued, Mark, Show, Store, Discard, Dispatch,
         Finish, DispatchFails, tvars, vars

\* The steps of a hand-off.
Handoff(j) ==
  \/ HandoffLook(j) \/ HandoffDecide(j) \/ HandoffTimer(j) \/ HandoffKick(j)
  \/ HandoffAbort(j)

\* The endpoints of the queue, once the draft is stored.
Endpoint(c) ==
  \/ List(c) \/ EditFind(c) \/ Wake(c) \/ Drained(c) \/ Watched(c) \/ RequestFind(c)
  \/ RequestStore(c) \/ CancelStore(c) \/ DeleteStore(c)

\* Those of them that store a row.
Stores(c) == RequestStore(c) \/ CancelStore(c) \/ DeleteStore(c)

\* The actions of ThreadRun, whatever they wake.
OfThread(c) ==
  \/ (Load(c) \/ Begin(c) \/ PlanSave(c)) /\ UNCHANGED dvars
  \/ ThreadContinue(c) \/ ThreadRunner(c) \/ ToolFinishAndHandoff(c) \/ ReturnAndKick(c)
  \/ EndAfterHandoff(c) \/ FinallyAndKick(c)

\* What a step of the thread with its queue may be.
LEMMA StepsAre ==
  ASSUME [DraftNext]_allvars
  PROVE  \/ UNCHANGED allvars
         \/ Persist /\ UNCHANGED dvars
         \/ Dispatcher
         \/ \E c \in Calls : Queue(c) \/ Endpoint(c) \/ Handoff(c) \/ OfThread(c)
  BY Zenon DEF DraftNext, DraftContinue, DraftProceed, Endpoint, Handoff, OfThread

\* Waking the dispatcher, or leaving it.
Woken ==
  \/ disp' = disp
  \/ disp.step = "idle" /\ disp' = [NoDispatch EXCEPT !.step = "select"]

\* What an action of ThreadRun does to the calls and to the queue, ...
LEMMA ThreadDoes ==
  ASSUME DraftTypes, NEW c \in Calls, OfThread(c)
  PROVE  /\ UNCHANGED <<queue, st, asked, canceled, sent>>
         /\ Woken
         /\ hand' = hand \/ (ToolFinish(c) /\ hand' = [hand EXCEPT ![c].step = "due"])
         /\ UNCHANGED pc \/ \E s \in Steps \ {"idle"} : Goto(c, s)
  <1>1. CASE (Load(c) \/ Begin(c) \/ PlanSave(c)) /\ UNCHANGED dvars
    <2>1. UNCHANGED pc \/ \E s \in Steps \ {"idle"} : Goto(c, s)
      BY <1>1 DEF Load, Begin, PlanSave, Steps
    <2> QED BY <1>1, <2>1 DEF dvars, Woken
  <1>2. CASE ThreadContinue(c)
    BY <1>2, ContinueGoes DEF ThreadContinue, Continue, dvars, Woken
  <1>3. CASE ThreadRunner(c)
    BY <1>3, RunsMoveNoCall DEF ThreadRunner, Runner, dvars, Woken
  <1>4. CASE ToolFinishAndHandoff(c)
    BY <1>4, RunsMoveNoCall DEF ToolFinishAndHandoff, Runner, Woken
  <1>5. CASE ReturnAndKick(c)
    BY <1>5, ContinueGoes, KickMoves DEF ReturnAndKick, Continue, Woken
  <1>6. CASE EndAfterHandoff(c)
    BY <1>6, RunsMoveNoCall DEF EndAfterHandoff, Proceed, dvars, Woken
  <1>7. CASE FinallyAndKick(c)
    BY <1>7, RunsMoveNoCall, KickMoves DEF FinallyAndKick, Proceed, Woken
  <1> QED BY <1>1, <1>2, <1>3, <1>4, <1>5, <1>6, <1>7 DEF OfThread

\* ... what an endpoint of the queue does, the storing ones aside, ...
LEMMA EndpointDoes ==
  ASSUME DraftTypes, NEW c \in Calls, Endpoint(c)
  PROVE  /\ UNCHANGED <<run, job, hand, sent, aborted, did>>
         /\ Woken
         /\ ~Stores(c) => UNCHANGED <<queue, st, asked>>
         /\ Stores(c) => UNCHANGED disp
         /\ \/ \E s \in Steps \ {"idle"} : Goto(c, s)
            \/ c \notin Drafts /\ Goto(c, "idle")
  <1>1. CASE Stores(c)
    <2>1. \E s \in Steps \ {"idle"} : Goto(c, s)
      BY <1>1 DEF Stores, RequestStore, CancelStore, DeleteStore, Steps
    <2>2. UNCHANGED <<run, job, aborted, did, hand, sent, disp>>
      BY <1>1 DEF Stores, RequestStore, CancelStore, DeleteStore
    <2> QED BY <1>1, <2>1, <2>2 DEF Woken
  <1>2. CASE List(c) \/ Wake(c)
    <2>1. Woken
      BY <1>2, KickMoves DEF List, Wake, Woken, dvars
    <2> QED BY <1>1, <1>2, <2>1 DEF List, Wake, Steps, dvars
  <1>3. CASE Drained(c)
    BY <1>1, <1>3 DEF Drained, Steps, dvars, Woken
  <1>4. CASE EditFind(c)
    <2>1. \E s \in Steps \ {"idle"} : Goto(c, s)
      BY <1>4 DEF EditFind, Steps
    <2> QED BY <1>1, <1>4, <2>1 DEF EditFind, dvars, Woken
  <1>5. CASE Watched(c)
    <2>1. c \notin Drafts
      BY <1>5 DEF Watched, Drafts
    <2> QED BY <1>1, <1>5, <2>1 DEF Watched, dvars, Woken
  <1>6. CASE RequestFind(c)
    BY <1>1, <1>6 DEF RequestFind, Steps, Woken
  <1> QED BY <1>1, <1>2, <1>3, <1>4, <1>5, <1>6 DEF Endpoint, Stores

\* ... and what a step of a hand-off does.
LEMMA HandoffDoes ==
  ASSUME DraftTypes, TypeOK, NEW j \in Calls, Handoff(j)
  PROVE  /\ UNCHANGED <<queue, st, asked, canceled, sent, pc>>
         /\ Woken
         /\ hand[j].step # "idle"
         /\ hand' \in [Calls -> [step : HandSteps, cur : Slots]]
  <1>1. CASE HandoffLook(j)
    <2>1. [step |-> "look", cur |-> run] \in [step : HandSteps, cur : Slots]
      BY DEF TypeOK, HandSteps
    <2>2. hand' \in [Calls -> [step : HandSteps, cur : Slots]]
      BY <1>1, <2>1, HandHolds, NoHandoffHolds DEF HandoffLook
    <2> QED BY <1>1, <2>2 DEF HandoffLook, tvars, vars, Woken
  <1>2. CASE HandoffDecide(j)
    <2>1. [NoHandoff EXCEPT !.step = "cancel"] \in [step : HandSteps, cur : Slots]
      BY NoRunType DEF NoHandoff, HandSteps
    <2>2. hand' \in [Calls -> [step : HandSteps, cur : Slots]]
      BY <1>2, <2>1, HandHolds, NoHandoffHolds DEF HandoffDecide
    <2> QED BY <1>2, <2>2 DEF HandoffDecide, Woken
  <1>3. CASE HandoffTimer(j)
    <2>0. hand[j] \in [step : HandSteps, cur : Slots] /\ "kick" \in HandSteps
      BY DEF DraftTypes, HandSteps
    <2>1. [hand[j] EXCEPT !.step = "kick"] \in [step : HandSteps, cur : Slots]
      BY <2>0
    <2>2. hand' \in [Calls -> [step : HandSteps, cur : Slots]]
      BY <1>3, <2>1, HandHolds DEF HandoffTimer
    <2> QED BY <1>3, <2>2 DEF HandoffTimer, Woken
  <1>4. CASE HandoffKick(j)
    <2>1. hand' \in [Calls -> [step : HandSteps, cur : Slots]]
      BY <1>4, HandHolds, NoHandoffHolds DEF HandoffKick
    <2> QED BY <1>4, <2>1, KickMoves DEF HandoffKick, tvars, vars, Woken
  <1>5. CASE HandoffAbort(j)
    <2>1. hand' \in [Calls -> [step : HandSteps, cur : Slots]]
      BY <1>5, HandHolds, NoHandoffHolds DEF HandoffAbort
    <2> QED BY <1>5, <2>1 DEF HandoffAbort, Woken
  <1> QED BY <1>1, <1>2, <1>3, <1>4, <1>5 DEF Handoff

\* No step takes a draft that was queued back before its call.
LEMMA DraftsStayCalled ==
  ASSUME TypeOK, DraftTypes, [DraftNext]_allvars, NEW d \in Drafts, pc'[d] = "idle"
  PROVE  pc[d] = "idle" /\ ~Queue(d)
  <1>1. ASSUME NEW c \in Calls, NEW s \in Steps \ {"idle"}, Goto(c, s) PROVE pc[d] = "idle"
    BY <1>1, StepType, DraftsAreCalls DEF Goto
  <1>2. ASSUME NEW c \in Calls, c \notin Drafts, Goto(c, "idle") PROVE pc[d] = "idle"
    BY <1>2, StepType, DraftsAreCalls DEF Goto
  <1>3. ASSUME UNCHANGED allvars PROVE pc[d] = "idle"
    BY <1>3 DEF allvars, tvars, vars
  <1>4. ASSUME Persist PROVE pc[d] = "idle"
    BY <1>4 DEF Persist
  <1>5. ASSUME Dispatcher PROVE pc[d] = "idle"
    BY <1>5, DispatchMovesNoCall
  <1>6. ASSUME NEW c \in Calls, Queue(c) PROVE pc[d] = "idle"
    BY <1>1, <1>6 DEF Queue, Steps
  <1>7. ASSUME NEW c \in Calls, Endpoint(c) \/ Handoff(c) \/ OfThread(c) PROVE pc[d] = "idle"
    BY <1>1, <1>2, <1>7, EndpointDoes, HandoffDoes, ThreadDoes
  <1>8. ~Queue(d)
    BY StepType, DraftsAreCalls DEF Queue, Goto
  <1> QED BY <1>3, <1>4, <1>5, <1>6, <1>7, <1>8, StepsAre

\* What was given a run keeps it, whatever becomes of that run.
LEMMA JobsStay ==
  ASSUME TypeOK, [DraftNext]_allvars, DispInv, DraftTypes,
         NEW d \in Calls, job[d] # "none"
  PROVE  job'[d] # "none"
  <1>0. job \in [Calls -> JobPhases]
    BY DEF TypeOK
  <1>1. ASSUME NEW c \in Calls, Schedule(c) PROVE job'[d] # "none"
    BY <1>1 DEF Schedule, Disarmed
  <1>2. ASSUME ClearRun PROVE job'[d] # "none"
    BY <1>0, <1>2 DEF ClearRun, Disarmed
  <1>3. CASE UNCHANGED job
    BY <1>3
  <1>4. ASSUME NEW c \in Calls, Continue(c) PROVE job'[d] # "none"
    BY <1>0, <1>1, <1>2, <1>4
    DEF Continue, RecoverPlan, RewritePlan, Reconcile, ReadLastEvent, Judge, Refuse,
        Snapshot, Reserve, Commit, CommitFails, ReviseFails, Approve, ApproveClear,
        StartTurn, Dismiss, StopGates, StopTimer, StopAbort, Resolve, Resolved, Return,
        ResolvedAlready, Reread, RereadFails
  <1>5. ASSUME NEW c \in Calls, Proceed(c) \/ Runner(c) \/ Load(c) PROVE job'[d] # "none"
    BY <1>0, <1>5
    DEF Proceed, Runner, Load, Begin, PlanSave, End, Finally, Text, ToolStart, ToolFinish,
        AskGate, PlanDetect, Metadata, Disarmed
  <1>6. ASSUME NEW c \in Calls, OfThread(c) PROVE job'[d] # "none"
    BY <1>4, <1>5, <1>6
    DEF OfThread, ThreadContinue, ThreadRunner, ToolFinishAndHandoff, ReturnAndKick,
        EndAfterHandoff, FinallyAndKick, Continue, Proceed, Runner
  <1>7. ASSUME NEW c \in Calls, Endpoint(c) \/ Queue(c) PROVE job'[d] # "none"
    BY <1>3, <1>7, EndpointDoes DEF Queue
  <1>8. ASSUME NEW c \in Calls, Handoff(c) PROVE job'[d] # "none"
    BY <1>0, <1>8
    DEF Handoff, HandoffLook, HandoffDecide, HandoffTimer, HandoffKick, HandoffAbort,
        tvars, vars
  <1>9. CASE Dispatcher
    <2>1. disp.step \notin Searches => disp.draft \in Calls
      BY DraftsAreCalls DEF DispInv, DraftTypes
    <2>2. CASE Dispatch
      BY <1>1, <2>1, <2>2 DEF Dispatch, At, Searches
    <2>3. CASE DispatchFails
      BY <1>2, <2>3 DEF DispatchFails
    <2>4. CASE UNCHANGED job
      BY <2>4
    <2> QED BY <1>9, <2>2, <2>3, <2>4
        DEF Dispatcher, SelectRequested, SelectQueued, Mark, Show, Store, Discard, Finish,
            tvars, vars
  <1>10. CASE UNCHANGED allvars \/ Persist
    BY <1>10 DEF allvars, tvars, vars, Persist
  <1> QED BY <1>6, <1>7, <1>8, <1>9, <1>10, StepsAre

(***************************************************************************)
(* How the rows change.                                                    *)
(***************************************************************************)

\* The statuses of a row.
LEMMA StatusHolds ==
  ASSUME DraftTypes, RowsInv
  PROVE  /\ \A d \in Drafts : d \in Rows <=> st[d] \notin {"none", "gone"}
         /\ Rows \subseteq Drafts
         /\ \A d \in Waiting : d \in Rows /\ st[d] = "queued" /\ d \notin canceled
         /\ \A d \in Requested : d \in Rows /\ st[d] \in {"requested", "dispatching"}
  BY RowsAreDrafts, DraftsAreCalls DEF DraftTypes, RowsInv, RowStatus, Waiting, Requested

\* One row changes its status and its place among those with a time of request.
LEMMA RowChanges ==
  ASSUME DraftTypes, RowsInv, NEW d \in Rows, NEW s \in RowStatus,
         UNCHANGED queue, st' = [st EXCEPT ![d] = s],
         asked' \in Seq(Drafts), Once(asked'), ToSet(asked') \subseteq ToSet(asked) \cup {d},
         \A e \in Drafts : pc'[e] = "idle" => pc[e] = "idle"
  PROVE  /\ RowsInv' /\ Rows' = Rows
         /\ st' \in [Calls -> RowStatus \cup {"none", "gone"}]
         /\ \A e \in Drafts : st'[e] = IF e = d THEN s ELSE st[e]
  <1>1. d \in Drafts /\ d \in Calls /\ Rows' = Rows
    BY RowsAreDrafts, DraftsAreCalls DEF Rows
  <1>2. st \in [Calls -> RowStatus \cup {"none", "gone"}]
    BY DEF DraftTypes
  <1>3. \A e \in Drafts : st'[e] = IF e = d THEN s ELSE st[e]
    BY <1>2, DraftsAreCalls
  <1>4. /\ \A e \in Drafts : e \in Rows <=> st[e] \in RowStatus
        /\ \A e \in Drafts : pc[e] = "idle" => st[e] = "none"
        /\ ToSet(asked) \subseteq Rows /\ Once(queue)
    BY DEF RowsInv
  <1>5. \A e \in Drafts : e \in Rows' <=> st'[e] \in RowStatus
    BY <1>1, <1>3, <1>4
  <1>6. \A e \in Drafts : pc'[e] = "idle" => st'[e] = "none"
    BY <1>1, <1>3, <1>4 DEF RowStatus
  <1>7. RowsInv'
    BY <1>1, <1>4, <1>5, <1>6 DEF RowsInv
  <1> QED BY <1>1, <1>2, <1>3, <1>7

\* The list of times of request when a row's is set anew, cleared or kept.
LEMMA AskedAnew ==
  ASSUME DraftTypes, RowsInv, NEW d \in Drafts
  PROVE  LET again == Append(Without(asked, d), d)
             none == Without(asked, d)
         IN
         /\ again \in Seq(Drafts) /\ Once(again) /\ ToSet(again) \subseteq ToSet(asked) \cup {d}
         /\ none \in Seq(Drafts) /\ Once(none) /\ ToSet(none) = ToSet(asked) \ {d}
  <1> DEFINE again == Append(Without(asked, d), d)
             none == Without(asked, d)
  <1>1. asked \in Seq(Drafts) /\ Once(asked)
    BY DEF DraftTypes, RowsInv
  <1>2. none \in Seq(Drafts) /\ Once(none) /\ ToSet(none) = ToSet(asked) \ {d}
    BY <1>1, WithoutHolds
  <1> HIDE DEF none
  <1>3. /\ Append(none, d) \in Seq(Drafts)
        /\ Once(Append(none, d))
        /\ ToSet(Append(none, d)) = ToSet(none) \cup {d}
    BY <1>2, AppendHolds
  <1> QED BY <1>2, <1>3 DEF none

\* The same when the row had none before.
LEMMA AskedKept ==
  ASSUME DraftTypes, RowsInv, NEW d \in Drafts, d \notin ToSet(asked)
  PROVE  /\ Append(asked, d) \in Seq(Drafts) /\ Once(Append(asked, d))
         /\ ToSet(Append(asked, d)) = ToSet(asked) \cup {d}
         /\ <<d>> \o asked \in Seq(Drafts) /\ Once(<<d>> \o asked)
         /\ ToSet(<<d>> \o asked) = ToSet(asked) \cup {d}
  <1>1. asked \in Seq(Drafts) /\ Once(asked)
    BY DEF DraftTypes, RowsInv
  <1> QED BY <1>1, AppendHolds, PrependHolds

\* A row is taken off the table.
LEMMA RowLeaves ==
  ASSUME DraftTypes, RowsInv, NEW d \in Drafts, st[d] # "none", RemoveRow(d),
         \A e \in Drafts : pc'[e] = "idle" => pc[e] = "idle"
  PROVE  /\ RowsInv'
         /\ queue' \in Seq(Drafts) /\ asked' \in Seq(Drafts)
         /\ st' \in [Calls -> RowStatus \cup {"none", "gone"}]
         /\ canceled' \subseteq Drafts
         /\ \A e \in Drafts : st'[e] = IF e = d THEN "gone" ELSE st[e]
         /\ Waiting' \subseteq Waiting
         /\ \A x, y : Precedes(queue', x, y) => Precedes(queue, x, y)
  <1>1. /\ queue \in Seq(Drafts) /\ asked \in Seq(Drafts) /\ canceled \subseteq Drafts
        /\ st \in [Calls -> RowStatus \cup {"none", "gone"}]
        /\ Once(queue) /\ Once(asked) /\ d \in Calls
    BY DraftsAreCalls DEF DraftTypes, RowsInv
  <1>2. /\ queue' = Without(queue, d) /\ asked' = Without(asked, d)
        /\ st' = [st EXCEPT ![d] = "gone"] /\ canceled' = canceled \ {d}
    BY DEF RemoveRow
  <1>3. /\ queue' \in Seq(Drafts) /\ Once(queue') /\ ToSet(queue') = ToSet(queue) \ {d}
        /\ \A x, y : Precedes(queue', x, y) => Precedes(queue, x, y)
    BY <1>1, <1>2, WithoutHolds
  <1>4. asked' \in Seq(Drafts) /\ Once(asked') /\ ToSet(asked') = ToSet(asked) \ {d}
    BY <1>1, <1>2, WithoutHolds
  <1>5. /\ st' \in [Calls -> RowStatus \cup {"none", "gone"}]
        /\ \A e \in Drafts : st'[e] = IF e = d THEN "gone" ELSE st[e]
    BY <1>1, <1>2, DraftsAreCalls
  <1>6. Rows' = Rows \ {d}
    BY <1>3 DEF Rows
  <1>7. /\ \A e \in Drafts : e \in Rows <=> st[e] \in RowStatus
        /\ \A e \in Drafts : pc[e] = "idle" => st[e] = "none"
        /\ ToSet(asked) \subseteq Rows
    BY DEF RowsInv
  <1>8. \A e \in Drafts : e \in Rows' <=> st'[e] \in RowStatus
    BY <1>5, <1>6, <1>7 DEF RowStatus
  <1>9. \A e \in Drafts : pc'[e] = "idle" => st'[e] = "none"
    BY <1>5, <1>7
  <1>10. RowsInv'
    BY <1>3, <1>4, <1>6, <1>7, <1>8, <1>9 DEF RowsInv
  <1>11. Waiting' \subseteq Waiting
    <2>1. \A e \in Rows' : e \in Rows /\ e # d /\ e \in Drafts
      BY <1>6, RowsAreDrafts
    <2>2. \A e \in Waiting' : e \in Rows' /\ st'[e] = "queued" /\ e \notin canceled'
      BY DEF Waiting
    <2>3. \A e \in Waiting' : e \in Rows /\ st[e] = "queued" /\ e \notin canceled
      BY <1>2, <1>5, <2>1, <2>2
    <2> QED BY <2>3 DEF Waiting
  <1> QED BY <1>1, <1>2, <1>3, <1>4, <1>5, <1>10, <1>11

(***************************************************************************)
(* How the invariants are kept when the dispatcher does not move.          *)
(***************************************************************************)

\* The dispatcher's draft, when rows change and the dispatcher is woken at most.
LEMMA DispKept ==
  ASSUME DispInv, Woken,
         \A d \in Drafts : /\ st[d] # "none" => st'[d] # "none"
                           /\ st[d] = "gone" => st'[d] = "gone"
                           /\ st'[d] = "dispatching" => st[d] = "dispatching",
         DraftTypes
  PROVE  DispInv'
  <1>1. CASE disp' = disp
    <2>1. disp.draft \in Drafts \cup {None}
      BY DEF DraftTypes
    <2> QED BY <1>1, <2>1 DEF DispInv, DispatchingIsAtWork, Searches
  <1>2. CASE disp.step = "idle" /\ disp' = [NoDispatch EXCEPT !.step = "select"]
    <2>1. disp'.draft = None /\ disp'.step = "select" /\ \A d \in Drafts : st'[d] # "dispatching"
      BY <1>2 DEF NoDispatch, DispInv, DispatchingIsAtWork
    <2> QED BY <2>1 DEF DispInv, DispatchingIsAtWork, Searches
  <1> QED BY <1>1, <1>2 DEF Woken

\* The order of the drafts, when no row comes to wait before another.
LEMMA OrderKept ==
  ASSUME DraftTypes, OrderInv, Woken, Waiting' \subseteq Waiting,
         \A x, y : Precedes(queue', x, y) => Precedes(queue, x, y)
  PROVE  OrderInv'
  <1>1. CASE disp' = disp
    BY <1>1 DEF OrderInv
  <1>2. CASE disp.step = "idle" /\ disp' = [NoDispatch EXCEPT !.step = "select"]
    BY <1>2 DEF OrderInv, NoDispatch
  <1> QED BY <1>1, <1>2 DEF Woken

\* What was stored, when no draft is stored and no row comes back.
LEMMA SentKept ==
  ASSUME DraftTypes, DispInv, SentInv, UNCHANGED sent, Woken,
         \A d \in Drafts : st[d] = "gone" => st'[d] = "gone",
         \A d \in Calls : job[d] # "none" => job'[d] # "none"
  PROVE  SentInv'
  <1>1. CASE disp' = disp
    BY <1>1, DraftsAreCalls DEF SentInv
  <1>2. CASE disp.step = "idle" /\ disp' = [NoDispatch EXCEPT !.step = "select"]
    BY <1>2, DraftsAreCalls DEF SentInv, NoDispatch
  <1> QED BY <1>1, <1>2 DEF Woken

\* A step that leaves the rows alone and wakes the dispatcher at most.
LEMMA RowsRest ==
  ASSUME DraftTypes, RowsInv, DispInv, OrderInv, Woken,
         UNCHANGED <<queue, st, asked, sent>>, canceled' \subseteq canceled,
         Waiting' \subseteq Waiting, hand' \in [Calls -> [step : HandSteps, cur : Slots]],
         \A d \in Drafts : pc'[d] = "idle" => pc[d] = "idle",
         \A d \in Calls : job[d] # "none" => job'[d] # "none"
  PROVE  /\ DraftTypes' /\ RowsInv' /\ DispInv' /\ OrderInv'
         /\ SentInv => SentInv'
  <1>1. DraftTypes'
    BY RestingHolds DEF DraftTypes, Woken
  <1>2. RowsInv'
    BY DEF RowsInv, Rows
  <1>3. DispInv'
    BY DispKept
  <1>4. OrderInv'
    BY OrderKept
  <1>5. SentInv => SentInv'
    BY SentKept
  <1> QED BY <1>1, <1>2, <1>3, <1>4, <1>5

\* The same for a step that changes the rows and leaves the dispatcher alone.
LEMMA RowsMove ==
  ASSUME DraftTypes, RowsInv, DispInv, OrderInv, RowsInv',
         UNCHANGED <<disp, sent, hand>>,
         queue' \in Seq(Drafts), asked' \in Seq(Drafts), canceled' \subseteq Drafts,
         st' \in [Calls -> RowStatus \cup {"none", "gone"}],
         Waiting' \subseteq Waiting,
         \A x, y : Precedes(queue', x, y) => Precedes(queue, x, y),
         \A d \in Drafts : /\ st[d] # "none" => st'[d] # "none"
                           /\ st[d] = "gone" => st'[d] = "gone"
                           /\ st'[d] = "dispatching" => st[d] = "dispatching",
         \A d \in Calls : job[d] # "none" => job'[d] # "none"
  PROVE  /\ DraftTypes' /\ RowsInv' /\ DispInv' /\ OrderInv'
         /\ SentInv => SentInv'
  <1>1. DraftTypes'
    BY DEF DraftTypes
  <1>2. Woken
    BY DEF Woken
  <1>3. DispInv'
    BY <1>2, DispKept
  <1>4. OrderInv'
    BY <1>2, OrderKept
  <1>5. SentInv => SentInv'
    BY <1>2, SentKept
  <1> QED BY <1>1, <1>3, <1>4, <1>5

(***************************************************************************)
(* The endpoints of the queue keep the invariants.                         *)
(***************************************************************************)

\* A draft that is queued stands behind all others.
LEMMA QueueKeeps ==
  ASSUME DraftTypes, RowsInv, DispInv, OrderInv, NEW c \in Calls, Queue(c),
         \A d \in Drafts : pc'[d] = "idle" => pc[d] = "idle" /\ d # c
  PROVE  /\ DraftTypes' /\ RowsInv' /\ DispInv' /\ OrderInv'
         /\ SentInv => SentInv'
  <1>1. /\ c \in Drafts /\ pc[c] = "idle"
        /\ queue' = Append(queue, c) /\ st' = [st EXCEPT ![c] = "queued"]
        /\ UNCHANGED <<asked, canceled, disp, hand, sent, job>>
    BY DEF Queue, MayStart, Drafts
  <1>2. /\ queue \in Seq(Drafts) /\ Once(queue)
        /\ st \in [Calls -> RowStatus \cup {"none", "gone"}]
        /\ st[c] = "none" /\ c \notin Rows
    BY <1>1 DEF DraftTypes, RowsInv, RowStatus
  <1>3. /\ queue' \in Seq(Drafts) /\ Once(queue') /\ Rows' = Rows \cup {c}
        /\ \A x, y : Precedes(queue', x, y) => Precedes(queue, x, y) \/ y = c
    BY <1>1, <1>2, AppendHolds DEF Rows
  <1>4. /\ st' \in [Calls -> RowStatus \cup {"none", "gone"}]
        /\ \A d \in Drafts : st'[d] = IF d = c THEN "queued" ELSE st[d]
    BY <1>1, <1>2, DraftsAreCalls DEF RowStatus
  <1>5. DraftTypes'
    BY <1>1, <1>3, <1>4 DEF DraftTypes
  <1>6. RowsInv'
    <2>1. \A d \in Drafts : d \in Rows' <=> st'[d] \in RowStatus
      BY <1>2, <1>3, <1>4 DEF RowsInv, RowStatus
    <2>2. \A d \in Drafts : pc'[d] = "idle" => st'[d] = "none"
      BY <1>4 DEF RowsInv
    <2> QED BY <1>1, <1>3, <2>1, <2>2 DEF RowsInv
  <1>7. Woken
    BY <1>1 DEF Woken
  <1>8. DispInv'
    BY <1>2, <1>4, <1>7, DispKept
  <1>9. OrderInv'
    <2>1. disp.draft # c
      BY <1>2, DraftsAreCalls, <1>1 DEF DispInv
    <2>2. ASSUME NEW d \in Waiting', Precedes(queue', d, disp.draft)
          PROVE  d \in Waiting /\ Precedes(queue, d, disp.draft)
      <3>1. Precedes(queue, d, disp.draft)
        BY <1>3, <2>1, <2>2
      <3>2. d \in Rows
        BY <3>1 DEF Precedes, Rows, ToSet
      <3>3. d # c /\ d \in Drafts
        BY <1>2, <3>2, RowsAreDrafts
      <3> QED BY <1>1, <1>4, <2>2, <3>1, <3>2, <3>3 DEF Waiting
    <2> QED BY <1>1, <2>2 DEF OrderInv
  <1>10. SentInv => SentInv'
    BY <1>1, <1>2, <1>4, <1>7, SentKept
  <1> QED BY <1>5, <1>6, <1>8, <1>9, <1>10

\* A request, a cancellation or a deletion is stored.
LEMMA StoresKeep ==
  ASSUME DraftTypes, RowsInv, DispInv, OrderInv, NEW c \in Calls, Stores(c), TypeOK,
         \A d \in Drafts : pc'[d] = "idle" => pc[d] = "idle"
  PROVE  /\ DraftTypes' /\ RowsInv' /\ DispInv' /\ OrderInv'
         /\ SentInv => SentInv'
  <1> DEFINE d == held[c].target
  <1>0. /\ canceled \subseteq Drafts
        /\ UNCHANGED <<disp, sent, hand, job>>
    BY DEF DraftTypes, Stores, RequestStore, CancelStore, DeleteStore
  <1>1. CASE d \notin Rows
    <2>1. UNCHANGED <<queue, st, asked, canceled>>
      BY <1>1 DEF Stores, RequestStore, CancelStore, DeleteStore
    <2>2. Waiting' \subseteq Waiting
      BY <2>1 DEF Waiting, Rows
    <2>3. Woken /\ hand' \in [Calls -> [step : HandSteps, cur : Slots]]
      BY <1>0 DEF Woken, DraftTypes
    <2> QED BY <1>0, <2>1, <2>2, <2>3, RowsRest
  <1>2. CASE d \in Rows /\ ~DeleteStore(c)
    <2> DEFINE s == IF RequestStore(c) THEN "requested" ELSE "queued"
    <2>1. /\ st' = [st EXCEPT ![d] = s]
          /\ asked' \in {Append(Without(asked, d), d), Without(asked, d)}
          /\ UNCHANGED queue
          /\ s = "requested" => canceled' = canceled \ {d}
          /\ s = "queued" => canceled' = canceled \cup {d}
      BY <1>2 DEF Stores, RequestStore, CancelStore
    <2>2. d \in Drafts /\ d \in Rows /\ st[d] \notin {"none", "gone"}
      BY <1>2, StatusHolds
    <2>3. s \in RowStatus /\ s # "dispatching" /\ (s = "requested" \/ s = "queued")
      BY DEF RowStatus
    <2> HIDE DEF d, s
    <2>4. asked' \in Seq(Drafts) /\ Once(asked') /\ ToSet(asked') \subseteq ToSet(asked) \cup {d}
      <3>1. CASE asked' = Append(Without(asked, d), d)
        BY <2>2, <3>1, AskedAnew
      <3>2. CASE asked' = Without(asked, d)
        BY <2>2, <3>2, AskedAnew
      <3> QED BY <2>1, <3>1, <3>2
    <2>5. /\ RowsInv' /\ Rows' = Rows
          /\ st' \in [Calls -> RowStatus \cup {"none", "gone"}]
          /\ \A e \in Drafts : st'[e] = IF e = d THEN s ELSE st[e]
      BY ZenonT(60), <2>1, <2>2, <2>3, <2>4, RowChanges
    <2>6. Waiting' \subseteq Waiting
      <3>1. \A e \in Waiting' :
               e \in Rows /\ e \in Drafts /\ st'[e] = "queued" /\ e \notin canceled'
        BY <2>5, RowsAreDrafts DEF Waiting
      <3>2. \A e \in Waiting' : e # d
        BY <2>1, <2>3, <2>5, <3>1
      <3> QED BY <2>1, <2>3, <2>5, <3>1, <3>2 DEF Waiting
    <2>7. queue' \in Seq(Drafts) /\ canceled' \subseteq Drafts
      BY <1>0, <2>1, <2>2, <2>3 DEF DraftTypes
    <2>8. \A e \in Drafts : /\ st[e] # "none" => st'[e] # "none"
                            /\ st[e] = "gone" => st'[e] = "gone"
                            /\ st'[e] = "dispatching" => st[e] = "dispatching"
      BY <2>2, <2>3, <2>5 DEF RowStatus
    <2> QED BY <1>0, <2>1, <2>4, <2>5, <2>6, <2>7, <2>8, RowsMove
  <1>3. CASE d \in Rows /\ DeleteStore(c)
    <2>1. RemoveRow(d)
      BY <1>3 DEF DeleteStore
    <2>2. d \in Drafts /\ st[d] # "none"
      BY <1>3, StatusHolds
    <2> HIDE DEF d
    <2>3. /\ RowsInv'
          /\ queue' \in Seq(Drafts) /\ asked' \in Seq(Drafts)
          /\ st' \in [Calls -> RowStatus \cup {"none", "gone"}]
          /\ canceled' \subseteq Drafts
          /\ \A e \in Drafts : st'[e] = IF e = d THEN "gone" ELSE st[e]
          /\ Waiting' \subseteq Waiting
          /\ \A x, y : Precedes(queue', x, y) => Precedes(queue, x, y)
      BY <2>1, <2>2, RowLeaves
    <2>4. \A e \in Drafts : /\ st[e] # "none" => st'[e] # "none"
                            /\ st[e] = "gone" => st'[e] = "gone"
                            /\ st'[e] = "dispatching" => st[e] = "dispatching"
      BY <2>2, <2>3
    <2> QED BY <1>0, <2>3, <2>4, RowsMove
  <1> QED BY <1>1, <1>2, <1>3

\* The other steps of an endpoint, those of a hand-off and those of the thread leave the
\* rows alone.
LEMMA RestsKeep ==
  ASSUME TypeOK, DraftTypes, RowsInv, DispInv, OrderInv, NEW c \in Calls,
         (Endpoint(c) /\ ~Stores(c)) \/ Handoff(c) \/ OfThread(c),
         \A d \in Drafts : pc'[d] = "idle" => pc[d] = "idle",
         \A d \in Calls : job[d] # "none" => job'[d] # "none"
  PROVE  /\ DraftTypes' /\ RowsInv' /\ DispInv' /\ OrderInv'
         /\ SentInv => SentInv'
  <1>1. /\ UNCHANGED <<queue, st, asked, sent>> /\ Woken
    BY EndpointDoes, HandoffDoes, ThreadDoes
  <1>2. hand' \in [Calls -> [step : HandSteps, cur : Slots]]
    <2>1. hand \in [Calls -> [step : HandSteps, cur : Slots]]
      BY DEF DraftTypes
    <2>2. CASE hand' = [hand EXCEPT ![c].step = "due"]
      <3>1. hand[c] \in [step : HandSteps, cur : Slots] /\ "due" \in HandSteps
        BY <2>1 DEF HandSteps
      <3>2. [hand[c] EXCEPT !.step = "due"] \in [step : HandSteps, cur : Slots]
        BY <3>1
      <3> QED BY <2>1, <2>2, <3>2
    <2> QED BY <2>1, <2>2, EndpointDoes, HandoffDoes, ThreadDoes
  <1>3. canceled' \subseteq canceled /\ Waiting' \subseteq Waiting
    <2>1. CASE UNCHANGED canceled
      BY <1>1, <2>1 DEF Waiting, Rows
    <2>2. CASE RequestFind(c) /\ canceled' # canceled
      <3>1. PICK d \in Rows : st[d] # "queued" /\ canceled' = canceled \ {d}
        BY <2>2 DEF RequestFind
      <3> QED BY <1>1, <3>1 DEF Waiting, Rows
    <2>3. CASE Endpoint(c) /\ ~Stores(c) /\ ~RequestFind(c)
      BY <2>1, <2>3 DEF Endpoint, Stores, List, EditFind, Wake, Drained, Watched, dvars
    <2> QED BY <2>1, <2>2, <2>3, HandoffDoes, ThreadDoes
  <1> QED BY <1>1, <1>2, <1>3, RowsRest

(***************************************************************************)
(* The dispatcher keeps the invariants.                                    *)
(***************************************************************************)

\* The types, when the dispatcher moves on and the rows do not change.
LEMMA DispatcherTypes ==
  ASSUME DraftTypes, UNCHANGED <<queue, st, asked, canceled, hand, sent>>,
         disp' \in [step : DispSteps, draft : Drafts \cup {None}, was : RowStatus \cup {"none"}]
  PROVE  DraftTypes'
  BY DEF DraftTypes

\* A dispatcher that searches picks a row that is not dispatching, or goes on.
LEMMA SearchKeeps ==
  ASSUME DraftTypes, RowsInv, DispInv, OrderInv, SelectRequested \/ SelectQueued,
         \A d \in Drafts : pc'[d] = "idle" => pc[d] = "idle",
         \A d \in Calls : job[d] # "none" => job'[d] # "none"
  PROVE  /\ DraftTypes' /\ RowsInv' /\ DispInv' /\ OrderInv'
         /\ SentInv => SentInv'
  <1>1. /\ UNCHANGED <<queue, st, asked, canceled, hand, sent>>
        /\ disp.step \in {"select", "select_queued"} /\ disp.draft = None
    BY DEF SelectRequested, SelectQueued, At, DispInv, Searches
  <1>2. RowsInv'
    BY <1>1 DEF RowsInv, Rows
  <1>3. \A d \in Drafts : st[d] # "dispatching"
    BY <1>1, DraftsAreCalls DEF DispInv, DispatchingIsAtWork
  <1>4. CASE disp' = NoDispatch \/ Stage("select_queued")
    <2>1. disp'.step \in {"idle", "select_queued"} /\ disp'.draft = None
      BY <1>1, <1>4, StageHolds DEF NoDispatch, DispSteps, Searches
    <2>2. DraftTypes'
      BY <1>1, <1>4, StageHolds, RestingHolds, DispatcherTypes DEF DispSteps, Searches
    <2>3. DispInv'
      BY <1>1, <1>3, <2>1 DEF DispInv, DispatchingIsAtWork, Searches
    <2>4. OrderInv'
      BY <2>1 DEF OrderInv
    <2>5. SentInv => SentInv'
      BY <1>1, <2>1, DraftsAreCalls DEF SentInv
    <2> QED BY <1>2, <2>2, <2>3, <2>4, <2>5
  <1>5. ASSUME NEW d \in Requested \cup Waiting, Picked(d),
               d \in Waiting => \A e \in Waiting : ~Precedes(queue, e, d)
        PROVE  /\ DraftTypes' /\ RowsInv' /\ DispInv' /\ OrderInv'
               /\ SentInv => SentInv'
    <2>1. d \in Drafts /\ st[d] \in RowStatus /\ st[d] \notin {"none", "gone", "dispatching"}
      BY <1>3, StatusHolds DEF RowStatus
    <2>2. disp'.step = "mark" /\ disp'.draft = d /\ disp'.was = st[d]
      BY <1>5, <2>1, PickedHolds
    <2>3. DraftTypes'
      BY <1>1, <1>5, <2>1, PickedHolds, DispatcherTypes
    <2>4. DispInv'
      BY <1>1, <1>3, <2>1, <2>2, DraftsAreCalls DEF DispInv, DispatchingIsAtWork, Searches
    <2>5. OrderInv'
      <3>1. Waiting' = Waiting
        BY <1>1 DEF Waiting, Rows
      <3>2. st[d] = "queued" => d \in Waiting
        BY <2>1, StatusHolds
      <3> QED BY <1>1, <1>5, <2>2, <3>1, <3>2 DEF OrderInv
    <2>6. SentInv => SentInv'
      <3> SUFFICES ASSUME SentInv PROVE SentInv'
        OBVIOUS
      <3>1. sent[d] \in Nat
        BY <2>1, DraftsAreCalls DEF DraftTypes
      <3>2. sent[d] = 0
        BY <1>1, <2>1, <3>1, DraftsAreCalls DEF SentInv
      <3>3. \A e \in Drafts : sent[e] > 0 => st[e] = "gone" /\ job[e] # "none"
        BY <1>1, DraftsAreCalls DEF SentInv
      <3> QED BY <1>1, <2>2, <3>2, <3>3, DraftsAreCalls DEF SentInv
    <2> QED BY <1>2, <2>3, <2>4, <2>5, <2>6
  <1>6. CASE SelectRequested
    <2>1. CASE Requested # {}
      <3>1. Picked(FirstRequested) /\ FirstRequested \in Requested
        BY <1>6, <2>1, RequestedIsFound DEF SelectRequested
      <3>2. FirstRequested \notin Waiting
        BY <3>1, StatusHolds
      <3> QED BY <1>5, <3>1, <3>2
    <2> QED BY <1>4, <1>6, <2>1 DEF SelectRequested
  <1>7. CASE SelectQueued
    <2>1. CASE Waiting # {}
      <3>1. Picked(FindFirst(queue, Waiting))
        BY <1>7, <2>1 DEF SelectQueued
      <3>2. /\ FindFirst(queue, Waiting) \in Waiting
            /\ \A d \in Waiting : ~Precedes(queue, d, FindFirst(queue, Waiting))
        BY <2>1, WaitingIsFound DEF RowsInv
      <3> QED BY <1>5, <3>1, <3>2
    <2> QED BY <1>4, <1>7, <2>1 DEF SelectQueued
  <1> QED BY <1>6, <1>7

\* The row the dispatcher picked is marked, if it is still there.
LEMMA MarkKeeps ==
  ASSUME DraftTypes, RowsInv, DispInv, OrderInv, Mark,
         \A d \in Drafts : pc'[d] = "idle" => pc[d] = "idle",
         \A d \in Calls : job[d] # "none" => job'[d] # "none"
  PROVE  /\ DraftTypes' /\ RowsInv' /\ DispInv' /\ OrderInv'
         /\ SentInv => SentInv'
  <1> DEFINE d == disp.draft
  <1>1. /\ UNCHANGED <<queue, canceled, hand, sent>> /\ disp.step = "mark" /\ d \in Drafts
    BY DEF Mark, At, DispInv, Searches, DraftTypes
  <1>2. CASE d \notin Rows
    <2>1. disp' = NoDispatch /\ UNCHANGED <<st, asked>>
      BY <1>2 DEF Mark
    <2>2. DraftTypes'
      BY <1>1, <2>1, RestingHolds, DispatcherTypes
    <2>3. RowsInv'
      BY <1>1, <2>1 DEF RowsInv, Rows
    <2>4. \A e \in Drafts : st[e] # "dispatching"
      BY <1>1, <1>2, StatusHolds DEF DispInv, DispatchingIsAtWork
    <2>5. DispInv' /\ OrderInv'
      BY <2>1, <2>4 DEF DispInv, DispatchingIsAtWork, OrderInv, NoDispatch, Searches
    <2>6. SentInv => SentInv'
      BY <1>1, <2>1, DraftsAreCalls DEF SentInv, NoDispatch
    <2> QED BY <2>2, <2>3, <2>5, <2>6
  <1>3. CASE d \in Rows
    <2>1. /\ st' = [st EXCEPT ![d] = "dispatching"] /\ Stage("show")
          /\ asked' = IF disp.was = "queued" THEN Without(asked, d)
                      ELSE IF d \in ToSet(asked) THEN asked ELSE <<d>> \o asked
      BY <1>3 DEF Mark
    <2>2. disp'.step = "show" /\ disp'.draft = d /\ disp'.was = disp.was
      BY <2>1, StageHolds DEF DispSteps
    <2>3. disp' \in [step : DispSteps, draft : Drafts \cup {None}, was : RowStatus \cup {"none"}]
      BY <2>1, StageHolds DEF DispSteps
    <2>4. /\ asked' \in Seq(Drafts) /\ Once(asked')
          /\ ToSet(asked') \subseteq ToSet(asked) \cup {d}
      <3>1. CASE asked' = Without(asked, d)
        BY <1>1, <3>1, AskedAnew
      <3>2. CASE UNCHANGED asked
        BY <3>2 DEF DraftTypes, RowsInv
      <3>3. CASE d \notin ToSet(asked) /\ asked' = <<d>> \o asked
        BY <1>1, <3>3, AskedKept
      <3> QED BY <2>1, <3>1, <3>2, <3>3
    <2>5. /\ RowsInv' /\ Rows' = Rows
          /\ st' \in [Calls -> RowStatus \cup {"none", "gone"}]
          /\ \A e \in Drafts : st'[e] = IF e = d THEN "dispatching" ELSE st[e]
      <3> HIDE DEF d
      <3> QED BY <1>1, <1>3, <2>1, <2>4, RowChanges DEF RowStatus
    <2>6. DraftTypes'
      BY <1>1, <2>3, <2>4, <2>5 DEF DraftTypes
    <2>7. DispInv'
      BY <1>1, <2>2, <2>5, DraftsAreCalls DEF DispInv, DispatchingIsAtWork, Searches
    <2>8. OrderInv'
      <3>1. Waiting' \subseteq Waiting
        BY <1>1, <2>5, RowsAreDrafts DEF Waiting
      <3> QED BY <1>1, <2>2, <3>1 DEF OrderInv
    <2>9. SentInv => SentInv'
      <3>1. st[d] # "gone"
        BY <1>1, <1>3, StatusHolds
      <3> QED BY <1>1, <2>2, <2>5, <3>1, DraftsAreCalls DEF SentInv
    <2> QED BY <2>5, <2>6, <2>7, <2>8, <2>9
  <1> QED BY <1>2, <1>3

\* The slot is taken, the message is stored, the run is scheduled, and the dispatcher
\* is over: the rows do not change.
LEMMA StagesKeep ==
  ASSUME DraftTypes, RowsInv, DispInv, OrderInv, TypeOK,
         Show \/ Store \/ Dispatch \/ Finish,
         \A d \in Drafts : pc'[d] = "idle" => pc[d] = "idle",
         \A d \in Calls : job[d] # "none" => job'[d] # "none"
  PROVE  /\ DraftTypes' /\ RowsInv' /\ DispInv' /\ OrderInv'
         /\ SentInv => SentInv'
  <1> DEFINE d == disp.draft
  <1>1. /\ UNCHANGED <<queue, st, asked, canceled, hand>>
        /\ disp.step \in {"show", "store", "announce", "finish"} /\ d \in Drafts
    BY DEF Show, Store, Dispatch, Finish, At, DispInv, Searches, DraftTypes, tvars, vars
  <1>2. RowsInv'
    BY <1>1 DEF RowsInv, Rows
  <1>3. /\ Waiting' = Waiting /\ queue' = queue
        /\ \A e \in Calls : sent[e] \in Nat
        /\ disp \in [step : DispSteps, draft : Drafts \cup {None}, was : RowStatus \cup {"none"}]
    BY <1>1 DEF Waiting, Rows, DraftTypes
  <1>4. CASE Show
    <2>1. disp'.step = "store" /\ disp'.draft = d /\ disp'.was = disp.was
      BY <1>4, StageHolds DEF Show, DispSteps
    <2>2. DraftTypes'
      BY <1>1, <1>4, StageHolds, DispatcherTypes DEF Show, DispSteps
    <2>3. DispInv' /\ OrderInv'
      BY <1>1, <1>3, <1>4, <2>1
      DEF Show, At, DispInv, DispatchingIsAtWork, OrderInv, Searches
    <2>4. SentInv => SentInv'
      BY <1>1, <1>4, <2>1, DraftsAreCalls DEF Show, At, SentInv
    <2> QED BY <1>2, <2>2, <2>3, <2>4
  <1>5. CASE Store
    <2>1. disp'.step = "remove" /\ disp'.draft = d /\ disp'.was = disp.was
      BY <1>5, StageHolds DEF Store, DispSteps
    <2>2. \A e \in Calls : sent'[e] = IF e = d THEN sent[e] + 1 ELSE sent[e]
      BY <1>5 DEF Store, DraftTypes
    <2>3. sent' \in [Calls -> Nat]
      <3>1. sent \in [Calls -> Nat] /\ d \in Calls /\ sent' = [sent EXCEPT ![d] = @ + 1]
        BY <1>1, <1>5, DraftsAreCalls DEF Store, DraftTypes
      <3> HIDE DEF d
      <3> QED BY <3>1
    <2>4. DraftTypes'
      BY <1>1, <1>5, <2>3, StageHolds DEF DraftTypes, Store, DispSteps
    <2>5. DispInv' /\ OrderInv'
      BY <1>1, <1>5, <2>1
      DEF Store, At, DispInv, DispatchingIsAtWork, OrderInv, Searches
    <2>6. SentInv => SentInv'
      BY <1>1, <1>5, <2>1, <2>2, DraftsAreCalls DEF Store, At, tvars, vars, SentInv
    <2> QED BY <1>2, <2>4, <2>5, <2>6
  <1>6. CASE Dispatch
    <2>1. /\ disp'.step = "finish" /\ disp'.draft = d /\ disp'.was = disp.was
          /\ disp.step = "announce" /\ st[d] = "gone" /\ UNCHANGED sent
      BY <1>6, StageHolds DEF Dispatch, DispSteps, At, DispInv
    <2>2. DraftTypes'
      BY <1>1, <1>6, <2>1, StageHolds, DispatcherTypes DEF Dispatch, DispSteps
    <2>3. DispInv' /\ OrderInv'
      BY <1>1, <2>1 DEF DispInv, DispatchingIsAtWork, OrderInv, Searches
    <2>4. job'[d] # "none"
      BY <1>1, <1>6, DraftsAreCalls DEF Dispatch, Schedule, Disarmed
    <2>5. SentInv => SentInv'
      BY <1>1, <2>1, <2>4, DraftsAreCalls DEF SentInv
    <2> QED BY <1>2, <2>2, <2>3, <2>5
  <1>7. CASE Finish
    <2>1. /\ disp' = NoDispatch /\ disp.step = "finish" /\ UNCHANGED sent
      BY <1>7 DEF Finish, At
    <2>2. DraftTypes'
      BY <1>1, <2>1, RestingHolds, DispatcherTypes
    <2>3. \A e \in Drafts : st[e] # "dispatching"
      BY <1>1, <2>1 DEF DispInv, DispatchingIsAtWork
    <2>4. DispInv' /\ OrderInv'
      BY <1>1, <2>1, <2>3 DEF DispInv, DispatchingIsAtWork, OrderInv, NoDispatch, Searches
    <2>5. SentInv => SentInv'
      BY <1>1, <2>1, DraftsAreCalls DEF SentInv, NoDispatch
    <2> QED BY <1>2, <2>2, <2>4, <2>5
  <1> QED BY <1>4, <1>5, <1>6, <1>7

\* The row of the draft that was stored is removed.
LEMMA DiscardKeeps ==
  ASSUME DraftTypes, RowsInv, DispInv, OrderInv, Discard,
         \A d \in Drafts : pc'[d] = "idle" => pc[d] = "idle",
         \A d \in Calls : job[d] # "none" => job'[d] # "none"
  PROVE  /\ DraftTypes' /\ RowsInv' /\ DispInv' /\ OrderInv'
         /\ SentInv => SentInv'
  <1> DEFINE d == disp.draft
  <1>1. /\ UNCHANGED <<hand, sent>> /\ disp.step = "remove" /\ d \in Drafts
        /\ RemoveRow(d) /\ Stage("announce") /\ st[d] # "none"
    BY DraftsAreCalls DEF Discard, At, DispInv, Searches, DraftTypes
  <1>2. /\ disp'.step = "announce" /\ disp'.draft = d /\ disp'.was = disp.was
        /\ disp' \in [step : DispSteps, draft : Drafts \cup {None}, was : RowStatus \cup {"none"}]
    BY <1>1, StageHolds DEF DispSteps
  <1>3. /\ RowsInv'
        /\ queue' \in Seq(Drafts) /\ asked' \in Seq(Drafts)
        /\ st' \in [Calls -> RowStatus \cup {"none", "gone"}]
        /\ canceled' \subseteq Drafts
        /\ \A e \in Drafts : st'[e] = IF e = d THEN "gone" ELSE st[e]
    <2> HIDE DEF d
    <2> QED BY <1>1, RowLeaves
  <1>4. DraftTypes'
    BY <1>1, <1>2, <1>3 DEF DraftTypes
  <1>5. DispInv' /\ OrderInv'
    BY <1>1, <1>2, <1>3, DraftsAreCalls DEF DispInv, DispatchingIsAtWork, OrderInv, Searches
  <1>6. SentInv => SentInv'
    BY <1>1, <1>2, <1>3, DraftsAreCalls DEF SentInv
  <1> QED BY <1>3, <1>4, <1>5, <1>6

\* A dispatch that fails leaves the row to be dispatched again, if it is still there.
LEMMA FailsKeeps ==
  ASSUME DraftTypes, RowsInv, DispInv, OrderInv, DispatchFails,
         \A d \in Drafts : pc'[d] = "idle" => pc[d] = "idle",
         \A d \in Calls : job[d] # "none" => job'[d] # "none"
  PROVE  /\ DraftTypes' /\ RowsInv' /\ DispInv' /\ OrderInv'
         /\ SentInv /\ "draft_late" \notin Faults => SentInv'
  <1> DEFINE d == disp.draft
  <1>1. /\ UNCHANGED <<queue, canceled, hand, sent>> /\ disp' = NoDispatch /\ d \in Drafts
        /\ disp.step \in {"store", "remove", "announce", "finish"}
        /\ "draft_late" \notin Faults => disp.step = "store"
    BY DEF DispatchFails, At, DispInv, Searches, DraftTypes
  <1>2. OrderInv'
    BY <1>1 DEF OrderInv, NoDispatch
  <1>3. CASE d \notin Rows
    <2>1. UNCHANGED <<st, asked>>
      BY <1>3 DEF DispatchFails
    <2>2. DraftTypes'
      BY <1>1, <2>1, RestingHolds, DispatcherTypes
    <2>3. RowsInv'
      BY <1>1, <2>1 DEF RowsInv, Rows
    <2>4. \A e \in Drafts : st[e] # "dispatching"
      BY <1>1, <1>3, StatusHolds DEF DispInv, DispatchingIsAtWork
    <2>5. DispInv'
      BY <1>1, <2>1, <2>4 DEF DispInv, DispatchingIsAtWork, NoDispatch, Searches
    <2>6. SentInv /\ "draft_late" \notin Faults => SentInv'
      BY <1>1, <2>1, DraftsAreCalls DEF SentInv, NoDispatch
    <2> QED BY <1>2, <2>2, <2>3, <2>5, <2>6
  <1>4. CASE d \in Rows
    <2>1. /\ st' = [st EXCEPT ![d] = "requested"]
          /\ asked' = IF d \in ToSet(asked) THEN asked ELSE Append(asked, d)
      BY <1>4 DEF DispatchFails
    <2>2. /\ asked' \in Seq(Drafts) /\ Once(asked')
          /\ ToSet(asked') \subseteq ToSet(asked) \cup {d}
      <3>1. CASE UNCHANGED asked
        BY <3>1 DEF DraftTypes, RowsInv
      <3>2. CASE d \notin ToSet(asked) /\ asked' = Append(asked, d)
        BY <1>1, <3>2, AskedKept
      <3> QED BY <2>1, <3>1, <3>2
    <2>3. /\ RowsInv' /\ Rows' = Rows
          /\ st' \in [Calls -> RowStatus \cup {"none", "gone"}]
          /\ \A e \in Drafts : st'[e] = IF e = d THEN "requested" ELSE st[e]
      <3> HIDE DEF d
      <3> QED BY <1>1, <1>4, <2>1, <2>2, RowChanges DEF RowStatus
    <2>4. DraftTypes'
      BY <1>1, <2>2, <2>3, RestingHolds DEF DraftTypes
    <2>5. \A e \in Drafts : st'[e] # "dispatching"
      BY <1>1, <2>3 DEF DispInv, DispatchingIsAtWork
    <2>6. DispInv'
      BY <1>1, <2>5 DEF DispInv, DispatchingIsAtWork, NoDispatch, Searches
    <2>7. SentInv /\ "draft_late" \notin Faults => SentInv'
      <3>1. st[d] # "gone"
        BY <1>1, <1>4, StatusHolds
      <3> QED BY <1>1, <2>3, <3>1, DraftsAreCalls DEF SentInv, NoDispatch
    <2> QED BY <1>2, <2>3, <2>4, <2>6, <2>7
  <1> QED BY <1>3, <1>4

(***************************************************************************)
(* The invariant of the rows, and what it says of the code.                *)
(***************************************************************************)

\* Every step keeps what is said of the rows, whatever fails; and unless a dispatch fails
\* after the message is stored, it keeps what is said of the messages.
LEMMA DraftStep ==
  ASSUME DraftInv, [DraftNext]_allvars
  PROVE  /\ DraftInv'
         /\ SentInv /\ "draft_late" \notin Faults => SentInv'
  <1>1. TypeOK /\ DraftTypes /\ RowsInv /\ DispInv /\ OrderInv
    BY DEF DraftInv
  <1>2. TypeOK'
    BY <1>1, ThreadTypesNext
  <1>3. \A d \in Drafts : pc'[d] = "idle" => pc[d] = "idle" /\ ~Queue(d)
    BY <1>1, DraftsStayCalled
  <1>4. \A d \in Calls : job[d] # "none" => job'[d] # "none"
    BY <1>1, JobsStay
  <1>5. /\ DraftTypes' /\ RowsInv' /\ DispInv' /\ OrderInv'
        /\ SentInv /\ "draft_late" \notin Faults => SentInv'
    <2>1. CASE UNCHANGED dvars
      <3>1. /\ UNCHANGED <<queue, st, asked, sent, canceled, hand, disp>>
            /\ Waiting' = Waiting /\ Woken
        BY <2>1 DEF dvars, Waiting, Rows, Woken
      <3>2. hand' \in [Calls -> [step : HandSteps, cur : Slots]]
        BY <1>1, <3>1 DEF DraftTypes
      <3> QED BY <1>1, <1>3, <1>4, <3>1, <3>2, RowsRest
    <2>2. CASE Dispatcher
      <3>1. CASE SelectRequested \/ SelectQueued
        BY <1>1, <1>3, <1>4, <3>1, SearchKeeps
      <3>2. CASE Mark
        BY <1>1, <1>3, <1>4, <3>2, MarkKeeps
      <3>3. CASE Show \/ Store \/ Dispatch \/ Finish
        BY <1>1, <1>3, <1>4, <3>3, StagesKeep
      <3>4. CASE Discard
        BY <1>1, <1>3, <1>4, <3>4, DiscardKeeps
      <3>5. CASE DispatchFails
        BY <1>1, <1>3, <1>4, <3>5, FailsKeeps
      <3> QED BY <2>2, <3>1, <3>2, <3>3, <3>4, <3>5 DEF Dispatcher
    <2>3. ASSUME NEW c \in Calls, Queue(c)
          PROVE  /\ DraftTypes' /\ RowsInv' /\ DispInv' /\ OrderInv'
                 /\ SentInv => SentInv'
      BY <1>1, <1>3, <2>3, QueueKeeps
    <2>4. ASSUME NEW c \in Calls, Stores(c)
          PROVE  /\ DraftTypes' /\ RowsInv' /\ DispInv' /\ OrderInv'
                 /\ SentInv => SentInv'
      BY <1>1, <1>3, <2>4, StoresKeep
    <2>5. ASSUME NEW c \in Calls, (Endpoint(c) /\ ~Stores(c)) \/ Handoff(c) \/ OfThread(c)
          PROVE  /\ DraftTypes' /\ RowsInv' /\ DispInv' /\ OrderInv'
                 /\ SentInv => SentInv'
      BY <1>1, <1>3, <1>4, <2>5, RestsKeep
    <2> QED BY <2>1, <2>2, <2>3, <2>4, <2>5, StepsAre DEF allvars
  <1> QED BY <1>1, <1>2, <1>5 DEF DraftInv

\* At first there are no rows.
LEMMA DraftInvInit == DraftInit => DraftInv /\ SentInv
  <1> SUFFICES ASSUME DraftInit PROVE DraftInv /\ SentInv
    OBVIOUS
  <1>1. TypeOK /\ DraftTypes
    BY DraftTypesInit
  <1>2. /\ queue = <<>> /\ asked = <<>> /\ disp = NoDispatch
        /\ \A d \in Calls : st[d] = "none" /\ sent[d] = 0
    BY DEF DraftInit
  <1>3. DOMAIN queue = {} /\ DOMAIN asked = {}
    <2>1. ASSUME NEW n \in DOMAIN queue \cup DOMAIN asked PROVE FALSE
      BY <1>2, <2>1
    <2> QED BY <2>1
  <1>4. Rows = {} /\ ToSet(asked) = {}
    BY <1>3 DEF Rows, ToSet
  <1>5. RowsInv
    BY <1>2, <1>3, <1>4, DraftsAreCalls DEF RowsInv, Once, RowStatus
  <1>6. DispInv /\ OrderInv /\ SentInv
    BY <1>2, DraftsAreCalls
    DEF DispInv, DispatchingIsAtWork, OrderInv, SentInv, NoDispatch, Searches
  <1> QED BY <1>1, <1>5, <1>6 DEF DraftInv

\* Whatever is called, overlaps and fails.
LEMMA DraftInvAlways == DraftSpec => []DraftInv
  <1>1. DraftInv /\ [DraftNext]_allvars => DraftInv'
    BY DraftStep
  <1> QED BY <1>1, DraftInvInit, PTL DEF DraftSpec

(***************************************************************************)
(* A row is dispatching only while the dispatcher is at work on it:        *)
(* otherwise it could neither be cancelled nor be dispatched again         *)
(* (chatService.ts, cancelQueuedMessageDispatch and getNextQueuedMessage). *)
(***************************************************************************)
THEOREM DispatchingRowIsAtWork == DraftSpec => []DispatchingIsAtWork
  <1>1. DraftInv => DispatchingIsAtWork
    BY DEF DraftInv, DispInv
  <1> QED BY <1>1, DraftInvAlways, PTL

(***************************************************************************)
(* The drafts nobody asked for leave in the order they were queued, though *)
(* the dispatcher reads the row, marks it and stores the message with an   *)
(* await between each, while the user queues, deletes, requests and puts   *)
(* back drafts, and though dispatches fail and are retried.                *)
(***************************************************************************)
THEOREM DraftsLeaveInOrder == DraftSpec => OldestFirst
  <1>1. ASSUME DraftInv, [DraftNext]_allvars, NEW d \in Drafts,
               sent'[d] > sent[d], disp.was = "queued",
               NEW i \in DOMAIN queue, NEW k \in DOMAIN queue, queue[k] = d, i < k
        PROVE  st[queue[i]] # "queued" \/ queue[i] \in canceled
    <2>1. TypeOK /\ DraftTypes /\ RowsInv /\ DispInv /\ OrderInv
      BY <1>1 DEF DraftInv
    <2>2. sent[d] \in Nat /\ sent' # sent
      BY <1>1, <2>1, DraftsAreCalls DEF DraftTypes
    <2>3. Store
      <3>1. ~UNCHANGED dvars
        BY <2>2 DEF dvars
      <3>2. ASSUME NEW c \in Calls, Queue(c) \/ Endpoint(c) \/ Handoff(c) \/ OfThread(c)
            PROVE  FALSE
        BY <2>1, <2>2, <3>2, EndpointDoes, HandoffDoes, ThreadDoes DEF Queue
      <3>3. Dispatcher
        BY <1>1, <3>1, <3>2, StepsAre DEF allvars
      <3> QED BY <2>2, <3>3
          DEF Dispatcher, SelectRequested, SelectQueued, Mark, Show, Discard, Dispatch, Finish,
              DispatchFails
    <2>4. d = disp.draft /\ disp.step = "store"
      BY <1>1, <2>1, <2>3, DraftsAreCalls DEF Store, At, DraftTypes
    <2>5. Precedes(queue, queue[i], d)
      BY <1>1 DEF Precedes
    <2>6. queue[i] \in Rows
      BY <1>1 DEF Rows, ToSet
    <2>7. queue[i] \notin Waiting
      BY <1>1, <2>1, <2>4, <2>5 DEF OrderInv
    <2> QED BY <2>6, <2>7 DEF Waiting
  <1>2. DraftInv /\ [DraftNext]_allvars =>
          [\A d \in Drafts : sent'[d] > sent[d] /\ disp.was = "queued" =>
             \A i, k \in DOMAIN queue :
               queue[k] = d /\ i < k => st[queue[i]] # "queued" \/ queue[i] \in canceled]_allvars
    BY <1>1
  <1> QED BY <1>2, DraftInvAlways, PTL DEF DraftSpec, OldestFirst

(***************************************************************************)
(* A draft becomes a message once, and a run is scheduled for it: polls,   *)
(* requests, retries, deletions and stops notwithstanding, and whatever    *)
(* tools the runners use.  What becomes of the run is the matter of        *)
(* DraftsBecomeOneTurn below.  A dispatch that fails once the message is   *)
(* stored breaks this in the code, hence the hypothesis                    *)
(* (chatService.ts:1520).                                                  *)
(***************************************************************************)
THEOREM MessagesAreScheduled ==
  ASSUME "draft_late" \notin Faults
  PROVE  DraftSpec => []MessageIsScheduled
  <1>1. DraftInv /\ SentInv /\ [DraftNext]_allvars => (DraftInv /\ SentInv)'
    BY DraftStep
  <1>2. DraftInv /\ SentInv => MessageIsScheduled
    BY DEF SentInv, MessageIsScheduled
  <1> QED BY <1>1, <1>2, DraftInvInit, PTL DEF DraftSpec

(***************************************************************************)
(* A thread that is quiet is free.                                         *)
(***************************************************************************)

\* A step that leaves the slot's owner and every run alone.
LEMMA SlotJobsKept ==
  ASSUME SlotHasJob, UNCHANGED job, run'.timer = run.timer, run'.ctl = run.ctl
  PROVE  SlotHasJob'
  BY DEF SlotHasJob

\* A slot without a timer and a controller has nobody's.
LEMMA SlotJobsFreed ==
  ASSUME run'.timer = None, run'.ctl = None
  PROVE  SlotHasJob'
  BY CallsAssumption DEF SlotHasJob

\* A scheduled run is the slot's.
LEMMA SlotJobsScheduled ==
  ASSUME NEW c \in Calls, Schedule(c)
  PROVE  SlotHasJob'
  BY CallsAssumption DEF SlotHasJob, Schedule, Slot, Disarmed

\* What a call of ThreadRun does after an await, ...
LEMMA SlotJobsContinue ==
  ASSUME TypeOK, SlotHasJob, FreshTurn, NEW c \in Calls, Continue(c)
  PROVE  SlotHasJob'
  <1>1. CASE RecoverPlan(c) \/ RewritePlan(c) \/ Reconcile(c) \/ ReadLastEvent(c) \/ Refuse(c)
             \/ Snapshot(c) \/ Commit(c) \/ ReviseFails(c) \/ Approve(c) \/ ApproveClear(c)
             \/ Dismiss(c) \/ StopGates(c) \/ StopAbort(c) \/ Resolve(c) \/ Return(c)
             \/ ResolvedAlready(c) \/ Reread(c)
    <2>1. UNCHANGED <<run, job>>
      BY <1>1
      DEF RecoverPlan, RewritePlan, Reconcile, ReadLastEvent, Refuse, Snapshot, Commit,
          ReviseFails, Approve, ApproveClear, Dismiss, StopGates, StopAbort, Resolve, Return,
          ResolvedAlready, Reread
    <2> QED BY <2>1, SlotJobsKept
  <1>2. CASE Judge(c)
    <2>1. CASE ClearRun
      BY <2>1, SlotJobsFreed DEF ClearRun, NoRun, Disarmed
    <2>2. CASE UNCHANGED job /\ (run' = run \/ run' = Marked("running"))
      BY <2>2, SlotJobsKept, MarkedKeeps DEF RunStatus
    <2> QED BY <1>2, <2>1, <2>2 DEF Judge
  <1>3. CASE Reserve(c)
    BY <1>3, SlotJobsFreed DEF Reserve, Slot
  <1>4. CASE CommitFails(c) \/ RereadFails(c) \/ StopTimer(c)
    BY <1>4, SlotJobsFreed DEF CommitFails, RereadFails, StopTimer, ClearRun, NoRun, Disarmed
  <1>5. CASE StartTurn(c)
    <2>1. CASE Op[c] = "handoff"
      <3>1. c \notin Drafts /\ pc[c] \notin Past
        BY <1>5, <2>1 DEF StartTurn, Past, Drafts
      <3>2. job[c] = "none" /\ run.timer # c /\ run.ctl # c
        BY <3>1 DEF FreshTurn, SlotHasJob
      <3>3. UNCHANGED run /\ \A j \in Calls : j # c => job'[j] = job[j]
        BY <1>5, <2>1 DEF StartTurn, TypeOK
      <3> QED BY <3>2, <3>3 DEF SlotHasJob
    <2>2. CASE Op[c] # "handoff"
      BY <1>5, <2>2, SlotJobsScheduled DEF StartTurn
    <2> QED BY <2>1, <2>2
  <1>6. CASE Resolved(c)
    BY <1>6, SlotJobsKept, MarkedKeeps DEF Resolved, RunStatus
  <1> QED BY <1>1, <1>2, <1>3, <1>4, <1>5, <1>6 DEF Continue

\* ... what a run does, ...
LEMMA SlotJobsRuns ==
  ASSUME TypeOK, SlotHasJob, NEW j \in Calls, Proceed(j) \/ Runner(j) \/ Load(j) \/ Persist
  PROVE  SlotHasJob'
  <1>1. CASE Begin(j)
    <2>1. run'.timer = None /\ run'.ctl = j /\ job'[j] = "running"
      BY <1>1 DEF Begin, Slot, TypeOK
    <2> QED BY <2>1, CallsAssumption DEF SlotHasJob
  <1>2. CASE End(j)
    BY <1>2 DEF End, TypeOK, SlotHasJob
  <1>3. CASE Finally(j)
    <2>1. CASE run.ctl = j
      BY <1>3, <2>1, SlotJobsFreed DEF Finally, NoRun, Disarmed
    <2>2. CASE run.ctl # j
      BY <1>3, <2>2 DEF Finally, TypeOK, SlotHasJob, Disarmed
    <2> QED BY <2>1, <2>2
  <1>4. CASE PlanSave(j) \/ Load(j) \/ Persist \/ Text(j) \/ Metadata(j)
    BY <1>4, SlotJobsKept DEF PlanSave, Load, Persist, Text, Metadata
  <1>5. CASE ToolStart(j) \/ ToolFinish(j)
    <2>1. run'.timer = run.timer /\ run'.ctl = run.ctl
      BY <1>5 DEF ToolStart, ToolFinish, TypeOK, Slots
    <2> QED BY <1>5, <2>1, SlotJobsKept DEF ToolStart, ToolFinish
  <1>6. CASE AskGate(j) \/ PlanDetect(j)
    BY <1>6, SlotJobsKept, MarkedKeeps DEF AskGate, PlanDetect, RunStatus
  <1> QED BY <1>1, <1>2, <1>3, <1>4, <1>5, <1>6 DEF Proceed, Runner

\* ... and what the dispatcher does keep the slot's owner a run that is not over.
LEMMA SlotJobsDispatcher ==
  ASSUME TypeOK, DraftTypes, DispInv, SlotHasJob, Dispatcher
  PROVE  SlotHasJob'
  <1>1. CASE Show
    BY <1>1, SlotJobsFreed DEF Show, Slot
  <1>2. CASE Dispatch
    <2>1. disp.draft \in Calls
      BY <1>2, DraftsAreCalls DEF Dispatch, At, DispInv, DraftTypes, Searches
    <2> QED BY <1>2, <2>1, SlotJobsScheduled DEF Dispatch
  <1>3. CASE DispatchFails
    BY <1>3, SlotJobsFreed DEF DispatchFails, ClearRun, NoRun, Disarmed
  <1>4. CASE UNCHANGED <<run, job>>
    BY <1>4, SlotJobsKept
  <1> QED BY <1>1, <1>2, <1>3, <1>4
      DEF Dispatcher, SelectRequested, SelectQueued, Mark, Store, Discard, Finish, tvars, vars

\* A step that gives no call a run and takes none back before its turn.
LEMMA FreshKept ==
  ASSUME FreshTurn,
         \A c \in Calls \ Drafts : pc'[c] \notin Past => pc[c] \notin Past,
         \A c \in Calls \ Drafts : job[c] = "none" /\ pc'[c] \notin Past => job'[c] = "none"
  PROVE  FreshTurn'
  BY DEF FreshTurn

\* Only scheduleAssistant gives a call its run, and the call has then gone on.
LEMMA FreshThread ==
  ASSUME TypeOK, SlotHasJob, FreshTurn, NEW c \in Calls,
         Continue(c) \/ Proceed(c) \/ Runner(c) \/ Load(c) \/ Persist
  PROVE  FreshTurn'
  <1>0. /\ job \in [Calls -> JobPhases] /\ pc \in [Calls -> Steps]
        /\ \A d \in Calls : job[d] = "none" => run.timer # d
    BY DEF TypeOK, SlotHasJob
  <1>1. CASE Load(c)
    BY <1>0, <1>1, FreshKept DEF Load, Goto, Past
  <1>2. CASE Persist
    BY <1>2, FreshKept DEF Persist
  <1>3. CASE Proceed(c) \/ Runner(c)
    <2>1. UNCHANGED pc
      BY <1>3, RunsMoveNoCall
    <2>2. \A d \in Calls : job[d] = "none" => job'[d] = "none"
      BY <1>0, <1>3
      DEF Proceed, Runner, Begin, PlanSave, End, Finally, Text, ToolStart, ToolFinish,
          AskGate, PlanDetect, Metadata, Disarmed
    <2> QED BY <2>1, <2>2, FreshKept
  <1>4. CASE Continue(c)
    <2>1. pc[c] \in Past => pc'[c] \in Past
      BY <1>0, <1>4
      DEF Continue, RecoverPlan, RewritePlan, Reconcile, ReadLastEvent, Judge, Refuse,
          Snapshot, Reserve, Commit, CommitFails, ReviseFails, Approve, ApproveClear,
          StartTurn, Dismiss, StopGates, StopTimer, StopAbort, Resolve, Resolved, Return,
          ResolvedAlready, Reread, RereadFails, Goto, Past
    <2>2. \A d \in Calls : pc'[d] \notin Past => pc[d] \notin Past
      BY <1>0, <1>4, <2>1, ContinueGoes DEF Goto
    <2>3. ASSUME NEW d \in Calls, job[d] = "none", pc'[d] \notin Past
          PROVE  job'[d] = "none"
      <3>1. CASE StartTurn(c)
        <4>1. pc'[c] \in Past
          BY <1>0, <3>1 DEF StartTurn, Goto, Past
        <4>2. d # c
          BY <2>3, <4>1
        <4> QED BY <1>0, <2>3, <3>1, <4>2 DEF StartTurn, Schedule, Disarmed
      <3>2. CASE ClearRun
        BY <1>0, <2>3, <3>2 DEF ClearRun, Disarmed
      <3>3. CASE StopTimer(c)
        BY <1>0, <2>3, <3>3 DEF StopTimer
      <3>4. CASE UNCHANGED job
        BY <2>3, <3>4
      <3> QED BY <1>4, <3>1, <3>2, <3>3, <3>4
          DEF Continue, RecoverPlan, RewritePlan, Reconcile, ReadLastEvent, Judge, Refuse,
              Snapshot, Reserve, Commit, CommitFails, ReviseFails, Approve, ApproveClear,
              Dismiss, StopGates, StopAbort, Resolve, Resolved, Return, ResolvedAlready,
              Reread, RereadFails
    <2> QED BY <2>2, <2>3, FreshKept
  <1> QED BY <1>1, <1>2, <1>3, <1>4

\* The dispatcher gives a draft its run and no other call.
LEMMA FreshDispatcher ==
  ASSUME TypeOK, DraftTypes, DispInv, SlotHasJob, FreshTurn, Dispatcher
  PROVE  FreshTurn'
  <1>0. /\ job \in [Calls -> JobPhases] /\ UNCHANGED pc
        /\ \A d \in Calls : job[d] = "none" => run.timer # d
    BY DispatchMovesNoCall DEF TypeOK, SlotHasJob
  <1>1. CASE Dispatch
    <2>1. disp.draft \in Drafts
      BY <1>1, DraftsAreCalls DEF Dispatch, At, DispInv, DraftTypes, Searches
    <2>2. \A c \in Calls \ Drafts : job[c] = "none" => job'[c] = "none"
      BY <1>0, <1>1, <2>1 DEF Dispatch, Schedule, Disarmed
    <2> QED BY <1>0, <2>2, FreshKept
  <1>2. CASE DispatchFails
    <2>1. \A c \in Calls : job[c] = "none" => job'[c] = "none"
      BY <1>0, <1>2 DEF DispatchFails, ClearRun, Disarmed
    <2> QED BY <1>0, <2>1, FreshKept
  <1>3. CASE UNCHANGED job
    BY <1>0, <1>3, FreshKept
  <1> QED BY <1>1, <1>2, <1>3
      DEF Dispatcher, SelectRequested, SelectQueued, Mark, Show, Store, Discard, Finish,
          tvars, vars

\* An endpoint of the queue is not between a reservation and its run, ...
LEMMA EndpointReserves ==
  ASSUME TypeOK, NEW c \in Calls, Endpoint(c) \/ Queue(c)
  PROVE  /\ \A d \in Calls : Reserver(d) => Reserver(d)'
         /\ \A d \in Calls : pc'[d] \notin Past => pc[d] \notin Past
  <1>0. pc \in [Calls -> Steps]
    BY DEF TypeOK
  <1>1. pc[c] \in {"idle", "kick", "draining", "admit", "found"} /\ \E s \in Steps : Goto(c, s)
    BY DEF Endpoint, Queue, List, EditFind, Wake, Drained, Watched, RequestFind,
           RequestStore, CancelStore, DeleteStore, MayStart, Steps
  <1> QED BY <1>0, <1>1 DEF Reserver, Goto, Past

\* ... so the slot keeps a holder when an endpoint is at work, ...
LEMMA EndpointHolds ==
  ASSUME TypeOK, DraftTypes, OwnersInv, NEW c \in Calls, Endpoint(c) \/ Queue(c)
  PROVE  OwnersInv'
  <1>1. UNCHANGED <<run, job, hand, did>> /\ Woken
    BY EndpointDoes DEF Queue, Woken
  <1>2. NoHands' /\ SlotHasJob'
    BY <1>1 DEF OwnersInv, NoHands, SlotHasJob
  <1>3. FreshTurn'
    BY <1>1, EndpointReserves, FreshKept DEF OwnersInv
  <1>4. SlotHasHolder'
    <2>1. CASE SlotHasOwner
      BY <1>1, <2>1, EndpointReserves, OwnerKept DEF SlotHasHolder
    <2>2. CASE disp.step \in {"store", "remove", "announce"}
      BY <1>1, <2>2 DEF Woken, SlotHasHolder
    <2> QED BY <2>1, <2>2 DEF OwnersInv, SlotHasHolder
  <1> QED BY <1>2, <1>3, <1>4 DEF OwnersInv

\* A runner that uses no tools comes to no hand-off.
LEMMA NoHandsThread ==
  ASSUME TypeOK, DraftTypes, NoHands, "tool" \notin Acts,
         NEW c \in Calls, OfThread(c) \/ (Persist /\ UNCHANGED dvars)
  PROVE  NoHands'
  <1>0. Continue(c) \/ Proceed(c) \/ Runner(c) \/ Load(c) \/ Persist
    BY DEF OfThread, ThreadContinue, ThreadRunner, ToolFinishAndHandoff, ReturnAndKick,
           EndAfterHandoff, FinallyAndKick, Continue, Proceed, Runner
  <1>1. ~ToolFinish(c) /\ ~ToolStart(c)
    BY DEF ToolFinish, ToolStart, May, NoHands
  <1>2. UNCHANGED hand
    BY <1>1, ThreadDoes DEF dvars
  <1>3. \A j \in Calls : "tool" \notin did[j] => "tool" \notin did'[j]
    <2>1. did \in [Calls -> SUBSET Callbacks]
      BY DEF TypeOK
    <2>2. CASE Text(c) \/ AskGate(c) \/ PlanDetect(c) \/ Metadata(c) \/ PlanSave(c)
      BY <2>1, <2>2 DEF Text, AskGate, PlanDetect, Metadata, PlanSave
    <2>3. CASE UNCHANGED did
      BY <2>3
    <2> QED BY <1>0, <1>1, <2>2, <2>3
        DEF Continue, RecoverPlan, RewritePlan, Reconcile, ReadLastEvent, Judge, Refuse,
            Snapshot, Reserve, Commit, CommitFails, ReviseFails, Approve, ApproveClear,
            StartTurn, Dismiss, StopGates, StopTimer, StopAbort, Resolve, Resolved, Return,
            ResolvedAlready, Reread, RereadFails, Proceed, Runner, Begin, End, Finally,
            Load, Persist, Disarmed
  <1> QED BY <1>2, <1>3 DEF NoHands

\* ... when the thread is, ...
LEMMA ThreadHolds ==
  ASSUME TypeOK, DraftTypes, OwnersInv, "tool" \notin Acts, "revise" \notin Faults,
         NEW c \in Calls, OfThread(c) \/ (Persist /\ UNCHANGED dvars)
  PROVE  OwnersInv'
  <1>1. Continue(c) \/ Proceed(c) \/ Runner(c) \/ Load(c) \/ Persist
    BY DEF OfThread, ThreadContinue, ThreadRunner, ToolFinishAndHandoff, ReturnAndKick,
           EndAfterHandoff, FinallyAndKick, Continue, Proceed, Runner
  <1>2. NoHands'
    BY NoHandsThread DEF OwnersInv
  <1>3. SlotHasJob' /\ FreshTurn'
    BY <1>1, SlotJobsContinue, SlotJobsRuns, FreshThread DEF OwnersInv
  <1>4. SlotHasHolder'
    <2>1. CASE SlotHasOwner
      <3>1. [Next]_vars
        BY <1>1 DEF Next
      <3> QED BY <2>1, <3>1, OwnerNext DEF SlotHasHolder
    <2>2. CASE disp.step \in {"store", "remove", "announce"}
      <3>1. Woken
        BY ThreadDoes DEF dvars, Woken
      <3> QED BY <2>2, <3>1 DEF Woken, SlotHasHolder
    <2> QED BY <2>1, <2>2 DEF OwnersInv, SlotHasHolder
  <1> QED BY <1>2, <1>3, <1>4 DEF OwnersInv

\* ... and when the dispatcher is.
LEMMA DispatcherHolds ==
  ASSUME TypeOK, DraftTypes, DispInv, OwnersInv, Dispatcher
  PROVE  OwnersInv'
  <1>1. SlotHasJob' /\ FreshTurn'
    BY SlotJobsDispatcher, FreshDispatcher DEF OwnersInv
  <1>2. UNCHANGED <<pc, hand, did>>
    BY DispatchMovesNoCall
    DEF Dispatcher, SelectRequested, SelectQueued, Mark, Show, Store, Discard, Dispatch,
        Finish, DispatchFails, tvars, vars
  <1>3. NoHands'
    BY <1>2 DEF OwnersInv, NoHands
  <1>4. SlotHasHolder'
    <2>1. CASE Show
      BY <2>1, StageHolds DEF Show, DispSteps, SlotHasHolder
    <2>2. CASE Store \/ Discard
      BY <2>2, StageHolds DEF Store, Discard, DispSteps, SlotHasHolder
    <2>3. CASE Dispatch
      <3>1. disp.draft \in Drafts
        BY <2>3, DraftsAreCalls DEF Dispatch, At, DispInv, DraftTypes, Searches
      <3>2. run'.timer # None
        BY <2>3, <3>1, DraftsAreCalls DEF Dispatch, Schedule, Slot, Disarmed
      <3> QED BY <3>2 DEF SlotHasHolder, SlotHasOwner
    <2>4. CASE DispatchFails
      BY <2>4 DEF DispatchFails, ClearRun, NoRun, SlotHasHolder, SlotHasOwner, Active, Disarmed
    <2>5. CASE SelectRequested \/ SelectQueued \/ Mark \/ Finish
      <3>1. UNCHANGED run /\ disp.step \notin {"store", "remove", "announce"}
        BY <2>5 DEF SelectRequested, SelectQueued, Mark, Finish, At, tvars, vars
      <3> QED BY <1>2, <3>1, OwnerKept DEF OwnersInv, SlotHasHolder, Reserver
    <2> QED BY <2>1, <2>2, <2>3, <2>4, <2>5 DEF Dispatcher
  <1> QED BY <1>1, <1>3, <1>4 DEF OwnersInv

\* Every step of a thread whose runner uses no tools keeps what is said of the slot.
LEMMA OwnersStep ==
  ASSUME "tool" \notin Acts, "revise" \notin Faults, DraftInv, OwnersInv,
         [DraftNext]_allvars
  PROVE  OwnersInv'
  <1>1. TypeOK /\ DraftTypes /\ DispInv
    BY DEF DraftInv
  <1>2. CASE UNCHANGED allvars
    BY <1>2
    DEF allvars, tvars, vars, dvars, OwnersInv, NoHands, SlotHasJob, FreshTurn, SlotHasHolder,
        SlotHasOwner, Reserver, Active
  <1>3. CASE Persist /\ UNCHANGED dvars
    <2>1. CASE Calls = {}
      <3>1. FALSE
        <4>1. Head(chain) \in Events
          BY <1>1, <1>3 DEF Persist, TypeOK
        <4> QED BY <2>1, <4>1 DEF Events
      <3> QED BY <3>1
    <2>2. CASE Calls # {}
      <3>1. PICK c \in Calls : TRUE
        BY <2>2
      <3> QED BY <1>1, <1>3, <3>1, ThreadHolds
    <2> QED BY <2>1, <2>2
  <1>4. CASE Dispatcher
    BY <1>1, <1>4, DispatcherHolds
  <1>5. ASSUME NEW c \in Calls, Queue(c) \/ Endpoint(c) PROVE OwnersInv'
    BY <1>1, <1>5, EndpointHolds
  <1>6. ASSUME NEW c \in Calls, Handoff(c) PROVE OwnersInv'
    BY <1>1, <1>6, HandoffDoes DEF OwnersInv, NoHands
  <1>7. ASSUME NEW c \in Calls, OfThread(c) PROVE OwnersInv'
    BY <1>1, <1>7, ThreadHolds
  <1> QED BY <1>2, <1>3, <1>4, <1>5, <1>6, <1>7, StepsAre

(***************************************************************************)
(* When nothing is in flight, no run at work and the dispatcher at rest,   *)
(* the thread is idle: nothing that was overlapped, stopped or failed is   *)
(* left in the slot to refuse the user's next message.  The hypotheses are *)
(* what the code needs: a runner that uses tools may write a stale entry   *)
(* back into the slot (maybeRequestQueuedHandoff), and revisePlan does not *)
(* give its reservation back when its writes fail.                         *)
(***************************************************************************)
THEOREM QuietThreadHandsOver ==
  ASSUME "tool" \notin Acts, "revise" \notin Faults
  PROVE  DraftSpec => []DraftsAreHandled
  <1>1. DraftInit => DraftInv /\ OwnersInv
    <2> SUFFICES ASSUME DraftInit PROVE OwnersInv
      BY DraftInvInit
    <2>1. Init /\ \A j \in Calls : hand[j].step = "idle"
      BY DEF DraftInit, NoHandoff
    <2> QED BY <2>1, CallsAssumption
        DEF Init, NoRun, OwnersInv, NoHands, SlotHasJob, FreshTurn, SlotHasHolder, SlotHasOwner,
            Active
  <1>2. DraftInv /\ OwnersInv /\ [DraftNext]_allvars => (DraftInv /\ OwnersInv)'
    BY DraftStep, OwnersStep
  <1>3. DraftInv /\ OwnersInv => DraftsAreHandled
    <2> SUFFICES ASSUME DraftInv, OwnersInv PROVE QuietIsFree
      BY DEF DraftInv, DispInv, DraftsAreHandled
    <2> SUFFICES ASSUME disp.step = "idle", Active,
                        \A c \in Calls :
                          ~InFlight(c) /\ job[c] \notin {"timer", "running", "closing"}
                 PROVE  FALSE
      BY DEF QuietIsFree
    <2>1. run.timer \in Calls \cup {None} /\ run.ctl \in Calls \cup {None}
      BY DEF DraftInv, TypeOK, Slots, CallOrNone
    <2>2. run.timer = None /\ run.ctl = None
      BY <2>1 DEF OwnersInv, SlotHasJob
    <2>3. \E c \in Calls : Reserver(c)
      BY <2>2 DEF OwnersInv, SlotHasHolder, SlotHasOwner
    <2> QED BY <2>3 DEF Reserver, InFlight
  <1> QED BY <1>1, <1>2, <1>3, PTL DEF DraftSpec

(***************************************************************************)
(* The run armed for a draft begins or is closed by a stop.  When no       *)
(* runner uses tools, a timer and a controller are never in the slot       *)
(* together, so that the run which gives its slot back disarms nobody, and *)
(* no draft is armed while the dispatcher is at work on another.           *)
(***************************************************************************)
TimerWithoutRun == run.timer # None => run.ctl = None

OneArmedDraft == disp.step \notin {"idle", "finish"} => run.timer \notin Drafts

\* A draft's own call makes no run: the dispatcher does.
DraftsOnlyWait == \A d \in Drafts : pc[d] \in {"idle", "kick", "draining", "returned"}

ArmedInv == NoHands /\ IdleIsEmpty /\ TimerWithoutRun /\ OneArmedDraft /\ DraftsOnlyWait

\* What a step may do to the owner of the slot: leave it, empty the slot, put a run
\* there that works, or arm the turn of a call that is not a draft's.
OwnerStays ==
  run'.timer = run.timer /\ run'.ctl = run.ctl /\ (run'.status = "idle" => run.status = "idle")
OwnerMoves ==
  \/ OwnerStays
  \/ run'.timer = None /\ (run'.status = "idle" => run'.ctl = None)
  \/ run'.timer \notin Drafts /\ run'.ctl = None /\ run'.status # "idle"

\* The thread does no more than that after an await, ...
LEMMA ContinueOwner ==
  ASSUME TypeOK, DraftsOnlyWait, NEW c \in Calls, Continue(c)
  PROVE  OwnerMoves
  <1>1. CASE UNCHANGED run
    BY <1>1 DEF OwnerMoves, OwnerStays
  <1>2. CASE Judge(c)
    <2>1. CASE ClearRun
      BY <2>1 DEF ClearRun, NoRun, OwnerMoves
    <2>2. CASE run' = run \/ run' = Marked("running")
      BY <2>2, MarkedKeeps DEF RunStatus, OwnerMoves, OwnerStays
    <2> QED BY <1>2, <2>1, <2>2 DEF Judge
  <1>3. CASE Reserve(c)
    BY <1>3 DEF Reserve, Slot, OwnerMoves
  <1>4. CASE CommitFails(c) \/ RereadFails(c) \/ StopTimer(c)
    BY <1>4 DEF CommitFails, RereadFails, StopTimer, ClearRun, NoRun, OwnerMoves
  <1>5. CASE StartTurn(c)
    <2>1. c \notin Drafts
      BY <1>5 DEF StartTurn, DraftsOnlyWait
    <2> QED BY <1>1, <1>5, <2>1 DEF StartTurn, Schedule, Slot, OwnerMoves
  <1>6. CASE Resolved(c)
    BY <1>6, MarkedKeeps DEF Resolved, RunStatus, OwnerMoves, OwnerStays
  <1> QED BY <1>1, <1>2, <1>3, <1>4, <1>5, <1>6
      DEF Continue, RecoverPlan, RewritePlan, Reconcile, ReadLastEvent, Refuse, Snapshot,
          Commit, ReviseFails, Approve, ApproveClear, Dismiss, StopGates, StopAbort, Resolve,
          Return, ResolvedAlready, Reread

\* ... nor do the runs and the chain.
LEMMA RunsOwner ==
  ASSUME TypeOK, NEW j \in Calls, Proceed(j) \/ Runner(j) \/ Load(j) \/ Persist
  PROVE  OwnerMoves
  <1>1. CASE UNCHANGED run
    BY <1>1 DEF OwnerMoves, OwnerStays
  <1>2. CASE Begin(j)
    BY <1>2 DEF Begin, Slot, OwnerMoves
  <1>3. CASE Finally(j)
    BY <1>1, <1>3 DEF Finally, NoRun, OwnerMoves
  <1>4. CASE ToolStart(j) \/ ToolFinish(j)
    BY <1>4 DEF ToolStart, ToolFinish, TypeOK, Slots, OwnerMoves, OwnerStays
  <1>5. CASE AskGate(j) \/ PlanDetect(j)
    BY <1>5, MarkedKeeps DEF AskGate, PlanDetect, RunStatus, OwnerMoves, OwnerStays
  <1> QED BY <1>1, <1>2, <1>3, <1>4, <1>5
      DEF Proceed, Runner, Load, Persist, PlanSave, End, Text, Metadata

\* The dispatcher is woken only for a thread that is idle.
LEMMA WokenWhenIdle ==
  ASSUME NEW c \in Calls, OfThread(c) \/ Endpoint(c)
  PROVE  disp' = disp \/ (disp.step = "idle" /\ run'.status = "idle")
  <1>1. CASE Kick
    BY <1>1 DEF Kick
  <1> QED BY <1>1
      DEF OfThread, Endpoint, ThreadContinue, ThreadRunner, ToolFinishAndHandoff,
          ReturnAndKick, EndAfterHandoff, FinallyAndKick, List, EditFind, Wake, Drained,
          Watched, RequestFind, RequestStore, CancelStore, DeleteStore, dvars

\* When neither the dispatcher nor a hand-off moves the slot, it stays as it should be.
LEMMA ArmedKept ==
  ASSUME TypeOK, IdleIsEmpty, TimerWithoutRun, OneArmedDraft, OwnerMoves,
         disp' = disp \/ (disp.step = "idle" /\ run'.status = "idle")
  PROVE  IdleIsEmpty' /\ TimerWithoutRun' /\ OneArmedDraft'
  <1>1. IdleIsEmpty'
    BY DEF OwnerMoves, OwnerStays, IdleIsEmpty, Active
  <1>2. TimerWithoutRun'
    BY DEF OwnerMoves, OwnerStays, TimerWithoutRun
  <1>3. CASE disp' = disp
    <2>1. OneArmedDraft'
      BY <1>3, DraftsAreCalls DEF OwnerMoves, OwnerStays, OneArmedDraft
    <2> QED BY <1>1, <1>2, <2>1
  <1>4. CASE run'.status = "idle"
    <2>1. run'.timer = None
      BY <1>1, <1>4 DEF IdleIsEmpty, Active
    <2>2. OneArmedDraft'
      BY <2>1, DraftsAreCalls DEF OneArmedDraft
    <2> QED BY <1>1, <1>2, <2>2
  <1> QED BY <1>3, <1>4

\* The call of a draft goes on to the dispatcher and returns with it.
LEMMA DraftsWaitOn ==
  ASSUME TypeOK, DraftTypes, DraftsOnlyWait, [DraftNext]_allvars
  PROVE  DraftsOnlyWait'
  <1> SUFFICES ASSUME NEW d \in Drafts
               PROVE  pc'[d] \in {"idle", "kick", "draining", "returned"}
    BY DEF DraftsOnlyWait
  <1>0. /\ pc \in [Calls -> Steps] /\ d \in Calls /\ Op[d] = "queue"
        /\ pc[d] \in {"idle", "kick", "draining", "returned"}
    BY StepType DEF Drafts, DraftsOnlyWait
  <1>1. CASE UNCHANGED pc
    BY <1>0, <1>1
  <1>2. ASSUME NEW c \in Calls, c # d, NEW s, Goto(c, s)
        PROVE  pc'[d] \in {"idle", "kick", "draining", "returned"}
    BY <1>0, <1>2 DEF Goto
  <1>3. ASSUME NEW c \in Calls, Queue(c) \/ Endpoint(c)
        PROVE  pc'[d] \in {"idle", "kick", "draining", "returned"}
    <2>1. \E s \in Steps : Goto(c, s)
      BY <1>3, EndpointDoes DEF Queue, Steps
    <2>2. CASE c = d
      BY <1>0, <1>3, <2>2
      DEF Queue, Endpoint, List, EditFind, Wake, Drained, Watched, RequestFind, RequestStore,
          CancelStore, DeleteStore, Goto
    <2> QED BY <1>2, <2>1, <2>2
  <1>4. ASSUME NEW c \in Calls, OfThread(c)
        PROVE  pc'[d] \in {"idle", "kick", "draining", "returned"}
    <2>1. UNCHANGED pc \/ \E s \in Steps : Goto(c, s)
      BY <1>4, ThreadDoes
    <2>2. CASE c = d
      <3>1. ~Load(c) /\ ~Continue(c)
        BY <1>0, <2>2
        DEF Load, ThreadOps, Continue, RecoverPlan, RewritePlan, Reconcile, ReadLastEvent,
            Judge, Refuse, Snapshot, Reserve, Commit, CommitFails, ReviseFails, Approve,
            ApproveClear, StartTurn, Dismiss, StopGates, StopTimer, StopAbort, Resolve,
            Resolved, Return, ResolvedAlready, Reread, RereadFails
      <3>2. Proceed(c) \/ Runner(c)
        BY <1>4, <3>1
        DEF OfThread, ThreadContinue, ThreadRunner, ToolFinishAndHandoff, ReturnAndKick,
            EndAfterHandoff, FinallyAndKick, Continue, Proceed, Runner
      <3> QED BY <1>1, <3>2, RunsMoveNoCall
    <2> QED BY <1>1, <1>2, <2>1, <2>2
  <1>5. ASSUME NEW c \in Calls, Handoff(c) PROVE UNCHANGED pc
    BY <1>5, HandoffDoes
  <1>6. ASSUME Dispatcher \/ Persist \/ UNCHANGED allvars PROVE UNCHANGED pc
    BY <1>6, DispatchMovesNoCall DEF Persist, allvars, tvars, vars
  <1> QED BY <1>1, <1>3, <1>4, <1>5, <1>6, StepsAre

\* The dispatcher arms its draft once the slot is its own.
LEMMA ArmedDispatcher ==
  ASSUME TypeOK, DraftTypes, DispInv, ArmedInv, Dispatcher
  PROVE  IdleIsEmpty' /\ TimerWithoutRun' /\ OneArmedDraft'
  <1>1. CASE Show
    BY <1>1, DraftsAreCalls
    DEF Show, Slot, IdleIsEmpty, TimerWithoutRun, OneArmedDraft, Active
  <1>2. CASE Dispatch
    <2>1. disp'.step = "finish"
      BY <1>2, StageHolds DEF Dispatch, DispSteps
    <2> QED BY <1>2, <2>1
        DEF Dispatch, Schedule, Slot, IdleIsEmpty, TimerWithoutRun, OneArmedDraft, Active
  <1>3. CASE DispatchFails
    BY <1>3, DraftsAreCalls
    DEF DispatchFails, ClearRun, NoRun, IdleIsEmpty, TimerWithoutRun, OneArmedDraft, Active
  <1>4. CASE Finish
    BY <1>4
    DEF Finish, NoDispatch, ArmedInv, IdleIsEmpty, TimerWithoutRun, OneArmedDraft, Active,
        tvars, vars
  <1>5. CASE SelectRequested \/ SelectQueued \/ Mark \/ Store \/ Discard
    <2>1. /\ UNCHANGED run
          /\ disp.step \in {"select", "select_queued", "mark", "store", "remove"}
      BY <1>5 DEF SelectRequested, SelectQueued, Mark, Store, Discard, At, tvars, vars
    <2>2. run.timer \notin Drafts
      BY <2>1 DEF ArmedInv, OneArmedDraft
    <2> QED BY <2>1, <2>2 DEF ArmedInv, IdleIsEmpty, TimerWithoutRun, OneArmedDraft, Active
  <1> QED BY <1>1, <1>2, <1>3, <1>4, <1>5 DEF Dispatcher

\* Every step of a thread whose runner uses no tools keeps what is said of its timer.
LEMMA ArmedStep ==
  ASSUME "tool" \notin Acts, DraftInv, ArmedInv, [DraftNext]_allvars
  PROVE  ArmedInv'
  <1>1. TypeOK /\ DraftTypes /\ DispInv
    BY DEF DraftInv
  <1>2. DraftsOnlyWait'
    BY <1>1, DraftsWaitOn DEF ArmedInv
  <1>3. CASE UNCHANGED allvars
    BY <1>2, <1>3
    DEF allvars, tvars, vars, dvars, ArmedInv, NoHands, IdleIsEmpty, TimerWithoutRun,
        OneArmedDraft, Active
  <1>4. CASE Persist /\ UNCHANGED dvars
    BY <1>2, <1>4
    DEF Persist, dvars, ArmedInv, NoHands, IdleIsEmpty, TimerWithoutRun, OneArmedDraft, Active
  <1>5. CASE Dispatcher
    <2>1. UNCHANGED <<hand, did>>
      BY <1>5, DispatchMovesNoCall
      DEF Dispatcher, SelectRequested, SelectQueued, Mark, Show, Store, Discard, Dispatch,
          Finish, DispatchFails, tvars, vars
    <2> QED BY <1>1, <1>2, <1>5, <2>1, ArmedDispatcher DEF ArmedInv, NoHands
  <1>6. ASSUME NEW c \in Calls, Queue(c) \/ Endpoint(c) PROVE ArmedInv'
    <2>1. UNCHANGED <<run, hand, did>>
      BY <1>1, <1>6, EndpointDoes DEF Queue
    <2>2. disp' = disp \/ (disp.step = "idle" /\ run'.status = "idle")
      BY <1>6, WokenWhenIdle DEF Queue
    <2>3. OwnerMoves
      BY <2>1 DEF OwnerMoves, OwnerStays
    <2> QED BY <1>1, <1>2, <2>1, <2>2, <2>3, ArmedKept DEF ArmedInv, NoHands
  <1>7. ASSUME NEW c \in Calls, Handoff(c) PROVE ArmedInv'
    BY <1>1, <1>7, HandoffDoes DEF ArmedInv, NoHands
  <1>8. ASSUME NEW c \in Calls, OfThread(c) PROVE ArmedInv'
    <2>1. Continue(c) \/ Proceed(c) \/ Runner(c) \/ Load(c)
      BY <1>8
      DEF OfThread, ThreadContinue, ThreadRunner, ToolFinishAndHandoff, ReturnAndKick,
          EndAfterHandoff, FinallyAndKick, Continue, Proceed, Runner
    <2>2. OwnerMoves
      BY <1>1, <2>1, ContinueOwner, RunsOwner DEF ArmedInv
    <2>3. NoHands'
      BY <1>1, <1>8, NoHandsThread DEF ArmedInv
    <2> QED BY <1>1, <1>2, <1>8, <2>2, <2>3, WokenWhenIdle, ArmedKept DEF ArmedInv
  <1> QED BY <1>3, <1>4, <1>5, <1>6, <1>7, <1>8, StepsAre

\* Only the steps of TakesSlotAway disarm a draft.
LEMMA DisarmedBy ==
  ASSUME DraftInv, ArmedInv, "draft_late" \notin Faults, [DraftNext]_allvars,
         NEW d \in Drafts, job[d] # "dropped", job'[d] = "dropped"
  PROVE  \E c \in Calls : TakesSlotAway(c)
  <1>0. job \in [Calls -> JobPhases] /\ TypeOK /\ DraftTypes /\ DispInv /\ d \in Calls
    BY DraftsAreCalls DEF DraftInv, TypeOK
  <1>1. ~UNCHANGED job
    OBVIOUS
  <1>2. run.timer # d => Disarmed[d] = job[d]
    BY <1>0 DEF Disarmed
  <1>3. ASSUME NEW c \in Calls, Continue(c) PROVE TakesSlotAway(c)
    <2>1. ~StopTimer(c)
      BY <1>0 DEF StopTimer
    <2> QED BY <1>1, <1>3, <2>1
        DEF Continue, RecoverPlan, RewritePlan, Reconcile, ReadLastEvent, Refuse, Snapshot,
            Reserve, Commit, ReviseFails, Approve, ApproveClear, Dismiss, StopGates,
            StopAbort, Resolve, Resolved, Return, ResolvedAlready, Reread, TakesSlotAway
  <1>4. ASSUME NEW j \in Calls, Proceed(j) \/ Runner(j) \/ Load(j) PROVE FALSE
    <2>1. ~Begin(j) /\ ~End(j)
      BY <1>0 DEF Begin, End
    <2>2. ~Finally(j)
      <3>1. ASSUME run.ctl = j PROVE run.timer # d
        BY <1>0, <3>1, CallsAssumption DEF ArmedInv, TimerWithoutRun
      <3> QED BY <1>0, <1>2, <3>1 DEF Finally, Disarmed
    <2> QED BY <1>1, <1>4, <2>1, <2>2
        DEF Proceed, Runner, Load, PlanSave, Text, ToolStart, ToolFinish, AskGate, PlanDetect,
            Metadata
  <1>5. ASSUME NEW c \in Calls, OfThread(c) PROVE \E b \in Calls : TakesSlotAway(b)
    <2>1. Continue(c) \/ Proceed(c) \/ Runner(c) \/ Load(c)
      BY <1>5
      DEF OfThread, ThreadContinue, ThreadRunner, ToolFinishAndHandoff, ReturnAndKick,
          EndAfterHandoff, FinallyAndKick, Continue, Proceed, Runner
    <2> QED BY <1>3, <1>4, <2>1
  <1>6. ASSUME NEW c \in Calls, Queue(c) \/ Endpoint(c) PROVE FALSE
    BY <1>0, <1>1, <1>6, EndpointDoes DEF Queue
  <1>7. ASSUME NEW c \in Calls, Handoff(c) PROVE FALSE
    BY <1>0, <1>7, HandoffDoes DEF ArmedInv, NoHands
  <1>8. ~Dispatcher
    <2>1. ASSUME Dispatch PROVE FALSE
      <3>1. run.timer # d
        BY <2>1 DEF Dispatch, At, ArmedInv, OneArmedDraft
      <3> QED BY <1>0, <1>2, <2>1, <3>1 DEF Dispatch, Schedule, Disarmed
    <2>2. ASSUME DispatchFails PROVE FALSE
      <3>1. disp.step = "store"
        BY <2>2 DEF DispatchFails, At
      <3>2. run.timer # d
        BY <3>1 DEF ArmedInv, OneArmedDraft
      <3> QED BY <1>2, <2>2, <3>2 DEF DispatchFails, ClearRun
    <2> QED BY <1>1, <2>1, <2>2
        DEF Dispatcher, SelectRequested, SelectQueued, Mark, Show, Store, Discard, Finish,
            tvars, vars
  <1>9. ~Persist /\ ~UNCHANGED allvars
    BY <1>1 DEF Persist, allvars, tvars, vars
  <1> QED BY <1>5, <1>6, <1>7, <1>8, <1>9, StepsAre

(***************************************************************************)
(* A draft becomes one message, for which a run is armed, and nothing but  *)
(* the steps of TakesSlotAway disarms that run in silence: not the end of  *)
(* an earlier run, not the dispatcher at work on another draft or failing. *)
(* The hypotheses are what the code needs: a runner that uses tools may    *)
(* write a stale entry back into the slot (maybeRequestQueuedHandoff), and *)
(* a dispatch may fail once the message is stored (chatService.ts:1520).   *)
(***************************************************************************)
THEOREM DraftsBecomeOneTurn ==
  ASSUME "tool" \notin Acts, "draft_late" \notin Faults
  PROVE  DraftSpec => DraftBecomesOneTurn
  <1>1. DraftInit => DraftInv /\ ArmedInv
    <2> SUFFICES ASSUME DraftInit PROVE ArmedInv
      BY DraftInvInit
    <2>1. Init /\ disp.step = "idle" /\ \A j \in Calls : hand[j].step = "idle"
      BY DEF DraftInit, NoHandoff, NoDispatch
    <2> QED BY <2>1, DraftsAreCalls
        DEF Init, NoRun, ArmedInv, NoHands, IdleIsEmpty, TimerWithoutRun, OneArmedDraft,
            DraftsOnlyWait, Active
  <1>2. DraftInv /\ ArmedInv /\ [DraftNext]_allvars => (DraftInv /\ ArmedInv)'
    BY DraftStep, ArmedStep
  <1>3. DraftInv /\ ArmedInv /\ [DraftNext]_allvars =>
          [\A d \in Drafts : job[d] # "dropped" /\ job'[d] = "dropped" =>
             \E c \in Calls : TakesSlotAway(c)]_allvars
    BY DisarmedBy
  <1>4. DraftSpec => [][\A d \in Drafts : job[d] # "dropped" /\ job'[d] = "dropped" =>
                          \E c \in Calls : TakesSlotAway(c)]_allvars
    BY <1>1, <1>2, <1>3, PTL DEF DraftSpec
  <1>5. DraftSpec => []MessageIsScheduled
    BY MessagesAreScheduled
  <1> QED BY <1>4, <1>5 DEF DraftBecomesOneTurn
=============================================================================
