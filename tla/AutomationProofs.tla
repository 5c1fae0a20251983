-------------------------- MODULE AutomationProofs --------------------------
(***************************************************************************)
(* Proofs about the runs of an automation (Automation): the slots of the   *)
(* schedule are recorded once each, and runs and their threads keep to     *)
(* each other.                                                             *)
(***************************************************************************)
EXTENDS MCWorkspace, FiniteSetTheorems, SequenceTheorems, WellFoundedInduction,
        TLAPS

(***************************************************************************)
(* Facts about sequences and finite sets.                                  *)
(***************************************************************************)

\* What is mapped from a finite set is finite.
LEMMA MappedIsFinite ==
  ASSUME NEW S, IsFiniteSet(S), NEW f, DOMAIN f = S
  PROVE  IsFiniteSet({f[x] : x \in S})
  <1> DEFINE T == {f[x] : x \in S}
             g == [x \in S |-> f[x]]
  <1>1. g \in Surjection(S, T)
    BY DEF Surjection
  <1> QED BY <1>1, FS_Surjection

\* A finite set as a sequence holds each of its elements once.
LEMMA SetToSeqHolds ==
  ASSUME NEW S, IsFiniteSet(S), NEW T, S \subseteq T
  PROVE  /\ SetToSeq(S) \in Seq(T)
         /\ \A n \in DOMAIN SetToSeq(S) : SetToSeq(S)[n] \in S
         /\ \A m, n \in DOMAIN SetToSeq(S) : SetToSeq(S)[m] = SetToSeq(S)[n] => m = n
  <1> DEFINE k == Cardinality(S)
  <1>1. k \in Nat /\ ExistsBijection(1..k, S)
    BY FS_CardinalityType
  <1>2. PICK f \in [1..k -> S] : IsInjective(f)
    <2>1. PICK f \in Bijection(1..k, S) : TRUE
      BY <1>1 DEF ExistsBijection
    <2> QED BY <2>1 DEF Bijection, Injection
  <1> DEFINE g == SetToSeq(S)
  <1>3. g \in [1..k -> S] /\ IsInjective(g)
    BY <1>2 DEF SetToSeq
  <1> HIDE DEF g, k
  <1>4. g \in [1..k -> T]
    BY <1>3
  <1>5. g \in Seq(T)
    BY <1>4, <1>1
  <1>6. \A n \in DOMAIN g : g[n] \in S
    BY <1>3
  <1>7. \A m, n \in DOMAIN g : g[m] = g[n] => m = n
    BY <1>3 DEF IsInjective
  <1> QED BY <1>5, <1>6, <1>7 DEF g

\* An empty set as a sequence.
LEMMA EmptyToSeq == SetToSeq({}) = << >>
  <1>1. SetToSeq({}) \in Seq({}) /\ \A n \in DOMAIN SetToSeq({}) : SetToSeq({})[n] \in {}
    BY SetToSeqHolds, FS_EmptySet, Zenon
  <1> QED BY <1>1

\* What stands in a sequence that is put behind another.
LEMMA BehindHolds ==
  ASSUME NEW T, NEW s \in Seq(T), NEW t \in Seq(T)
  PROVE  /\ s \o t \in Seq(T)
         /\ Len(s \o t) = Len(s) + Len(t)
         /\ \A i \in DOMAIN s : i \in DOMAIN (s \o t) /\ (s \o t)[i] = s[i]
         /\ \A i \in DOMAIN (s \o t) : i \notin DOMAIN s =>
               i - Len(s) \in DOMAIN t /\ (s \o t)[i] = t[i - Len(s)]
  <1>1. /\ s \o t \in Seq(T) /\ Len(s \o t) = Len(s) + Len(t)
        /\ \A i \in 1..(Len(s) + Len(t)) :
              (s \o t)[i] = IF i <= Len(s) THEN s[i] ELSE t[i - Len(s)]
    BY ConcatProperties
  <1>2. /\ Len(s) \in Nat /\ Len(t) \in Nat /\ DOMAIN s = 1..Len(s) /\ DOMAIN t = 1..Len(t)
        /\ DOMAIN (s \o t) = 1..(Len(s) + Len(t))
    BY <1>1
  <1>3. ASSUME NEW i \in DOMAIN s PROVE i \in DOMAIN (s \o t) /\ (s \o t)[i] = s[i]
    BY <1>1, <1>2
  <1>4. ASSUME NEW i \in DOMAIN (s \o t), i \notin DOMAIN s
        PROVE  i - Len(s) \in DOMAIN t /\ (s \o t)[i] = t[i - Len(s)]
    <2>1. i \in 1..(Len(s) + Len(t)) /\ ~(i <= Len(s)) /\ i - Len(s) \in 1..Len(t)
      BY <1>2, <1>4
    <2> QED BY <1>1, <1>2, <2>1
  <1> QED BY <1>1, <1>3, <1>4

\* What stands in a sequence that one element more is put behind.
LEMMA AppendedHolds ==
  ASSUME NEW T, NEW s \in Seq(T), NEW e \in T
  PROVE  /\ Append(s, e) \in Seq(T)
         /\ Len(Append(s, e)) = Len(s) + 1
         /\ \A i \in DOMAIN s : i \in DOMAIN Append(s, e) /\ Append(s, e)[i] = s[i]
         /\ \A i \in DOMAIN Append(s, e) : i \notin DOMAIN s => i = Len(s) + 1
         /\ Len(s) + 1 \in DOMAIN Append(s, e) /\ Append(s, e)[Len(s) + 1] = e
  <1>1. /\ Append(s, e) \in Seq(T) /\ Len(Append(s, e)) = Len(s) + 1
        /\ \A i \in 1..Len(s) : Append(s, e)[i] = s[i]
        /\ Append(s, e)[Len(s) + 1] = e
    BY AppendProperties
  <1>2. /\ Len(s) \in Nat /\ DOMAIN s = 1..Len(s) /\ DOMAIN Append(s, e) = 1..(Len(s) + 1)
    BY <1>1
  <1> QED BY <1>1, <1>2

\* What is left of a sequence without one of its elements.
LEMMA RemoveAtHolds ==
  ASSUME NEW T, NEW s \in Seq(T), NEW n \in DOMAIN s
  PROVE  /\ RemoveAt(s, n) \in Seq(T)
         /\ \A m \in DOMAIN RemoveAt(s, n) :
               \E k \in DOMAIN s : RemoveAt(s, n)[m] = s[k]
  <1> DEFINE a == SubSeq(s, 1, n - 1)
             b == SubSeq(s, n + 1, Len(s))
  <1>1. n \in 1..Len(s) /\ Len(s) \in Nat /\ DOMAIN s = 1..Len(s)
    OBVIOUS
  <1>2. a \in Seq(T) /\ Len(a) = n - 1 /\ \A i \in 1..(n - 1) : a[i] = s[i]
    BY <1>1
  <1>3. b \in Seq(T) /\ Len(b) = Len(s) - n /\ \A i \in 1..(Len(s) - n) : b[i] = s[n + i]
    BY <1>1
  <1> HIDE DEF a, b
  <1>4. /\ a \o b \in Seq(T)
        /\ Len(a \o b) = Len(a) + Len(b)
        /\ \A i \in 1..(Len(a) + Len(b)) : (a \o b)[i] = IF i <= Len(a) THEN a[i] ELSE b[i - Len(a)]
    BY <1>2, <1>3, ConcatProperties
  <1>5. ASSUME NEW m \in DOMAIN (a \o b) PROVE \E k \in DOMAIN s : (a \o b)[m] = s[k]
    <2>1. m \in 1..(Len(s) - 1)
      BY <1>1, <1>2, <1>3, <1>4, <1>5
    <2>2. CASE m <= n - 1
      BY <1>1, <1>2, <1>3, <1>4, <2>1, <2>2
    <2>3. CASE ~(m <= n - 1)
      <3>1. m - (n - 1) \in 1..(Len(s) - n)
        BY <1>1, <2>1, <2>3
      <3>2. (a \o b)[m] = b[m - (n - 1)]
        BY <1>1, <1>2, <1>3, <1>4, <2>1, <2>3
      <3>3. (a \o b)[m] = s[n + (m - (n - 1))]
        BY <1>3, <3>1, <3>2
      <3> QED BY <1>1, <2>1, <3>3
    <2> QED BY <2>2, <2>3
  <1> QED BY <1>4, <1>5 DEF a, b, RemoveAt

\* A finite set with no two elements has one element at most.
LEMMA NoTwoElements ==
  ASSUME NEW S, IsFiniteSet(S), \A x, y \in S : x = y
  PROVE  Cardinality(S) <= 1 /\ (S # {} => Cardinality(S) = 1)
  <1>1. CASE S = {}
    BY <1>1, FS_EmptySet
  <1>2. CASE S # {}
    BY <1>2, FS_Singleton
  <1> QED BY <1>1, <1>2

\* A set of numbers with a bound that is not empty has a greatest one.
LEMMA HasGreatest ==
  ASSUME NEW S \in SUBSET Nat, S # {}, NEW n \in Nat, \A x \in S : x <= n
  PROVE  \E x \in S : \A y \in S : y <= x
  <1> DEFINE T == {z \in Nat : n - z \in S}
             R == OpToRel(<, Nat)
  <1>1. T \subseteq Nat /\ T # {}
    <2>1. PICK x \in S : TRUE
      OBVIOUS
    <2>2. n - x \in Nat /\ n - (n - x) = x
      BY <2>1
    <2>3. n - x \in T
      BY <2>1, <2>2
    <2> QED BY <2>3
  <1>2. IsWellFoundedOn(R, Nat)
    BY NatLessThanWellFounded
  <1>3. PICK z \in T : \A y \in T : ~(<<y, z>> \in R)
    <2> HIDE DEF T, R
    <2> QED BY <1>1, <1>2, WFMin
  <1>4. \A x, y \in Nat : y < x => <<y, x>> \in R
    BY DEF OpToRel
  <1>5. ASSUME NEW y \in S PROVE y <= n - z
    <2>1. y \in Nat /\ n - y \in Nat /\ n - (n - y) = y
      BY <1>5
    <2>2. n - y \in T
      BY <2>1
    <2>3. ~(n - y < z)
      BY <1>3, <1>4, <2>1, <2>2
    <2> QED BY <2>1, <2>3
  <1> QED BY <1>5

(***************************************************************************)
(* The inductive invariant.  BaseInv holds whatever may fail and whenever  *)
(* the calls by hand arrive; the rest of AutoInv does not.                 *)
(***************************************************************************)
Statuses == ActiveStatus \cup SettledStatus \cup {"missed"}

RunRecord == [slot : Nat, status : Statuses,
              kind : {"schedule", "active", "away", "manual"}, thread : Nat]

\* The steps of a dispatch up to the prompt, and all of its steps.
BeforeThread == {"begin", "thread", "bind"}
BeforePrompt == BeforeThread \cup {"send"}
Dispatching  == BeforePrompt \cup {"stamp"}

JobRecord == [step : {"idle", "find", "claim", "create", "done"} \cup Dispatching,
              run : Nat, saw : Nat, now : Nat]

ThreadRecord == [run : Nat, state : {"new", "working", "over", "silent", "stuck"},
                 events : Nat]

BindingRecord == [run : Nat, thread : Nat]

UpdateRecord == [run : Nat, status : {"running", "waiting_input"} \cup SettledStatus,
                 reads : BOOLEAN]

AutoTypes ==
    /\ clock \in Nat
    /\ schedule \in [enabled : BOOLEAN, next : Nat]
    /\ runs \in Seq(RunRecord)
    /\ jobs \in [Dispatchers -> JobRecord]
    /\ threads \in Seq(ThreadRecord)
    /\ bindings \in SUBSET BindingRecord /\ IsFiniteSet(bindings)
    /\ updates \in Seq(UpdateRecord)
    /\ boot \in [phase : {"up", "threads", "runs"}, todo : Seq(BindingRecord)]

\* Slots: the schedule is at most one ahead of the clock, a claim is about a slot not
\* behind the one its pass read, and the slots left behind are in the table once each.
SlotInv ==
    /\ schedule.next \in 1..(clock + 1)
    /\ skipped \subseteq 1..(schedule.next - 1)
    /\ \A d \in Dispatchers :
          /\ jobs[d].now <= clock
          /\ jobs[d].step = "claim" =>
                /\ 1 <= jobs[d].saw /\ jobs[d].saw <= jobs[d].now
                /\ jobs[d].saw <= schedule.next
    /\ \A i \in DOMAIN runs : runs[i].slot < schedule.next /\ runs[i].slot \notin skipped
    /\ \A i, j \in DOMAIN runs : runs[i].slot = runs[j].slot /\ runs[i].slot # 0 => i = j
    /\ \A s \in 1..(schedule.next - 1) : s \in skipped \/ \E i \in DOMAIN runs : runs[i].slot = s

\* What the calls, the bindings, the updates and the startup name is there.
NamesInv ==
    /\ \A d \in Dispatchers :
          /\ jobs[d].step \in Dispatching => jobs[d].run \in DOMAIN runs
          /\ jobs[d].step \in {"bind", "send"} =>
                \E t \in DOMAIN threads : threads[t].run = jobs[d].run
    /\ \A t \in DOMAIN threads : threads[t].run \in DOMAIN runs
    /\ \A i \in DOMAIN runs : runs[i].thread # 0 =>
          runs[i].thread \in DOMAIN threads /\ threads[runs[i].thread].run = i
    /\ \A b \in bindings :
          /\ b.run \in DOMAIN runs
          /\ b.thread \in DOMAIN threads /\ threads[b.thread].run = b.run
    /\ \A n \in DOMAIN updates : updates[n].run \in DOMAIN runs
    /\ \A n \in DOMAIN boot.todo :
          LET r == boot.todo[n] IN
          /\ r.run \in DOMAIN runs
          /\ r.thread # 0 => r.thread \in DOMAIN threads /\ threads[r.thread].run = r.run

\* A thread that was given its prompt.
Spoke(t) == threads[t].state # "new"

\* A run is dispatched by one call at a time, and has no prompt before that call sends it.
DispatchInv ==
    /\ \A d \in Dispatchers : jobs[d].step \in BeforePrompt =>
          LET i == jobs[d].run IN
          /\ runs[i].status \in ActiveStatus
          /\ runs[i].thread = 0 <=> jobs[d].step # "send"
          /\ \A t \in DOMAIN threads : threads[t].run = i => ~Spoke(t)
          /\ \A e \in Dispatchers :
                jobs[e].step \in BeforePrompt /\ jobs[e].run = i => e = d
    /\ \A t \in DOMAIN threads : Spoke(t) => runs[threads[t].run].thread # 0
    /\ \A t, u \in DOMAIN threads :
          Spoke(t) /\ Spoke(u) /\ threads[t].run = threads[u].run => t = u

\* Who is listened to is active; a thread at work has an active run, and an update comes
\* from a thread that spoke, one that settles from a thread that is over.
EventInv ==
    /\ \A b \in bindings : runs[b.run].status \in ActiveStatus
    /\ \A t \in DOMAIN threads :
          threads[t].state = "working" => runs[threads[t].run].status \in ActiveStatus
    /\ \A n \in DOMAIN updates : \E t \in DOMAIN threads :
          /\ threads[t].run = updates[n].run /\ Spoke(t)
          /\ updates[n].status \in SettledStatus => threads[t].state # "working"

\* A scheduled run that has a thread at work, or may have one yet.
Engaged(i) ==
    /\ runs[i].kind # "manual" /\ runs[i].status \in ActiveStatus
    /\ \/ runs[i].thread = 0
       \/ \E d \in Dispatchers : jobs[d].step = "send" /\ jobs[d].run = i
       \/ \E t \in DOMAIN threads : threads[t].run = i /\ threads[t].state = "working"

OneEngaged == \A i, j \in DOMAIN runs : Engaged(i) /\ Engaged(j) => i = j

\* The startup: nothing but it dispatches runs before it is over, and a run it has yet
\* to recover is active and nobody's.
StartupInv ==
    /\ \A d \in Dispatchers :
          /\ jobs[d].step \in {"claim", "create"} => boot.phase = "up"
          /\ jobs[d].step \in Dispatching =>
                boot.phase = "up" \/ (boot.phase = "runs" /\ d = "startup")
    /\ boot.phase = "threads" => bindings = {} /\ updates = << >>
    /\ boot.phase # "runs" => boot.todo = << >>
    /\ \A n \in DOMAIN boot.todo :
          LET r == boot.todo[n] IN
          /\ runs[r.run].status \in ActiveStatus /\ runs[r.run].thread = r.thread
          /\ \A b \in bindings : b.run # r.run
          /\ \A m \in DOMAIN updates : updates[m].run # r.run
          /\ \A d \in Dispatchers : jobs[d].step \in Dispatching => jobs[d].run # r.run
          /\ \A m \in DOMAIN boot.todo : boot.todo[m].run = r.run => m = n

BaseInv == AutoTypes /\ SlotInv /\ NamesInv

AutoInv == BaseInv /\ DispatchInv /\ EventInv /\ OneEngaged /\ StartupInv

(***************************************************************************)
(* What the operators of the model give.                                   *)
(***************************************************************************)

\* A call that ends has no run and is at no step of a dispatch.
LEMMA CallEndsHolds ==
  ASSUME AutoTypes, NEW d \in Dispatchers
  PROVE  /\ CallEnds(d) \in JobRecord
         /\ CallEnds(d).step \in {"idle", "find", "done"}
         /\ CallEnds(d).now \in {0, jobs[d].now}
  BY DEF AutoTypes, CallEnds, NoJob, JobRecord

\* The status of a run is written, and nothing else of it.
LEMMA WithStatusHolds ==
  ASSUME AutoTypes, NEW i \in DOMAIN runs, NEW s \in Statuses
  PROVE  /\ WithStatus(i, s) \in Seq(RunRecord)
         /\ DOMAIN WithStatus(i, s) = DOMAIN runs
         /\ \A j \in DOMAIN runs :
               /\ WithStatus(i, s)[j].slot = runs[j].slot
               /\ WithStatus(i, s)[j].kind = runs[j].kind
               /\ WithStatus(i, s)[j].thread = runs[j].thread
               /\ WithStatus(i, s)[j].status = IF j = i THEN s ELSE runs[j].status
  <1> DEFINE r == [runs[i] EXCEPT !.status = s]
             w == [runs EXCEPT ![i] = r]
  <1>1. WithStatus(i, s) = w
    BY DEF WithStatus
  <1>2. runs \in Seq(RunRecord) /\ runs[i] \in RunRecord
    BY DEF AutoTypes
  <1>3. /\ r \in RunRecord /\ r.slot = runs[i].slot /\ r.kind = runs[i].kind
        /\ r.thread = runs[i].thread /\ r.status = s
    BY <1>2 DEF RunRecord
  <1>4. w \in Seq(RunRecord) /\ DOMAIN w = DOMAIN runs /\ w[i] = r
    <2> HIDE DEF r
    <2> QED BY <1>2, <1>3
  <1>5. \A j \in DOMAIN runs : j # i => w[j] = runs[j]
    OBVIOUS
  <1> QED BY <1>1, <1>3, <1>4, <1>5

\* The thread of a dispatch is one that was created for its run.
LEMMA JobThreadHolds ==
  ASSUME AutoTypes, NEW d \in Dispatchers,
         \E t \in DOMAIN threads : threads[t].run = jobs[d].run
  PROVE  /\ JobThread(d) \in DOMAIN threads
         /\ threads[JobThread(d)].run = jobs[d].run
  <1> DEFINE S == {t \in DOMAIN threads : threads[t].run = jobs[d].run}
  <1>1. S \in SUBSET Nat /\ S # {} /\ Len(threads) \in Nat /\ \A t \in S : t <= Len(threads)
    BY DEF AutoTypes
  <1>2. \E t \in S : \A u \in S : u <= t
    <2> HIDE DEF S
    <2> QED BY <1>1, HasGreatest
  <1> QED BY <1>2 DEF JobThread

\* The handlers of an event are those that were at work and one for each binding to a
\* thread that emits it.
LEMMA HeardByHolds ==
  ASSUME AutoTypes, NEW ts,
         NEW s \in {"running", "waiting_input"} \cup SettledStatus
  PROVE  /\ HeardBy(ts, s) \in Seq(UpdateRecord)
         /\ \A n \in DOMAIN HeardBy(ts, s) :
               \/ \E m \in DOMAIN updates : HeardBy(ts, s)[n] = updates[m]
               \/ \E b \in bindings : /\ b.thread \in ts
                                      /\ HeardBy(ts, s)[n].run = b.run
                                      /\ HeardBy(ts, s)[n].status = s
         /\ bindings = {} => HeardBy(ts, s) = updates
  <1> DEFINE B == {c \in bindings : c.thread \in ts}
             f == [b \in B |-> [run |-> b.run, status |-> s,
                                reads |-> s \in {"succeeded", "canceled"}]]
             S == {[run |-> b.run, status |-> s,
                    reads |-> s \in {"succeeded", "canceled"}] : b \in B}
  <1>1. IsFiniteSet(B) /\ B \subseteq BindingRecord
    BY FS_Subset DEF AutoTypes
  <1>2. S = {f[b] : b \in B}
    OBVIOUS
  <1>3. IsFiniteSet({f[b] : b \in B})
    <2>1. DOMAIN f = B
      OBVIOUS
    <2> HIDE DEF f, B
    <2> QED BY <1>1, <2>1, MappedIsFinite
  <1>4. S \subseteq UpdateRecord
    <2> SUFFICES ASSUME NEW b \in B
                 PROVE  [run |-> b.run, status |-> s,
                         reads |-> s \in {"succeeded", "canceled"}] \in UpdateRecord
      OBVIOUS
    <2>1. b.run \in Nat
      BY <1>1 DEF BindingRecord
    <2> QED BY <2>1 DEF UpdateRecord
  <1>5. \A u \in S : \E b \in bindings : b.thread \in ts /\ u.run = b.run /\ u.status = s
    OBVIOUS
  <1>6. bindings = {} => S = {}
    OBVIOUS
  <1>7. HeardBy(ts, s) = updates \o SetToSeq(S) /\ updates \in Seq(UpdateRecord)
    BY DEF HeardBy, AutoTypes
  <1>8. IsFiniteSet(S)
    BY <1>2, <1>3
  <1> HIDE DEF S, B, f
  <1>9. /\ SetToSeq(S) \in Seq(UpdateRecord)
        /\ \A n \in DOMAIN SetToSeq(S) : SetToSeq(S)[n] \in S
    BY <1>4, <1>8, SetToSeqHolds
  <1> DEFINE q == SetToSeq(S)
             h == updates \o q
  <1>10. /\ h \in Seq(UpdateRecord)
         /\ \A n \in DOMAIN updates : h[n] = updates[n]
         /\ \A n \in DOMAIN h : n \notin DOMAIN updates =>
               n - Len(updates) \in DOMAIN q /\ h[n] = q[n - Len(updates)]
    <2> HIDE DEF q
    <2> QED BY <1>7, <1>9, BehindHolds DEF q
  <1>11. ASSUME NEW n \in DOMAIN h
         PROVE  \/ \E m \in DOMAIN updates : h[n] = updates[m]
                \/ \E b \in bindings : b.thread \in ts /\ h[n].run = b.run /\ h[n].status = s
    <2> HIDE DEF q, h
    <2>1. CASE n \in DOMAIN updates
      BY <1>10, <2>1
    <2>2. CASE n \notin DOMAIN updates
      <3>1. h[n] \in S
        BY <1>9, <1>10, <1>11, <2>2 DEF q
      <3> QED BY <1>5, <3>1
    <2> QED BY <2>1, <2>2
  <1>12. bindings = {} => h = updates
    BY <1>6, <1>7, EmptyToSeq, ConcatEmptySeq
  <1> QED BY <1>7, <1>10, <1>11, <1>12

\* A claim of due slots: one row for each slot from the one that the pass read to the
\* last, all of them missed but the last if no run is active.
LEMMA ClaimHolds ==
  ASSUME AutoTypes, SlotInv, NEW d \in Dispatchers, ClaimDue(d),
         schedule.enabled, schedule.next = jobs[d].saw
  PROVE  /\ runs' \in Seq(RunRecord)
         /\ Len(runs') = Len(runs) + (jobs[d].now - jobs[d].saw + 1)
         /\ \A i \in DOMAIN runs : i \in DOMAIN runs' /\ runs'[i] = runs[i]
         /\ \A i \in DOMAIN runs' : i \notin DOMAIN runs =>
               /\ runs'[i].slot = jobs[d].saw + (i - Len(runs) - 1)
               /\ runs'[i].thread = 0
               /\ (i = Len(runs') /\ ActiveRuns = {}) \/ runs'[i].status = "missed"
         /\ ActiveRuns # {} => jobs' = [jobs EXCEPT ![d] = CallEnds(d)]
         /\ ActiveRuns = {} =>
               /\ jobs' = [jobs EXCEPT ![d].step = "begin", ![d].run = Len(runs')]
               /\ runs'[Len(runs')].status = "queued"
  <1> DEFINE saw == jobs[d].saw
             now == jobs[d].now
             missed(last, why) ==
               [n \in 1..(last - saw + 1) |-> NewRun(saw + n - 1, "missed", why)]
  <1>1. jobs[d].step = "claim"
    BY DEF ClaimDue
  <1>2. saw \in Nat /\ now \in Nat /\ 1 <= saw /\ saw <= now
    BY <1>1 DEF AutoTypes, SlotInv, JobRecord
  <1>3. runs \in Seq(RunRecord) /\ Len(runs) \in Nat
    BY DEF AutoTypes
  <1>4. ASSUME NEW last \in {now - 1, now}, NEW why \in {"active", "away"}
        PROVE  /\ missed(last, why) \in Seq(RunRecord)
               /\ Len(missed(last, why)) = last - saw + 1
               /\ \A n \in DOMAIN missed(last, why) :
                     /\ n \in Nat
                     /\ missed(last, why)[n] = NewRun(saw + n - 1, "missed", why)
    <2>1. last - saw + 1 \in Nat
      BY <1>2
    <2>2. \A n \in 1..(last - saw + 1) : NewRun(saw + n - 1, "missed", why) \in RunRecord
      BY <1>2 DEF NewRun, RunRecord, Statuses
    <2> QED BY <2>1, <2>2
  \* the rows of a batch, at their places
  <1>5. ASSUME NEW last \in {now - 1, now}, NEW why \in {"active", "away"}
        PROVE  LET m == missed(last, why)
                   r == runs \o m
               IN  /\ r \in Seq(RunRecord)
                   /\ Len(r) = Len(runs) + (last - saw + 1)
                   /\ \A i \in DOMAIN runs : i \in DOMAIN r /\ r[i] = runs[i]
                   /\ \A i \in DOMAIN r : i \notin DOMAIN runs =>
                         /\ r[i].slot = saw + (i - Len(runs) - 1)
                         /\ r[i].thread = 0 /\ r[i].status = "missed"
    <2> DEFINE m == missed(last, why)
               r == runs \o m
    <2>1. /\ m \in Seq(RunRecord) /\ Len(m) = last - saw + 1
          /\ \A n \in DOMAIN m : n \in Nat /\ m[n] = NewRun(saw + n - 1, "missed", why)
      BY <1>4, <1>5
    <2> HIDE DEF m
    <2>2. /\ r \in Seq(RunRecord) /\ Len(r) = Len(runs) + Len(m)
          /\ \A i \in DOMAIN runs : i \in DOMAIN r /\ r[i] = runs[i]
          /\ \A i \in DOMAIN r : i \notin DOMAIN runs =>
                i - Len(runs) \in DOMAIN m /\ r[i] = m[i - Len(runs)]
      BY <1>3, <2>1, BehindHolds
    <2>3. ASSUME NEW i \in DOMAIN r, i \notin DOMAIN runs
          PROVE  /\ r[i].slot = saw + (i - Len(runs) - 1)
                 /\ r[i].thread = 0 /\ r[i].status = "missed"
      <3>1. r[i] = NewRun(saw + (i - Len(runs)) - 1, "missed", why) /\ i \in Nat
        <4>1. i - Len(runs) \in DOMAIN m /\ r[i] = m[i - Len(runs)]
          BY <2>2, <2>3
        <4>2. i \in Nat
          BY <2>2, <2>3
        <4> HIDE DEF r
        <4> QED BY <2>1, <4>1, <4>2
      <3> QED BY <1>2, <1>3, <3>1 DEF NewRun
    <2> HIDE DEF r
    <2>4. Len(r) = Len(runs) + (last - saw + 1)
      BY <2>1, <2>2
    <2> QED BY <2>2, <2>3, <2>4 DEF r, m
  <1>6. CASE ActiveRuns # {}
    <2>1. runs' = runs \o missed(now, "active") /\ jobs' = [jobs EXCEPT ![d] = CallEnds(d)]
      BY <1>6 DEF ClaimDue
    <2> QED BY <1>5, <1>6, <2>1
  <1>7. CASE ActiveRuns = {}
    <2> DEFINE q == runs \o missed(now - 1, "away")
               r == NewRun(now, "queued", "schedule")
    <2>1. runs' = Append(q, r)
      BY <1>1, <1>7 DEF ClaimDue
    <2>2. jobs' = [jobs EXCEPT ![d].step = "begin", ![d].run = Len(runs')]
      BY <1>7 DEF ClaimDue
    <2>3. r \in RunRecord /\ r.slot = now /\ r.thread = 0 /\ r.status = "queued"
      BY <1>2 DEF NewRun, RunRecord, Statuses, ActiveStatus
    <2>4. /\ q \in Seq(RunRecord)
          /\ Len(q) = Len(runs) + (now - 1 - saw + 1)
          /\ \A i \in DOMAIN runs : i \in DOMAIN q /\ q[i] = runs[i]
          /\ \A i \in DOMAIN q : i \notin DOMAIN runs =>
                /\ q[i].slot = saw + (i - Len(runs) - 1)
                /\ q[i].thread = 0 /\ q[i].status = "missed"
      BY <1>5
    <2> HIDE DEF q, r
    <2>5. /\ runs' \in Seq(RunRecord) /\ Len(runs') = Len(q) + 1
          /\ \A i \in DOMAIN q : i \in DOMAIN runs' /\ runs'[i] = q[i]
          /\ \A i \in DOMAIN runs' : i \notin DOMAIN q => i = Len(q) + 1
          /\ runs'[Len(q) + 1] = r
      BY <2>1, <2>3, <2>4, AppendedHolds
    <2>6. Len(q) = Len(runs) + (now - saw) /\ Len(runs') = Len(runs) + (now - saw + 1)
      <3> HIDE DEF saw, now
      <3>1. Len(q) = Len(runs) + (now - 1 - saw + 1)
        BY <2>4
      <3> QED BY <1>2, <1>3, <2>5, <3>1
    <2>7. saw + (Len(runs') - Len(runs) - 1) = now
      <3> HIDE DEF saw, now
      <3> QED BY <1>2, <1>3, <2>6
    <2>8. ASSUME NEW i \in DOMAIN runs', i \notin DOMAIN runs
          PROVE  /\ runs'[i].slot = saw + (i - Len(runs) - 1) /\ runs'[i].thread = 0
                 /\ i = Len(runs') \/ runs'[i].status = "missed"
      <3>1. CASE i \in DOMAIN q
        BY <2>4, <2>5, <2>8, <3>1
      <3>2. CASE i \notin DOMAIN q
        <4>1. i = Len(runs') /\ runs'[i] = r
          BY <2>5, <2>8, <3>2
        <4> QED BY <2>3, <2>7, <4>1
      <3> QED BY <3>1, <3>2
    <2>9. \A i \in DOMAIN runs : i \in DOMAIN runs' /\ runs'[i] = runs[i]
      BY <2>4, <2>5
    <2>10. runs'[Len(runs')].status = "queued"
      BY <2>3, <2>5
    <2> QED BY <1>7, <2>2, <2>5, <2>6, <2>8, <2>9, <2>10
  <1> QED BY <1>6, <1>7

(***************************************************************************)
(* What every step keeps: types, names and slots.                          *)
(***************************************************************************)

\* What call d may do next, the others staying where they are.
Moves(d, j) == jobs'[d] = j /\ \A e \in Dispatchers \ {d} : jobs'[e] = jobs[e]

\* A call goes on to another step, or begins to dispatch a run.
LEMMA JobMoves ==
  ASSUME AutoTypes, NEW d \in Dispatchers
  PROVE  /\ \A j \in JobRecord : jobs' = [jobs EXCEPT ![d] = j] =>
               jobs' \in [Dispatchers -> JobRecord] /\ Moves(d, j)
         /\ \A s \in {"thread", "bind", "send", "stamp", "create", "done"} :
               jobs' = [jobs EXCEPT ![d].step = s] =>
                  /\ jobs' \in [Dispatchers -> JobRecord]
                  /\ Moves(d, [jobs[d] EXCEPT !.step = s])
                  /\ jobs'[d].step = s /\ jobs'[d].run = jobs[d].run
                  /\ jobs'[d].now = jobs[d].now
         /\ \A i \in Nat :
               jobs' = [jobs EXCEPT ![d].step = "begin", ![d].run = i] =>
                  /\ jobs' \in [Dispatchers -> JobRecord]
                  /\ Moves(d, [jobs[d] EXCEPT !.step = "begin", !.run = i])
                  /\ jobs'[d].step = "begin" /\ jobs'[d].run = i
                  /\ jobs'[d].now = jobs[d].now
  <1>1. jobs \in [Dispatchers -> JobRecord] /\ jobs[d] \in JobRecord
    BY DEF AutoTypes
  <1>2. ASSUME NEW j \in JobRecord, jobs' = [jobs EXCEPT ![d] = j]
        PROVE  jobs' \in [Dispatchers -> JobRecord] /\ Moves(d, j)
    BY <1>1, <1>2 DEF Moves
  <1>3. ASSUME NEW s \in {"thread", "bind", "send", "stamp", "create", "done"},
               jobs' = [jobs EXCEPT ![d].step = s]
        PROVE  /\ jobs' \in [Dispatchers -> JobRecord]
               /\ Moves(d, [jobs[d] EXCEPT !.step = s])
               /\ jobs'[d].step = s /\ jobs'[d].run = jobs[d].run
               /\ jobs'[d].now = jobs[d].now
    <2> DEFINE j == [jobs[d] EXCEPT !.step = s]
    <2>1. /\ j \in JobRecord /\ j.step = s /\ j.run = jobs[d].run /\ j.now = jobs[d].now
      BY <1>1, <1>3 DEF JobRecord, Dispatching, BeforePrompt, BeforeThread
    <2>2. jobs' = [jobs EXCEPT ![d] = j]
      BY <1>3
    <2> HIDE DEF j
    <2>3. jobs' \in [Dispatchers -> JobRecord] /\ Moves(d, j)
      BY <1>2, <2>1, <2>2
    <2> QED BY <2>1, <2>3 DEF Moves, j
  <1>4. ASSUME NEW i \in Nat, jobs' = [jobs EXCEPT ![d].step = "begin", ![d].run = i]
        PROVE  /\ jobs' \in [Dispatchers -> JobRecord]
               /\ Moves(d, [jobs[d] EXCEPT !.step = "begin", !.run = i])
               /\ jobs'[d].step = "begin" /\ jobs'[d].run = i
               /\ jobs'[d].now = jobs[d].now
    <2> DEFINE j == [jobs[d] EXCEPT !.step = "begin", !.run = i]
    <2>1. /\ j \in JobRecord /\ j.step = "begin" /\ j.run = i /\ j.now = jobs[d].now
      BY <1>1, <1>4 DEF JobRecord, Dispatching, BeforePrompt, BeforeThread
    <2>2. jobs' = [jobs EXCEPT ![d] = j]
      BY <1>1, <1>4
    <2> HIDE DEF j
    <2>3. jobs' \in [Dispatchers -> JobRecord] /\ Moves(d, j)
      BY <1>2, <2>1, <2>2
    <2> QED BY <2>1, <2>3 DEF Moves, j
  <1> QED BY <1>2, <1>3, <1>4

\* A thread's state changes, and which run it is of does not.
LEMMA ThreadMoves ==
  ASSUME AutoTypes, NEW t \in DOMAIN threads,
         NEW s \in {"new", "working", "over", "silent", "stuck"},
         threads' = [threads EXCEPT ![t].state = s]
  PROVE  /\ threads' \in Seq(ThreadRecord) /\ DOMAIN threads' = DOMAIN threads
         /\ \A u \in DOMAIN threads :
               /\ threads'[u].run = threads[u].run
               /\ threads'[u].state = IF u = t THEN s ELSE threads[u].state
  <1> DEFINE r == [threads[t] EXCEPT !.state = s]
  <1>1. threads \in Seq(ThreadRecord) /\ threads[t] \in ThreadRecord
    BY DEF AutoTypes
  <1>2. r \in ThreadRecord /\ r.run = threads[t].run /\ r.state = s
    BY <1>1 DEF ThreadRecord
  <1>3. threads' = [threads EXCEPT ![t] = r]
    OBVIOUS
  <1> HIDE DEF r
  <1>4. /\ threads' \in Seq(ThreadRecord) /\ DOMAIN threads' = DOMAIN threads
        /\ threads'[t] = r /\ \A u \in DOMAIN threads : u # t => threads'[u] = threads[u]
    BY <1>1, <1>2, <1>3
  <1> QED BY <1>2, <1>4

\* An event of a thread is counted.
LEMMA ThreadCounts ==
  ASSUME AutoTypes, NEW t \in DOMAIN threads,
         threads' = [threads EXCEPT ![t].events = @ + 1]
  PROVE  /\ threads' \in Seq(ThreadRecord) /\ DOMAIN threads' = DOMAIN threads
         /\ \A u \in DOMAIN threads :
               threads'[u].run = threads[u].run /\ threads'[u].state = threads[u].state
  <1> DEFINE r == [threads[t] EXCEPT !.events = threads[t].events + 1]
  <1>1. threads \in Seq(ThreadRecord) /\ threads[t] \in ThreadRecord
    BY DEF AutoTypes
  <1>2. threads[t].events + 1 \in Nat
    BY <1>1 DEF ThreadRecord
  <1>3. r \in ThreadRecord /\ r.run = threads[t].run /\ r.state = threads[t].state
    BY <1>1, <1>2 DEF ThreadRecord
  <1>4. threads' = [threads EXCEPT ![t] = r]
    OBVIOUS
  <1> HIDE DEF r
  <1>5. /\ threads' \in Seq(ThreadRecord) /\ DOMAIN threads' = DOMAIN threads
        /\ threads'[t] = r /\ \A u \in DOMAIN threads : u # t => threads'[u] = threads[u]
    BY <1>1, <1>3, <1>4
  <1> QED BY <1>3, <1>5

\* All threads that are in one state change to another.
LEMMA ThreadsMove ==
  ASSUME AutoTypes, NEW a, NEW s \in {"over", "stuck"},
         threads' = [t \in DOMAIN threads |->
                       IF threads[t].state = a THEN [threads[t] EXCEPT !.state = s]
                       ELSE threads[t]]
  PROVE  /\ threads' \in Seq(ThreadRecord) /\ DOMAIN threads' = DOMAIN threads
         /\ \A u \in DOMAIN threads :
               /\ threads'[u].run = threads[u].run
               /\ threads'[u].state = IF threads[u].state = a THEN s ELSE threads[u].state
  <1>1. /\ threads \in Seq(ThreadRecord) /\ Len(threads) \in Nat
        /\ DOMAIN threads = 1..Len(threads)
    BY DEF AutoTypes
  <1>2. ASSUME NEW t \in DOMAIN threads
        PROVE  /\ threads'[t] \in ThreadRecord /\ threads'[t].run = threads[t].run
               /\ threads'[t].state = IF threads[t].state = a THEN s ELSE threads[t].state
    <2>1. threads[t] \in ThreadRecord
      BY <1>1, <1>2
    <2>2. CASE threads[t].state = a
      <3> DEFINE r == [threads[t] EXCEPT !.state = s]
      <3>1. r \in ThreadRecord /\ r.run = threads[t].run /\ r.state = s
        BY <2>1 DEF ThreadRecord
      <3>2. threads'[t] = r
        BY <1>2, <2>2
      <3> QED BY <2>2, <3>1, <3>2
    <2>3. CASE threads[t].state # a
      BY <1>2, <2>1, <2>3
    <2> QED BY <2>2, <2>3
  <1>3. DOMAIN threads' = DOMAIN threads
    OBVIOUS
  <1>4. threads' = [t \in 1..Len(threads) |-> threads'[t]]
    BY <1>1
  <1>5. threads' \in Seq(ThreadRecord)
    BY <1>1, <1>2, <1>4
  <1> QED BY <1>2, <1>3, <1>5

\* Types: the calls of the scheduler and those by hand.
LEMMA CallsKeepTypes ==
  ASSUME BaseInv, NEW d \in Dispatchers,
         FindDue(d) \/ ClaimDue(d) \/ ManualCheck(d) \/ ManualCreate(d)
  PROVE  AutoTypes'
  <1>1. CASE FindDue(d)
    <2>1. jobs[d] \in JobRecord /\ schedule.next \in Nat /\ clock \in Nat
      BY DEF BaseInv, AutoTypes
    <2>2. \E j \in JobRecord : jobs' = [jobs EXCEPT ![d] = j]
      <3>1. NoJob \in JobRecord
        BY DEF NoJob, JobRecord
      <3>2. [NoJob EXCEPT !.step = "claim", !.saw = schedule.next, !.now = clock] \in JobRecord
        BY <2>1 DEF NoJob, JobRecord
      <3>3. [jobs[d] EXCEPT !.step = "claim", !.saw = schedule.next] \in JobRecord
        BY <2>1 DEF JobRecord
      <3>4. \/ jobs' = [jobs EXCEPT ![d] = NoJob]
            \/ jobs' = [jobs EXCEPT ![d] =
                          [NoJob EXCEPT !.step = "claim", !.saw = schedule.next, !.now = clock]]
            \/ jobs' = [jobs EXCEPT ![d] =
                          [jobs[d] EXCEPT !.step = "claim", !.saw = schedule.next]]
        BY <1>1 DEF FindDue
      <3> QED BY <3>1, <3>2, <3>3, <3>4
    <2>3. jobs' \in [Dispatchers -> JobRecord]
      BY <2>2, JobMoves DEF BaseInv
    <2> QED BY <1>1, <2>3 DEF FindDue, BaseInv, AutoTypes
  <1>2. CASE ClaimDue(d)
    <2>1. jobs[d].now \in Nat
      BY DEF BaseInv, AutoTypes, JobRecord
    <2>2. CASE ~schedule.enabled \/ schedule.next # jobs[d].saw
      <3>1. jobs' = [jobs EXCEPT ![d] = CallEnds(d)] /\ UNCHANGED <<schedule, runs>>
        BY <1>2, <2>2 DEF ClaimDue
      <3>2. jobs' \in [Dispatchers -> JobRecord]
        BY <3>1, CallEndsHolds, JobMoves DEF BaseInv
      <3> QED BY <1>2, <3>1, <3>2 DEF ClaimDue, BaseInv, AutoTypes
    <2>3. CASE ~(~schedule.enabled \/ schedule.next # jobs[d].saw)
      <3>1. /\ runs' \in Seq(RunRecord)
            /\ \/ jobs' = [jobs EXCEPT ![d] = CallEnds(d)]
               \/ jobs' = [jobs EXCEPT ![d].step = "begin", ![d].run = Len(runs')]
        BY <1>2, <2>3, ClaimHolds DEF BaseInv
      <3>2. Len(runs') \in Nat
        BY <3>1
      <3>3. jobs' \in [Dispatchers -> JobRecord]
        BY <3>1, <3>2, CallEndsHolds, JobMoves DEF BaseInv
      <3>4. schedule' = [schedule EXCEPT !.next = jobs[d].now + 1]
        BY <1>2, <2>3 DEF ClaimDue
      <3>5. schedule' \in [enabled : BOOLEAN, next : Nat]
        BY SMTT(60), <2>1, <3>4 DEF BaseInv, AutoTypes
      <3> QED BY <1>2, <3>1, <3>3, <3>5 DEF ClaimDue, BaseInv, AutoTypes
    <2> QED BY <2>2, <2>3
  <1>3. CASE ManualCheck(d)
    <2>1. \E s \in {"done", "create"} : jobs' = [jobs EXCEPT ![d].step = s]
      BY <1>3 DEF ManualCheck
    <2>2. jobs' \in [Dispatchers -> JobRecord]
      BY <2>1, JobMoves DEF BaseInv
    <2> QED BY <1>3, <2>2 DEF ManualCheck, BaseInv, AutoTypes
  <1>4. CASE ManualCreate(d)
    <2>1. NewRun(0, "queued", "manual") \in RunRecord
      BY DEF NewRun, RunRecord, Statuses, ActiveStatus
    <2>2. runs' \in Seq(RunRecord) /\ Len(runs') \in Nat
      BY <1>4, <2>1, AppendedHolds DEF ManualCreate, BaseInv, AutoTypes
    <2>3. jobs' \in [Dispatchers -> JobRecord]
      BY <1>4, <2>2, JobMoves DEF ManualCreate, BaseInv
    <2> QED BY <1>4, <2>2, <2>3 DEF ManualCreate, BaseInv, AutoTypes
  <1> QED BY <1>1, <1>2, <1>3, <1>4

\* The bindings of the other runs are some of the bindings.
LEMMA UnboundHolds ==
  ASSUME AutoTypes, NEW i
  PROVE  /\ Unbound(i) \subseteq bindings /\ IsFiniteSet(Unbound(i))
         /\ \A b \in Unbound(i) : b.run # i
         /\ \A r \in BindingRecord : /\ Unbound(i) \cup {r} \in SUBSET BindingRecord
                                     /\ IsFiniteSet(Unbound(i) \cup {r})
  <1>1. Unbound(i) \subseteq bindings /\ \A b \in Unbound(i) : b.run # i
    BY DEF Unbound
  <1>2. IsFiniteSet(Unbound(i)) /\ Unbound(i) \in SUBSET BindingRecord
    BY <1>1, FS_Subset DEF AutoTypes
  <1>3. ASSUME NEW r \in BindingRecord
        PROVE  IsFiniteSet(Unbound(i) \cup {r})
    BY <1>2, FS_AddElement
  <1> QED BY <1>1, <1>2, <1>3

\* Types: the steps of a dispatch.
LEMMA DispatchKeepsTypes ==
  ASSUME BaseInv, NEW d \in Dispatchers, DispatchRun(d)
  PROVE  AutoTypes'
  <1> DEFINE i == jobs[d].run
  <1>1. AutoTypes /\ NamesInv
    BY DEF BaseInv
  <1>2. CASE BeginRun(d)
    <2>1. i \in DOMAIN runs
      BY <1>1, <1>2 DEF NamesInv, BeginRun, Dispatching, BeforePrompt, BeforeThread
    <2>2. runs' \in Seq(RunRecord)
      BY <1>1, <1>2, <2>1, WithStatusHolds DEF BeginRun, Statuses, ActiveStatus
    <2>3. jobs' \in [Dispatchers -> JobRecord]
      BY <1>1, <1>2, JobMoves DEF BeginRun
    <2> QED BY <1>1, <1>2, <2>2, <2>3 DEF BeginRun, AutoTypes
  <1>3. CASE CreateRunThread(d)
    <2>1. i \in Nat
      BY <1>1 DEF AutoTypes, JobRecord
    <2>2. [run |-> i, state |-> "new", events |-> 0] \in ThreadRecord
      BY <2>1 DEF ThreadRecord
    <2>3. threads' \in Seq(ThreadRecord) /\ Len(threads') \in Nat
      BY <1>1, <1>3, <2>2, AppendedHolds DEF CreateRunThread, AutoTypes
    <2>4. [run |-> i, thread |-> Len(threads')] \in BindingRecord
      BY <2>1, <2>3 DEF BindingRecord
    <2>5. bindings' \in SUBSET BindingRecord /\ IsFiniteSet(bindings')
      BY <1>1, <1>3, <2>4, UnboundHolds DEF CreateRunThread
    <2>6. jobs' \in [Dispatchers -> JobRecord]
      BY <1>1, <1>3, JobMoves DEF CreateRunThread
    <2> QED BY <1>1, <1>3, <2>3, <2>5, <2>6 DEF CreateRunThread, AutoTypes
  <1>4. CASE BindThread(d)
    <2> DEFINE r == [runs[i] EXCEPT !.thread = JobThread(d), !.status = "running"]
    <2>1. i \in DOMAIN runs /\ \E t \in DOMAIN threads : threads[t].run = i
      BY <1>1, <1>4 DEF NamesInv, BindThread, Dispatching, BeforePrompt, BeforeThread
    <2>2. JobThread(d) \in Nat
      BY <1>1, <2>1, JobThreadHolds DEF AutoTypes
    <2>3. runs \in Seq(RunRecord) /\ runs[i] \in RunRecord
      BY <1>1, <2>1 DEF AutoTypes
    <2>4. r \in RunRecord
      BY <2>2, <2>3 DEF RunRecord, Statuses, ActiveStatus
    <2>5. runs' = [runs EXCEPT ![i] = r]
      BY <1>4, <2>1, <2>3 DEF BindThread
    <2>6. runs' \in Seq(RunRecord)
      <3> HIDE DEF r, i
      <3> QED BY <2>1, <2>3, <2>4, <2>5
    <2>7. jobs' \in [Dispatchers -> JobRecord]
      BY <1>1, <1>4, JobMoves DEF BindThread
    <2> QED BY <1>1, <1>4, <2>6, <2>7 DEF BindThread, AutoTypes
  <1>5. CASE SendPrompt(d)
    <2>1. \E t \in DOMAIN threads : threads[t].run = i
      BY <1>1, <1>5 DEF NamesInv, SendPrompt
    <2>2. JobThread(d) \in DOMAIN threads
      BY <1>1, <2>1, JobThreadHolds
    <2>3. threads' \in Seq(ThreadRecord)
      BY <1>1, <1>5, <2>2, ThreadMoves DEF SendPrompt
    <2>4. jobs' \in [Dispatchers -> JobRecord]
      BY <1>1, <1>5, JobMoves DEF SendPrompt
    <2> QED BY <1>1, <1>5, <2>3, <2>4 DEF SendPrompt, AutoTypes
  <1>6. CASE StampAutomation(d)
    <2>1. jobs' \in [Dispatchers -> JobRecord]
      BY <1>1, <1>6, CallEndsHolds, JobMoves DEF StampAutomation
    <2> QED BY <1>1, <1>6, <2>1 DEF StampAutomation, AutoTypes
  <1>7. CASE DispatchFails(d)
    <2>1. i \in DOMAIN runs
      BY <1>1, <1>7, AutomationAssumption
         DEF NamesInv, DispatchFails, Dispatching, BeforePrompt, BeforeThread
    <2>2. runs' \in Seq(RunRecord)
      BY <1>1, <1>7, <2>1, WithStatusHolds DEF DispatchFails, Statuses, SettledStatus
    <2>3. jobs' \in [Dispatchers -> JobRecord]
      BY <1>1, <1>7, CallEndsHolds, JobMoves DEF DispatchFails
    <2>4. bindings' \in SUBSET BindingRecord /\ IsFiniteSet(bindings')
      BY <1>1, <1>7, UnboundHolds DEF DispatchFails, AutoTypes
    <2> QED BY <1>1, <1>7, <2>2, <2>3, <2>4 DEF DispatchFails, AutoTypes
  <1> QED BY <1>2, <1>3, <1>4, <1>5, <1>6, <1>7 DEF DispatchRun

\* Types: the threads and the handlers of their events.
LEMMA EventsKeepTypes ==
  ASSUME BaseInv, RunThreads \/ HandleUpdate
  PROVE  AutoTypes'
  <1>1. AutoTypes /\ NamesInv
    BY DEF BaseInv
  <1>2. ASSUME NEW t \in DOMAIN threads, ThreadActivity(t)
        PROVE  AutoTypes'
    <2>1. updates' \in Seq(UpdateRecord)
      BY <1>1, <1>2, HeardByHolds, AutomationAssumption DEF ThreadActivity
    <2>2. threads' \in Seq(ThreadRecord)
      BY <1>1, <1>2, ThreadCounts DEF ThreadActivity
    <2> QED BY <1>1, <1>2, <2>1, <2>2 DEF ThreadActivity, AutoTypes
  <1>3. ASSUME NEW t \in DOMAIN threads, TurnEnds(t)
        PROVE  AutoTypes'
    <2>1. updates' \in Seq(UpdateRecord)
      BY <1>1, <1>3, HeardByHolds, AutomationAssumption DEF TurnEnds, SettledStatus
    <2>2. threads' \in Seq(ThreadRecord)
      BY <1>1, <1>3, ThreadMoves DEF TurnEnds
    <2> QED BY <1>1, <1>3, <2>1, <2>2 DEF TurnEnds, AutoTypes
  <1>4. ASSUME NEW t \in DOMAIN threads, LateMetadata(t)
        PROVE  AutoTypes'
    <2>1. updates' \in Seq(UpdateRecord)
      BY <1>1, <1>4, HeardByHolds DEF LateMetadata
    <2>2. threads' \in Seq(ThreadRecord)
      BY <1>1, <1>4, ThreadMoves DEF LateMetadata
    <2> QED BY <1>1, <1>4, <2>1, <2>2 DEF LateMetadata, AutoTypes
  <1>5. ASSUME HandleUpdate
        PROVE  AutoTypes'
    <2>1. PICK n \in DOMAIN updates :
             LET u == updates[n] IN
             /\ IF u.reads
                THEN /\ updates' = Append(RemoveAt(updates, n), [u EXCEPT !.reads = FALSE])
                     /\ UNCHANGED <<runs, bindings>>
                ELSE /\ updates' = RemoveAt(updates, n)
                     /\ runs' = WithStatus(u.run, u.status)
                     /\ bindings' = IF u.status \in SettledStatus THEN Unbound(u.run)
                                    ELSE bindings
             /\ UNCHANGED <<clock, schedule, jobs, threads, boot, skipped, edits, autoRestarts>>
      BY <1>5 DEF HandleUpdate
    <2> DEFINE u == updates[n]
    <2>2. /\ u \in UpdateRecord /\ u.run \in DOMAIN runs /\ u.status \in Statuses
          /\ [u EXCEPT !.reads = FALSE] \in UpdateRecord
      <3>1. u \in UpdateRecord /\ u.run \in DOMAIN runs
        BY <1>1 DEF AutoTypes, NamesInv
      <3> HIDE DEF u
      <3> QED BY <3>1 DEF UpdateRecord, Statuses, ActiveStatus
    <2>3. RemoveAt(updates, n) \in Seq(UpdateRecord)
      BY <1>1, RemoveAtHolds DEF AutoTypes
    <2>4. updates' \in Seq(UpdateRecord)
      BY <2>1, <2>2, <2>3, AppendedHolds
    <2>5. runs' \in Seq(RunRecord)
      BY <1>1, <2>1, <2>2, WithStatusHolds DEF AutoTypes
    <2>6. bindings' \in SUBSET BindingRecord /\ IsFiniteSet(bindings')
      BY <1>1, <2>1, UnboundHolds DEF AutoTypes
    <2> QED BY <1>1, <2>1, <2>4, <2>5, <2>6 DEF AutoTypes
  <1> QED BY <1>2, <1>3, <1>4, <1>5 DEF RunThreads

\* The runs that a startup is to recover: each active run once, with its thread.
LEMMA TodoHolds ==
  ASSUME AutoTypes,
         boot'.todo = SetToSeq({[run |-> i, thread |-> runs[i].thread] : i \in ActiveRuns})
  PROVE  /\ boot'.todo \in Seq(BindingRecord)
         /\ \A n \in DOMAIN boot'.todo :
               /\ boot'.todo[n].run \in ActiveRuns
               /\ boot'.todo[n].thread = runs[boot'.todo[n].run].thread
         /\ \A m, n \in DOMAIN boot'.todo : boot'.todo[m].run = boot'.todo[n].run => m = n
  <1> DEFINE f == [i \in ActiveRuns |-> [run |-> i, thread |-> runs[i].thread]]
             S == {[run |-> i, thread |-> runs[i].thread] : i \in ActiveRuns}
  <1>1. /\ ActiveRuns \subseteq DOMAIN runs /\ DOMAIN runs = 1..Len(runs) /\ Len(runs) \in Nat
        /\ \A i \in DOMAIN runs : runs[i].thread \in Nat
    <2>1. runs \in Seq(RunRecord)
      BY DEF AutoTypes
    <2>2. ASSUME NEW i \in DOMAIN runs PROVE runs[i].thread \in Nat
      <3>1. runs[i] \in RunRecord
        BY <2>1, <2>2
      <3> QED BY <3>1 DEF RunRecord
    <2>3. ActiveRuns \subseteq DOMAIN runs
      BY DEF ActiveRuns
    <2> QED BY <2>1, <2>2, <2>3
  <1>2. IsFiniteSet(ActiveRuns)
    <2>1. IsFiniteSet(1..Len(runs))
      BY <1>1, FS_Interval
    <2> QED BY <1>1, <2>1, FS_Subset
  <1>3. S = {f[i] : i \in ActiveRuns} /\ DOMAIN f = ActiveRuns
    OBVIOUS
  <1>4. IsFiniteSet(S)
    <2> HIDE DEF f, S
    <2> QED BY <1>2, <1>3, MappedIsFinite
  <1>5. S \subseteq BindingRecord
    BY <1>1 DEF BindingRecord
  <1>6. \A r \in S : r.run \in ActiveRuns /\ r.thread = runs[r.run].thread
    OBVIOUS
  <1>7. \A q, r \in S : q.run = r.run => q = r
    OBVIOUS
  <1> HIDE DEF f, S
  <1>8. /\ SetToSeq(S) \in Seq(BindingRecord)
        /\ \A n \in DOMAIN SetToSeq(S) : SetToSeq(S)[n] \in S
        /\ \A m, n \in DOMAIN SetToSeq(S) : SetToSeq(S)[m] = SetToSeq(S)[n] => m = n
    BY <1>4, <1>5, SetToSeqHolds
  <1>9. boot'.todo = SetToSeq(S)
    BY DEF S
  <1> QED BY <1>6, <1>7, <1>8, <1>9

\* What is left to recover once the first run has been.
LEMMA RestOfTodo ==
  ASSUME AutoTypes, boot.todo # << >>
  PROVE  /\ Head(boot.todo) \in BindingRecord /\ 1 \in DOMAIN boot.todo
         /\ Head(boot.todo) = boot.todo[1]
         /\ Tail(boot.todo) \in Seq(BindingRecord)
         /\ \A n \in DOMAIN Tail(boot.todo) :
               n + 1 \in DOMAIN boot.todo /\ Tail(boot.todo)[n] = boot.todo[n + 1]
  BY DEF AutoTypes

\* Types: restarts and the startup.
LEMMA StartupKeepsTypes ==
  ASSUME BaseInv, RuntimeRestarts \/ AutoStartup
  PROVE  AutoTypes'
  <1>1. AutoTypes
    BY DEF BaseInv
  <1>2. CASE RuntimeRestarts
    <2>1. jobs' \in [Dispatchers -> JobRecord]
      <3>1. NoJob \in JobRecord /\ [NoJob EXCEPT !.step = "done"] \in JobRecord
        BY DEF NoJob, JobRecord
      <3> QED BY <1>2, <3>1 DEF RuntimeRestarts
    <2>2. threads' \in Seq(ThreadRecord)
      BY <1>1, <1>2, ThreadsMove DEF RuntimeRestarts
    <2>3. boot' \in [phase : {"up", "threads", "runs"}, todo : Seq(BindingRecord)]
      BY <1>2 DEF RuntimeRestarts
    <2>4. /\ bindings' \in SUBSET BindingRecord /\ IsFiniteSet(bindings')
          /\ updates' \in Seq(UpdateRecord)
      BY <1>2, FS_EmptySet DEF RuntimeRestarts
    <2> QED BY <1>1, <1>2, <2>1, <2>2, <2>3, <2>4 DEF RuntimeRestarts, AutoTypes
  <1>3. CASE RecoverThreads
    <2>1. threads' \in Seq(ThreadRecord)
      BY <1>1, <1>3, ThreadsMove DEF RecoverThreads
    <2>2. updates' \in Seq(UpdateRecord)
      BY <1>1, <1>3, HeardByHolds DEF RecoverThreads, SettledStatus
    <2>3. boot' = [phase |-> "runs", todo |-> boot'.todo]
      BY <1>3 DEF RecoverThreads
    <2>4. boot'.todo \in Seq(BindingRecord)
      BY <1>1, <1>3, TodoHolds DEF RecoverThreads
    <2>5. boot' \in [phase : {"up", "threads", "runs"}, todo : Seq(BindingRecord)]
      BY <2>3, <2>4
    <2> QED BY <1>1, <1>3, <2>1, <2>2, <2>5 DEF RecoverThreads, AutoTypes
  <1>4. CASE RecoverRun
    <2>1. boot \in [phase : {"up", "threads", "runs"}, todo : Seq(BindingRecord)]
      BY <1>1 DEF AutoTypes
    <2>2. CASE boot.todo = << >>
      <3>1. boot' = [boot EXCEPT !.phase = "up"] /\ UNCHANGED <<bindings, jobs>>
        BY <1>4, <2>2 DEF RecoverRun
      <3>2. boot' \in [phase : {"up", "threads", "runs"}, todo : Seq(BindingRecord)]
        BY <2>1, <3>1
      <3> QED BY <1>1, <1>4, <3>1, <3>2 DEF RecoverRun, AutoTypes
    <2>3. CASE boot.todo # << >>
      <3> DEFINE r == Head(boot.todo)
      <3>1. /\ boot' = [boot EXCEPT !.todo = Tail(boot.todo)]
            /\ \/ bindings' = Unbound(r.run) \cup {r} /\ UNCHANGED jobs
               \/ /\ jobs' = [jobs EXCEPT !["startup"] =
                                [NoJob EXCEPT !.step = "begin", !.run = r.run]]
                  /\ UNCHANGED bindings
        BY <1>4, <2>3 DEF RecoverRun
      <3>2. r \in BindingRecord /\ Tail(boot.todo) \in Seq(BindingRecord)
        BY <1>1, <2>3, RestOfTodo
      <3>3. boot' \in [phase : {"up", "threads", "runs"}, todo : Seq(BindingRecord)]
        BY <2>1, <3>1, <3>2
      <3>4. bindings' \in SUBSET BindingRecord /\ IsFiniteSet(bindings')
        <4> HIDE DEF r
        <4>1. bindings \in SUBSET BindingRecord /\ IsFiniteSet(bindings)
          BY <1>1 DEF AutoTypes
        <4>2. /\ Unbound(r.run) \cup {r} \in SUBSET BindingRecord
              /\ IsFiniteSet(Unbound(r.run) \cup {r})
          BY <1>1, <3>2, UnboundHolds
        <4> QED BY <3>1, <4>1, <4>2
      <3>5. jobs' \in [Dispatchers -> JobRecord]
        <4>1. "startup" \in Dispatchers /\ r.run \in Nat
          BY <3>2 DEF Dispatchers, BindingRecord
        <4>2. [NoJob EXCEPT !.step = "begin", !.run = r.run] \in JobRecord
          BY <4>1 DEF NoJob, JobRecord, Dispatching, BeforePrompt, BeforeThread
        <4> HIDE DEF r
        <4> QED BY <1>1, <3>1, <4>1, <4>2, JobMoves DEF AutoTypes
      <3> QED BY <1>1, <1>4, <3>3, <3>4, <3>5 DEF RecoverRun, AutoTypes
    <2> QED BY <2>2, <2>3
  <1> QED BY <1>2, <1>3, <1>4 DEF AutoStartup

\* Types: every step.
LEMMA TypesKept ==
  ASSUME BaseInv, AutoNext
  PROVE  AutoTypes'
  <1>1. CASE SlotDue
    BY <1>1 DEF SlotDue, BaseInv, AutoTypes
  <1>2. CASE EditSchedule
    <2>1. schedule' \in [enabled : BOOLEAN, next : Nat]
      <3>1. schedule \in [enabled : BOOLEAN, next : Nat] /\ clock + 1 \in Nat
        BY DEF BaseInv, AutoTypes
      <3>2. [schedule EXCEPT !.enabled = FALSE] \in [enabled : BOOLEAN, next : Nat]
        BY <3>1
      <3>3. [enabled |-> TRUE, next |-> clock + 1] \in [enabled : BOOLEAN, next : Nat]
        BY <3>1
      <3> QED BY <1>2, <3>2, <3>3 DEF EditSchedule
    <2> QED BY <1>2, <2>1 DEF EditSchedule, BaseInv, AutoTypes
  <1>3. CASE \E d \in Passes : FindDue(d) \/ ClaimDue(d)
    BY <1>3, CallsKeepTypes DEF Dispatchers
  <1>4. CASE \E d \in ManualCalls : ManualCheck(d) \/ ManualCreate(d)
    BY <1>4, CallsKeepTypes DEF Dispatchers
  <1> QED BY <1>1, <1>2, <1>3, <1>4, DispatchKeepsTypes, EventsKeepTypes, StartupKeepsTypes
          DEF AutoNext

(***************************************************************************)
(* What each action does, in terms of the rows, calls and threads it       *)
(* leaves alone and those it does not.                                     *)
(***************************************************************************)

\* Only the status of run i is written.
Writes(i, s) ==
    /\ DOMAIN runs' = DOMAIN runs
    /\ \A j \in DOMAIN runs :
          /\ runs'[j].slot = runs[j].slot /\ runs'[j].kind = runs[j].kind
          /\ runs'[j].thread = runs[j].thread
          /\ runs'[j].status = IF j = i THEN s ELSE runs[j].status

\* Only the state of thread t changes.
Turns(t, s) ==
    /\ DOMAIN threads' = DOMAIN threads
    /\ \A u \in DOMAIN threads :
          /\ threads'[u].run = threads[u].run
          /\ threads'[u].state = IF u = t THEN s ELSE threads[u].state

\* Call d goes on to step s.
Goes(d, s) ==
    /\ jobs'[d].step = s /\ jobs'[d].run = jobs[d].run /\ jobs'[d].now = jobs[d].now
    /\ \A e \in Dispatchers \ {d} : jobs'[e] = jobs[e]

\* Call d is over.
Leaves(d) ==
    /\ jobs'[d].step \in {"idle", "find", "done"} /\ jobs'[d].now \in {0, jobs[d].now}
    /\ \A e \in Dispatchers \ {d} : jobs'[e] = jobs[e]

\* Call d begins to dispatch run i.
Takes(d, i) ==
    /\ jobs'[d].step = "begin" /\ jobs'[d].run = i /\ jobs'[d].now \in {0, jobs[d].now}
    /\ \A e \in Dispatchers \ {d} : jobs'[e] = jobs[e]

\* Rows are added, and the others stay as they are.
Adds == \A i \in DOMAIN runs : i \in DOMAIN runs' /\ runs'[i] = runs[i]

\* The row of a run by hand.
LEMMA ManualCreateDoes ==
  ASSUME AutoTypes, NEW d \in Dispatchers, ManualCreate(d)
  PROVE  /\ Adds /\ Takes(d, Len(runs) + 1)
         /\ DOMAIN runs' = DOMAIN runs \cup {Len(runs) + 1}
         /\ Len(runs) + 1 \notin DOMAIN runs
         /\ runs'[Len(runs) + 1] = NewRun(0, "queued", "manual")
  <1>1. runs \in Seq(RunRecord) /\ Len(runs) \in Nat /\ DOMAIN runs = 1..Len(runs)
    BY DEF AutoTypes
  <1>2. NewRun(0, "queued", "manual") \in RunRecord
    BY DEF NewRun, RunRecord, Statuses, ActiveStatus
  <1>3. runs' = Append(runs, NewRun(0, "queued", "manual"))
    BY DEF ManualCreate
  <1>4. /\ runs' \in Seq(RunRecord) /\ Len(runs') = Len(runs) + 1 /\ Adds
        /\ \A i \in DOMAIN runs' : i \notin DOMAIN runs => i = Len(runs) + 1
        /\ Len(runs) + 1 \in DOMAIN runs'
        /\ runs'[Len(runs) + 1] = NewRun(0, "queued", "manual")
    BY <1>1, <1>2, <1>3, AppendedHolds DEF Adds
  <1>5. Len(runs) + 1 \notin DOMAIN runs
    BY <1>1
  <1>6. DOMAIN runs' = DOMAIN runs \cup {Len(runs) + 1}
    BY <1>4 DEF Adds
  <1>7. Len(runs') \in Nat
    BY <1>4
  <1>8. Takes(d, Len(runs) + 1)
    BY ZenonT(60), <1>4, <1>7, JobMoves DEF ManualCreate, Takes, Moves
  <1> QED BY <1>4, <1>5, <1>6, <1>8

\* A call of the scheduler looks for a slot.
LEMMA FindDueDoes ==
  ASSUME AutoTypes, NEW d \in Dispatchers, FindDue(d)
  PROVE  /\ \A e \in Dispatchers \ {d} : jobs'[e] = jobs[e]
         /\ jobs'[d].now \in {0, clock, jobs[d].now}
         /\ \/ jobs'[d].step = "idle"
            \/ /\ jobs'[d].step = "claim"
               /\ jobs'[d].saw = schedule.next /\ schedule.next <= jobs'[d].now
  <1>1. jobs \in [Dispatchers -> JobRecord] /\ jobs[d] \in JobRecord
    BY DEF AutoTypes
  <1>2. CASE jobs' = [jobs EXCEPT ![d] =
               [NoJob EXCEPT !.step = "claim", !.saw = schedule.next, !.now = clock]]
             /\ schedule.next <= clock
    BY <1>1, <1>2 DEF NoJob
  <1>3. CASE jobs' = [jobs EXCEPT ![d] = NoJob]
    BY <1>1, <1>3 DEF NoJob
  <1>4. CASE jobs' = [jobs EXCEPT ![d] = [jobs[d] EXCEPT !.step = "claim", !.saw = schedule.next]]
             /\ schedule.next <= jobs[d].now
    <2> DEFINE j == [jobs[d] EXCEPT !.step = "claim", !.saw = schedule.next]
    <2>1. j.step = "claim" /\ j.saw = schedule.next /\ j.now = jobs[d].now
      BY <1>1 DEF JobRecord
    <2> HIDE DEF j
    <2>2. jobs'[d] = j /\ \A e \in Dispatchers \ {d} : jobs'[e] = jobs[e]
      BY <1>1, <1>4 DEF j
    <2> QED BY <1>4, <2>1, <2>2
  <1> QED BY <1>2, <1>3, <1>4 DEF FindDue

\* A call by hand looks for active runs.
LEMMA ManualCheckDoes ==
  ASSUME AutoTypes, NEW d \in Dispatchers, ManualCheck(d)
  PROVE  \E s \in {"done", "create"} : Goes(d, s)
  <1>1. PICK s \in {"done", "create"} : jobs' = [jobs EXCEPT ![d].step = s]
    BY DEF ManualCheck
  <1> QED BY <1>1, JobMoves DEF Goes, Moves

\* The dispatch begins.
LEMMA BeginRunDoes ==
  ASSUME AutoTypes, NamesInv, NEW d \in Dispatchers, BeginRun(d)
  PROVE  Writes(jobs[d].run, "dispatching") /\ Goes(d, "thread")
  <1>1. jobs[d].run \in DOMAIN runs
    BY DEF NamesInv, BeginRun, Dispatching, BeforePrompt, BeforeThread
  <1>2. Writes(jobs[d].run, "dispatching")
    BY <1>1, WithStatusHolds DEF BeginRun, Statuses, ActiveStatus, Writes
  <1> QED BY <1>2, JobMoves DEF BeginRun, Goes, Moves

\* A thread is created for the run, and listened to.
LEMMA CreateRunThreadDoes ==
  ASSUME AutoTypes, NEW d \in Dispatchers, CreateRunThread(d)
  PROVE  LET n == Len(threads) + 1 IN
         /\ n # 0 /\ n \notin DOMAIN threads /\ DOMAIN threads' = DOMAIN threads \cup {n}
         /\ \A t \in DOMAIN threads : threads'[t] = threads[t]
         /\ threads'[n].run = jobs[d].run /\ threads'[n].state = "new"
         /\ bindings' = Unbound(jobs[d].run) \cup {[run |-> jobs[d].run, thread |-> n]}
         /\ Goes(d, "bind")
  <1> DEFINE r == [run |-> jobs[d].run, state |-> "new", events |-> 0]
  <1>1. /\ threads \in Seq(ThreadRecord) /\ Len(threads) \in Nat
        /\ DOMAIN threads = 1..Len(threads)
    BY DEF AutoTypes
  <1>2. r \in ThreadRecord
    BY DEF AutoTypes, JobRecord, ThreadRecord
  <1>3. threads' = Append(threads, r)
    BY DEF CreateRunThread
  <1>4. /\ threads' \in Seq(ThreadRecord) /\ Len(threads') = Len(threads) + 1
        /\ \A t \in DOMAIN threads : t \in DOMAIN threads' /\ threads'[t] = threads[t]
        /\ \A t \in DOMAIN threads' : t \notin DOMAIN threads => t = Len(threads) + 1
        /\ Len(threads) + 1 \in DOMAIN threads' /\ threads'[Len(threads) + 1] = r
    <2> HIDE DEF r
    <2> QED BY <1>1, <1>2, <1>3, AppendedHolds
  <1>5. Len(threads) + 1 \notin DOMAIN threads /\ Len(threads) + 1 # 0
    BY <1>1
  <1>6. DOMAIN threads' = DOMAIN threads \cup {Len(threads) + 1}
    BY <1>4
  <1>7. Goes(d, "bind")
    BY JobMoves DEF CreateRunThread, Goes, Moves
  <1>8. bindings' = Unbound(jobs[d].run) \cup {[run |-> jobs[d].run, thread |-> Len(threads')]}
    BY DEF CreateRunThread
  <1> QED BY <1>4, <1>5, <1>6, <1>7, <1>8

\* The run is written with its thread, and runs.
LEMMA BindThreadDoes ==
  ASSUME AutoTypes, NamesInv, NEW d \in Dispatchers, BindThread(d)
  PROVE  LET i == jobs[d].run
             t == JobThread(d)
         IN  /\ t \in DOMAIN threads /\ threads[t].run = i /\ i \in DOMAIN runs
             /\ DOMAIN runs' = DOMAIN runs
             /\ \A j \in DOMAIN runs \ {i} : runs'[j] = runs[j]
             /\ runs'[i].slot = runs[i].slot /\ runs'[i].kind = runs[i].kind
             /\ runs'[i].thread = t /\ runs'[i].status = "running"
             /\ Goes(d, "send")
  <1> DEFINE i == jobs[d].run
             r == [runs[i] EXCEPT !.thread = JobThread(d), !.status = "running"]
  <1>1. i \in DOMAIN runs /\ \E t \in DOMAIN threads : threads[t].run = i
    BY DEF NamesInv, BindThread, Dispatching, BeforePrompt, BeforeThread
  <1>2. JobThread(d) \in DOMAIN threads /\ threads[JobThread(d)].run = i
    BY <1>1, JobThreadHolds
  <1>3. runs \in Seq(RunRecord) /\ runs[i] \in RunRecord
    BY <1>1 DEF AutoTypes
  <1>4. /\ r.slot = runs[i].slot /\ r.kind = runs[i].kind
        /\ r.thread = JobThread(d) /\ r.status = "running"
    BY <1>3 DEF RunRecord
  <1>5. runs' = [runs EXCEPT ![i] = r]
    BY <1>1, <1>3 DEF BindThread
  <1>6. /\ DOMAIN runs' = DOMAIN runs /\ runs'[i] = r
        /\ \A j \in DOMAIN runs \ {i} : runs'[j] = runs[j]
    <2> HIDE DEF r, i
    <2> QED BY <1>1, <1>3, <1>5
  <1>7. Goes(d, "send")
    BY JobMoves DEF BindThread, Goes, Moves
  <1> QED BY <1>1, <1>2, <1>4, <1>6, <1>7

\* The prompt puts the thread to work.
LEMMA SendPromptDoes ==
  ASSUME AutoTypes, NamesInv, NEW d \in Dispatchers, SendPrompt(d)
  PROVE  /\ JobThread(d) \in DOMAIN threads /\ threads[JobThread(d)].run = jobs[d].run
         /\ Turns(JobThread(d), "working") /\ Goes(d, "stamp")
  <1>1. JobThread(d) \in DOMAIN threads /\ threads[JobThread(d)].run = jobs[d].run
    BY JobThreadHolds DEF NamesInv, SendPrompt
  <1>2. Turns(JobThread(d), "working")
    BY <1>1, ThreadMoves DEF SendPrompt, Turns
  <1> QED BY <1>1, <1>2, JobMoves DEF SendPrompt, Goes, Moves

\* The call is over.
LEMMA StampAutomationDoes ==
  ASSUME AutoTypes, NEW d \in Dispatchers, StampAutomation(d)
  PROVE  Leaves(d)
  BY CallEndsHolds, JobMoves DEF StampAutomation, Leaves, Moves

\* The run has failed, nobody listens to it, and the call is over.
LEMMA DispatchFailsDoes ==
  ASSUME AutoTypes, NamesInv, NEW d \in Dispatchers, DispatchFails(d)
  PROVE  /\ jobs[d].step \in Dispatching /\ jobs[d].run \in DOMAIN runs
         /\ Writes(jobs[d].run, "failed") /\ Leaves(d) /\ bindings' = Unbound(jobs[d].run)
  <1>1. jobs[d].step \in Dispatching /\ jobs[d].run \in DOMAIN runs
    BY AutomationAssumption DEF NamesInv, DispatchFails, Dispatching, BeforePrompt, BeforeThread
  <1>2. Writes(jobs[d].run, "failed")
    BY <1>1, WithStatusHolds DEF DispatchFails, Statuses, SettledStatus, Writes
  <1>3. Leaves(d)
    BY CallEndsHolds, JobMoves DEF DispatchFails, Leaves, Moves
  <1> QED BY <1>1, <1>2, <1>3 DEF DispatchFails

\* A thread emits an event, of its activity, of its end or after it.
LEMMA ThreadSpeaks ==
  ASSUME AutoTypes, NEW t \in DOMAIN threads,
         ThreadActivity(t) \/ TurnEnds(t) \/ LateMetadata(t)
  PROVE  /\ threads[t].state \in {"working", "over"}
         /\ \E s \in {"running", "waiting_input"} \cup SettledStatus,
               a \in {"working", "over", "silent"} :
               /\ Turns(t, a)
               /\ a = "working" => threads[t].state = "working"
               /\ s \in SettledStatus => a # "working"
               /\ \A n \in DOMAIN updates' :
                     \/ \E m \in DOMAIN updates : updates'[n] = updates[m]
                     \/ \E b \in bindings : /\ b.thread = t
                                            /\ updates'[n].run = b.run
                                            /\ updates'[n].status = s
         /\ UNCHANGED <<clock, schedule, runs, jobs, bindings, boot, skipped>>
  <1> DEFINE Heard(s) == \A n \in DOMAIN updates' :
                            \/ \E m \in DOMAIN updates : updates'[n] = updates[m]
                            \/ \E b \in bindings : /\ b.thread = t
                                                   /\ updates'[n].run = b.run
                                                   /\ updates'[n].status = s
  <1>1. ASSUME NEW s \in {"running", "waiting_input"} \cup SettledStatus,
               updates' = HeardBy({t}, s)
        PROVE  Heard(s)
    BY ZenonT(60), <1>1, HeardByHolds
  <1>2. CASE ThreadActivity(t)
    <2>1. PICK s \in ActivityKinds : updates' = HeardBy({t}, s)
      BY <1>2 DEF ThreadActivity
    <2>2. s \in {"running", "waiting_input"} /\ s \notin SettledStatus
      BY AutomationAssumption DEF SettledStatus
    <2>3. Heard(s)
      BY <1>1, <2>1, <2>2
    <2>4. threads[t].state = "working" /\ Turns(t, "working")
      BY <1>2, ThreadCounts DEF ThreadActivity, Turns
    <2>5. UNCHANGED <<clock, schedule, runs, jobs, bindings, boot, skipped>>
      BY <1>2 DEF ThreadActivity
    <2> HIDE DEF Heard
    <2>6. \E q \in {"running", "waiting_input"} \cup SettledStatus,
             a \in {"working", "over", "silent"} :
             /\ Turns(t, a)
             /\ a = "working" => threads[t].state = "working"
             /\ q \in SettledStatus => a # "working"
             /\ Heard(q)
      BY <2>2, <2>3, <2>4
    <2> QED BY <2>4, <2>5, <2>6 DEF Heard
  <1>3. CASE TurnEnds(t)
    <2>1. PICK s \in Outcomes : updates' = HeardBy({t}, s)
      BY <1>3 DEF TurnEnds
    <2>2. s \in SettledStatus
      BY AutomationAssumption DEF SettledStatus
    <2>3. Heard(s)
      BY <1>1, <2>1, <2>2
    <2>4. threads[t].state = "working" /\ Turns(t, "over")
      BY <1>3, ThreadMoves DEF TurnEnds, Turns
    <2>5. UNCHANGED <<clock, schedule, runs, jobs, bindings, boot, skipped>>
      BY <1>3 DEF TurnEnds
    <2> HIDE DEF Heard
    <2>6. \E q \in {"running", "waiting_input"} \cup SettledStatus,
             a \in {"working", "over", "silent"} :
             /\ Turns(t, a)
             /\ a = "working" => threads[t].state = "working"
             /\ q \in SettledStatus => a # "working"
             /\ Heard(q)
      BY <2>2, <2>3, <2>4
    <2> QED BY <2>4, <2>5, <2>6 DEF Heard
  <1>4. CASE LateMetadata(t)
    <2>1. Heard("running")
      BY <1>1, <1>4 DEF LateMetadata
    <2>2. threads[t].state = "over" /\ Turns(t, "silent")
      BY <1>4, ThreadMoves DEF LateMetadata, Turns
    <2>3. UNCHANGED <<clock, schedule, runs, jobs, bindings, boot, skipped>>
      BY <1>4 DEF LateMetadata
    <2> HIDE DEF Heard
    <2>4. \E q \in {"running", "waiting_input"} \cup SettledStatus,
             a \in {"working", "over", "silent"} :
             /\ Turns(t, a)
             /\ a = "working" => threads[t].state = "working"
             /\ q \in SettledStatus => a # "working"
             /\ Heard(q)
      BY <2>1, <2>2 DEF SettledStatus
    <2> QED BY <2>2, <2>3, <2>4 DEF Heard
  <1> QED BY <1>2, <1>3, <1>4

\* A handler writes the status of its run, or reads first.
LEMMA HandleUpdateDoes ==
  ASSUME AutoTypes, NamesInv, HandleUpdate
  PROVE  /\ \A m \in DOMAIN updates' : \E k \in DOMAIN updates :
               /\ updates'[m].run = updates[k].run /\ updates'[m].status = updates[k].status
         /\ \/ UNCHANGED <<runs, bindings>>
            \/ \E n \in DOMAIN updates :
                  /\ updates[n].run \in DOMAIN runs
                  /\ Writes(updates[n].run, updates[n].status)
                  /\ bindings' = IF updates[n].status \in SettledStatus
                                 THEN Unbound(updates[n].run) ELSE bindings
                  /\ updates[n].status \in {"running", "waiting_input"} \cup SettledStatus
         /\ UNCHANGED <<clock, schedule, jobs, threads, boot, skipped>>
  <1>1. PICK n \in DOMAIN updates :
           /\ IF updates[n].reads
              THEN /\ updates' = Append(RemoveAt(updates, n), [updates[n] EXCEPT !.reads = FALSE])
                   /\ UNCHANGED <<runs, bindings>>
              ELSE /\ updates' = RemoveAt(updates, n)
                   /\ runs' = WithStatus(updates[n].run, updates[n].status)
                   /\ bindings' = IF updates[n].status \in SettledStatus
                                  THEN Unbound(updates[n].run) ELSE bindings
           /\ UNCHANGED <<clock, schedule, jobs, threads, boot, skipped>>
    BY DEF HandleUpdate
  <1> DEFINE u == updates[n]
             v == [u EXCEPT !.reads = FALSE]
  <1>2. u \in UpdateRecord /\ u.run \in DOMAIN runs /\ updates \in Seq(UpdateRecord)
    BY DEF AutoTypes, NamesInv
  <1>3. /\ u.status \in {"running", "waiting_input"} \cup SettledStatus
        /\ v \in UpdateRecord /\ v.run = u.run /\ v.status = u.status
    <2> HIDE DEF u
    <2> QED BY <1>2 DEF UpdateRecord, v
  <1>4. u.status \in Statuses
    BY <1>3 DEF Statuses, ActiveStatus
  <1>5. /\ RemoveAt(updates, n) \in Seq(UpdateRecord)
        /\ \A m \in DOMAIN RemoveAt(updates, n) :
              \E k \in DOMAIN updates : RemoveAt(updates, n)[m] = updates[k]
    BY <1>2, RemoveAtHolds
  <1>6. CASE u.reads
    <2> DEFINE q == RemoveAt(updates, n)
    <2>1. updates' = Append(q, v) /\ UNCHANGED <<runs, bindings>>
      BY <1>1, <1>6
    <2>2. q \in Seq(UpdateRecord) /\ \A m \in DOMAIN q : \E k \in DOMAIN updates : q[m] = updates[k]
      BY <1>5
    <2> HIDE DEF q, v
    <2>3. /\ \A i \in DOMAIN q : i \in DOMAIN updates' /\ updates'[i] = q[i]
          /\ \A i \in DOMAIN updates' : i \notin DOMAIN q => i = Len(q) + 1
          /\ updates'[Len(q) + 1] = v
      BY <1>3, <2>1, <2>2, AppendedHolds
    <2>4. ASSUME NEW m \in DOMAIN updates'
          PROVE  \E k \in DOMAIN updates :
                    /\ updates'[m].run = updates[k].run
                    /\ updates'[m].status = updates[k].status
      <3>1. CASE m \in DOMAIN q
        BY <2>2, <2>3, <3>1
      <3>2. CASE m \notin DOMAIN q
        <4>1. updates'[m] = v
          BY <2>3, <2>4, <3>2
        <4> QED BY <1>3, <4>1
      <3> QED BY <3>1, <3>2
    <2> QED BY <1>1, <2>1, <2>4
  <1>7. CASE ~u.reads
    <2>1. /\ updates' = RemoveAt(updates, n) /\ runs' = WithStatus(u.run, u.status)
          /\ bindings' = IF u.status \in SettledStatus THEN Unbound(u.run) ELSE bindings
      BY <1>1, <1>7
    <2>2. Writes(u.run, u.status)
      <3> HIDE DEF u
      <3> QED BY <1>2, <1>4, <2>1, WithStatusHolds DEF Writes
    <2>3. \A m \in DOMAIN updates' : \E k \in DOMAIN updates : updates'[m] = updates[k]
      BY <1>5, <2>1
    <2> QED BY <1>1, <1>2, <1>3, <2>1, <2>2, <2>3
  <1> QED BY <1>6, <1>7

\* A restart.
LEMMA RestartDoes ==
  ASSUME AutoTypes, RuntimeRestarts
  PROVE  /\ \A d \in Dispatchers : jobs'[d].step \in {"idle", "done"} /\ jobs'[d].now = 0
         /\ DOMAIN threads' = DOMAIN threads
         /\ \A u \in DOMAIN threads :
               /\ threads'[u].run = threads[u].run
               /\ threads'[u].state = IF threads[u].state = "working" THEN "stuck"
                                      ELSE threads[u].state
         /\ bindings' = {} /\ updates' = << >>
         /\ boot'.phase = "threads" /\ boot'.todo = << >>
         /\ UNCHANGED <<clock, schedule, runs, skipped>>
  <1>1. \A d \in Dispatchers : jobs'[d].step \in {"idle", "done"} /\ jobs'[d].now = 0
    <2>1. \A d \in Dispatchers : jobs'[d] \in {NoJob, [NoJob EXCEPT !.step = "done"]}
      BY DEF RuntimeRestarts
    <2> QED BY <2>1 DEF NoJob
  <1>2. /\ DOMAIN threads' = DOMAIN threads
        /\ \A u \in DOMAIN threads :
               /\ threads'[u].run = threads[u].run
               /\ threads'[u].state = IF threads[u].state = "working" THEN "stuck"
                                      ELSE threads[u].state
    BY ThreadsMove DEF RuntimeRestarts
  <1> QED BY <1>1, <1>2 DEF RuntimeRestarts

\* The recovery of the threads that a restart interrupted.
LEMMA RecoverThreadsDoes ==
  ASSUME AutoTypes, RecoverThreads
  PROVE  /\ boot.phase = "threads" /\ boot'.phase = "runs"
         /\ \A n \in DOMAIN boot'.todo :
               /\ boot'.todo[n].run \in ActiveRuns
               /\ boot'.todo[n].thread = runs[boot'.todo[n].run].thread
         /\ \A m, n \in DOMAIN boot'.todo : boot'.todo[m].run = boot'.todo[n].run => m = n
         /\ DOMAIN threads' = DOMAIN threads
         /\ \A u \in DOMAIN threads :
               /\ threads'[u].run = threads[u].run
               /\ threads'[u].state = IF threads[u].state = "stuck" THEN "over"
                                      ELSE threads[u].state
         /\ \A n \in DOMAIN updates' :
               \/ \E m \in DOMAIN updates : updates'[n] = updates[m]
               \/ \E b \in bindings : updates'[n].run = b.run
         /\ bindings = {} => updates' = updates
         /\ UNCHANGED <<clock, schedule, runs, jobs, bindings, skipped>>
  <1>1. /\ DOMAIN threads' = DOMAIN threads
        /\ \A u \in DOMAIN threads :
               /\ threads'[u].run = threads[u].run
               /\ threads'[u].state = IF threads[u].state = "stuck" THEN "over"
                                      ELSE threads[u].state
    BY ThreadsMove DEF RecoverThreads
  <1>2. /\ \A n \in DOMAIN updates' :
               \/ \E m \in DOMAIN updates : updates'[n] = updates[m]
               \/ \E b \in bindings : updates'[n].run = b.run
        /\ bindings = {} => updates' = updates
    <2> DEFINE ts == {t \in DOMAIN threads : threads[t].state = "stuck"}
    <2>1. updates' = HeardBy(ts, "failed") /\ "failed" \in SettledStatus
      BY DEF RecoverThreads, SettledStatus
    <2> HIDE DEF ts
    <2> QED BY <2>1, HeardByHolds
  <1>3. boot'.todo = SetToSeq({[run |-> i, thread |-> runs[i].thread] : i \in ActiveRuns})
    BY DEF RecoverThreads
  <1>4. boot.phase = "threads" /\ boot'.phase = "runs"
    BY DEF RecoverThreads
  <1> QED BY <1>1, <1>2, <1>3, <1>4, TodoHolds DEF RecoverThreads

\* The recovery of a run.
LEMMA RecoverRunDoes ==
  ASSUME AutoTypes, RecoverRun
  PROVE  /\ boot.phase = "runs" /\ jobs["startup"].step = "idle"
         /\ UNCHANGED <<clock, schedule, runs, threads, updates, skipped>>
         /\ \/ /\ boot'.phase = "up" /\ boot'.todo = << >> /\ boot.todo = << >>
               /\ UNCHANGED <<bindings, jobs>>
            \/ /\ boot'.phase = "runs" /\ 1 \in DOMAIN boot.todo
               /\ boot'.todo \in Seq(BindingRecord)
               /\ \A n \in DOMAIN boot'.todo :
                     n + 1 \in DOMAIN boot.todo /\ boot'.todo[n] = boot.todo[n + 1]
               /\ \/ /\ boot.todo[1].thread # 0
                     /\ bindings' = Unbound(boot.todo[1].run) \cup {boot.todo[1]}
                     /\ UNCHANGED jobs
                  \/ /\ boot.todo[1].thread = 0
                     /\ Takes("startup", boot.todo[1].run)
                     /\ UNCHANGED bindings
  <1>1. /\ boot.phase = "runs" /\ jobs["startup"].step = "idle"
        /\ UNCHANGED <<clock, schedule, runs, threads, updates, skipped>>
    BY DEF RecoverRun
  <1>2. boot = [phase |-> boot.phase, todo |-> boot.todo]
    BY DEF AutoTypes
  <1>3. CASE boot.todo = << >>
    <2>1. boot' = [boot EXCEPT !.phase = "up"] /\ UNCHANGED <<bindings, jobs>>
      BY <1>3 DEF RecoverRun
    <2>2. boot'.phase = "up" /\ boot'.todo = boot.todo
      BY <1>2, <2>1
    <2> QED BY <1>1, <1>3, <2>1, <2>2
  <1>4. CASE boot.todo # << >>
    <2> DEFINE r == Head(boot.todo)
    <2>1. /\ r \in BindingRecord /\ 1 \in DOMAIN boot.todo /\ r = boot.todo[1]
          /\ Tail(boot.todo) \in Seq(BindingRecord)
          /\ \A n \in DOMAIN Tail(boot.todo) :
                n + 1 \in DOMAIN boot.todo /\ Tail(boot.todo)[n] = boot.todo[n + 1]
      BY <1>4, RestOfTodo
    <2>2. boot' = [boot EXCEPT !.todo = Tail(boot.todo)]
      BY <1>4 DEF RecoverRun
    <2>3. boot'.phase = "runs" /\ boot'.todo = Tail(boot.todo)
      BY <1>1, <1>2, <2>2
    <2>4. CASE r.thread # 0
      <3>1. bindings' = Unbound(r.run) \cup {r} /\ UNCHANGED jobs
        BY <1>4, <2>4 DEF RecoverRun
      <3> QED BY <1>1, <2>1, <2>3, <2>4, <3>1
    <2>5. CASE r.thread = 0
      <3> DEFINE j == [NoJob EXCEPT !.step = "begin", !.run = r.run]
      <3>1. jobs' = [jobs EXCEPT !["startup"] = j] /\ UNCHANGED bindings
        BY <1>4, <2>5 DEF RecoverRun
      <3>2. r.run \in Nat /\ "startup" \in Dispatchers
        BY <2>1 DEF BindingRecord, Dispatchers
      <3>3. /\ j \in JobRecord /\ j.step = "begin" /\ j.run = r.run /\ j.now = 0
        <4> HIDE DEF r
        <4> QED BY <3>2 DEF NoJob, JobRecord, Dispatching, BeforePrompt, BeforeThread
      <3> HIDE DEF j
      <3>4. Moves("startup", j)
        BY <3>1, <3>2, <3>3, JobMoves
      <3>5. Takes("startup", r.run)
        BY <3>3, <3>4 DEF Moves, Takes
      <3> QED BY <1>1, <2>1, <2>3, <2>5, <3>1, <3>5
    <2> QED BY <2>4, <2>5
  <1> QED BY <1>3, <1>4

\* A claim: it is too late, the slots are missed, or the last of them is to be run.
LEMMA ClaimDueDoes ==
  ASSUME AutoTypes, SlotInv, NEW d \in Dispatchers, ClaimDue(d)
  PROVE  /\ jobs[d].step = "claim"
         /\ UNCHANGED <<clock, threads, bindings, updates, boot, skipped>>
         /\ \/ Leaves(d) /\ UNCHANGED <<schedule, runs>>
            \/ /\ schedule.next = jobs[d].saw /\ schedule'.next = jobs[d].now + 1
               /\ runs' \in Seq(RunRecord) /\ Adds
               /\ Len(runs') = Len(runs) + (jobs[d].now - jobs[d].saw + 1)
               /\ \A i \in DOMAIN runs' : i \notin DOMAIN runs =>
                     /\ runs'[i].slot = jobs[d].saw + (i - Len(runs) - 1)
                     /\ runs'[i].thread = 0
               /\ \/ /\ Leaves(d)
                     /\ \A i \in DOMAIN runs' : i \notin DOMAIN runs => runs'[i].status = "missed"
                  \/ /\ Takes(d, Len(runs')) /\ ActiveRuns = {}
                     /\ Len(runs') \in DOMAIN runs' /\ Len(runs') \notin DOMAIN runs
                     /\ runs'[Len(runs')].status = "queued"
                     /\ \A i \in DOMAIN runs' : i \notin DOMAIN runs =>
                           i = Len(runs') \/ runs'[i].status = "missed"
  <1>1. /\ jobs[d].step = "claim"
        /\ UNCHANGED <<clock, threads, bindings, updates, boot, skipped>>
    BY DEF ClaimDue
  <1>2. CASE ~schedule.enabled \/ schedule.next # jobs[d].saw
    <2>1. jobs' = [jobs EXCEPT ![d] = CallEnds(d)] /\ UNCHANGED <<schedule, runs>>
      BY <1>2 DEF ClaimDue
    <2>2. Leaves(d)
      BY <2>1, CallEndsHolds, JobMoves DEF Moves, Leaves
    <2> QED BY <1>1, <2>1, <2>2
  <1>3. CASE ~(~schedule.enabled \/ schedule.next # jobs[d].saw)
    <2>1. schedule.enabled /\ schedule.next = jobs[d].saw
      BY <1>3
    <2>2. schedule' = [schedule EXCEPT !.next = jobs[d].now + 1]
      BY <1>3 DEF ClaimDue
    <2>3. schedule'.next = jobs[d].now + 1
      BY <2>2 DEF AutoTypes
    <2>4. /\ runs' \in Seq(RunRecord) /\ Adds
          /\ Len(runs') = Len(runs) + (jobs[d].now - jobs[d].saw + 1)
          /\ \A i \in DOMAIN runs' : i \notin DOMAIN runs =>
                /\ runs'[i].slot = jobs[d].saw + (i - Len(runs) - 1)
                /\ runs'[i].thread = 0
                /\ (i = Len(runs') /\ ActiveRuns = {}) \/ runs'[i].status = "missed"
      BY <2>1, ClaimHolds DEF Adds
    <2>5. CASE ActiveRuns # {}
      <3>1. jobs' = [jobs EXCEPT ![d] = CallEnds(d)]
        BY <2>1, <2>5, ClaimHolds
      <3>2. Leaves(d)
        BY <3>1, CallEndsHolds, JobMoves DEF Moves, Leaves
      <3> QED BY <1>1, <2>1, <2>3, <2>4, <2>5, <3>2
    <2>6. CASE ActiveRuns = {}
      <3>1. /\ jobs' = [jobs EXCEPT ![d].step = "begin", ![d].run = Len(runs')]
            /\ runs'[Len(runs')].status = "queued"
        BY <2>1, <2>6, ClaimHolds
      <3>2. Len(runs') \in DOMAIN runs' /\ Len(runs') \notin DOMAIN runs /\ Len(runs') \in Nat
        <4>1. /\ jobs[d].now \in Nat /\ jobs[d].saw \in Nat /\ jobs[d].saw <= jobs[d].now
              /\ Len(runs) \in Nat /\ DOMAIN runs = 1..Len(runs)
              /\ DOMAIN runs' = 1..Len(runs')
          BY <1>1, <2>4 DEF AutoTypes, JobRecord, SlotInv
        <4> QED BY <2>4, <4>1
      <3>3. Takes(d, Len(runs'))
        BY ZenonT(60), <3>1, <3>2, JobMoves DEF Moves, Takes
      <3> QED BY <1>1, <2>1, <2>3, <2>4, <2>6, <3>1, <3>2, <3>3
    <2> QED BY <2>5, <2>6
  <1> QED BY <1>2, <1>3

(***************************************************************************)
(* Names.                                                                  *)
(***************************************************************************)

\* Rows and threads stay, and a row keeps the thread it names.
Stays ==
    /\ DOMAIN runs \subseteq DOMAIN runs' /\ DOMAIN threads \subseteq DOMAIN threads'
    /\ \A t \in DOMAIN threads : threads'[t].run = threads[t].run

\* Names are kept by a step that adds none but good ones.
LEMMA NamesStay ==
  ASSUME NamesInv, Stays,
         \A d \in Dispatchers : jobs'[d] # jobs[d] =>
            /\ jobs'[d].step \in Dispatching => jobs'[d].run \in DOMAIN runs'
            /\ jobs'[d].step \in {"bind", "send"} =>
                  \E t \in DOMAIN threads' : threads'[t].run = jobs'[d].run,
         \A t \in DOMAIN threads' : t \notin DOMAIN threads => threads'[t].run \in DOMAIN runs',
         \A i \in DOMAIN runs' :
            \/ i \in DOMAIN runs /\ runs'[i].thread = runs[i].thread
            \/ runs'[i].thread # 0 =>
                  runs'[i].thread \in DOMAIN threads' /\ threads'[runs'[i].thread].run = i,
         \A b \in bindings' :
            \/ b \in bindings
            \/ /\ b.run \in DOMAIN runs'
               /\ b.thread \in DOMAIN threads' /\ threads'[b.thread].run = b.run,
         \A n \in DOMAIN updates' :
            \/ \E m \in DOMAIN updates : updates'[n].run = updates[m].run
            \/ \E b \in bindings : updates'[n].run = b.run,
         \A n \in DOMAIN boot'.todo :
            \/ \E m \in DOMAIN boot.todo : boot'.todo[n] = boot.todo[m]
            \/ /\ boot'.todo[n].run \in DOMAIN runs
               /\ boot'.todo[n].thread = runs[boot'.todo[n].run].thread
  PROVE  NamesInv'
  <1>1. ASSUME NEW d \in Dispatchers
        PROVE  /\ jobs'[d].step \in Dispatching => jobs'[d].run \in DOMAIN runs'
               /\ jobs'[d].step \in {"bind", "send"} =>
                     \E t \in DOMAIN threads' : threads'[t].run = jobs'[d].run
    <2>1. CASE jobs'[d] # jobs[d]
      BY <2>1
    <2>2. CASE jobs'[d] = jobs[d]
      BY <2>2 DEF NamesInv, Stays
    <2> QED BY <2>1, <2>2
  <1>2. \A t \in DOMAIN threads' : threads'[t].run \in DOMAIN runs'
    BY DEF NamesInv, Stays
  <1>3. ASSUME NEW i \in DOMAIN runs', runs'[i].thread # 0
        PROVE  runs'[i].thread \in DOMAIN threads' /\ threads'[runs'[i].thread].run = i
    <2>1. CASE i \in DOMAIN runs /\ runs'[i].thread = runs[i].thread
      BY <1>3, <2>1 DEF NamesInv, Stays
    <2>2. CASE ~(i \in DOMAIN runs /\ runs'[i].thread = runs[i].thread)
      BY <1>3, <2>2
    <2> QED BY <2>1, <2>2
  <1>4. \A b \in bindings' : /\ b.run \in DOMAIN runs'
                             /\ b.thread \in DOMAIN threads' /\ threads'[b.thread].run = b.run
    BY DEF NamesInv, Stays
  <1>5. \A n \in DOMAIN updates' : updates'[n].run \in DOMAIN runs'
    BY DEF NamesInv, Stays
  <1>6. ASSUME NEW n \in DOMAIN boot'.todo
        PROVE  /\ boot'.todo[n].run \in DOMAIN runs'
               /\ boot'.todo[n].thread # 0 =>
                     /\ boot'.todo[n].thread \in DOMAIN threads'
                     /\ threads'[boot'.todo[n].thread].run = boot'.todo[n].run
    <2>1. CASE \E m \in DOMAIN boot.todo : boot'.todo[n] = boot.todo[m]
      BY <2>1 DEF NamesInv, Stays
    <2>2. CASE /\ boot'.todo[n].run \in DOMAIN runs
               /\ boot'.todo[n].thread = runs[boot'.todo[n].run].thread
      BY <2>2 DEF NamesInv, Stays
    <2> QED BY <1>6, <2>1, <2>2
  <1> QED BY <1>1, <1>2, <1>3, <1>4, <1>5, <1>6 DEF NamesInv

\* Names: every step.
LEMMA NamesKept ==
  ASSUME BaseInv, AutoNext
  PROVE  NamesInv'
  <1>1. AutoTypes /\ SlotInv /\ NamesInv
    BY DEF BaseInv
  <1>2. CASE SlotDue \/ EditSchedule
    BY <1>1, <1>2 DEF SlotDue, EditSchedule, NamesInv
  <1>3. ASSUME NEW d \in Dispatchers, FindDue(d) PROVE NamesInv'
    <2>1. /\ UNCHANGED <<runs, threads, bindings, updates, boot>>
          /\ \A e \in Dispatchers : jobs'[e] # jobs[e] => jobs'[e].step \in {"idle", "claim"}
      BY <1>1, <1>3, FindDueDoes DEF FindDue
    <2> QED BY <1>1, <2>1, NamesStay DEF Stays, Dispatching, BeforePrompt, BeforeThread
  <1>4. ASSUME NEW d \in Dispatchers, ClaimDue(d) PROVE NamesInv'
    <2>1. UNCHANGED <<threads, bindings, updates, boot>>
      BY <1>1, <1>4, ClaimDueDoes
    <2>2. CASE Leaves(d) /\ UNCHANGED <<schedule, runs>>
      <3>1. \A e \in Dispatchers : jobs'[e] # jobs[e] =>
               jobs'[e].step \notin Dispatching /\ jobs'[e].step \notin {"bind", "send"}
        BY <2>2 DEF Leaves, Dispatching, BeforePrompt, BeforeThread
      <3> QED BY <1>1, <2>1, <2>2, <3>1, NamesStay DEF Stays
    <2>3. CASE ~(Leaves(d) /\ UNCHANGED <<schedule, runs>>)
      <3>1. /\ Adds /\ \A i \in DOMAIN runs' : i \notin DOMAIN runs => runs'[i].thread = 0
            /\ \/ Leaves(d)
               \/ Takes(d, Len(runs')) /\ Len(runs') \in DOMAIN runs'
        BY <1>1, <1>4, <2>3, ClaimDueDoes
      <3>2. \A e \in Dispatchers : jobs'[e] # jobs[e] =>
               /\ jobs'[e].step \in Dispatching => jobs'[e].run \in DOMAIN runs'
               /\ jobs'[e].step \notin {"bind", "send"}
        BY <3>1 DEF Leaves, Takes, Dispatching, BeforePrompt, BeforeThread
      <3>3. Stays
        BY <2>1, <3>1 DEF Adds, Stays
      <3>4. \A i \in DOMAIN runs' :
               \/ i \in DOMAIN runs /\ runs'[i].thread = runs[i].thread
               \/ runs'[i].thread = 0
        BY <3>1 DEF Adds
      <3> QED BY <1>1, <2>1, <3>2, <3>3, <3>4, NamesStay
    <2> QED BY <2>2, <2>3
  <1>5. ASSUME NEW d \in Dispatchers, ManualCheck(d) PROVE NamesInv'
    <2>1. /\ UNCHANGED <<runs, threads, bindings, updates, boot>>
          /\ \A e \in Dispatchers : jobs'[e] # jobs[e] => jobs'[e].step \in {"done", "create"}
      BY <1>1, <1>5, ManualCheckDoes DEF ManualCheck, Goes
    <2> QED BY <1>1, <2>1, NamesStay DEF Stays, Dispatching, BeforePrompt, BeforeThread
  <1>6. ASSUME NEW d \in Dispatchers, ManualCreate(d) PROVE NamesInv'
    <2> DEFINE n == Len(runs) + 1
    <2>1. /\ UNCHANGED <<threads, bindings, updates, boot>>
          /\ Adds /\ Takes(d, n) /\ DOMAIN runs' = DOMAIN runs \cup {n}
          /\ runs'[n] = NewRun(0, "queued", "manual")
      BY <1>1, <1>6, ManualCreateDoes DEF ManualCreate
    <2> HIDE DEF n
    <2>2. \A e \in Dispatchers : jobs'[e] # jobs[e] =>
             jobs'[e].step = "begin" /\ jobs'[e].run \in DOMAIN runs'
      BY <2>1 DEF Takes
    <2>3. Stays
      BY <2>1 DEF Stays
    <2>4. \A i \in DOMAIN runs' :
             \/ i \in DOMAIN runs /\ runs'[i].thread = runs[i].thread
             \/ runs'[i].thread = 0
      BY <2>1 DEF Adds, NewRun
    <2> QED BY <1>1, <2>1, <2>2, <2>3, <2>4, NamesStay
  <1>7. ASSUME NEW d \in Dispatchers, BeginRun(d) PROVE NamesInv'
    <2>1. /\ UNCHANGED <<threads, bindings, updates, boot>>
          /\ Writes(jobs[d].run, "dispatching") /\ Goes(d, "thread")
          /\ jobs[d].run \in DOMAIN runs
      BY <1>1, <1>7, BeginRunDoes
         DEF BeginRun, NamesInv, Dispatching, BeforePrompt, BeforeThread
    <2>2. \A e \in Dispatchers : jobs'[e] # jobs[e] =>
             jobs'[e].step = "thread" /\ jobs'[e].run \in DOMAIN runs'
      BY <2>1 DEF Goes, Writes
    <2> QED BY <1>1, <2>1, <2>2, NamesStay DEF Stays, Writes
  <1>8. ASSUME NEW d \in Dispatchers, CreateRunThread(d) PROVE NamesInv'
    <2> DEFINE n == Len(threads) + 1
               i == jobs[d].run
    <2>1. /\ UNCHANGED <<runs, updates, boot>> /\ i \in DOMAIN runs
          /\ n # 0 /\ n \notin DOMAIN threads /\ DOMAIN threads' = DOMAIN threads \cup {n}
          /\ \A t \in DOMAIN threads : threads'[t] = threads[t]
          /\ threads'[n].run = i
          /\ bindings' = Unbound(i) \cup {[run |-> i, thread |-> n]}
          /\ Goes(d, "bind")
      BY <1>1, <1>8, CreateRunThreadDoes
         DEF CreateRunThread, NamesInv, Dispatching, BeforePrompt, BeforeThread
    <2>2. Unbound(i) \subseteq bindings
      BY <1>1, UnboundHolds
    <2>3. \A e \in Dispatchers : jobs'[e] # jobs[e] =>
             /\ jobs'[e].step = "bind" /\ jobs'[e].run = i
             /\ \E t \in DOMAIN threads' : threads'[t].run = jobs'[e].run
      BY <2>1 DEF Goes
    <2> HIDE DEF n, i
    <2>4. Stays
      BY <2>1 DEF Stays
    <2>5. \A b \in bindings' :
             \/ b \in bindings
             \/ /\ b.run \in DOMAIN runs'
                /\ b.thread \in DOMAIN threads' /\ threads'[b.thread].run = b.run
      BY <2>1, <2>2
    <2>6. \A t \in DOMAIN threads' : t \notin DOMAIN threads => threads'[t].run \in DOMAIN runs'
      BY <2>1
    <2> QED BY <1>1, <2>1, <2>3, <2>4, <2>5, <2>6, NamesStay
  <1>9. ASSUME NEW d \in Dispatchers, BindThread(d) PROVE NamesInv'
    <2> DEFINE i == jobs[d].run
               t == JobThread(d)
    <2>1. /\ UNCHANGED <<threads, bindings, updates, boot>> /\ i \in DOMAIN runs
          /\ t \in DOMAIN threads /\ threads[t].run = i
          /\ DOMAIN runs' = DOMAIN runs
          /\ \A j \in DOMAIN runs \ {i} : runs'[j] = runs[j]
          /\ runs'[i].thread = t
          /\ Goes(d, "send")
      BY <1>1, <1>9, BindThreadDoes DEF BindThread
    <2>2. \A e \in Dispatchers : jobs'[e] # jobs[e] =>
             jobs'[e].step = "send" /\ jobs'[e].run = i
      BY <2>1 DEF Goes
    <2> HIDE DEF t, i
    <2>3. Stays
      BY <2>1 DEF Stays
    <2>4. \A j \in DOMAIN runs' :
             \/ j \in DOMAIN runs /\ runs'[j].thread = runs[j].thread
             \/ runs'[j].thread \in DOMAIN threads' /\ threads'[runs'[j].thread].run = j
      BY <2>1
    <2> QED BY <1>1, <2>1, <2>2, <2>3, <2>4, NamesStay
  <1>10. ASSUME NEW d \in Dispatchers, SendPrompt(d) PROVE NamesInv'
    <2>1. /\ UNCHANGED <<runs, bindings, updates, boot>>
          /\ Turns(JobThread(d), "working") /\ Goes(d, "stamp") /\ jobs[d].run \in DOMAIN runs
      BY <1>1, <1>10, SendPromptDoes DEF SendPrompt, NamesInv, Dispatching, BeforePrompt
    <2>2. \A e \in Dispatchers : jobs'[e] # jobs[e] =>
             jobs'[e].step = "stamp" /\ jobs'[e].run \in DOMAIN runs'
      BY <2>1 DEF Goes
    <2>3. Stays
      BY <2>1 DEF Stays, Turns
    <2> QED BY <1>1, <2>1, <2>2, <2>3, NamesStay DEF Turns
  <1>11. ASSUME NEW d \in Dispatchers, StampAutomation(d) PROVE NamesInv'
    <2>1. UNCHANGED <<runs, threads, bindings, updates, boot>> /\ Leaves(d)
      BY <1>1, <1>11, StampAutomationDoes DEF StampAutomation
    <2>2. \A e \in Dispatchers : jobs'[e] # jobs[e] => jobs'[e].step \in {"idle", "find", "done"}
      BY <2>1 DEF Leaves
    <2> QED BY <1>1, <2>1, <2>2, NamesStay DEF Stays, Dispatching, BeforePrompt, BeforeThread
  <1>12. ASSUME NEW d \in Dispatchers, DispatchFails(d) PROVE NamesInv'
    <2>1. /\ UNCHANGED <<threads, updates, boot>> /\ Leaves(d)
          /\ Writes(jobs[d].run, "failed") /\ bindings' = Unbound(jobs[d].run)
      BY <1>1, <1>12, DispatchFailsDoes DEF DispatchFails
    <2>2. \A e \in Dispatchers : jobs'[e] # jobs[e] => jobs'[e].step \in {"idle", "find", "done"}
      BY <2>1 DEF Leaves
    <2>3. bindings' \subseteq bindings
      BY <1>1, <2>1, UnboundHolds
    <2>4. Stays /\ \A i \in DOMAIN runs' : i \in DOMAIN runs /\ runs'[i].thread = runs[i].thread
      BY <2>1 DEF Stays, Writes
    <2> QED BY <1>1, <2>1, <2>2, <2>3, <2>4, NamesStay
            DEF Dispatching, BeforePrompt, BeforeThread
  <1>13. CASE RunThreads
    <2>1. PICK t \in DOMAIN threads : ThreadActivity(t) \/ TurnEnds(t) \/ LateMetadata(t)
      BY <1>13 DEF RunThreads
    <2>2. /\ UNCHANGED <<runs, jobs, bindings, boot>> /\ \E a : Turns(t, a)
          /\ \A n \in DOMAIN updates' :
                \/ \E m \in DOMAIN updates : updates'[n].run = updates[m].run
                \/ \E b \in bindings : updates'[n].run = b.run
      BY <1>1, <2>1, ThreadSpeaks
    <2>3. Stays /\ DOMAIN threads' = DOMAIN threads
      BY <2>2 DEF Stays, Turns
    <2> QED BY <1>1, <2>2, <2>3, NamesStay
  <1>14. CASE HandleUpdate
    <2>1. /\ UNCHANGED <<jobs, threads, boot>>
          /\ \A n \in DOMAIN updates' : \E m \in DOMAIN updates : updates'[n].run = updates[m].run
          /\ UNCHANGED <<runs, bindings>>
             \/ \E i, s : Writes(i, s) /\ bindings' \in {Unbound(i), bindings}
      BY <1>1, <1>14, HandleUpdateDoes
    <2>2. /\ bindings' \subseteq bindings /\ DOMAIN runs' = DOMAIN runs
          /\ \A i \in DOMAIN runs : runs'[i].thread = runs[i].thread
      BY <1>1, <2>1, UnboundHolds DEF Writes
    <2>3. Stays
      BY <2>1, <2>2 DEF Stays
    <2> QED BY <1>1, <2>1, <2>2, <2>3, NamesStay
  <1>15. CASE RuntimeRestarts
    <2>1. /\ \A d \in Dispatchers : jobs'[d].step \in {"idle", "done"}
          /\ DOMAIN threads' = DOMAIN threads
          /\ \A u \in DOMAIN threads : threads'[u].run = threads[u].run
          /\ bindings' = {} /\ updates' = << >> /\ boot'.todo = << >>
          /\ UNCHANGED runs
      BY <1>1, <1>15, RestartDoes
    <2>2. Stays
      BY <2>1 DEF Stays
    <2> QED BY <1>1, <2>1, <2>2, NamesStay DEF Dispatching, BeforePrompt, BeforeThread
  <1>16. CASE RecoverThreads
    <2>1. /\ \A n \in DOMAIN boot'.todo :
                /\ boot'.todo[n].run \in DOMAIN runs
                /\ boot'.todo[n].thread = runs[boot'.todo[n].run].thread
          /\ DOMAIN threads' = DOMAIN threads
          /\ \A u \in DOMAIN threads : threads'[u].run = threads[u].run
          /\ \A n \in DOMAIN updates' :
                \/ \E m \in DOMAIN updates : updates'[n].run = updates[m].run
                \/ \E b \in bindings : updates'[n].run = b.run
          /\ UNCHANGED <<runs, jobs, bindings>>
      BY <1>1, <1>16, RecoverThreadsDoes DEF ActiveRuns
    <2>2. Stays
      BY <2>1 DEF Stays
    <2> QED BY <1>1, <2>1, <2>2, NamesStay
  <1>17. CASE RecoverRun
    <2>1. UNCHANGED <<runs, threads, updates>>
      BY <1>1, <1>17, RecoverRunDoes
    <2>2. Stays
      BY <2>1 DEF Stays
    <2>3. CASE boot'.phase = "up" /\ boot'.todo = << >> /\ UNCHANGED <<bindings, jobs>>
      BY <1>1, <2>1, <2>2, <2>3, NamesStay
    <2>4. CASE /\ 1 \in DOMAIN boot.todo
               /\ \A n \in DOMAIN boot'.todo :
                     n + 1 \in DOMAIN boot.todo /\ boot'.todo[n] = boot.todo[n + 1]
               /\ \/ /\ boot.todo[1].thread # 0
                     /\ bindings' = Unbound(boot.todo[1].run) \cup {boot.todo[1]}
                     /\ UNCHANGED jobs
                  \/ /\ Takes("startup", boot.todo[1].run)
                     /\ UNCHANGED bindings
      <3>1. /\ boot.todo[1].run \in DOMAIN runs
            /\ boot.todo[1].thread # 0 =>
                  /\ boot.todo[1].thread \in DOMAIN threads
                  /\ threads[boot.todo[1].thread].run = boot.todo[1].run
        BY <1>1, <2>4 DEF NamesInv
      <3>2. \A n \in DOMAIN boot'.todo : \E m \in DOMAIN boot.todo : boot'.todo[n] = boot.todo[m]
        BY <2>4
      <3>3. \A d \in Dispatchers : jobs'[d] # jobs[d] =>
               jobs'[d].step = "begin" /\ jobs'[d].run \in DOMAIN runs'
        BY <2>1, <2>4, <3>1 DEF Takes
      <3>4. \A b \in bindings' :
               \/ b \in bindings
               \/ /\ b.run \in DOMAIN runs'
                  /\ b.thread \in DOMAIN threads' /\ threads'[b.thread].run = b.run
        BY <1>1, <2>1, <2>4, <3>1, UnboundHolds
      <3> QED BY <1>1, <2>1, <2>2, <3>2, <3>3, <3>4, NamesStay
    <2> QED BY <1>1, <1>17, <2>3, <2>4, RecoverRunDoes
  <1> QED BY <1>2, <1>3, <1>4, <1>5, <1>6, <1>7, <1>8, <1>9, <1>10, <1>11, <1>12, <1>13, <1>14,
             <1>15, <1>16, <1>17 DEF AutoNext, AutoStartup, DispatchRun, Dispatchers

(***************************************************************************)
(* Slots.                                                                  *)
(***************************************************************************)

\* The numbers that the rows and the calls hold.
LEMMA Numbers ==
  ASSUME AutoTypes
  PROVE  /\ clock \in Nat /\ schedule.next \in Nat
         /\ \A i \in DOMAIN runs : runs[i].slot \in Nat
         /\ \A d \in Dispatchers : jobs[d].now \in Nat /\ jobs[d].saw \in Nat
  <1>1. ASSUME NEW i \in DOMAIN runs PROVE runs[i].slot \in Nat
    <2>1. runs[i] \in RunRecord
      BY DEF AutoTypes
    <2> QED BY <2>1 DEF RunRecord
  <1>2. ASSUME NEW d \in Dispatchers PROVE jobs[d].now \in Nat /\ jobs[d].saw \in Nat
    <2>1. jobs[d] \in JobRecord
      BY DEF AutoTypes
    <2> QED BY <2>1 DEF JobRecord
  <1>3. clock \in Nat /\ schedule.next \in Nat
    BY DEF AutoTypes
  <1> QED BY <1>1, <1>2, <1>3

\* What is said of a call.
ClaimIsSound(d) ==
    /\ jobs[d].now <= clock
    /\ jobs[d].step = "claim" =>
          /\ 1 <= jobs[d].saw /\ jobs[d].saw <= jobs[d].now
          /\ jobs[d].saw <= schedule.next

\* A step that adds at most rows that are of no slot, and leaves the schedule alone.
LEMMA SlotsStay ==
  ASSUME BaseInv, AutoTypes', UNCHANGED <<clock, schedule, skipped>>,
         \A i \in DOMAIN runs : i \in DOMAIN runs' /\ runs'[i].slot = runs[i].slot,
         \A i \in DOMAIN runs' : i \notin DOMAIN runs => runs'[i].slot = 0,
         \A d \in Dispatchers : \/ jobs'[d] = jobs[d]
                                \/ /\ jobs'[d].now \in {0, clock, jobs[d].now}
                                   /\ jobs'[d].step = "claim" => ClaimIsSound(d)'
  PROVE  SlotInv'
  <1>1. SlotInv /\ AutoTypes
    BY DEF BaseInv
  <1>2. ASSUME NEW d \in Dispatchers PROVE ClaimIsSound(d)'
    <2>1. ClaimIsSound(d) /\ clock \in Nat /\ jobs[d].now \in Nat
      BY <1>1, Numbers DEF SlotInv, ClaimIsSound
    <2>2. CASE jobs'[d] = jobs[d]
      BY <2>1, <2>2 DEF ClaimIsSound
    <2>3. CASE jobs'[d] # jobs[d]
      <3>1. jobs'[d].now <= clock'
        BY <2>1, <2>3 DEF ClaimIsSound
      <3> QED BY <2>3, <3>1 DEF ClaimIsSound
    <2> QED BY <2>2, <2>3
  <1>3. schedule.next \in 1..(clock + 1) /\ skipped \subseteq 1..(schedule.next - 1)
    BY <1>1 DEF SlotInv
  <1>4. 0 < schedule.next /\ 0 \notin skipped
    BY <1>1, <1>3, Numbers
  <1>5. \A i \in DOMAIN runs' : runs'[i].slot < schedule.next /\ runs'[i].slot \notin skipped
    BY <1>1, <1>4 DEF SlotInv
  <1>6. \A i, j \in DOMAIN runs' : runs'[i].slot = runs'[j].slot /\ runs'[i].slot # 0 => i = j
    BY <1>1 DEF SlotInv
  <1>7. \A s \in 1..(schedule.next - 1) :
           s \in skipped \/ \E i \in DOMAIN runs' : runs'[i].slot = s
    BY <1>1 DEF SlotInv
  <1> QED BY <1>2, <1>3, <1>5, <1>6, <1>7 DEF SlotInv, ClaimIsSound

\* The slots of a claim come behind those of the rows there are, each once.
LEMMA ClaimKeepsSlots ==
  ASSUME BaseInv, AutoTypes', NEW d \in Dispatchers, ClaimDue(d)
  PROVE  SlotInv'
  <1>1. SlotInv /\ AutoTypes
    BY DEF BaseInv
  <1>2. CASE Leaves(d) /\ UNCHANGED <<schedule, runs>>
    <2>1. \A e \in Dispatchers : \/ jobs'[e] = jobs[e]
                                 \/ /\ jobs'[e].now \in {0, clock, jobs[e].now}
                                    /\ jobs'[e].step # "claim"
      BY <1>2 DEF Leaves
    <2>2. UNCHANGED <<clock, skipped>>
      BY <1>1, ClaimDueDoes
    <2> QED BY <1>2, <2>1, <2>2, SlotsStay
  <1>3. CASE ~(Leaves(d) /\ UNCHANGED <<schedule, runs>>)
    <2> DEFINE saw == jobs[d].saw
               now == jobs[d].now
               k == Len(runs)
    <2>1. /\ jobs[d].step = "claim" /\ UNCHANGED <<clock, skipped>>
          /\ schedule.next = saw /\ schedule'.next = now + 1
          /\ runs' \in Seq(RunRecord) /\ Adds
          /\ Len(runs') = k + (now - saw + 1)
          /\ \A i \in DOMAIN runs' : i \notin DOMAIN runs => runs'[i].slot = saw + (i - k - 1)
          /\ Leaves(d) \/ Takes(d, Len(runs'))
      BY <1>1, <1>3, ClaimDueDoes
    <2>2. /\ saw \in Nat /\ now \in Nat /\ clock \in Nat
          /\ 1 <= saw /\ saw <= now /\ now <= clock
      BY <1>1, <2>1, Numbers DEF SlotInv
    <2>3. k \in Nat /\ DOMAIN runs = 1..k /\ DOMAIN runs' = 1..(k + (now - saw + 1))
      BY <1>1, <2>1 DEF AutoTypes
    <2>4. /\ schedule'.next \in 1..(clock' + 1)
          /\ skipped' \subseteq 1..(schedule'.next - 1)
      <3>1. skipped \subseteq 1..(saw - 1)
        BY <1>1, <2>1 DEF SlotInv
      <3> HIDE DEF saw, now, k
      <3> QED BY <2>1, <2>2, <3>1
    <2>5. ASSUME NEW e \in Dispatchers PROVE ClaimIsSound(e)'
      <3>1. ClaimIsSound(e) /\ jobs[e].now \in Nat /\ jobs[e].saw \in Nat
        BY <1>1, Numbers DEF SlotInv, ClaimIsSound
      <3>2. CASE e = d
        BY <2>1, <2>2, <3>2 DEF Leaves, Takes, ClaimIsSound
      <3>3. CASE e # d
        <4>1. jobs'[e] = jobs[e]
          BY <2>1, <3>3 DEF Leaves, Takes
        <4> HIDE DEF saw, now, k
        <4>2. jobs[e].saw <= schedule.next => jobs[e].saw <= now + 1
          BY <2>1, <2>2, <3>1
        <4> QED BY <2>1, <3>1, <4>1, <4>2 DEF ClaimIsSound
      <3> QED BY <3>2, <3>3
    <2>6. \A i \in DOMAIN runs :
             /\ i \in DOMAIN runs' /\ runs'[i].slot = runs[i].slot
             /\ runs[i].slot \in Nat /\ runs[i].slot < saw /\ runs[i].slot \notin skipped
      BY <1>1, <2>1, Numbers DEF Adds, SlotInv
    <2>7. ASSUME NEW i \in DOMAIN runs', i \notin DOMAIN runs
          PROVE  /\ i \in (k + 1)..(k + (now - saw + 1))
                 /\ runs'[i].slot = saw + (i - k - 1)
                 /\ runs'[i].slot \in saw..now
      <3>1. runs'[i].slot = saw + (i - k - 1)
        BY <2>1, <2>7
      <3> HIDE DEF saw, now, k
      <3>2. i \in (k + 1)..(k + (now - saw + 1))
        BY <2>2, <2>3, <2>7
      <3> QED BY <2>2, <2>3, <3>1, <3>2
    <2>8. skipped \subseteq 1..(saw - 1)
      BY <1>1, <2>1 DEF SlotInv
    <2>9. ASSUME NEW i \in DOMAIN runs'
          PROVE  runs'[i].slot < schedule'.next /\ runs'[i].slot \notin skipped'
      <3>1. CASE i \in DOMAIN runs
        <4> HIDE DEF saw, now, k
        <4> QED BY <2>1, <2>2, <2>6, <3>1
      <3>2. CASE i \notin DOMAIN runs
        <4>1. runs'[i].slot \in saw..now
          BY <2>7, <3>2
        <4> HIDE DEF saw, now, k
        <4> QED BY <2>1, <2>2, <2>8, <4>1
      <3> QED BY <3>1, <3>2
    <2>10. ASSUME NEW i \in DOMAIN runs', NEW j \in DOMAIN runs',
                  runs'[i].slot = runs'[j].slot, runs'[i].slot # 0
           PROVE  i = j
      <3>1. CASE i \in DOMAIN runs /\ j \in DOMAIN runs
        BY <1>1, <2>6, <2>10, <3>1 DEF SlotInv
      <3>2. CASE i \notin DOMAIN runs /\ j \notin DOMAIN runs
        <4>1. /\ i \in Int /\ j \in Int
              /\ runs'[i].slot = saw + (i - k - 1) /\ runs'[j].slot = saw + (j - k - 1)
          BY <2>7, <3>2
        <4>2. saw + (i - k - 1) = saw + (j - k - 1) /\ k \in Nat /\ saw \in Nat
          BY <2>2, <2>3, <2>10, <4>1
        <4> HIDE DEF saw, now, k
        <4> QED BY <4>1, <4>2
      <3>3. CASE i \in DOMAIN runs /\ j \notin DOMAIN runs
        <4>1. runs'[i].slot \in Nat /\ runs'[i].slot < saw /\ runs'[j].slot \in saw..now
          BY <2>6, <2>7, <3>3
        <4> HIDE DEF saw, now, k
        <4> QED BY <2>2, <2>10, <4>1
      <3>4. CASE i \notin DOMAIN runs /\ j \in DOMAIN runs
        <4>1. runs'[j].slot \in Nat /\ runs'[j].slot < saw /\ runs'[i].slot \in saw..now
          BY <2>6, <2>7, <3>4
        <4> HIDE DEF saw, now, k
        <4> QED BY <2>2, <2>10, <4>1
      <3> QED BY <3>1, <3>2, <3>3, <3>4
    <2>11. ASSUME NEW s \in 1..(schedule'.next - 1)
           PROVE  s \in skipped' \/ \E i \in DOMAIN runs' : runs'[i].slot = s
      <3>1. CASE s < saw
        <4>1. s \in 1..(schedule.next - 1)
          <5> HIDE DEF saw, now, k
          <5> QED BY <2>1, <2>2, <2>11, <3>1
        <4> QED BY <1>1, <2>1, <2>6, <4>1 DEF SlotInv
      <3>2. CASE ~(s < saw)
        <4> DEFINE i == k + (s - saw + 1)
        <4>1. i \in DOMAIN runs' /\ i \notin DOMAIN runs /\ saw + (i - k - 1) = s
          <5> HIDE DEF saw, now, k
          <5> QED BY <2>1, <2>2, <2>3, <2>11, <3>2
        <4> QED BY <2>7, <4>1
      <3> QED BY <3>1, <3>2
    <2> QED BY <2>4, <2>5, <2>9, <2>10, <2>11 DEF SlotInv, ClaimIsSound
  <1> QED BY <1>2, <1>3

\* Slots: every step.
LEMMA SlotsKept ==
  ASSUME BaseInv, AutoNext
  PROVE  SlotInv'
  <1>1. AutoTypes /\ SlotInv /\ NamesInv /\ AutoTypes'
    BY TypesKept DEF BaseInv
  <1>2. CASE SlotDue
    <2>1. /\ clock \in Nat /\ clock' = clock + 1
          /\ UNCHANGED <<schedule, runs, jobs, skipped>>
          /\ \A d \in Dispatchers : jobs[d].now \in Nat
      BY <1>1, <1>2, Numbers DEF SlotDue
    <2> QED BY <1>1, <2>1 DEF SlotInv
  <1>3. CASE EditSchedule
    <2>1. /\ clock \in Nat /\ UNCHANGED <<clock, runs, jobs>> /\ schedule.next \in Nat
          /\ \/ schedule'.next = clock + 1 /\ skipped' = skipped \cup (schedule.next..clock)
             \/ schedule'.next = schedule.next /\ skipped' = skipped
      BY <1>1, <1>3, Numbers DEF EditSchedule, AutoTypes
    <2>2. CASE schedule'.next = schedule.next /\ skipped' = skipped
      BY <1>1, <2>1, <2>2 DEF SlotInv
    <2>3. CASE schedule'.next = clock + 1 /\ skipped' = skipped \cup (schedule.next..clock)
      <3>1. /\ \A d \in Dispatchers : jobs[d].now \in Nat /\ jobs[d].saw \in Nat
            /\ \A i \in DOMAIN runs : runs[i].slot \in Nat
        BY <1>1, Numbers
      <3>2. schedule.next \in 1..(clock + 1) /\ skipped \subseteq 1..(schedule.next - 1)
        BY <1>1 DEF SlotInv
      <3>3. ASSUME NEW d \in Dispatchers PROVE ClaimIsSound(d)'
        BY <1>1, <2>1, <2>3, <3>1 DEF SlotInv, ClaimIsSound
      <3>4. ASSUME NEW i \in DOMAIN runs
            PROVE  runs[i].slot < clock + 1 /\ runs[i].slot \notin skipped'
        <4>1. runs[i].slot < schedule.next /\ runs[i].slot \notin skipped /\ runs[i].slot \in Nat
          BY <1>1, <3>1 DEF SlotInv
        <4> QED BY <2>1, <2>3, <3>2, <4>1
      <3>5. ASSUME NEW s \in 1..clock
            PROVE  s \in skipped' \/ \E i \in DOMAIN runs : runs[i].slot = s
        <4>1. CASE s < schedule.next
          <5>1. s \in 1..(schedule.next - 1)
            BY <2>1, <4>1
          <5> QED BY <1>1, <2>3, <5>1 DEF SlotInv
        <4>2. CASE ~(s < schedule.next)
          BY <2>1, <2>3, <4>2
        <4> QED BY <4>1, <4>2
      <3>6. schedule'.next \in 1..(clock + 1) /\ skipped' \subseteq 1..(schedule'.next - 1)
        <4>1. schedule'.next \in 1..(clock + 1) /\ schedule'.next - 1 = clock
          BY <2>1, <2>3
        <4>2. skipped \subseteq 1..clock /\ (schedule.next..clock) \subseteq 1..clock
          BY <2>1, <3>2
        <4> QED BY <2>3, <4>1, <4>2
      <3>7. \A s \in 1..(schedule'.next - 1) :
               s \in skipped' \/ \E i \in DOMAIN runs : runs[i].slot = s
        BY <2>1, <2>3, <3>5
      <3> QED BY <1>1, <2>1, <2>3, <3>3, <3>4, <3>6, <3>7 DEF SlotInv, ClaimIsSound
    <2> QED BY <2>1, <2>2, <2>3
  <1>4. ASSUME NEW d \in Dispatchers, FindDue(d) PROVE SlotInv'
    <2>1. /\ \A e \in Dispatchers \ {d} : jobs'[e] = jobs[e]
          /\ jobs'[d].now \in {0, clock, jobs[d].now}
          /\ \/ jobs'[d].step = "idle"
             \/ /\ jobs'[d].step = "claim"
                /\ jobs'[d].saw = schedule.next /\ schedule.next <= jobs'[d].now
      BY <1>1, <1>4, FindDueDoes
    <2>2. UNCHANGED <<clock, schedule, skipped, runs>>
      BY <1>4 DEF FindDue
    <2>3. 1 <= schedule.next /\ schedule.next \in Nat
      BY <1>1 DEF SlotInv, AutoTypes
    <2>4. jobs'[d].now <= clock
      BY <1>1, <2>1, Numbers DEF SlotInv
    <2>5. jobs'[d].step = "claim" => ClaimIsSound(d)'
      BY <2>1, <2>2, <2>3, <2>4 DEF ClaimIsSound
    <2> QED BY <1>1, <2>1, <2>2, <2>5, SlotsStay
  <1>5. ASSUME NEW d \in Dispatchers, ManualCheck(d) PROVE SlotInv'
    <2>1. PICK s \in {"done", "create"} : Goes(d, s)
      BY <1>1, <1>5, ManualCheckDoes
    <2>2. UNCHANGED <<clock, schedule, skipped, runs>>
      BY <1>5 DEF ManualCheck
    <2> QED BY <1>1, <2>1, <2>2, SlotsStay DEF Goes
  <1>6. ASSUME NEW d \in Dispatchers, ManualCreate(d) PROVE SlotInv'
    <2> DEFINE n == Len(runs) + 1
    <2>1. /\ Adds /\ Takes(d, n) /\ DOMAIN runs' = DOMAIN runs \cup {n}
          /\ runs'[n] = NewRun(0, "queued", "manual")
          /\ UNCHANGED <<clock, schedule, skipped>>
      BY <1>1, <1>6, ManualCreateDoes DEF ManualCreate
    <2> HIDE DEF n
    <2> QED BY <1>1, <2>1, SlotsStay DEF Adds, Takes, NewRun
  <1>7. ASSUME NEW d \in Dispatchers, DispatchRun(d) PROVE SlotInv'
    <2>1. UNCHANGED <<clock, schedule, skipped>>
      BY <1>7 DEF DispatchRun, BeginRun, CreateRunThread, BindThread, SendPrompt,
                  StampAutomation, DispatchFails
    <2>2. Leaves(d) \/ \E s \in {"thread", "bind", "send", "stamp"} : Goes(d, s)
      BY <1>1, <1>7, BeginRunDoes, CreateRunThreadDoes, BindThreadDoes, SendPromptDoes,
         StampAutomationDoes, DispatchFailsDoes DEF DispatchRun
    <2>3. /\ DOMAIN runs' = DOMAIN runs
          /\ \A i \in DOMAIN runs : runs'[i].slot = runs[i].slot
      <3>1. CASE BeginRun(d) \/ DispatchFails(d)
        BY <1>1, <3>1, BeginRunDoes, DispatchFailsDoes DEF Writes
      <3>2. CASE BindThread(d)
        BY <1>1, <3>2, BindThreadDoes
      <3>3. CASE CreateRunThread(d) \/ SendPrompt(d) \/ StampAutomation(d)
        BY <3>3 DEF CreateRunThread, SendPrompt, StampAutomation
      <3> QED BY <1>7, <3>1, <3>2, <3>3 DEF DispatchRun
    <2>4. \A e \in Dispatchers : \/ jobs'[e] = jobs[e]
                                 \/ /\ jobs'[e].now \in {0, clock, jobs[e].now}
                                    /\ jobs'[e].step # "claim"
      BY <2>2 DEF Leaves, Goes
    <2> QED BY <1>1, <2>1, <2>3, <2>4, SlotsStay
  <1>8. CASE RunThreads \/ RecoverThreads
    <2>1. UNCHANGED <<clock, schedule, skipped, runs, jobs>>
      BY <1>8 DEF RunThreads, ThreadActivity, TurnEnds, LateMetadata, RecoverThreads
    <2> QED BY <1>1, <2>1, SlotsStay
  <1>9. CASE HandleUpdate
    <2>1. UNCHANGED <<clock, schedule, skipped, jobs>>
      BY <1>9 DEF HandleUpdate
    <2>2. /\ DOMAIN runs' = DOMAIN runs
          /\ \A i \in DOMAIN runs : runs'[i].slot = runs[i].slot
      BY <1>1, <1>9, HandleUpdateDoes DEF Writes
    <2> QED BY <1>1, <2>1, <2>2, SlotsStay
  <1>10. CASE RuntimeRestarts
    <2>1. /\ UNCHANGED <<clock, schedule, skipped, runs>>
          /\ \A d \in Dispatchers : jobs'[d].step # "claim" /\ jobs'[d].now = 0
      BY <1>1, <1>10, RestartDoes
    <2> QED BY <1>1, <2>1, SlotsStay
  <1>11. CASE RecoverRun
    <2>1. /\ UNCHANGED <<clock, schedule, skipped, runs>>
          /\ UNCHANGED jobs \/ \E i : Takes("startup", i)
      BY <1>1, <1>11, RecoverRunDoes
    <2>2. \A d \in Dispatchers : \/ jobs'[d] = jobs[d]
                                 \/ /\ jobs'[d].now \in {0, clock, jobs[d].now}
                                    /\ jobs'[d].step # "claim"
      BY <2>1 DEF Takes
    <2> QED BY <1>1, <2>1, <2>2, SlotsStay
  <1> QED BY <1>1, <1>2, <1>3, <1>4, <1>5, <1>6, <1>7, <1>8, <1>9, <1>10, <1>11, ClaimKeepsSlots
          DEF AutoNext, AutoStartup, Dispatchers

\* The start, of an automation that is new and of the instances.
LEMMA BaseInvInit == AutoInit \/ MCAutoInit => BaseInv
  <1> SUFFICES ASSUME AutoInit \/ MCAutoInit PROVE BaseInv
    OBVIOUS
  <1>1. /\ clock \in Nat /\ schedule = [enabled |-> TRUE, next |-> clock + 1]
        /\ skipped = 1..clock /\ runs = << >> /\ threads = << >> /\ bindings = {}
        /\ updates = << >> /\ boot = [phase |-> "up", todo |-> << >>]
    <2>1. CASE AutoInit
      BY <2>1 DEF AutoInit
    <2>2. CASE MCAutoInit
      BY <2>2 DEF MCAutoInit
    <2> QED BY <2>1, <2>2
  <1>2. \E never : jobs = NeverCalls(never)
    <2>1. CASE AutoInit
      <3>1. jobs = NeverCalls({})
        BY <2>1 DEF AutoInit, NeverCalls
      <3> QED BY <3>1
    <2>2. CASE MCAutoInit
      BY <2>2 DEF MCAutoInit, Scheduled, ByHand, Interrupted
    <2> QED BY <2>1, <2>2
  <1>3. /\ jobs \in [Dispatchers -> JobRecord]
        /\ \A d \in Dispatchers : jobs[d].step \in {"idle", "done"} /\ jobs[d].now = 0
    <2>1. NoJob \in JobRecord /\ [NoJob EXCEPT !.step = "done"] \in JobRecord
      BY DEF NoJob, JobRecord
    <2>2. \A d \in Dispatchers : jobs[d] \in {NoJob, [NoJob EXCEPT !.step = "done"]}
      BY <1>2 DEF NeverCalls
    <2>3. jobs \in [Dispatchers -> JobRecord]
      BY <1>2, <2>1 DEF NeverCalls
    <2> QED BY <2>2, <2>3 DEF NoJob
  <1>4. AutoTypes
    <2>1. /\ schedule \in [enabled : BOOLEAN, next : Nat]
          /\ boot \in [phase : {"up", "threads", "runs"}, todo : Seq(BindingRecord)]
      BY <1>1
    <2> QED BY <1>1, <1>3, <2>1, FS_EmptySet DEF AutoTypes
  <1>5. NamesInv
    BY <1>1, <1>3 DEF NamesInv, Dispatching, BeforePrompt, BeforeThread
  <1>6. SlotInv
    BY <1>1, <1>3 DEF SlotInv
  <1> QED BY <1>4, <1>5, <1>6 DEF BaseInv

\* The first part of the invariant is inductive.
LEMMA BaseInvStep == BaseInv /\ [AutoNext]_autoVars => BaseInv'
  <1> SUFFICES ASSUME BaseInv, [AutoNext]_autoVars PROVE BaseInv'
    OBVIOUS
  <1>1. CASE AutoNext
    BY <1>1, TypesKept, NamesKept, SlotsKept DEF BaseInv
  <1>2. CASE UNCHANGED autoVars
    BY <1>2 DEF autoVars, BaseInv, AutoTypes, NamesInv, SlotInv
  <1> QED BY <1>1, <1>2

\* A slot that is left behind is in the table, and no slot is in it twice.
LEMMA SlotInvImplies == BaseInv => SlotsRecordedOnce
  <1> SUFFICES ASSUME BaseInv, NEW s \in 1..MaxSlots
               PROVE  Cardinality({i \in DOMAIN runs : runs[i].slot = s}) =
                         IF s < schedule.next /\ s \notin skipped THEN 1 ELSE 0
    BY DEF SlotsRecordedOnce
  <1> DEFINE S == {i \in DOMAIN runs : runs[i].slot = s}
  <1>1. AutoTypes /\ SlotInv /\ s \in Nat /\ s # 0 /\ schedule.next \in Nat
    BY Numbers, AutomationAssumption DEF BaseInv
  <1>2. IsFiniteSet(S)
    <2>1. DOMAIN runs = 1..Len(runs) /\ Len(runs) \in Nat
      BY <1>1 DEF AutoTypes
    <2>2. IsFiniteSet(DOMAIN runs)
      BY <2>1, FS_Interval
    <2> QED BY <2>2, FS_Subset
  <1>3. \A i, j \in S : i = j
    BY <1>1 DEF SlotInv
  <1>4. CASE s < schedule.next /\ s \notin skipped
    <2>1. s \in 1..(schedule.next - 1)
      BY <1>1, <1>4
    <2>2. S # {}
      BY <1>1, <1>4, <2>1 DEF SlotInv
    <2> HIDE DEF S
    <2>3. Cardinality(S) = 1
      BY <1>2, <1>3, <2>2, NoTwoElements
    <2> QED BY <1>4, <2>3 DEF S
  <1>5. CASE ~(s < schedule.next /\ s \notin skipped)
    <2>1. S = {}
      BY <1>1, <1>5 DEF SlotInv
    <2> QED BY <1>5, <2>1, FS_EmptySet
  <1> QED BY <1>4, <1>5

(***************************************************************************)
(* Runs and their threads.                                                 *)
(***************************************************************************)

\* What holds beside types, names and slots.
CareInv == DispatchInv /\ EventInv /\ OneEngaged /\ StartupInv

\* At most one run is engaged after a step that engages none.
LEMMA NoneEngaged ==
  ASSUME OneEngaged, \A i \in DOMAIN runs' : Engaged(i)' => i \in DOMAIN runs /\ Engaged(i)
  PROVE  OneEngaged'
  BY DEF OneEngaged

\* A step of calls that do not dispatch, or have sent the prompt, and go on to no
\* dispatch.
LEMMA OtherCallsKeepCare ==
  ASSUME AutoInv, UNCHANGED <<runs, threads, bindings, updates, boot>>,
         \A e \in Dispatchers :
            \/ jobs'[e] = jobs[e]
            \/ /\ jobs[e].step \notin BeforePrompt /\ jobs'[e].step \notin Dispatching
               /\ jobs'[e].step \in {"claim", "create"} => boot.phase = "up"
  PROVE  CareInv'
  <1>1. DispatchInv /\ EventInv /\ OneEngaged /\ StartupInv
    BY DEF AutoInv
  <1>2. /\ \A e \in Dispatchers : jobs'[e].step \in BeforePrompt => jobs'[e] = jobs[e]
        /\ \A e \in Dispatchers : jobs'[e].step \in Dispatching => jobs'[e] = jobs[e]
        /\ \A e \in Dispatchers : jobs'[e].step = "send" => jobs'[e] = jobs[e]
    BY DEF Dispatching, BeforePrompt
  <1>3. \A t : Spoke(t)' <=> Spoke(t)
    BY DEF Spoke
  <1>4. DispatchInv'
    BY <1>1, <1>2, <1>3 DEF DispatchInv
  <1>5. EventInv'
    BY <1>1, <1>3 DEF EventInv
  <1>6. OneEngaged'
    BY <1>1, <1>2, NoneEngaged DEF Engaged
  <1>7. StartupInv'
    <2>1. \A e \in Dispatchers :
             /\ jobs'[e].step \in {"claim", "create"} => boot.phase = "up"
             /\ jobs'[e].step \in Dispatching =>
                   boot.phase = "up" \/ (boot.phase = "runs" /\ e = "startup")
      BY <1>1, <1>2 DEF StartupInv
    <2> QED BY <1>1, <1>2, <2>1 DEF StartupInv
  <1> QED BY <1>4, <1>5, <1>6, <1>7 DEF CareInv

\* Rows are added, of runs that are missed and of one at most that call d begins to
\* dispatch, by hand or while no other run is active.
LEMMA NewRowsKeepCare ==
  ASSUME AutoInv, NEW d \in Dispatchers, jobs[d].step \in {"claim", "create"},
         UNCHANGED <<threads, bindings, updates, boot>>, Adds,
         \A i \in DOMAIN runs' : i \notin DOMAIN runs => runs'[i].thread = 0,
         \/ /\ Leaves(d)
            /\ \A i \in DOMAIN runs' : i \notin DOMAIN runs => runs'[i].status = "missed"
         \/ \E n \in DOMAIN runs' :
               /\ Takes(d, n) /\ n \notin DOMAIN runs /\ runs'[n].status = "queued"
               /\ \A i \in DOMAIN runs' : i \notin DOMAIN runs =>
                     i = n \/ runs'[i].status = "missed"
               /\ runs'[n].kind = "manual" \/ ActiveRuns = {}
  PROVE  CareInv'
  <1>1. NamesInv /\ DispatchInv /\ EventInv /\ OneEngaged /\ StartupInv
    BY DEF AutoInv, BaseInv
  <1>2. \A t : Spoke(t)' <=> Spoke(t)
    BY DEF Spoke
  <1>3. \A e \in Dispatchers : e # d => jobs'[e] = jobs[e]
    BY DEF Leaves, Takes
  <1>4. /\ \A e \in Dispatchers : jobs[e].step \in Dispatching => jobs[e].run \in DOMAIN runs
        /\ \A e \in Dispatchers : jobs[e].step \in BeforePrompt => jobs[e].run \in DOMAIN runs
        /\ \A t \in DOMAIN threads : threads[t].run \in DOMAIN runs
        /\ \A b \in bindings : b.run \in DOMAIN runs
    BY <1>1 DEF NamesInv, Dispatching
  <1>5. ASSUME NEW e \in Dispatchers, jobs'[e].step \in BeforePrompt
        PROVE  LET i == jobs'[e].run IN
               /\ runs'[i].status \in ActiveStatus
               /\ runs'[i].thread = 0 <=> jobs'[e].step # "send"
               /\ \A t \in DOMAIN threads : threads[t].run = i => ~Spoke(t)
               /\ \A f \in Dispatchers :
                     jobs'[f].step \in BeforePrompt /\ jobs'[f].run = i => f = e
    <2>1. CASE e # d
      <3>1. jobs'[e] = jobs[e] /\ jobs[e].run \in DOMAIN runs /\ jobs[e].step \in BeforePrompt
        BY <1>3, <1>4, <1>5, <2>1
      <3>2. runs'[jobs[e].run] = runs[jobs[e].run]
        BY <3>1 DEF Adds
      <3>3. ASSUME NEW f \in Dispatchers,
                   jobs'[f].step \in BeforePrompt, jobs'[f].run = jobs[e].run
            PROVE  f = e
        <4>1. CASE f = d
          BY <2>1, <3>1, <3>3, <4>1 DEF Leaves, Takes, BeforePrompt, BeforeThread
        <4>2. CASE f # d
          BY <1>1, <1>3, <3>1, <3>3, <4>2 DEF DispatchInv
        <4> QED BY <4>1, <4>2
      <3> QED BY <1>1, <3>1, <3>2, <3>3 DEF DispatchInv
    <2>2. CASE e = d
      <3>1. PICK n \in DOMAIN runs' :
               Takes(d, n) /\ n \notin DOMAIN runs /\ runs'[n].status = "queued"
        BY <1>5, <2>2 DEF Leaves, BeforePrompt, BeforeThread
      <3>2. jobs'[d].step = "begin" /\ jobs'[d].run = n
        BY <3>1 DEF Takes
      <3>3. \A t \in DOMAIN threads : threads[t].run # n
        BY <1>4, <3>1
      <3>4. \A f \in Dispatchers :
               jobs'[f].step \in BeforePrompt /\ jobs'[f].run = n => f = d
        BY <1>3, <1>4, <3>1
      <3>5. runs'[n].status \in ActiveStatus /\ runs'[n].thread = 0
        BY <3>1 DEF ActiveStatus
      <3> QED BY <2>2, <3>2, <3>3, <3>4, <3>5
    <2> QED BY <2>1, <2>2
  <1>6. \A t \in DOMAIN threads : runs'[threads[t].run] = runs[threads[t].run]
    BY <1>4 DEF Adds
  <1>7. DispatchInv'
    BY <1>1, <1>2, <1>5, <1>6 DEF DispatchInv
  <1>8. EventInv'
    <2>1. \A b \in bindings : runs'[b.run].status \in ActiveStatus
      BY <1>1, <1>4 DEF EventInv, Adds
    <2>2. \A t \in DOMAIN threads :
             threads[t].state = "working" => runs'[threads[t].run].status \in ActiveStatus
      BY <1>1, <1>6 DEF EventInv
    <2> QED BY <1>1, <1>2, <2>1, <2>2 DEF EventInv
  <1>9. OneEngaged'
    <2>1. ASSUME NEW i \in DOMAIN runs, Engaged(i)' PROVE Engaged(i)
      <3>1. runs'[i] = runs[i]
        BY DEF Adds
      <3>2. \A e \in Dispatchers : jobs'[e].step = "send" => jobs'[e] = jobs[e]
        BY <1>3 DEF Leaves, Takes
      <3> QED BY <2>1, <3>1, <3>2 DEF Engaged
    <2>2. ASSUME NEW i \in DOMAIN runs', i \notin DOMAIN runs, Engaged(i)'
          PROVE  /\ ActiveRuns = {}
                 /\ \A j \in DOMAIN runs' : j \notin DOMAIN runs /\ Engaged(j)' => j = i
      <3>1. runs'[i].status # "missed" /\ runs'[i].kind # "manual"
        BY <2>2 DEF Engaged, ActiveStatus
      <3>2. PICK n \in DOMAIN runs' :
               /\ \A j \in DOMAIN runs' : j \notin DOMAIN runs =>
                     j = n \/ runs'[j].status = "missed"
               /\ runs'[n].kind = "manual" \/ ActiveRuns = {}
        BY <2>2, <3>1
      <3>3. i = n /\ ActiveRuns = {}
        BY <2>2, <3>1, <3>2
      <3>4. \A j \in DOMAIN runs' : Engaged(j)' => runs'[j].status # "missed"
        BY DEF Engaged, ActiveStatus
      <3> QED BY <3>2, <3>3, <3>4
    <2>3. \A i \in DOMAIN runs : Engaged(i) => i \in ActiveRuns
      BY DEF Engaged, ActiveRuns
    <2> QED BY <1>1, <2>1, <2>2, <2>3 DEF OneEngaged
  <1>10. StartupInv'
    <2>1. boot.phase = "up" /\ boot.todo = << >>
      BY <1>1 DEF StartupInv
    <2> QED BY <2>1 DEF StartupInv
  <1> QED BY <1>7, <1>8, <1>9, <1>10 DEF CareInv

\* What the invariant says of a call that has not sent its prompt.
LEMMA WhoDispatches ==
  ASSUME AutoInv, NEW d \in Dispatchers, jobs[d].step \in BeforePrompt
  PROVE  LET i == jobs[d].run IN
         /\ i \in DOMAIN runs /\ runs[i].status \in ActiveStatus
         /\ runs[i].thread = 0 <=> jobs[d].step # "send"
         /\ \A t \in DOMAIN threads : threads[t].run = i => ~Spoke(t)
         /\ \A e \in Dispatchers : jobs[e].step \in BeforePrompt /\ jobs[e].run = i => e = d
         /\ \A n \in DOMAIN updates : updates[n].run # i
         /\ \A n \in DOMAIN boot.todo : boot.todo[n].run # i
  <1>1. jobs[d].step \in Dispatching
    BY DEF Dispatching
  <1> QED BY <1>1 DEF AutoInv, BaseInv, NamesInv, DispatchInv, EventInv, StartupInv

\* Runs and threads: the dispatch begins.
LEMMA BeginRunKeepsCare ==
  ASSUME AutoInv, NEW d \in Dispatchers, BeginRun(d)
  PROVE  CareInv'
  <1> DEFINE i == jobs[d].run
  <1>1. /\ AutoTypes /\ NamesInv /\ DispatchInv /\ EventInv /\ OneEngaged /\ StartupInv
    BY DEF AutoInv, BaseInv
  <1>2. /\ Writes(i, "dispatching") /\ Goes(d, "thread")
        /\ UNCHANGED <<threads, bindings, updates, boot>> /\ jobs[d].step = "begin"
    BY <1>1, BeginRunDoes DEF BeginRun
  <1>3. jobs[d].step \in BeforePrompt /\ jobs[d].step \in Dispatching
    BY <1>2 DEF Dispatching, BeforePrompt, BeforeThread
  <1>4. /\ i \in DOMAIN runs /\ runs[i].status \in ActiveStatus /\ runs[i].thread = 0
        /\ \A n \in DOMAIN boot.todo : boot.todo[n].run # i
    BY <1>2, <1>3, WhoDispatches
  <1> HIDE DEF i
  <1>5. /\ DOMAIN runs' = DOMAIN runs
        /\ \A j \in DOMAIN runs :
              /\ runs'[j].thread = runs[j].thread /\ runs'[j].kind = runs[j].kind
              /\ runs'[j].status \in ActiveStatus <=> runs[j].status \in ActiveStatus
              /\ j # i => runs'[j].status = runs[j].status
    BY <1>2, <1>4 DEF Writes, ActiveStatus
  <1>6. /\ \A e \in Dispatchers : jobs'[e].run = jobs[e].run
        /\ \A e \in Dispatchers : jobs'[e].step \in BeforePrompt <=> jobs[e].step \in BeforePrompt
        /\ \A e \in Dispatchers : jobs'[e].step \in Dispatching <=> jobs[e].step \in Dispatching
        /\ \A e \in Dispatchers : jobs'[e].step = "send" <=> jobs[e].step = "send"
        /\ \A e \in Dispatchers : jobs'[e].step \in {"claim", "create"} =>
              jobs[e].step \in {"claim", "create"}
    BY <1>2, <1>3 DEF Goes, Dispatching, BeforePrompt, BeforeThread
  <1>7. \A t : Spoke(t)' <=> Spoke(t)
    BY <1>2 DEF Spoke
  <1>8. /\ \A e \in Dispatchers : jobs[e].step \in BeforePrompt => jobs[e].run \in DOMAIN runs
        /\ \A t \in DOMAIN threads : threads[t].run \in DOMAIN runs
        /\ \A b \in bindings : b.run \in DOMAIN runs
        /\ \A n \in DOMAIN boot.todo : boot.todo[n].run \in DOMAIN runs
    BY <1>1 DEF NamesInv, Dispatching
  <1>9. DispatchInv'
    BY <1>1, <1>2, <1>5, <1>6, <1>7, <1>8 DEF DispatchInv
  <1>10. EventInv'
    BY <1>1, <1>2, <1>5, <1>7, <1>8 DEF EventInv
  <1>11. OneEngaged'
    <2>1. \A j \in DOMAIN runs' : Engaged(j)' => j \in DOMAIN runs /\ Engaged(j)
      BY <1>2, <1>5, <1>6 DEF Engaged
    <2> QED BY <1>1, <2>1, NoneEngaged
  <1>12. StartupInv'
    BY <1>1, <1>2, <1>5, <1>6, <1>8 DEF StartupInv
  <1> QED BY <1>9, <1>10, <1>11, <1>12 DEF CareInv

\* Runs and threads: the thread that is created has not spoken.
LEMMA CreateRunThreadKeepsCare ==
  ASSUME AutoInv, NEW d \in Dispatchers, CreateRunThread(d)
  PROVE  CareInv'
  <1> DEFINE i == jobs[d].run
  <1>1. /\ AutoTypes /\ NamesInv /\ DispatchInv /\ EventInv /\ OneEngaged /\ StartupInv
    BY DEF AutoInv, BaseInv
  <1>2. PICK n :
        /\ n # 0 /\ n \notin DOMAIN threads /\ DOMAIN threads' = DOMAIN threads \cup {n}
        /\ \A t \in DOMAIN threads : threads'[t] = threads[t]
        /\ threads'[n].run = i /\ threads'[n].state = "new"
        /\ bindings' = Unbound(i) \cup {[run |-> i, thread |-> n]}
        /\ Goes(d, "bind")
        /\ UNCHANGED <<runs, updates, boot>> /\ jobs[d].step = "thread"
    BY <1>1, CreateRunThreadDoes DEF CreateRunThread
  <1>3. jobs[d].step \in BeforePrompt /\ jobs[d].step \in Dispatching
    BY <1>2 DEF Dispatching, BeforePrompt, BeforeThread
  <1>4. /\ i \in DOMAIN runs /\ runs[i].status \in ActiveStatus
        /\ \A m \in DOMAIN boot.todo : boot.todo[m].run # i
    BY <1>3, WhoDispatches
  <1>5. Unbound(i) \subseteq bindings
    BY <1>1, UnboundHolds
  <1> HIDE DEF i
  <1>6. /\ \A e \in Dispatchers : jobs'[e].run = jobs[e].run
        /\ \A e \in Dispatchers : jobs'[e].step \in BeforePrompt <=> jobs[e].step \in BeforePrompt
        /\ \A e \in Dispatchers : jobs'[e].step \in Dispatching <=> jobs[e].step \in Dispatching
        /\ \A e \in Dispatchers : jobs'[e].step = "send" <=> jobs[e].step = "send"
        /\ \A e \in Dispatchers : jobs'[e].step \in {"claim", "create"} =>
              jobs[e].step \in {"claim", "create"}
    BY <1>2, <1>3 DEF Goes, Dispatching, BeforePrompt, BeforeThread
  <1>7. (\A t \in DOMAIN threads : Spoke(t)' <=> Spoke(t)) /\ ~Spoke(n)'
    <2>1. ASSUME NEW t \in DOMAIN threads PROVE Spoke(t)' <=> Spoke(t)
      BY <1>2 DEF Spoke
    <2>2. ~Spoke(n)'
      <3>1. threads'[n].state = "new"
        BY <1>2
      <3> QED BY <3>1 DEF Spoke
    <2> QED BY <2>1, <2>2
  <1>8. DispatchInv'
    <2>1. ASSUME NEW e \in Dispatchers, jobs'[e].step \in BeforePrompt
          PROVE  LET j == jobs'[e].run IN
                 /\ runs'[j].status \in ActiveStatus
                 /\ runs'[j].thread = 0 <=> jobs'[e].step # "send"
                 /\ \A u \in DOMAIN threads' : threads'[u].run = j => ~Spoke(u)'
                 /\ \A f \in Dispatchers :
                       jobs'[f].step \in BeforePrompt /\ jobs'[f].run = j => f = e
      <3>1. jobs[e].step \in BeforePrompt /\ jobs'[e].run = jobs[e].run
        BY <1>6, <2>1
      <3>2. /\ runs[jobs[e].run].status \in ActiveStatus
            /\ runs[jobs[e].run].thread = 0 <=> jobs[e].step # "send"
            /\ \A u \in DOMAIN threads : threads[u].run = jobs[e].run => ~Spoke(u)
            /\ \A f \in Dispatchers :
                  jobs[f].step \in BeforePrompt /\ jobs[f].run = jobs[e].run => f = e
        BY <1>1, <3>1 DEF DispatchInv
      <3>3. ASSUME NEW u \in DOMAIN threads', threads'[u].run = jobs[e].run PROVE ~Spoke(u)'
        <4>1. CASE u = n
          BY <1>7, <4>1
        <4>2. CASE u # n
          <5>1. u \in DOMAIN threads /\ threads[u].run = jobs[e].run
            BY <1>2, <3>3, <4>2
          <5> QED BY <1>7, <3>2, <5>1
        <4> QED BY <4>1, <4>2
      <3>4. \A f \in Dispatchers :
               jobs'[f].step \in BeforePrompt /\ jobs'[f].run = jobs[e].run => f = e
        BY <1>6, <3>2
      <3> QED BY <1>2, <1>6, <3>1, <3>2, <3>3, <3>4
    <2>2. \A u \in DOMAIN threads' : Spoke(u)' => u \in DOMAIN threads /\ Spoke(u)
      BY <1>2, <1>7
    <2>3. \A u \in DOMAIN threads' : Spoke(u)' => runs'[threads'[u].run].thread # 0
      BY <1>1, <1>2, <2>2 DEF DispatchInv
    <2>4. \A u, v \in DOMAIN threads' :
             Spoke(u)' /\ Spoke(v)' /\ threads'[u].run = threads'[v].run => u = v
      BY <1>1, <1>2, <2>2 DEF DispatchInv
    <2> QED BY <2>1, <2>3, <2>4 DEF DispatchInv
  <1>9. EventInv'
    <2>1. \A b \in bindings' : runs'[b.run].status \in ActiveStatus
      BY <1>1, <1>2, <1>4, <1>5 DEF EventInv
    <2>2. \A t \in DOMAIN threads' :
             threads'[t].state = "working" => runs'[threads'[t].run].status \in ActiveStatus
      BY <1>1, <1>2 DEF EventInv
    <2>3. \A m \in DOMAIN updates' : \E t \in DOMAIN threads' :
             /\ threads'[t].run = updates'[m].run /\ Spoke(t)'
             /\ updates'[m].status \in SettledStatus => threads'[t].state # "working"
      BY <1>1, <1>2, <1>7 DEF EventInv
    <2> QED BY <2>1, <2>2, <2>3 DEF EventInv
  <1>10. OneEngaged'
    <2>1. \A j \in DOMAIN runs' : Engaged(j)' => j \in DOMAIN runs /\ Engaged(j)
      BY <1>2, <1>6 DEF Engaged
    <2> QED BY <1>1, <2>1, NoneEngaged
  <1>11. StartupInv'
    <2>1. \A b \in bindings' : b \in bindings \/ b.run = i
      BY <1>2, <1>5
    <2>2. boot.phase # "threads"
      BY <1>1, <1>3 DEF StartupInv
    <2> QED BY <1>1, <1>2, <1>4, <1>6, <2>1, <2>2 DEF StartupInv
  <1> QED BY <1>8, <1>9, <1>10, <1>11 DEF CareInv

\* Runs and threads: the thread becomes the one of its run.
LEMMA BindThreadKeepsCare ==
  ASSUME AutoInv, NEW d \in Dispatchers, BindThread(d)
  PROVE  CareInv'
  <1> DEFINE i == jobs[d].run
             t == JobThread(d)
  <1>1. /\ AutoTypes /\ NamesInv /\ DispatchInv /\ EventInv /\ OneEngaged /\ StartupInv
    BY DEF AutoInv, BaseInv
  <1>2. /\ t \in DOMAIN threads /\ threads[t].run = i /\ i \in DOMAIN runs
        /\ DOMAIN runs' = DOMAIN runs
        /\ \A j \in DOMAIN runs \ {i} : runs'[j] = runs[j]
        /\ runs'[i].kind = runs[i].kind
        /\ runs'[i].thread = t /\ runs'[i].status = "running"
        /\ Goes(d, "send")
        /\ UNCHANGED <<threads, bindings, updates, boot>> /\ jobs[d].step = "bind"
    BY <1>1, BindThreadDoes DEF BindThread
  <1>3. jobs[d].step \in BeforePrompt /\ jobs[d].step \in Dispatching
    BY <1>2 DEF Dispatching, BeforePrompt, BeforeThread
  <1>4. /\ runs[i].status \in ActiveStatus /\ runs[i].thread = 0
        /\ \A e \in Dispatchers : jobs[e].step \in BeforePrompt /\ jobs[e].run = i => e = d
        /\ \A n \in DOMAIN boot.todo : boot.todo[n].run # i
    BY <1>2, <1>3, WhoDispatches
  <1>5. t # 0
    BY <1>1, <1>2 DEF AutoTypes
  <1> HIDE DEF i, t
  <1>6. /\ \A e \in Dispatchers : jobs'[e].run = jobs[e].run
        /\ \A e \in Dispatchers : jobs'[e].step \in BeforePrompt <=> jobs[e].step \in BeforePrompt
        /\ \A e \in Dispatchers : jobs'[e].step \in Dispatching <=> jobs[e].step \in Dispatching
        /\ \A e \in Dispatchers \ {d} : jobs'[e] = jobs[e]
        /\ jobs'[d].step = "send" /\ jobs[d].run = i
        /\ \A e \in Dispatchers : jobs'[e].step \in {"claim", "create"} =>
              jobs[e].step \in {"claim", "create"}
    BY <1>2, <1>3 DEF Goes, Dispatching, BeforePrompt, BeforeThread, i
  <1>7. \A u : Spoke(u)' <=> Spoke(u)
    BY <1>2 DEF Spoke
  <1>8. /\ \A e \in Dispatchers : jobs[e].step \in BeforePrompt => jobs[e].run \in DOMAIN runs
        /\ \A u \in DOMAIN threads : threads[u].run \in DOMAIN runs
        /\ \A b \in bindings : b.run \in DOMAIN runs
        /\ \A n \in DOMAIN boot.todo : boot.todo[n].run \in DOMAIN runs
    BY <1>1 DEF NamesInv, Dispatching
  <1>9. \A j \in DOMAIN runs :
           runs'[j].status \in ActiveStatus <=> runs[j].status \in ActiveStatus
    BY <1>2, <1>4 DEF ActiveStatus
  <1>10. DispatchInv'
    <2>1. ASSUME NEW e \in Dispatchers, jobs'[e].step \in BeforePrompt
          PROVE  LET j == jobs'[e].run IN
                 /\ runs'[j].status \in ActiveStatus
                 /\ runs'[j].thread = 0 <=> jobs'[e].step # "send"
                 /\ \A u \in DOMAIN threads : threads[u].run = j => ~Spoke(u)
                 /\ \A f \in Dispatchers :
                       jobs'[f].step \in BeforePrompt /\ jobs'[f].run = j => f = e
      <3>1. jobs[e].step \in BeforePrompt /\ jobs'[e].run = jobs[e].run
        BY <1>6, <2>1
      <3>2. runs'[jobs[e].run].thread = 0 <=> jobs'[e].step # "send"
        <4>1. CASE e = d
          BY <1>2, <1>5, <1>6, <4>1
        <4>2. CASE e # d
          <5>1. jobs[e].run # i /\ jobs[e].run \in DOMAIN runs /\ jobs'[e] = jobs[e]
            BY <1>4, <1>6, <1>8, <3>1, <4>2
          <5>2. runs'[jobs[e].run] = runs[jobs[e].run]
            BY <1>2, <5>1
          <5> QED BY <1>1, <3>1, <5>1, <5>2 DEF DispatchInv
        <4> QED BY <4>1, <4>2
      <3> QED BY <1>1, <1>6, <1>8, <1>9, <3>1, <3>2 DEF DispatchInv
    <2>2. \A u \in DOMAIN threads : Spoke(u) => runs'[threads[u].run].thread # 0
      BY <1>1, <1>2, <1>5, <1>8 DEF DispatchInv
    <2> QED BY <1>1, <1>2, <1>7, <2>1, <2>2 DEF DispatchInv
  <1>11. EventInv'
    BY <1>1, <1>2, <1>7, <1>8, <1>9 DEF EventInv
  <1>12. OneEngaged'
    <2>1. ASSUME NEW j \in DOMAIN runs', Engaged(j)' PROVE j \in DOMAIN runs /\ Engaged(j)
      <3>1. j \in DOMAIN runs /\ runs[j].status \in ActiveStatus /\ runs'[j].kind = runs[j].kind
        BY <1>2, <1>9, <2>1 DEF Engaged
      <3>2. CASE j = i
        BY <1>4, <2>1, <3>1, <3>2 DEF Engaged
      <3>3. CASE j # i
        <4>1. /\ runs'[j] = runs[j]
              /\ \A e \in Dispatchers : jobs'[e].step = "send" /\ jobs'[e].run = j =>
                    jobs[e].step = "send" /\ jobs[e].run = j
          BY <1>2, <1>6, <3>1, <3>3
        <4> QED BY <1>2, <2>1, <3>1, <4>1 DEF Engaged
      <3> QED BY <3>2, <3>3
    <2> QED BY <1>1, <2>1, NoneEngaged
  <1>13. StartupInv'
    <2>1. \A n \in DOMAIN boot.todo : runs'[boot.todo[n].run] = runs[boot.todo[n].run]
      BY <1>2, <1>4, <1>8
    <2> QED BY <1>1, <1>2, <1>6, <2>1 DEF StartupInv
  <1> QED BY <1>10, <1>11, <1>12, <1>13 DEF CareInv

\* Runs and threads: no thread of the run has spoken before the prompt is sent.
LEMMA SendPromptKeepsCare ==
  ASSUME AutoInv, NEW d \in Dispatchers, SendPrompt(d)
  PROVE  CareInv'
  <1> DEFINE i == jobs[d].run
             t == JobThread(d)
  <1>1. /\ AutoTypes /\ NamesInv /\ DispatchInv /\ EventInv /\ OneEngaged /\ StartupInv
    BY DEF AutoInv, BaseInv
  <1>2. /\ t \in DOMAIN threads /\ threads[t].run = i
        /\ Turns(t, "working") /\ Goes(d, "stamp")
        /\ UNCHANGED <<runs, bindings, updates, boot>> /\ jobs[d].step = "send"
    BY <1>1, SendPromptDoes DEF SendPrompt
  <1>3. jobs[d].step \in BeforePrompt /\ jobs[d].step \in Dispatching
    BY <1>2 DEF Dispatching, BeforePrompt, BeforeThread
  <1>4. /\ i \in DOMAIN runs /\ runs[i].status \in ActiveStatus /\ runs[i].thread # 0
        /\ \A u \in DOMAIN threads : threads[u].run = i => ~Spoke(u)
        /\ \A e \in Dispatchers : jobs[e].step \in BeforePrompt /\ jobs[e].run = i => e = d
    BY <1>2, <1>3, WhoDispatches
  <1> HIDE DEF i, t
  <1>5. /\ \A e \in Dispatchers : jobs'[e].run = jobs[e].run
        /\ \A e \in Dispatchers : jobs'[e].step \in BeforePrompt => jobs'[e] = jobs[e] /\ e # d
        /\ \A e \in Dispatchers : jobs'[e].step \in Dispatching => jobs[e].step \in Dispatching
        /\ \A e \in Dispatchers : jobs'[e].step = "send" => jobs'[e] = jobs[e]
        /\ jobs[d].step = "send" /\ jobs[d].run = i
        /\ \A e \in Dispatchers : jobs'[e].step \in {"claim", "create"} => jobs'[e] = jobs[e]
    BY <1>2, <1>3 DEF Goes, Dispatching, BeforePrompt, BeforeThread, i
  <1>6. /\ DOMAIN threads' = DOMAIN threads
        /\ \A u \in DOMAIN threads : threads'[u].run = threads[u].run
        /\ \A u \in DOMAIN threads \ {t} : threads'[u].state = threads[u].state
        /\ threads'[t].state = "working"
    BY <1>2 DEF Turns
  <1>7. /\ \A u \in DOMAIN threads \ {t} : Spoke(u)' <=> Spoke(u)
        /\ ~Spoke(t)
    BY <1>2, <1>4, <1>6 DEF Spoke
  <1>8. DispatchInv'
    <2>1. ASSUME NEW e \in Dispatchers, jobs'[e].step \in BeforePrompt
          PROVE  LET j == jobs'[e].run IN
                 /\ runs'[j].status \in ActiveStatus
                 /\ runs'[j].thread = 0 <=> jobs'[e].step # "send"
                 /\ \A u \in DOMAIN threads' : threads'[u].run = j => ~Spoke(u)'
                 /\ \A f \in Dispatchers :
                       jobs'[f].step \in BeforePrompt /\ jobs'[f].run = j => f = e
      <3>1. jobs'[e] = jobs[e] /\ jobs[e].step \in BeforePrompt /\ jobs[e].run # i
        BY <1>4, <1>5, <2>1
      <3>2. \A u \in DOMAIN threads' : threads'[u].run = jobs[e].run => ~Spoke(u)'
        BY <1>1, <1>2, <1>6, <1>7, <3>1 DEF DispatchInv
      <3>3. \A f \in Dispatchers :
               jobs'[f].step \in BeforePrompt /\ jobs'[f].run = jobs[e].run => f = e
        BY <1>1, <1>5, <3>1 DEF DispatchInv
      <3> QED BY <1>1, <1>2, <3>1, <3>2, <3>3 DEF DispatchInv
    <2>2. \A u \in DOMAIN threads' : Spoke(u)' => runs'[threads'[u].run].thread # 0
      BY <1>1, <1>2, <1>4, <1>6, <1>7 DEF DispatchInv
    <2>3. \A u, v \in DOMAIN threads' :
             Spoke(u)' /\ Spoke(v)' /\ threads'[u].run = threads'[v].run => u = v
      BY <1>1, <1>2, <1>4, <1>6, <1>7 DEF DispatchInv
    <2> QED BY <2>1, <2>2, <2>3 DEF DispatchInv
  <1>9. EventInv'
    <2>1. \A u \in DOMAIN threads' :
             threads'[u].state = "working" => runs'[threads'[u].run].status \in ActiveStatus
      BY <1>1, <1>2, <1>4, <1>6 DEF EventInv
    <2>2. ASSUME NEW n \in DOMAIN updates'
          PROVE  \E u \in DOMAIN threads' :
                    /\ threads'[u].run = updates'[n].run /\ Spoke(u)'
                    /\ updates'[n].status \in SettledStatus => threads'[u].state # "working"
      <3>1. PICK u \in DOMAIN threads :
               /\ threads[u].run = updates[n].run /\ Spoke(u)
               /\ updates[n].status \in SettledStatus => threads[u].state # "working"
        BY <1>1, <1>2, <2>2 DEF EventInv
      <3>2. u # t
        BY <1>7, <3>1
      <3> QED BY <1>2, <1>6, <1>7, <3>1, <3>2
    <2> QED BY <1>1, <1>2, <2>1, <2>2 DEF EventInv
  <1>10. OneEngaged'
    <2>1. ASSUME NEW j \in DOMAIN runs', Engaged(j)' PROVE j \in DOMAIN runs /\ Engaged(j)
      <3>1. CASE \E u \in DOMAIN threads : threads'[u].run = j /\ threads'[u].state = "working"
        BY <1>2, <1>5, <1>6, <2>1, <3>1 DEF Engaged
      <3>2. CASE ~\E u \in DOMAIN threads : threads'[u].run = j /\ threads'[u].state = "working"
        BY <1>2, <1>5, <1>6, <2>1, <3>2 DEF Engaged
      <3> QED BY <3>1, <3>2
    <2> QED BY <1>1, <2>1, NoneEngaged
  <1>11. StartupInv'
    <2>1. /\ \A e \in Dispatchers :
                /\ jobs'[e].step \in {"claim", "create"} => boot.phase = "up"
                /\ jobs'[e].step \in Dispatching =>
                      boot.phase = "up" \/ (boot.phase = "runs" /\ e = "startup")
      BY <1>1, <1>5 DEF StartupInv
    <2> QED BY <1>1, <1>2, <1>5, <2>1 DEF StartupInv
  <1> QED BY <1>8, <1>9, <1>10, <1>11 DEF CareInv

\* Runs and threads: a dispatch that fails leaves no thread at work.
LEMMA DispatchFailsKeepsCare ==
  ASSUME AutoInv, "stamp" \notin FailingSteps, NEW d \in Dispatchers, DispatchFails(d)
  PROVE  CareInv'
  <1> DEFINE i == jobs[d].run
  <1>1. /\ AutoTypes /\ NamesInv /\ DispatchInv /\ EventInv /\ OneEngaged /\ StartupInv
    BY DEF AutoInv, BaseInv
  <1>2. /\ Writes(i, "failed") /\ Leaves(d) /\ bindings' = Unbound(i)
        /\ UNCHANGED <<threads, updates, boot>>
        /\ jobs[d].step \in Dispatching /\ jobs[d].step # "stamp"
    BY <1>1, DispatchFailsDoes DEF DispatchFails
  <1>3. jobs[d].step \in BeforePrompt
    BY <1>2 DEF Dispatching
  <1>4. /\ i \in DOMAIN runs
        /\ \A u \in DOMAIN threads : threads[u].run = i => ~Spoke(u)
        /\ \A e \in Dispatchers : jobs[e].step \in BeforePrompt /\ jobs[e].run = i => e = d
        /\ \A n \in DOMAIN boot.todo : boot.todo[n].run # i
    BY <1>3, WhoDispatches
  <1>5. bindings' \subseteq bindings /\ \A b \in bindings' : b.run # i
    BY <1>1, <1>2, UnboundHolds
  <1> HIDE DEF i
  <1>6. /\ DOMAIN runs' = DOMAIN runs
        /\ \A j \in DOMAIN runs :
              /\ runs'[j].thread = runs[j].thread /\ runs'[j].kind = runs[j].kind
              /\ j # i => runs'[j].status = runs[j].status
        /\ runs'[i].status \notin ActiveStatus
    BY <1>2, <1>4 DEF Writes, ActiveStatus
  <1>7. \A e \in Dispatchers :
           jobs'[e].step \in Dispatching \cup {"claim", "create"} => jobs'[e] = jobs[e] /\ e # d
    BY <1>2 DEF Leaves, Dispatching, BeforePrompt, BeforeThread
  <1>8. /\ \A e \in Dispatchers : jobs'[e].step \in BeforePrompt => jobs'[e] = jobs[e] /\ e # d
        /\ \A e \in Dispatchers : jobs'[e].step = "send" => jobs'[e] = jobs[e]
    BY <1>7 DEF Dispatching, BeforePrompt
  <1>9. \A u : Spoke(u)' <=> Spoke(u)
    BY <1>2 DEF Spoke
  <1>10. /\ \A e \in Dispatchers : jobs[e].step \in BeforePrompt => jobs[e].run \in DOMAIN runs
         /\ \A u \in DOMAIN threads : threads[u].run \in DOMAIN runs
         /\ \A b \in bindings : b.run \in DOMAIN runs
         /\ \A n \in DOMAIN boot.todo : boot.todo[n].run \in DOMAIN runs
    BY <1>1 DEF NamesInv, Dispatching
  <1>11. DispatchInv'
    <2>1. ASSUME NEW e \in Dispatchers, jobs'[e].step \in BeforePrompt
          PROVE  LET j == jobs'[e].run IN
                 /\ runs'[j].status \in ActiveStatus
                 /\ runs'[j].thread = 0 <=> jobs'[e].step # "send"
                 /\ \A u \in DOMAIN threads : threads[u].run = j => ~Spoke(u)
                 /\ \A f \in Dispatchers :
                       jobs'[f].step \in BeforePrompt /\ jobs'[f].run = j => f = e
      <3>1. /\ jobs'[e] = jobs[e] /\ jobs[e].step \in BeforePrompt
            /\ jobs[e].run # i /\ jobs[e].run \in DOMAIN runs
        BY <1>4, <1>8, <1>10, <2>1
      <3>2. \A f \in Dispatchers :
               jobs'[f].step \in BeforePrompt /\ jobs'[f].run = jobs[e].run => f = e
        BY <1>1, <1>8, <3>1 DEF DispatchInv
      <3> QED BY <1>1, <1>6, <3>1, <3>2 DEF DispatchInv
    <2> QED BY <1>1, <1>2, <1>6, <1>9, <1>10, <2>1 DEF DispatchInv
  <1>12. EventInv'
    <2>1. \A b \in bindings' : runs'[b.run].status \in ActiveStatus
      BY <1>1, <1>5, <1>6, <1>10 DEF EventInv
    <2>2. \A u \in DOMAIN threads :
             threads[u].state = "working" => runs'[threads[u].run].status \in ActiveStatus
      BY <1>1, <1>4, <1>6, <1>10 DEF EventInv, Spoke
    <2> QED BY <1>1, <1>2, <1>9, <2>1, <2>2 DEF EventInv
  <1>13. OneEngaged'
    <2>1. ASSUME NEW j \in DOMAIN runs', Engaged(j)' PROVE j \in DOMAIN runs /\ Engaged(j)
      <3>1. j \in DOMAIN runs /\ j # i
        BY <1>6, <2>1 DEF Engaged
      <3> QED BY <1>2, <1>6, <1>8, <2>1, <3>1 DEF Engaged
    <2> QED BY <1>1, <2>1, NoneEngaged
  <1>14. StartupInv'
    <2>1. /\ \A e \in Dispatchers :
                /\ jobs'[e].step \in {"claim", "create"} => boot.phase = "up"
                /\ jobs'[e].step \in Dispatching =>
                      boot.phase = "up" \/ (boot.phase = "runs" /\ e = "startup")
      BY <1>1, <1>7 DEF StartupInv
    <2>2. \A n \in DOMAIN boot.todo :
             /\ runs'[boot.todo[n].run].status = runs[boot.todo[n].run].status
             /\ runs'[boot.todo[n].run].thread = runs[boot.todo[n].run].thread
      BY <1>4, <1>6, <1>10
    <2>3. \A e \in Dispatchers : jobs'[e].step \in Dispatching => jobs'[e] = jobs[e]
      BY <1>7
    <2> QED BY <1>1, <1>2, <1>5, <2>1, <2>2, <2>3 DEF StartupInv
  <1> QED BY <1>11, <1>12, <1>13, <1>14 DEF CareInv

\* Runs and threads: an event of a thread is heard by its run alone.
LEMMA ThreadsKeepCare ==
  ASSUME AutoInv, RunThreads
  PROVE  CareInv'
  <1>1. /\ AutoTypes /\ NamesInv /\ DispatchInv /\ EventInv /\ OneEngaged /\ StartupInv
        /\ AutoTypes'
    <2>1. BaseInv /\ AutoNext
      BY DEF AutoInv, AutoNext
    <2> QED BY <2>1, TypesKept DEF AutoInv, BaseInv
  <1>2. PICK t \in DOMAIN threads : ThreadActivity(t) \/ TurnEnds(t) \/ LateMetadata(t)
    BY DEF RunThreads
  <1>3. PICK s \in {"running", "waiting_input"} \cup SettledStatus,
             a \in {"working", "over", "silent"} :
           /\ Turns(t, a)
           /\ a = "working" => threads[t].state = "working"
           /\ s \in SettledStatus => a # "working"
           /\ \A n \in DOMAIN updates' :
                 \/ \E m \in DOMAIN updates : updates'[n] = updates[m]
                 \/ \E b \in bindings : /\ b.thread = t
                                        /\ updates'[n].run = b.run
                                        /\ updates'[n].status = s
    BY <1>1, <1>2, ThreadSpeaks
  <1>4. UNCHANGED <<runs, jobs, bindings, boot>> /\ threads[t].state \in {"working", "over"}
    BY <1>1, <1>2, ThreadSpeaks
  <1>5. /\ DOMAIN threads' = DOMAIN threads
        /\ \A u \in DOMAIN threads : threads'[u].run = threads[u].run
        /\ \A u \in DOMAIN threads : threads'[u].state = "working" => threads[u].state = "working"
    BY <1>3 DEF Turns
  <1>6. \A u \in DOMAIN threads : Spoke(u)' <=> Spoke(u)
    <2>1. ASSUME NEW u \in DOMAIN threads PROVE Spoke(u)' <=> Spoke(u)
      <3>1. threads'[u].state = IF u = t THEN a ELSE threads[u].state
        BY <1>3 DEF Turns
      <3> QED BY <1>4, <3>1 DEF Spoke
    <2> QED BY <2>1
  <1>7. DispatchInv'
    <2>1. ASSUME NEW e \in Dispatchers, jobs'[e].step \in BeforePrompt
          PROVE  \A u \in DOMAIN threads' : threads'[u].run = jobs'[e].run => ~Spoke(u)'
      BY <1>1, <1>4, <1>5, <1>6, <2>1 DEF DispatchInv
    <2>2. \A u \in DOMAIN threads' : Spoke(u)' => runs'[threads'[u].run].thread # 0
      BY <1>1, <1>4, <1>5, <1>6 DEF DispatchInv
    <2>3. \A u, v \in DOMAIN threads' :
             Spoke(u)' /\ Spoke(v)' /\ threads'[u].run = threads'[v].run => u = v
      BY <1>1, <1>5, <1>6 DEF DispatchInv
    <2> QED BY <1>1, <1>4, <2>1, <2>2, <2>3 DEF DispatchInv
  <1>8. EventInv'
    <2>1. \A u \in DOMAIN threads' :
             threads'[u].state = "working" => runs'[threads'[u].run].status \in ActiveStatus
      BY <1>1, <1>4, <1>5 DEF EventInv
    <2>2. ASSUME NEW n \in DOMAIN updates'
          PROVE  \E u \in DOMAIN threads' :
                    /\ threads'[u].run = updates'[n].run /\ Spoke(u)'
                    /\ updates'[n].status \in SettledStatus => threads'[u].state # "working"
      <3>1. CASE \E m \in DOMAIN updates : updates'[n] = updates[m]
        <4>1. PICK u \in DOMAIN threads :
                 /\ threads[u].run = updates'[n].run /\ Spoke(u)
                 /\ updates'[n].status \in SettledStatus => threads[u].state # "working"
          BY <1>1, <3>1 DEF EventInv
        <4> QED BY <1>5, <1>6, <4>1
      <3>2. CASE \E b \in bindings :
                    b.thread = t /\ updates'[n].run = b.run /\ updates'[n].status = s
        <4>1. threads[t].run = updates'[n].run
          BY <1>1, <3>2 DEF NamesInv
        <4>2. threads'[t].state = a
          BY <1>3 DEF Turns
        <4>3. Spoke(t)
          BY <1>4 DEF Spoke
        <4> QED BY <1>3, <1>5, <1>6, <3>2, <4>1, <4>2, <4>3
      <3> QED BY <1>3, <3>1, <3>2
    <2> QED BY <1>1, <1>4, <2>1, <2>2 DEF EventInv
  <1>9. OneEngaged'
    <2>1. \A j \in DOMAIN runs' : Engaged(j)' => j \in DOMAIN runs /\ Engaged(j)
      BY <1>4, <1>5 DEF Engaged
    <2> QED BY <1>1, <2>1, NoneEngaged
  <1>10. StartupInv'
    <2>1. ASSUME boot.phase = "threads" PROVE bindings = {} /\ updates' = << >>
      <3>1. bindings = {} /\ updates = << >>
        BY <1>1, <2>1 DEF StartupInv
      <3>2. ASSUME NEW n \in DOMAIN updates' PROVE FALSE
        <4>1. DOMAIN updates = {}
          BY <3>1
        <4> QED BY <1>3, <3>1, <4>1
      <3>3. DOMAIN updates' = {}
        BY <3>2
      <3> QED BY <1>1, <1>4, <3>1, <3>3 DEF AutoTypes
    <2>2. ASSUME NEW k \in DOMAIN boot.todo, NEW n \in DOMAIN updates'
          PROVE  updates'[n].run # boot.todo[k].run
      BY <1>1, <1>3 DEF StartupInv
    <2> QED BY <1>1, <1>4, <2>1, <2>2 DEF StartupInv
  <1> QED BY <1>7, <1>8, <1>9, <1>10 DEF CareInv

\* Runs and threads: an update that settles a run finds its thread over.
LEMMA HandlersKeepCare ==
  ASSUME AutoInv, HandleUpdate
  PROVE  CareInv'
  <1>1. /\ AutoTypes /\ NamesInv /\ DispatchInv /\ EventInv /\ OneEngaged /\ StartupInv
        /\ AutoTypes'
    <2>1. BaseInv /\ AutoNext
      BY DEF AutoInv, AutoNext
    <2> QED BY <2>1, TypesKept DEF AutoInv, BaseInv
  <1>2. /\ \A m \in DOMAIN updates' : \E k \in DOMAIN updates :
              updates'[m].run = updates[k].run /\ updates'[m].status = updates[k].status
        /\ UNCHANGED <<jobs, threads, boot>>
    BY <1>1, HandleUpdateDoes
  <1>3. \A u : Spoke(u)' <=> Spoke(u)
    BY <1>2 DEF Spoke
  <1>4. \A n \in DOMAIN updates' : \E u \in DOMAIN threads' :
           /\ threads'[u].run = updates'[n].run /\ Spoke(u)'
           /\ updates'[n].status \in SettledStatus => threads'[u].state # "working"
    <2>1. ASSUME NEW n \in DOMAIN updates'
          PROVE  \E u \in DOMAIN threads :
                    /\ threads[u].run = updates'[n].run /\ Spoke(u)
                    /\ updates'[n].status \in SettledStatus => threads[u].state # "working"
      <3>1. PICK k \in DOMAIN updates :
               updates'[n].run = updates[k].run /\ updates'[n].status = updates[k].status
        BY <1>2
      <3> QED BY <1>1, <3>1 DEF EventInv
    <2> QED BY <1>2, <1>3, <2>1
  <1>5. boot.phase = "threads" => updates' = << >>
    <2> SUFFICES ASSUME boot.phase = "threads" PROVE updates' = << >>
      OBVIOUS
    <2>1. updates = << >>
      BY <1>1 DEF StartupInv
    <2>2. DOMAIN updates' = {}
      BY <1>2, <2>1
    <2> QED BY <1>1, <2>2 DEF AutoTypes
  <1>6. \A k \in DOMAIN boot.todo, n \in DOMAIN updates' : updates'[n].run # boot.todo[k].run
    <2>1. ASSUME NEW k \in DOMAIN boot.todo, NEW n \in DOMAIN updates'
          PROVE  updates'[n].run # boot.todo[k].run
      BY <1>1, <1>2 DEF StartupInv
    <2> QED BY <2>1
  <1>7. CASE UNCHANGED <<runs, bindings>>
    <2>1. DispatchInv'
      BY <1>1, <1>2, <1>3, <1>7 DEF DispatchInv
    <2>2. EventInv'
      BY <1>1, <1>2, <1>4, <1>7 DEF EventInv
    <2>3. OneEngaged'
      BY <1>1, <1>2, <1>7 DEF OneEngaged, Engaged
    <2>4. StartupInv'
      BY <1>1, <1>2, <1>5, <1>6, <1>7 DEF StartupInv
    <2> QED BY <2>1, <2>2, <2>3, <2>4 DEF CareInv
  <1>8. CASE ~UNCHANGED <<runs, bindings>>
    <2>1. PICK n \in DOMAIN updates :
             /\ updates[n].run \in DOMAIN runs
             /\ Writes(updates[n].run, updates[n].status)
             /\ bindings' = IF updates[n].status \in SettledStatus
                            THEN Unbound(updates[n].run) ELSE bindings
             /\ updates[n].status \in {"running", "waiting_input"} \cup SettledStatus
      BY <1>1, <1>8, HandleUpdateDoes
    <2>2. PICK i, s : i = updates[n].run /\ s = updates[n].status
      OBVIOUS
    <2>3. PICK t \in DOMAIN threads :
             /\ threads[t].run = i /\ Spoke(t)
             /\ s \in SettledStatus => threads[t].state # "working"
      BY <1>1, <2>2 DEF EventInv
    <2>4. /\ i \in DOMAIN runs /\ DOMAIN runs' = DOMAIN runs
          /\ \A j \in DOMAIN runs : /\ runs'[j].thread = runs[j].thread
                                    /\ runs'[j].kind = runs[j].kind
                                    /\ j # i => runs'[j].status = runs[j].status
          /\ runs'[i].status = s /\ s \in {"running", "waiting_input"} \cup SettledStatus
          /\ bindings' \subseteq bindings
          /\ s \in SettledStatus => \A b \in bindings' : b.run # i
      BY <1>1, <2>1, <2>2, UnboundHolds DEF Writes
    <2>5. /\ s \notin SettledStatus => s \in ActiveStatus
          /\ s \in SettledStatus => s \notin ActiveStatus
      BY <2>4 DEF ActiveStatus, SettledStatus
    <2>6. runs[i].thread # 0
      BY <1>1, <2>3 DEF DispatchInv
    <2>7. \A e \in Dispatchers : jobs[e].step \in BeforePrompt => jobs[e].run # i
      BY <1>1, <2>3 DEF DispatchInv
    <2>8. \A u \in DOMAIN threads :
             threads[u].run = i /\ threads[u].state = "working" => s \in ActiveStatus
      <3> SUFFICES ASSUME NEW u \in DOMAIN threads, threads[u].run = i, threads[u].state = "working"
                   PROVE  s \in ActiveStatus
        OBVIOUS
      <3>1. Spoke(u)
        BY DEF Spoke
      <3>2. u = t
        BY <1>1, <2>3, <3>1 DEF DispatchInv
      <3> QED BY <2>3, <2>5, <3>2
    <2>9. /\ \A e \in Dispatchers : jobs[e].step \in BeforePrompt => jobs[e].run \in DOMAIN runs
          /\ \A u \in DOMAIN threads : threads[u].run \in DOMAIN runs
          /\ \A b \in bindings : b.run \in DOMAIN runs
          /\ \A k \in DOMAIN boot.todo : boot.todo[k].run \in DOMAIN runs
      BY <1>1 DEF NamesInv, Dispatching
    <2>10. DispatchInv'
      <3>1. ASSUME NEW e \in Dispatchers, jobs[e].step \in BeforePrompt
            PROVE  LET j == jobs[e].run IN
                   /\ runs'[j].status \in ActiveStatus
                   /\ runs'[j].thread = 0 <=> jobs[e].step # "send"
                   /\ \A u \in DOMAIN threads : threads[u].run = j => ~Spoke(u)
                   /\ \A f \in Dispatchers :
                         jobs[f].step \in BeforePrompt /\ jobs[f].run = j => f = e
        <4>1. /\ runs'[jobs[e].run].status = runs[jobs[e].run].status
              /\ runs'[jobs[e].run].thread = runs[jobs[e].run].thread
          BY <2>4, <2>7, <2>9, <3>1
        <4> QED BY <1>1, <3>1, <4>1 DEF DispatchInv
      <3>2. \A u \in DOMAIN threads : Spoke(u) => runs'[threads[u].run].thread # 0
        BY <1>1, <2>4, <2>9 DEF DispatchInv
      <3> QED BY <1>1, <1>2, <1>3, <3>1, <3>2 DEF DispatchInv
    <2>11. EventInv'
      <3>1. \A b \in bindings' : runs'[b.run].status \in ActiveStatus
        <4>1. ASSUME NEW b \in bindings' PROVE runs'[b.run].status \in ActiveStatus
          <5>1. CASE b.run = i
            BY <2>4, <2>5, <4>1, <5>1
          <5>2. CASE b.run # i
            BY <1>1, <2>4, <2>9, <4>1, <5>2 DEF EventInv
          <5> QED BY <5>1, <5>2
        <4> QED BY <4>1
      <3>2. \A u \in DOMAIN threads :
               threads[u].state = "working" => runs'[threads[u].run].status \in ActiveStatus
        <4>1. ASSUME NEW u \in DOMAIN threads, threads[u].state = "working"
              PROVE  runs'[threads[u].run].status \in ActiveStatus
          <5>1. CASE threads[u].run = i
            BY <2>4, <2>8, <4>1, <5>1
          <5>2. CASE threads[u].run # i
            BY <1>1, <2>4, <2>9, <4>1, <5>2 DEF EventInv
          <5> QED BY <5>1, <5>2
        <4> QED BY <4>1
      <3> QED BY <1>2, <1>4, <3>1, <3>2 DEF EventInv
    <2>12. OneEngaged'
      <3>1. ASSUME NEW j \in DOMAIN runs', Engaged(j)' PROVE j \in DOMAIN runs /\ Engaged(j)
        <4>1. CASE j = i
          <5>1. /\ runs[i].kind # "manual"
                /\ \/ \E e \in Dispatchers : jobs[e].step = "send" /\ jobs[e].run = i
                   \/ \E u \in DOMAIN threads : threads[u].run = i /\ threads[u].state = "working"
            BY <1>2, <2>4, <2>6, <3>1, <4>1 DEF Engaged
          <5>2. runs[i].status \in ActiveStatus
            BY <1>1, <2>7, <5>1 DEF EventInv, BeforePrompt
          <5> QED BY <2>4, <4>1, <5>1, <5>2 DEF Engaged
        <4>2. CASE j # i
          BY <1>2, <2>4, <3>1, <4>2 DEF Engaged
        <4> QED BY <4>1, <4>2
      <3> QED BY <1>1, <3>1, NoneEngaged
    <2>13. StartupInv'
      <3>1. \A k \in DOMAIN boot.todo :
               /\ runs'[boot.todo[k].run].status = runs[boot.todo[k].run].status
               /\ runs'[boot.todo[k].run].thread = runs[boot.todo[k].run].thread
        <4>1. \A k \in DOMAIN boot.todo : boot.todo[k].run # i
          BY <1>1, <2>2 DEF StartupInv
        <4> QED BY <2>4, <2>9, <4>1
      <3>2. boot.phase = "threads" => bindings' = {}
        BY <1>1, <2>4 DEF StartupInv
      <3> QED BY <1>1, <1>2, <1>5, <1>6, <2>4, <3>1, <3>2 DEF StartupInv
    <2> QED BY <2>10, <2>11, <2>12, <2>13 DEF CareInv
  <1> QED BY <1>7, <1>8

\* Runs and threads: a restart stops the threads, and drops what was heard.
LEMMA RestartKeepsCare ==
  ASSUME AutoInv, RuntimeRestarts
  PROVE  CareInv'
  <1>1. AutoTypes /\ NamesInv /\ DispatchInv /\ EventInv /\ OneEngaged
    BY DEF AutoInv, BaseInv
  <1>2. /\ \A d \in Dispatchers : jobs'[d].step \in {"idle", "done"}
        /\ DOMAIN threads' = DOMAIN threads
        /\ \A u \in DOMAIN threads :
              /\ threads'[u].run = threads[u].run
              /\ threads'[u].state = IF threads[u].state = "working" THEN "stuck"
                                     ELSE threads[u].state
        /\ bindings' = {} /\ updates' = << >>
        /\ boot'.phase = "threads" /\ boot'.todo = << >>
        /\ UNCHANGED runs
    BY <1>1, RestartDoes
  <1>3. /\ \A d \in Dispatchers : jobs'[d].step \notin Dispatching \cup {"claim", "create"}
        /\ \A d \in Dispatchers : jobs'[d].step \notin BeforePrompt /\ jobs'[d].step # "send"
    BY <1>2 DEF Dispatching, BeforePrompt, BeforeThread
  <1>4. /\ \A u \in DOMAIN threads : Spoke(u)' <=> Spoke(u)
        /\ \A u \in DOMAIN threads : threads'[u].state # "working"
    BY <1>2 DEF Spoke
  <1>5. DispatchInv'
    <2>1. \A u \in DOMAIN threads' : Spoke(u)' => runs'[threads'[u].run].thread # 0
      BY <1>1, <1>2, <1>4 DEF DispatchInv
    <2>2. \A u, v \in DOMAIN threads' :
             Spoke(u)' /\ Spoke(v)' /\ threads'[u].run = threads'[v].run => u = v
      BY <1>1, <1>2, <1>4 DEF DispatchInv
    <2> QED BY <1>3, <2>1, <2>2 DEF DispatchInv
  <1>6. EventInv'
    BY <1>2, <1>4 DEF EventInv
  <1>7. OneEngaged'
    <2>1. \A j \in DOMAIN runs' : Engaged(j)' => j \in DOMAIN runs /\ Engaged(j)
      BY <1>2, <1>3, <1>4 DEF Engaged
    <2> QED BY <1>1, <2>1, NoneEngaged
  <1>8. StartupInv'
    BY <1>2, <1>3 DEF StartupInv
  <1> QED BY <1>5, <1>6, <1>7, <1>8 DEF CareInv

\* Runs and threads: nobody listens yet when the interrupted threads are closed.
LEMMA RecoveredThreadsKeepCare ==
  ASSUME AutoInv, RecoverThreads
  PROVE  CareInv'
  <1>1. /\ AutoTypes /\ NamesInv /\ DispatchInv /\ EventInv /\ OneEngaged /\ StartupInv
    BY DEF AutoInv, BaseInv
  <1>2. /\ boot.phase = "threads" /\ boot'.phase = "runs"
        /\ \A n \in DOMAIN boot'.todo :
              /\ boot'.todo[n].run \in ActiveRuns
              /\ boot'.todo[n].thread = runs[boot'.todo[n].run].thread
        /\ \A m, n \in DOMAIN boot'.todo : boot'.todo[m].run = boot'.todo[n].run => m = n
        /\ DOMAIN threads' = DOMAIN threads
        /\ \A u \in DOMAIN threads :
              /\ threads'[u].run = threads[u].run
              /\ threads'[u].state = IF threads[u].state = "stuck" THEN "over"
                                     ELSE threads[u].state
        /\ UNCHANGED <<runs, jobs, bindings>>
    BY <1>1, RecoverThreadsDoes
  <1>3. bindings = {} /\ updates = << >> /\ updates' = updates
    BY <1>1, <1>2, RecoverThreadsDoes DEF StartupInv
  <1>4. \A d \in Dispatchers : jobs[d].step \notin Dispatching \cup {"claim", "create"}
    BY <1>1, <1>2 DEF StartupInv
  <1>5. \A d \in Dispatchers : jobs[d].step \notin BeforePrompt /\ jobs[d].step # "send"
    BY <1>4 DEF Dispatching, BeforePrompt
  <1>6. /\ \A u \in DOMAIN threads : Spoke(u)' <=> Spoke(u)
        /\ \A u \in DOMAIN threads : threads'[u].state = "working" => threads[u].state = "working"
    BY <1>2 DEF Spoke
  <1>7. DispatchInv'
    <2>1. \A u \in DOMAIN threads' : Spoke(u)' => runs'[threads'[u].run].thread # 0
      BY <1>1, <1>2, <1>6 DEF DispatchInv
    <2>2. \A u, v \in DOMAIN threads' :
             Spoke(u)' /\ Spoke(v)' /\ threads'[u].run = threads'[v].run => u = v
      BY <1>1, <1>2, <1>6 DEF DispatchInv
    <2> QED BY <1>2, <1>5, <2>1, <2>2 DEF DispatchInv
  <1>8. EventInv'
    <2>1. \A u \in DOMAIN threads' :
             threads'[u].state = "working" => runs'[threads'[u].run].status \in ActiveStatus
      BY <1>1, <1>2, <1>6 DEF EventInv
    <2> QED BY <1>2, <1>3, <2>1 DEF EventInv
  <1>9. OneEngaged'
    <2>1. \A j \in DOMAIN runs' : Engaged(j)' => j \in DOMAIN runs /\ Engaged(j)
      BY <1>2, <1>5, <1>6 DEF Engaged
    <2> QED BY <1>1, <2>1, NoneEngaged
  <1>10. StartupInv'
    <2>1. \A n \in DOMAIN boot'.todo : runs[boot'.todo[n].run].status \in ActiveStatus
      BY <1>2 DEF ActiveRuns
    <2> QED BY <1>2, <1>3, <1>4, <2>1 DEF StartupInv
  <1> QED BY <1>7, <1>8, <1>9, <1>10 DEF CareInv

\* Runs and threads: a run without a thread has no thread that spoke, and is begun again.
LEMMA RecoveredRunKeepsCare ==
  ASSUME AutoInv, RecoverRun
  PROVE  CareInv'
  <1>1. /\ AutoTypes /\ NamesInv /\ DispatchInv /\ EventInv /\ OneEngaged /\ StartupInv
    BY DEF AutoInv, BaseInv
  <1>2. boot.phase = "runs" /\ jobs["startup"].step = "idle" /\ UNCHANGED <<runs, threads, updates>>
    BY <1>1, RecoverRunDoes
  <1>3. \A u : Spoke(u)' <=> Spoke(u)
    BY <1>2 DEF Spoke
  <1>4. /\ \A d \in Dispatchers : jobs[d].step \notin Dispatching \cup {"claim", "create"}
    BY <1>1, <1>2 DEF StartupInv, Dispatching, BeforePrompt, BeforeThread
  <1>5. \A d \in Dispatchers : jobs[d].step \notin BeforePrompt /\ jobs[d].step # "send"
    BY <1>4 DEF Dispatching, BeforePrompt
  <1>6. CASE boot'.phase = "up" /\ boot'.todo = << >> /\ UNCHANGED <<bindings, jobs>>
    <2>1. DispatchInv'
      BY <1>1, <1>2, <1>3, <1>6 DEF DispatchInv
    <2>2. EventInv'
      BY <1>1, <1>2, <1>3, <1>6 DEF EventInv
    <2>3. OneEngaged'
      BY <1>1, <1>2, <1>6 DEF OneEngaged, Engaged
    <2>4. StartupInv'
      BY <1>4, <1>6 DEF StartupInv
    <2> QED BY <2>1, <2>2, <2>3, <2>4 DEF CareInv
  <1>7. CASE ~(boot'.phase = "up" /\ boot'.todo = << >> /\ UNCHANGED <<bindings, jobs>>)
    <2>1. PICK r :
             /\ r = boot.todo[1] /\ boot'.phase = "runs" /\ 1 \in DOMAIN boot.todo
             /\ \A n \in DOMAIN boot'.todo :
                   n + 1 \in DOMAIN boot.todo /\ boot'.todo[n] = boot.todo[n + 1]
             /\ \/ /\ r.thread # 0 /\ bindings' = Unbound(r.run) \cup {r} /\ UNCHANGED jobs
                \/ r.thread = 0 /\ Takes("startup", r.run) /\ UNCHANGED bindings
      BY <1>1, <1>7, RecoverRunDoes
    <2>2. /\ r.run \in DOMAIN runs /\ runs[r.run].status \in ActiveStatus
          /\ runs[r.run].thread = r.thread
          /\ \A m \in DOMAIN boot.todo : boot.todo[m].run = r.run => m = 1
      BY <1>1, <2>1 DEF NamesInv, StartupInv
    <2>3. /\ boot'.todo \in Seq(BindingRecord)
          /\ \A n \in DOMAIN boot'.todo : n \in Nat /\ n + 1 # 1
      <3>1. boot'.todo \in Seq(BindingRecord)
        BY <1>1, <1>7, RecoverRunDoes
      <3> QED BY <3>1
    <2>4. /\ \A n \in DOMAIN boot'.todo : boot'.todo[n].run # r.run
          /\ \A n \in DOMAIN boot'.todo :
                LET q == boot'.todo[n] IN
                /\ runs[q.run].status \in ActiveStatus /\ runs[q.run].thread = q.thread
                /\ \A b \in bindings : b.run # q.run
                /\ \A m \in DOMAIN updates : updates[m].run # q.run
      BY <1>1, <2>1, <2>2, <2>3 DEF StartupInv
    <2>5. ASSUME NEW m \in DOMAIN boot'.todo, NEW n \in DOMAIN boot'.todo,
                 boot'.todo[m].run = boot'.todo[n].run
          PROVE  m = n
      <3>1. m + 1 = n + 1
        BY <1>1, <2>1, <2>5 DEF StartupInv
      <3> QED BY <2>3, <3>1
    <2>6. bindings' \subseteq bindings \cup {r}
      BY <1>1, <2>1, UnboundHolds
    <2>7. /\ \A d \in Dispatchers : jobs'[d].step \in Dispatching =>
                d = "startup" /\ jobs'[d].run = r.run /\ jobs'[d].step = "begin" /\ r.thread = 0
          /\ \A d \in Dispatchers : jobs'[d].step \notin {"claim", "create", "send"}
          /\ \A d \in Dispatchers : jobs'[d].step \in BeforePrompt => jobs'[d].step \in Dispatching
      BY <1>4, <1>5, <2>1 DEF Takes, Dispatching
    <2>8. r.thread = 0 => \A u \in DOMAIN threads : threads[u].run = r.run => ~Spoke(u)
      BY <1>1, <2>2 DEF DispatchInv
    <2>9. DispatchInv'
      <3>1. ASSUME NEW d \in Dispatchers, jobs'[d].step \in BeforePrompt
            PROVE  LET i == jobs'[d].run IN
                   /\ runs[i].status \in ActiveStatus
                   /\ runs[i].thread = 0 <=> jobs'[d].step # "send"
                   /\ \A t \in DOMAIN threads : threads[t].run = i => ~Spoke(t)
                   /\ \A e \in Dispatchers :
                         jobs'[e].step \in BeforePrompt /\ jobs'[e].run = i => e = d
        BY <2>2, <2>7, <2>8, <3>1
      <3> QED BY <1>1, <1>2, <1>3, <3>1 DEF DispatchInv
    <2>10. EventInv'
      <3>1. \A b \in bindings' : runs'[b.run].status \in ActiveStatus
        BY <1>1, <1>2, <2>2, <2>6 DEF EventInv
      <3> QED BY <1>1, <1>2, <1>3, <3>1 DEF EventInv
    <2>11. OneEngaged'
      <3>1. \A j \in DOMAIN runs' : Engaged(j)' => j \in DOMAIN runs /\ Engaged(j)
        BY <1>2, <2>7 DEF Engaged
      <3> QED BY <1>1, <3>1, NoneEngaged
    <2>12. StartupInv'
      <3>1. ASSUME NEW n \in DOMAIN boot'.todo
            PROVE  LET q == boot'.todo[n] IN
                   /\ \A b \in bindings' : b.run # q.run
                   /\ \A d \in Dispatchers : jobs'[d].step \in Dispatching => jobs'[d].run # q.run
        BY <2>4, <2>6, <2>7
      <3> QED BY <1>2, <2>1, <2>4, <2>5, <2>7, <3>1 DEF StartupInv
    <2> QED BY <2>9, <2>10, <2>11, <2>12 DEF CareInv
  <1> QED BY <1>6, <1>7

\* Runs and threads: every step, if no call by hand arrives before the startup is over
\* and a dispatch does not fail once the prompt is sent.
LEMMA CareKept ==
  ASSUME AutoInv, AutoNext, ~EarlyCalls, "stamp" \notin FailingSteps
  PROVE  CareInv'
  <1>1. AutoTypes /\ SlotInv /\ NamesInv /\ StartupInv
    BY DEF AutoInv, BaseInv
  <1>2. CASE SlotDue \/ EditSchedule
    <2>1. UNCHANGED <<runs, jobs, threads, bindings, updates, boot>>
      BY <1>2 DEF SlotDue, EditSchedule
    <2> QED BY <2>1, OtherCallsKeepCare
  <1>3. ASSUME NEW d \in Dispatchers, FindDue(d) PROVE CareInv'
    <2>1. /\ UNCHANGED <<runs, threads, bindings, updates, boot>> /\ boot.phase = "up"
          /\ jobs[d].step \in {"idle", "find"}
      BY <1>3 DEF FindDue, SchedulerOn
    <2>2. /\ \A e \in Dispatchers \ {d} : jobs'[e] = jobs[e]
          /\ jobs'[d].step \in {"idle", "claim"}
      BY <1>1, <1>3, FindDueDoes
    <2> QED BY <2>1, <2>2, OtherCallsKeepCare DEF Dispatching, BeforePrompt, BeforeThread
  <1>4. ASSUME NEW d \in Dispatchers, ManualCheck(d) PROVE CareInv'
    <2>1. /\ UNCHANGED <<runs, threads, bindings, updates, boot>> /\ boot.phase = "up"
          /\ jobs[d].step = "idle"
      BY <1>4 DEF ManualCheck, SchedulerOn
    <2>2. PICK s \in {"done", "create"} : Goes(d, s)
      BY <1>1, <1>4, ManualCheckDoes
    <2>3. /\ \A e \in Dispatchers \ {d} : jobs'[e] = jobs[e]
          /\ jobs'[d].step \in {"done", "create"}
      BY <2>2 DEF Goes
    <2> QED BY <2>1, <2>3, OtherCallsKeepCare DEF Dispatching, BeforePrompt, BeforeThread
  <1>5. ASSUME NEW d \in Dispatchers, StampAutomation(d) PROVE CareInv'
    <2>1. UNCHANGED <<runs, threads, bindings, updates, boot>> /\ jobs[d].step = "stamp"
      BY <1>5 DEF StampAutomation
    <2>2. Leaves(d)
      BY <1>1, <1>5, StampAutomationDoes
    <2>3. /\ \A e \in Dispatchers \ {d} : jobs'[e] = jobs[e]
          /\ jobs'[d].step \in {"idle", "find", "done"}
      BY <2>2 DEF Leaves
    <2> QED BY <2>1, <2>3, OtherCallsKeepCare DEF Dispatching, BeforePrompt, BeforeThread
  <1>6. ASSUME NEW d \in Dispatchers, ManualCreate(d) PROVE CareInv'
    <2>1. UNCHANGED <<threads, bindings, updates, boot>> /\ jobs[d].step = "create"
      BY <1>6 DEF ManualCreate
    <2> DEFINE n == Len(runs) + 1
    <2>2. /\ Adds /\ Takes(d, n) /\ DOMAIN runs' = DOMAIN runs \cup {n} /\ n \notin DOMAIN runs
          /\ runs'[n] = NewRun(0, "queued", "manual")
      BY <1>1, <1>6, ManualCreateDoes
    <2> HIDE DEF n
    <2>3. runs'[n].thread = 0 /\ runs'[n].status = "queued" /\ runs'[n].kind = "manual"
      BY <2>2 DEF NewRun
    <2> QED BY <2>1, <2>2, <2>3, NewRowsKeepCare
  <1>7. ASSUME NEW d \in Dispatchers, ClaimDue(d) PROVE CareInv'
    <2>1. /\ jobs[d].step = "claim" /\ UNCHANGED <<threads, bindings, updates, boot>>
      BY <1>1, <1>7, ClaimDueDoes
    <2>2. CASE Leaves(d) /\ UNCHANGED runs
      <3>1. /\ \A e \in Dispatchers \ {d} : jobs'[e] = jobs[e]
            /\ jobs'[d].step \in {"idle", "find", "done"}
        BY <2>2 DEF Leaves
      <3> QED BY <2>1, <2>2, <3>1, OtherCallsKeepCare DEF Dispatching, BeforePrompt, BeforeThread
    <2>3. CASE ~(Leaves(d) /\ UNCHANGED runs)
      <3>1. /\ Adds
            /\ \A i \in DOMAIN runs' : i \notin DOMAIN runs => runs'[i].thread = 0
            /\ \/ /\ Leaves(d)
                  /\ \A i \in DOMAIN runs' : i \notin DOMAIN runs => runs'[i].status = "missed"
               \/ \E n \in DOMAIN runs' :
                     /\ Takes(d, n) /\ n \notin DOMAIN runs /\ runs'[n].status = "queued"
                     /\ \A i \in DOMAIN runs' : i \notin DOMAIN runs =>
                           i = n \/ runs'[i].status = "missed"
                     /\ runs'[n].kind = "manual" \/ ActiveRuns = {}
        BY <1>1, <1>7, <2>3, ClaimDueDoes
      <3> QED BY <2>1, <3>1, NewRowsKeepCare
    <2> QED BY <2>2, <2>3
  <1>8. ASSUME NEW d \in Dispatchers, DispatchRun(d) PROVE CareInv'
    BY <1>5, <1>8, BeginRunKeepsCare, CreateRunThreadKeepsCare, BindThreadKeepsCare,
       SendPromptKeepsCare, DispatchFailsKeepsCare DEF DispatchRun
  <1>9. CASE AutoStartup
    BY <1>9, RecoveredThreadsKeepCare, RecoveredRunKeepsCare DEF AutoStartup
  <1> QED BY <1>2, <1>3, <1>4, <1>6, <1>7, <1>8, <1>9, RestartKeepsCare, HandlersKeepCare,
             ThreadsKeepCare DEF AutoNext, Dispatchers

\* The start.
LEMMA AutoInvInit == AutoInit \/ MCAutoInit => AutoInv
  <1> SUFFICES ASSUME AutoInit \/ MCAutoInit PROVE AutoInv
    OBVIOUS
  <1>1. BaseInv
    BY BaseInvInit
  <1>2. /\ runs = << >> /\ threads = << >> /\ bindings = {} /\ updates = << >>
        /\ boot.phase = "up" /\ boot.todo = << >>
    <2>1. CASE AutoInit
      BY <2>1 DEF AutoInit
    <2>2. CASE MCAutoInit
      BY <2>2 DEF MCAutoInit
    <2> QED BY <2>1, <2>2
  <1>3. \A d \in Dispatchers : jobs[d].step \in {"idle", "done"}
    <2>1. CASE AutoInit
      BY <2>1 DEF AutoInit, NoJob
    <2>2. CASE MCAutoInit
      <3>1. \E never : jobs = NeverCalls(never)
        BY <2>2 DEF MCAutoInit, Scheduled, ByHand, Interrupted
      <3> QED BY <3>1 DEF NeverCalls, NoJob
    <2> QED BY <2>1, <2>2
  <1>4. \A d \in Dispatchers : jobs[d].step \notin BeforePrompt /\ jobs[d].step \notin Dispatching
    BY <1>3 DEF Dispatching, BeforePrompt, BeforeThread
  <1>5. DispatchInv
    BY <1>2, <1>4 DEF DispatchInv
  <1>6. EventInv
    BY <1>2 DEF EventInv
  <1>7. OneEngaged
    BY <1>2 DEF OneEngaged
  <1>8. StartupInv
    BY <1>2, <1>3, <1>4 DEF StartupInv
  <1> QED BY <1>1, <1>5, <1>6, <1>7, <1>8 DEF AutoInv

\* The invariant is inductive.
LEMMA AutoInvStep ==
  ASSUME ~EarlyCalls, "stamp" \notin FailingSteps
  PROVE  AutoInv /\ [AutoNext]_autoVars => AutoInv'
  <1> SUFFICES ASSUME AutoInv, [AutoNext]_autoVars PROVE AutoInv'
    OBVIOUS
  <1>1. BaseInv'
    BY BaseInvStep DEF AutoInv
  <1>2. CASE AutoNext
    BY <1>1, <1>2, CareKept DEF AutoInv, CareInv
  <1>3. CASE UNCHANGED autoVars
    <2>1. UNCHANGED <<runs, jobs, threads, bindings, updates, boot>>
      BY <1>3 DEF autoVars
    <2>2. CareInv'
      BY <2>1, OtherCallsKeepCare
    <2> QED BY <1>1, <2>2 DEF AutoInv, CareInv
  <1> QED BY <1>2, <1>3

\* One scheduled run is engaged, a run has spoken through one thread, and who is listened
\* to is active.
LEMMA AutoInvImplies == AutoInv => RunsAndThreadsAgree
  <1> SUFFICES ASSUME AutoInv PROVE RunsAndThreadsAgree
    OBVIOUS
  <1>1. AutoTypes /\ NamesInv /\ DispatchInv /\ EventInv /\ OneEngaged
    BY DEF AutoInv, BaseInv
  <1>2. IsFiniteSet(DOMAIN threads)
    <2>1. DOMAIN threads = 1..Len(threads) /\ Len(threads) \in Nat
      BY <1>1 DEF AutoTypes
    <2> QED BY <2>1, FS_Interval
  <1>3. Cardinality({t \in DOMAIN threads :
                       threads[t].state = "working" /\ runs[threads[t].run].kind # "manual"}) <= 1
    <2> DEFINE W == {t \in DOMAIN threads :
                       threads[t].state = "working" /\ runs[threads[t].run].kind # "manual"}
    <2>1. ASSUME NEW t \in W, NEW u \in W PROVE t = u
      <3>1. Engaged(threads[t].run) /\ Engaged(threads[u].run)
        BY <1>1 DEF Engaged, EventInv
      <3>2. threads[t].run = threads[u].run
        BY <1>1, <3>1 DEF OneEngaged, NamesInv
      <3>3. Spoke(t) /\ Spoke(u)
        BY DEF Spoke
      <3> QED BY <1>1, <3>2, <3>3 DEF DispatchInv
    <2>2. IsFiniteSet(W)
      BY <1>2, FS_Subset
    <2> HIDE DEF W
    <2>3. Cardinality(W) <= 1
      BY <2>1, <2>2, NoTwoElements
    <2> QED BY <2>3 DEF W
  <1>4. ASSUME NEW i \in DOMAIN runs
        PROVE  Cardinality({t \in DOMAIN threads :
                              threads[t].run = i /\ threads[t].state # "new"}) <= 1
    <2> DEFINE S == {t \in DOMAIN threads : threads[t].run = i /\ threads[t].state # "new"}
    <2>1. \A t, u \in S : t = u
      BY <1>1 DEF DispatchInv, Spoke
    <2>2. IsFiniteSet(S)
      BY <1>2, FS_Subset
    <2> HIDE DEF S
    <2>3. Cardinality(S) <= 1
      BY <2>1, <2>2, NoTwoElements
    <2> QED BY <2>3 DEF S
  <1>5. \A b \in bindings : runs[b.run].status \in ActiveStatus
    BY <1>1 DEF EventInv
  <1> QED BY <1>3, <1>4, <1>5 DEF RunsAndThreadsAgree

(***************************************************************************)
(* The theorems.                                                           *)
(***************************************************************************)

\* Passes of the scheduler may overlap, and edits, failures and restarts may fall
\* between their steps: every slot the schedule has left behind is in the table once,
\* as a run or as missed, unless an edit passed over it (claimDueRunBatch,
\* updateAutomation).
THEOREM SlotsAreRecordedOnce == AutoSpec => []SlotsRecordedOnce
  <1>1. AutoInit => BaseInv
    BY BaseInvInit
  <1>2. BaseInv /\ [AutoNext]_autoVars => BaseInv'
    BY BaseInvStep
  <1>3. BaseInv => SlotsRecordedOnce
    BY SlotInvImplies
  <1> QED BY <1>1, <1>2, <1>3, PTL DEF AutoSpec

\* No two scheduled runs have their threads at work together, no run gets its prompt
\* twice, and nobody listens to a run that has settled, whatever the order in which the
\* handlers write and wherever restarts fall; if no call by hand comes before the startup
\* is over, and the write of lastRunAt after the prompt does not fail (startAutomationRun,
\* handleThreadEventForRun, recoverInFlightRuns).
THEOREM RunsKeepToThreads ==
  ASSUME ~EarlyCalls, "stamp" \notin FailingSteps
  PROVE  AutoSpec => []RunsAndThreadsAgree
  <1>1. AutoInit => AutoInv
    BY AutoInvInit
  <1>2. AutoInv /\ [AutoNext]_autoVars => AutoInv'
    BY AutoInvStep
  <1>3. AutoInv => RunsAndThreadsAgree
    BY AutoInvImplies
  <1> QED BY <1>1, <1>2, <1>3, PTL DEF AutoSpec

\* A step of the instances, as a step of the automation.
LEMMA WorkspaceStep ==
  [WorkspaceNext]_<<autoVars, recurrenceVars, codexVars, setupVars, editorVars, statusVars>>
     => [AutoNext]_autoVars
  BY DEF WorkspaceNext

\* In the instances that TLC checks too, which begin in states of their own, every slot
\* left behind is in the table once, unless an edit passed over it.
THEOREM SlotsAreRecordedOnceThere == WorkspaceSpec => []SlotsRecordedOnce
  <1>1. WorkspaceInit => BaseInv
    BY BaseInvInit DEF WorkspaceInit
  <1>2. BaseInv /\ [AutoNext]_autoVars => BaseInv'
    BY BaseInvStep
  <1>3. BaseInv => SlotsRecordedOnce
    BY SlotInvImplies
  <1> QED BY <1>1, <1>2, <1>3, WorkspaceStep, PTL DEF WorkspaceSpec

\* In the instances that TLC checks too, one scheduled run is at work at most, a run
\* gets its prompt once, and nobody listens to a run that has settled.
THEOREM RunsKeepToThreadsThere ==
  ASSUME ~EarlyCalls, "stamp" \notin FailingSteps
  PROVE  WorkspaceSpec => []RunsAndThreadsAgree
  <1>1. WorkspaceInit => AutoInv
    BY AutoInvInit DEF WorkspaceInit
  <1>2. AutoInv /\ [AutoNext]_autoVars => AutoInv'
    BY AutoInvStep
  <1>3. AutoInv => RunsAndThreadsAgree
    BY AutoInvImplies
  <1> QED BY <1>1, <1>2, <1>3, WorkspaceStep, PTL DEF WorkspaceSpec
=============================================================================
