--------------------------- MODULE ServicesProofs ---------------------------
(***************************************************************************)
(* Proofs about the services of the runtime beside its turns: the life of  *)
(* a worktree (Worktrees), the streams of devices (DeviceStreams), and     *)
(* terminals (Terminals), each on its own with an inductive invariant, and *)
(* all of them with the pool of agents (AgentPoolProofs) as the run        *)
(* services has them (MCServices).                                         *)
(***************************************************************************)
EXTENDS MCServices, AgentPoolProofs, FiniteSetTheorems, SequenceTheorems

(***************************************************************************)
(* The life of a worktree.  Whoever takes its directory away has taken the *)
(* row out of use before, and the row comes back into use only when the    *)
(* directory has been made.                                                *)
(***************************************************************************)

\* Every remover has a state of its own, besides what WorktreeTypeOK says of it.
RemovalTypes ==
    removal \in [Removers -> {"off", "join", "teardown", "drop", "over"} \cup RemovalSteps]

WorktreeTypes == WorktreeTypeOK /\ RemovalTypes

\* The directory that is to be used, or is about to be: it is there, or somebody is at
\* work who will not let the row stay.
DirectoryIsKept ==
    row = "active" \/ (provision = "added" /\ RowExists)
       => disk = "present" \/ (\E x \in Removers : AtWork(x)) \/ torn

\* The directory is swept after the row has gone, and a row that has gone does not
\* come back.
RowGoesFirst == \A x \in Removers : removal[x] = "rm" => row = "gone"

\* A row becomes active when its provisioning is over, and stays so no longer than that.
ActiveIsProvisioned == row = "active" => provision = "off"

WorktreeInv == WorktreeTypes /\ DirectoryIsKept /\ RowGoesFirst /\ ActiveIsProvisioned

\* The variables have their types at the start, and nothing is in use.
LEMMA WorktreeInvInit == WorktreeInit => WorktreeInv
  <1> SUFFICES ASSUME WorktreeInit PROVE WorktreeInv
    OBVIOUS
  <1>1. WorktreeTypeOK
    <2>1. "job" \in Removers /\ Evictions \subseteq Removers
      BY DEF Removers
    <2>2. \A x \in Removers : removal[x] = "off"
      BY DEF WorktreeInit
    <2>3. deleter \in [Deleters -> {"off", "mark", "over"}] /\ boots \in 0..MaxBoots
      BY WorktreeAssumption DEF WorktreeInit
    <2> QED BY <2>1, <2>2, <2>3 DEF WorktreeInit, WorktreeTypeOK, Rows
  <1>2. RemovalTypes
    BY DEF WorktreeInit, RemovalTypes
  <1>3. DirectoryIsKept /\ RowGoesFirst /\ ActiveIsProvisioned
    BY DEF WorktreeInit, DirectoryIsKept, RowGoesFirst, RowExists, ActiveIsProvisioned
  <1> QED BY <1>1, <1>2, <1>3 DEF WorktreeInv, WorktreeTypes

\* The step of a remover leaves the others where they are.
LEMMA RemoverMoves ==
  ASSUME RemovalTypes, NEW x \in Removers,
         NEW s \in {"off", "join", "teardown", "drop", "over"} \cup RemovalSteps,
         Step(x, s)
  PROVE  /\ RemovalTypes'
         /\ removal'[x] = s
         /\ \A y \in Removers \ {x} : removal'[y] = removal[y]
  BY DEF RemovalTypes, Step, RemovalSteps

\* So the types are kept by the step of a remover to a state that it may be in.
LEMMA RemoverKeepsType ==
  ASSUME WorktreeTypes, NEW x \in Removers,
         NEW s \in {"teardown", "off", "drop", "over"} \cup RemovalSteps,
         Step(x, s), x = "job" => s \notin {"drop", "over"},
         x # "job" => s # "teardown",
         row' \in Rows, disk' \in {"absent", "partial", "present"}, torn' \in BOOLEAN,
         UNCHANGED <<provision, deleter, recovery, boots>>
  PROVE  WorktreeTypes'
  <1>1. /\ RemovalTypes'
        /\ removal'[x] = s
        /\ \A y \in Removers \ {x} : removal'[y] = removal[y]
    BY RemoverMoves DEF WorktreeTypes
  <1>2. removal'["job"] \in {"off", "teardown"} \cup RemovalSteps
    BY <1>1 DEF WorktreeTypes, WorktreeTypeOK, Removers
  <1>3. \A e \in Evictions : removal'[e] \in {"off", "join", "drop", "over"} \cup RemovalSteps
    BY <1>1, WorktreeAssumption DEF WorktreeTypes, WorktreeTypeOK, Removers
  <1> QED BY <1>1, <1>2, <1>3 DEF WorktreeTypes, WorktreeTypeOK

\* A job that is scheduled is at work, and nobody else stops.
LEMMA JobIsScheduled ==
  ASSUME WorktreeTypes, removal' = Scheduled(removal)
  PROVE  /\ removal' \in [Removers -> {"off", "join", "teardown", "drop", "over"} \cup RemovalSteps]
         /\ \A y \in Evictions : removal'[y] = removal[y]
         /\ removal'["job"] \in {"off", "teardown"} \cup RemovalSteps
         /\ \A y \in Removers : removal'[y] # removal[y] => removal'[y] = "read"
         /\ \A y \in Removers : AtWork(y) => removal'[y] \notin {"off", "over"}
  <1>1. "job" \in Removers /\ "job" \notin Evictions /\ Evictions \subseteq Removers
    BY WorktreeAssumption DEF Removers
  <1>2. CASE AtWork("job")
    BY <1>1, <1>2 DEF WorktreeTypes, WorktreeTypeOK, RemovalTypes, Scheduled, AtWork
  <1>3. CASE ~AtWork("job")
    BY <1>1, <1>3 DEF WorktreeTypes, WorktreeTypeOK, RemovalTypes, Scheduled, AtWork, RemovalSteps
  <1> QED BY <1>2, <1>3

\* A step that stops no remover, lets none reach the sweep of the directory and keeps a
\* directory that is to be used keeps the invariant.
LEMMA NobodyStops ==
  ASSUME WorktreeInv, WorktreeTypes',
         \A y \in Removers : removal'[y] # removal[y] => removal'[y] # "rm",
         \A y \in Removers : AtWork(y) => AtWork(y)',
         row = "gone" => row' = "gone",
         torn => torn', row' = "active" => provision' = "off",
         row' = "active" \/ (provision' = "added" /\ RowExists')
            => \/ disk' = "present"
               \/ \E x \in Removers : AtWork(x)'
               \/ /\ row = "active" \/ (provision = "added" /\ RowExists)
                  /\ disk' = disk
  PROVE  WorktreeInv'
  <1>1. RowGoesFirst'
    BY DEF WorktreeInv, RowGoesFirst
  <1>2. DirectoryIsKept'
    BY DEF WorktreeInv, DirectoryIsKept
  <1>3. ActiveIsProvisioned'
    BY DEF ActiveIsProvisioned
  <1> QED BY <1>1, <1>2, <1>3 DEF WorktreeInv

\* Provisioning: the row becomes active when the directory has been made.
LEMMA ProvisioningKeepsInv ==
  ASSUME WorktreeInv, CreateWorktree \/ Provisioning
  PROVE  WorktreeInv'
  <1>1. UNCHANGED <<removal, deleter, recovery, torn, boots>>
    BY DEF CreateWorktree, Provisioning, StartAdd, FinishAdd, AddFails, Activate,
           RecordCreateFailure
  <1>2. row \in Rows /\ disk \in {"absent", "partial", "present"}
    BY DEF WorktreeInv, WorktreeTypes, WorktreeTypeOK
  <1>3. /\ row' \in Rows /\ disk' \in {"absent", "partial", "present"}
        /\ provision' \in {"off", "fetching", "adding", "added", "failed"}
        /\ row = "gone" => row' = "gone"
        /\ row' = "active" => provision' = "off"
    <2>1. CASE CreateWorktree
      BY <1>2, <2>1 DEF CreateWorktree, Rows
    <2>2. CASE StartAdd \/ FinishAdd \/ AddFails
      BY <1>2, <2>2 DEF StartAdd, FinishAdd, AddFails, WorktreeInv, ActiveIsProvisioned
    <2>3. CASE Activate \/ RecordCreateFailure
      BY <1>2, <2>3
      DEF Activate, RecordCreateFailure, Rows, RowExists, WorktreeInv, ActiveIsProvisioned
    <2> QED BY <2>1, <2>2, <2>3 DEF Provisioning
  <1>4. WorktreeTypes'
    BY <1>1, <1>3 DEF WorktreeInv, WorktreeTypes, WorktreeTypeOK, RemovalTypes
  <1>5. row' = "active" \/ (provision' = "added" /\ RowExists')
            => \/ disk' = "present"
               \/ /\ row = "active" \/ (provision = "added" /\ RowExists)
                  /\ disk' = disk
    <2>1. CASE CreateWorktree
      BY <2>1 DEF CreateWorktree
    <2>2. CASE StartAdd \/ FinishAdd \/ AddFails
      BY <2>2 DEF WorktreeInv, ActiveIsProvisioned, StartAdd, FinishAdd, AddFails
    <2>3. CASE Activate \/ RecordCreateFailure
      BY <2>3 DEF Activate, RecordCreateFailure, RowExists
    <2> QED BY <2>1, <2>2, <2>3 DEF Provisioning
  <1>6. \A y \in Removers : AtWork(y) => AtWork(y)'
    BY <1>1 DEF AtWork
  <1> QED BY <1>1, <1>3, <1>4, <1>5, <1>6, NobodyStops

\* Recovery: a row that is found interrupted is marked, never made active.
LEMMA RecoveryKeepsInv ==
  ASSUME WorktreeInv, Recovery
  PROVE  WorktreeInv'
  <1>1. UNCHANGED <<disk, provision, removal, deleter, torn, boots>>
    BY DEF Recovery, FindPending, MarkPending
  <1>2. /\ row' \in Rows
        /\ recovery' \in {"creations", "deletions", "fail creation", "fail deletion", "done"}
        /\ row = "gone" => row' = "gone"
        /\ row' = "active" => row = "active"
        /\ RowExists' => RowExists
    <2>1. row \in Rows
      BY DEF WorktreeInv, WorktreeTypes, WorktreeTypeOK
    <2>2. CASE FindPending
      BY <2>1, <2>2 DEF FindPending, RowExists
    <2>3. CASE MarkPending
      BY <2>1, <2>3 DEF MarkPending, RowExists, Rows
    <2> QED BY <2>2, <2>3 DEF Recovery
  <1>3. WorktreeTypes'
    BY <1>1, <1>2 DEF WorktreeInv, WorktreeTypes, WorktreeTypeOK, RemovalTypes
  <1>4. \A y \in Removers : AtWork(y) => AtWork(y)'
    BY <1>1 DEF AtWork
  <1>5. row' = "active" => provision' = "off"
    BY <1>1, <1>2 DEF WorktreeInv, ActiveIsProvisioned
  <1>6. /\ row' = "active" \/ (provision' = "added" /\ RowExists')
              => row = "active" \/ (provision = "added" /\ RowExists)
        /\ disk' = disk
    BY <1>1, <1>2
  <1> QED BY <1>1, <1>2, <1>3, <1>4, <1>5, <1>6, NobodyStops

\* The requests to delete: the row is marked before the job is scheduled.
LEMMA RequestKeepsInv ==
  ASSUME WorktreeInv, NEW q \in Deleters, LoadCandidate(q) \/ MarkDeleting(q)
  PROVE  WorktreeInv'
  <1>1. /\ UNCHANGED <<disk, provision, recovery, torn, boots>>
        /\ removal' = removal \/ removal' = Scheduled(removal)
    BY DEF LoadCandidate, MarkDeleting
  <1>2. /\ removal' \in [Removers -> {"off", "join", "teardown", "drop", "over"} \cup RemovalSteps]
        /\ \A y \in Evictions : removal'[y] = removal[y]
        /\ removal'["job"] \in {"off", "teardown"} \cup RemovalSteps
        /\ \A y \in Removers : removal'[y] # removal[y] => removal'[y] = "read"
        /\ \A y \in Removers : AtWork(y) => removal'[y] \notin {"off", "over"}
    <2>1. CASE removal' = removal
      BY <2>1 DEF WorktreeInv, WorktreeTypes, WorktreeTypeOK, RemovalTypes, AtWork
    <2>2. CASE removal' = Scheduled(removal)
      BY <2>2, JobIsScheduled DEF WorktreeInv
    <2> QED BY <1>1, <2>1, <2>2
  <1>3. /\ row' \in Rows
        /\ deleter' \in [Deleters -> {"off", "mark", "over"}]
        /\ row = "gone" => row' = "gone"
        /\ row' = "active" => row = "active"
        /\ RowExists' => RowExists
    <2>1. row \in Rows /\ deleter \in [Deleters -> {"off", "mark", "over"}]
      BY DEF WorktreeInv, WorktreeTypes, WorktreeTypeOK
    <2>2. CASE LoadCandidate(q)
      BY <2>1, <2>2 DEF LoadCandidate, RowExists
    <2>3. CASE MarkDeleting(q)
      BY <2>1, <2>3 DEF MarkDeleting, RowExists, Rows
    <2> QED BY <2>2, <2>3
  <1>4. WorktreeTypes'
    BY <1>1, <1>2, <1>3 DEF WorktreeInv, WorktreeTypes, WorktreeTypeOK, RemovalTypes
  <1>5. \A y \in Removers : AtWork(y) => AtWork(y)'
    BY <1>2 DEF AtWork
  <1>6. row' = "active" => provision' = "off"
    BY <1>1, <1>3 DEF WorktreeInv, ActiveIsProvisioned
  <1>7. /\ row' = "active" \/ (provision' = "added" /\ RowExists')
              => row = "active" \/ (provision = "added" /\ RowExists)
        /\ disk' = disk
    BY <1>1, <1>3
  <1>8. \A y \in Removers : removal'[y] # removal[y] => removal'[y] # "rm"
    BY <1>2
  <1> QED BY <1>1, <1>3, <1>4, <1>5, <1>6, <1>7, <1>8, NobodyStops

\* A restart: it stops all removers, and torn remembers what they left behind.
LEMMA RestartKeepsInv ==
  ASSUME WorktreeInv, RestartRuntime
  PROVE  WorktreeInv'
  <1>1. /\ provision' = "off" /\ recovery' = "creations" /\ UNCHANGED <<row, disk>>
        /\ boots' = boots + 1 /\ boots < MaxBoots
        /\ torn' = (torn \/ (row = "active" /\ disk # "present"))
        /\ removal' = [x \in Removers |-> IF x = "job" THEN "off"
                                          ELSE IF AtWork(x) THEN "over" ELSE removal[x]]
        /\ deleter' = [q \in Deleters |-> IF deleter[q] = "mark" THEN "over" ELSE deleter[q]]
    BY DEF RestartRuntime
  <1>2. \A y \in Removers : removal'[y] \in {"off", "over"}
    BY <1>1 DEF AtWork
  <1>3. removal'["job"] = "off"
    BY <1>1 DEF Removers
  <1>4. deleter' \in [Deleters -> {"off", "mark", "over"}]
    BY <1>1 DEF WorktreeInv, WorktreeTypes, WorktreeTypeOK
  <1>5. boots' \in 0..MaxBoots
    <2>1. boots \in 0..MaxBoots
      BY DEF WorktreeInv, WorktreeTypes, WorktreeTypeOK
    <2>2. MaxBoots \in Nat
      BY WorktreeAssumption
    <2> QED BY <1>1, <2>1, <2>2
  <1>6. removal' \in [Removers -> {"off", "over"}]
    BY <1>1, <1>2
  <1>7. WorktreeTypes'
    BY <1>1, <1>3, <1>4, <1>5, <1>6
    DEF WorktreeInv, WorktreeTypes, WorktreeTypeOK, RemovalTypes, Removers
  <1>8. DirectoryIsKept' /\ RowGoesFirst' /\ ActiveIsProvisioned'
    BY <1>1, <1>2 DEF DirectoryIsKept, RowGoesFirst, ActiveIsProvisioned
  <1> QED BY <1>7, <1>8 DEF WorktreeInv

\* An eviction begins: it finds the row and is at work.
LEMMA EvictKeepsInv ==
  ASSUME WorktreeInv, NEW x \in Evictions, Evict(x)
  PROVE  WorktreeInv'
  <1>1. /\ UNCHANGED <<row, disk, provision, deleter, recovery, torn, boots>>
        /\ removal[x] = "off" /\ x \in Removers /\ x # "job"
    BY WorktreeAssumption DEF Evict, Removers
  <1>2. PICK s \in {"join", "read"} : Step(x, s)
    BY DEF Evict
  <1>3. /\ RemovalTypes'
        /\ removal'[x] = s
        /\ \A y \in Removers \ {x} : removal'[y] = removal[y]
    BY <1>1, <1>2, RemoverMoves DEF WorktreeInv, WorktreeTypes, RemovalSteps
  <1>4. removal'["job"] = removal["job"]
    BY <1>1, <1>3 DEF Removers
  <1>5. \A e \in Evictions : removal'[e] \in {"off", "join", "drop", "over"} \cup RemovalSteps
    BY <1>1, <1>3 DEF WorktreeInv, WorktreeTypes, WorktreeTypeOK, Removers, RemovalSteps
  <1>6. WorktreeTypes'
    BY <1>1, <1>3, <1>4, <1>5 DEF WorktreeInv, WorktreeTypes, WorktreeTypeOK
  <1>7. \A y \in Removers : AtWork(y) => AtWork(y)'
    BY <1>1, <1>3 DEF AtWork
  <1>8. \A y \in Removers : removal'[y] # removal[y] => removal'[y] # "rm"
    BY <1>1, <1>3
  <1>9. row' = "active" => provision' = "off"
    BY <1>1 DEF WorktreeInv, ActiveIsProvisioned
  <1>10. (row' = "active" \/ (provision' = "added" /\ RowExists')
              => row = "active" \/ (provision = "added" /\ RowExists))
    BY <1>1 DEF RowExists
  <1> QED BY <1>1, <1>6, <1>7, <1>8, <1>9, <1>10, NobodyStops

\* The steps of a removal that go on.
LEMMA RemovalGoesOn ==
  ASSUME WorktreeInv, NEW x \in Removers,
         \/ JoinedEnds(x) \/ ReadWorktree(x) \/ Teardown(x)
         \/ GitRemove(x) \/ Sweep(x) \/ DeleteRow(x)
  PROVE  WorktreeInv'
  <1>1. /\ UNCHANGED <<provision, deleter, recovery, torn, boots>>
        /\ AtWork(x)
    BY DEF JoinedEnds, ReadWorktree, Teardown, GitRemove, Sweep, DeleteRow, AtWork
  <1>2. /\ row \in Rows /\ disk \in {"absent", "partial", "present"} /\ torn \in BOOLEAN
        /\ x # "job" => removal[x] # "teardown"
        /\ x = "job" => removal[x] # "join"
    BY DEF WorktreeInv, WorktreeTypes, WorktreeTypeOK, Removers, RemovalSteps
  <1>3. PICK s \in {"teardown", "drop"} \cup RemovalSteps :
               /\ Step(x, s)
               /\ x = "job" => s # "drop"
               /\ x # "job" => s # "teardown"
               /\ s = "rm" => row' = "gone"
               /\ row' = row \/ (RowExists /\ row' = "gone")
               /\ disk' \in {"absent", "partial", "present"}
    <2>1. CASE JoinedEnds(x)
      BY <2>1, <1>2 DEF JoinedEnds
    <2>2. CASE ReadWorktree(x) \/ Teardown(x)
      BY <2>2, <1>2 DEF ReadWorktree, Teardown, RemovalSteps
    <2>3. CASE GitRemove(x)
      BY <2>3, <1>2 DEF GitRemove, RemovalSteps
    <2>4. CASE Sweep(x) \/ DeleteRow(x)
      BY <2>4, <1>2 DEF Sweep, DeleteRow, RemovalSteps
    <2> QED BY <2>1, <2>2, <2>3, <2>4
  <1>4. row' \in Rows /\ torn' \in BOOLEAN
    BY <1>1, <1>2, <1>3 DEF Rows
  <1>5. WorktreeTypes'
    <2>1. WorktreeTypes
      BY DEF WorktreeInv
    <2>2. s \notin {"over"}
      BY <1>3 DEF RemovalSteps
    <2>3. s \in {"teardown", "off", "drop", "over"} \cup RemovalSteps
      OBVIOUS
    <2> QED BY <1>1, <1>3, <1>4, <2>1, <2>2, <2>3, RemoverKeepsType
  <1>6. /\ removal'[x] = s
        /\ \A y \in Removers \ {x} : removal'[y] = removal[y]
    BY <1>3, RemoverMoves DEF WorktreeInv, WorktreeTypes
  <1>7. AtWork(x)'
    BY <1>6 DEF AtWork, RemovalSteps
  <1>8. DirectoryIsKept'
    BY <1>7 DEF DirectoryIsKept
  <1>9. RowGoesFirst'
    BY <1>3, <1>6 DEF WorktreeInv, RowGoesFirst
  <1>10. ActiveIsProvisioned'
    BY <1>1, <1>3 DEF WorktreeInv, ActiveIsProvisioned
  <1> QED BY <1>5, <1>8, <1>9, <1>10 DEF WorktreeInv

\* The steps that end one: the row is gone, the failure is on the row of an active
\* worktree, or torn remembers it.
LEMMA RemovalEnds ==
  ASSUME WorktreeInv, NEW x \in Removers,
         RemoveDirectory(x) \/ RemovalFails(x) \/ DropRepository(x)
  PROVE  WorktreeInv'
  <1>1. UNCHANGED <<provision, deleter, recovery, boots>>
    BY DEF RemoveDirectory, RemovalFails, DropRepository
  <1>2. /\ row \in Rows /\ disk \in {"absent", "partial", "present"} /\ torn \in BOOLEAN
        /\ x = "job" => removal[x] # "drop"
    BY DEF WorktreeInv, WorktreeTypes, WorktreeTypeOK, Removers, RemovalSteps
  <1>3. PICK s \in {"off", "drop", "over"} :
               /\ Step(x, s)
               /\ x = "job" => s = "off"
               /\ \/ RemoveDirectory(x) /\ row' = row /\ row = "gone"
                  \/ DropRepository(x) /\ row' = "gone"
                  \/ RemovalFails(x) /\ s = "drop" /\ row' = row
                  \/ RemovalFails(x) /\ s = "off"
                      /\ row' = IF RowExists THEN "delete_failed" ELSE row
    <2>1. CASE RemoveDirectory(x)
      BY <2>1 DEF RemoveDirectory, WorktreeInv, RowGoesFirst
    <2>2. CASE RemovalFails(x)
      BY <2>2 DEF RemovalFails
    <2>3. CASE DropRepository(x)
      BY <2>3, <1>2 DEF DropRepository
    <2> QED BY <2>1, <2>2, <2>3
  <1>4. /\ row' \in Rows /\ torn' \in BOOLEAN /\ disk' \in {"absent", "partial", "present"}
        /\ row' = "active" => row = "active"
        /\ row = "gone" => row' = "gone"
        /\ torn => torn'
    <2>1. CASE RemoveDirectory(x)
      BY <1>2, <2>1 DEF RemoveDirectory
    <2>2. CASE RemovalFails(x)
      BY <1>2, <2>2 DEF RemovalFails, Rows, RowExists
    <2>3. CASE DropRepository(x)
      BY <1>2, <2>3 DEF DropRepository, Rows
    <2> QED BY <2>1, <2>2, <2>3
  <1>5. WorktreeTypes'
    <2>1. WorktreeTypes
      BY DEF WorktreeInv
    <2>2. s \in {"teardown", "off", "drop", "over"} \cup RemovalSteps
      OBVIOUS
    <2> QED BY <1>1, <1>3, <1>4, <2>1, <2>2, RemoverKeepsType
  <1>6. /\ removal'[x] = s
        /\ \A y \in Removers \ {x} : removal'[y] = removal[y]
    <2>1. s \in {"off", "join", "teardown", "drop", "over"} \cup RemovalSteps
      OBVIOUS
    <2> QED BY <1>3, <2>1, RemoverMoves DEF WorktreeInv, WorktreeTypes
  <1>7. DirectoryIsKept'
    <2>1. CASE row' = "gone"
      BY <2>1 DEF DirectoryIsKept, RowExists
    <2>2. CASE s = "drop"
      BY <2>2, <1>6 DEF DirectoryIsKept, AtWork
    <2>3. CASE RemovalFails(x) /\ s = "off" /\ row' # "gone"
      <3>1. row' # "active"
        BY <1>3, <1>2, <2>3 DEF RowExists, RemovalFails, DropRepository, RemoveDirectory
      <3>2. disk' = disk /\ torn' = (torn \/ (provision = "added" /\ disk # "present"))
        BY <2>3 DEF RemovalFails
      <3> QED BY <1>1, <3>1, <3>2 DEF DirectoryIsKept
    <2> QED BY <1>3, <2>1, <2>2, <2>3
  <1>8. RowGoesFirst'
    BY <1>4, <1>6 DEF WorktreeInv, RowGoesFirst
  <1>9. ActiveIsProvisioned'
    BY <1>1, <1>4 DEF WorktreeInv, ActiveIsProvisioned
  <1> QED BY <1>5, <1>7, <1>8, <1>9 DEF WorktreeInv

\* Every step of the worktree keeps the invariant.
LEMMA WorktreeInvNext == WorktreeInv /\ [WorktreeNext]_worktreeVars => WorktreeInv'
  <1> SUFFICES ASSUME WorktreeInv, [WorktreeNext]_worktreeVars
               PROVE  WorktreeInv'
    OBVIOUS
  <1>1. CASE CreateWorktree \/ Provisioning
    BY <1>1, ProvisioningKeepsInv
  <1>2. CASE Recovery
    BY <1>2, RecoveryKeepsInv
  <1>3. CASE RestartRuntime
    BY <1>3, RestartKeepsInv
  <1>4. CASE \E q \in Deleters : LoadCandidate(q) \/ MarkDeleting(q)
    BY <1>4, RequestKeepsInv
  <1>5. CASE \E x \in Evictions : Evict(x)
    BY <1>5, EvictKeepsInv
  <1>6. CASE \E x \in Removers : Removal(x)
    BY <1>6, RemovalGoesOn, RemovalEnds DEF Removal
  <1>7. CASE UNCHANGED worktreeVars
    BY ZenonT(60), <1>7
    DEF worktreeVars, WorktreeInv, WorktreeTypes, WorktreeTypeOK, RemovalTypes,
        DirectoryIsKept, RowGoesFirst, ActiveIsProvisioned, RowExists, AtWork
  <1> QED BY <1>1, <1>2, <1>3, <1>4, <1>5, <1>6, <1>7 DEF WorktreeNext

\* The invariant gives the types and the property of the worktree.
LEMMA WorktreeInvMeans == WorktreeInv => WorktreeTypeOK /\ UsableHasDirectory
  BY DEF WorktreeInv, WorktreeTypes, DirectoryIsKept, UsableHasDirectory

\* However requests to delete, the deletion of the repository, provisioning, recovery and
\* restarts overlap, a worktree that is offered for use has its directory
\* (worktreeService.ts:283, worktreeDeletionService.ts:65).
THEOREM WorktreesHold == WorktreeSpec => [](WorktreeTypeOK /\ UsableHasDirectory)
  BY WorktreeInvInit, WorktreeInvNext, WorktreeInvMeans, PTL DEF WorktreeSpec

(***************************************************************************)
(* The streams of devices.  A bridge belongs to one request and is ready   *)
(* exactly while that request has its session; a request that found its    *)
(* device free when it was made has none before it that still serves it.   *)
(***************************************************************************)

\* A request that has not been made, or that has never looked for its device ...
IdleStarts == [step : {"off", "joined", "failed"}]

\* ... and one that has.
Requests == [step : {"looking", "preparing", "started", "failed"}, device : Devices,
             by : Watchers, alone : BOOLEAN]

StreamTypes ==
    /\ sessions \subseteq Starts
    /\ start \in [Starts -> IdleStarts \cup Requests]
    /\ bridge \in [Starts -> {"none", "starting", "ready", "ended"}]

\* A bridge belongs to the request for a simulator that started it.  It is ready as long
\* as the request has its session, which is when the video may be received.
BridgesServe ==
    /\ \A s \in sessions : start[s].step = "started"
    /\ \A s \in Starts :
          /\ bridge[s] = "ready" <=> (s \in sessions /\ start[s].device \in Simulators)
          /\ bridge[s] = "starting" <=> (start[s].step = "preparing" /\ start[s].device \in Simulators)
          /\ bridge[s] # "none" => start[s] \in Requests /\ start[s].device \in Simulators
    /\ attached \subseteq {s \in Starts : bridge[s] = "ready"}

\* Requests are made one after the other.
MadeInOrder == \A r, s \in Starts : r < s /\ start[s].step # "off" => start[r].step # "off"

\* A request that found no other one under way for its device keeps the device to itself:
\* those made before have no session, and will have none.
LoneRequest(r, s) == r < s /\ {start[r], start[s]} \subseteq Requests
                       /\ start[r].device = start[s].device /\ start[s].alone

AloneIsFirst ==
    \A r, s \in Starts : LoneRequest(r, s)
        => r \notin sessions /\ start[r].step \notin {"looking", "preparing"}

StreamsInv == StreamTypes /\ BridgesServe /\ MadeInOrder /\ AloneIsFirst

\* The inventory and what the clients are told of it.  No more streams were left behind
\* than were lost.
InventoryTypes ==
    /\ here \subseteq Devices /\ remembered \subseteq Phones
    /\ refresh \in [busy : BOOLEAN, seen : SUBSET Devices, emits : BOOLEAN]
    /\ wire \in [Watchers -> SUBSET SUBSET Starts]
    /\ listed \in [Watchers -> SUBSET Starts]
    /\ due \subseteq [to : Watchers, kind : {"started", "stopped"}, session : Starts]
    /\ answers \subseteq [to : Watchers, kind : {"started", "stopped"}, session : Starts]
    /\ moves \in 0..MaxMoves

WatchInv ==
    /\ polling \in BOOLEAN
    /\ watcher \in [Watchers -> {"off", "asked", "open"}]
    /\ Listening # {} => polling
    /\ strays \in [asked : Nat, open : Nat] /\ dropped \in 0..MaxDrops
    /\ strays.asked + strays.open <= dropped

DevicesInv == StreamsInv /\ InventoryTypes /\ WatchInv

\* A request that is under way or has been served has looked for its device.
LEMMA AtWorkIsRequest ==
  ASSUME StreamTypes, NEW s \in Starts, start[s].step \in {"looking", "preparing", "started"}
  PROVE  start[s] \in Requests
  BY DEF StreamTypes, IdleStarts

\* The invariant gives the types and the properties of the streams.
LEMMA DevicesInvMeans == DevicesInv => DevicesTypeOK /\ DevicesAreSound
  <1> SUFFICES ASSUME DevicesInv PROVE DevicesTypeOK /\ DevicesAreSound
    OBVIOUS
  <1>1. \A s \in Starts : /\ start[s].step \in {"off", "joined", "looking", "preparing",
                                                "started", "failed"}
                          /\ bridge[s] \in {"none", "starting", "ready", "ended"}
    BY DEF DevicesInv, StreamsInv, StreamTypes, IdleStarts, Requests
  <1>2. attached \subseteq sessions /\ sessions \subseteq {s \in Starts : start[s].step = "started"}
    BY DEF DevicesInv, StreamsInv, StreamTypes, BridgesServe
  <1>3. strays \in [asked : 0..MaxDrops, open : 0..MaxDrops] /\ dropped \in 0..MaxDrops
    BY DeviceAssumption DEF DevicesInv, WatchInv
  <1>4. DevicesTypeOK
    BY <1>1, <1>2, <1>3, DeviceAssumption
    DEF DevicesInv, InventoryTypes, WatchInv, DevicesTypeOK, Devices
  <1>5. \A s, t \in sessions : s < t /\ start[s].device = start[t].device => ~start[t].alone
    <2> SUFFICES ASSUME NEW s \in sessions, NEW t \in sessions, s < t,
                        start[s].device = start[t].device, start[t].alone
                 PROVE  FALSE
      OBVIOUS
    <2>1. s \in Starts /\ t \in Starts /\ {start[s], start[t]} \subseteq Requests
      BY AtWorkIsRequest DEF DevicesInv, StreamsInv, StreamTypes, BridgesServe
    <2> QED BY <2>1 DEF DevicesInv, StreamsInv, AloneIsFirst, LoneRequest
  <1>6. DevicesAreSound
    BY <1>2, <1>5 DEF DevicesInv, StreamsInv, BridgesServe, WatchInv, DevicesAreSound
  <1> QED BY <1>4, <1>6

\* It holds at the start, whatever has been tried before.
LEMMA DevicesInvFrom ==
  ASSUME NEW tried \in Nat, NEW moved \in 0..MaxMoves, NEW lost \in 0..MaxDrops,
         here \subseteq Devices, DevicesFrom(tried, moved, lost)
  PROVE  DevicesInv
  <1>1. /\ start = [s \in Starts |-> [step |-> IF s <= tried THEN "failed" ELSE "off"]]
        /\ bridge = [s \in Starts |-> "none"] /\ refresh = NoRefresh /\ polling = FALSE
        /\ remembered = {} /\ sessions = {} /\ attached = {}
        /\ watcher = [w \in Watchers |-> "off"] /\ strays = [asked |-> 0, open |-> 0]
        /\ wire = [w \in Watchers |-> {}] /\ due = {} /\ answers = {}
        /\ listed = [w \in Watchers |-> {}] /\ moves = moved /\ dropped = lost
    BY DEF DevicesFrom
  <1>2. StreamTypes
    BY <1>1 DEF StreamTypes, IdleStarts
  <1>3. BridgesServe
    <2>1. \A s \in Starts : start[s].step # "preparing" /\ bridge[s] = "none"
      BY <1>1
    <2> QED BY <1>1, <2>1 DEF BridgesServe
  <1>4. MadeInOrder
    <2> SUFFICES ASSUME NEW r \in Starts, NEW s \in Starts, r < s, start[s].step # "off"
                 PROVE  start[r].step # "off"
      BY DEF MadeInOrder
    <2>1. s <= tried
      BY <1>1
    <2>2. r <= tried
      BY <2>1 DEF Starts
    <2> QED BY <1>1, <2>2
  <1>5. AloneIsFirst
    <2>1. \A s \in Starts : start[s].step \in {"off", "failed"}
      BY <1>1
    <2> QED BY <1>1, <2>1 DEF AloneIsFirst
  <1>6. InventoryTypes
    BY <1>1 DEF InventoryTypes, NoRefresh
  <1>7. WatchInv
    <2>1. /\ Listening = {} /\ strays.asked = 0 /\ strays.open = 0
          /\ strays \in [asked : Nat, open : Nat]
      BY <1>1 DEF Listening
    <2>2. strays.asked + strays.open <= dropped
      BY <1>1, <2>1, DeviceAssumption
    <2> QED BY <1>1, <2>1, <2>2 DEF WatchInv
  <1> QED BY <1>2, <1>3, <1>4, <1>5, <1>6, <1>7 DEF DevicesInv, StreamsInv

\* So it does when the runtime starts.
LEMMA DevicesInvInit == DevicesInit => DevicesInv
  <1> SUFFICES ASSUME DevicesInit PROVE DevicesInv
    OBVIOUS
  <1>1. [s \in Starts |-> [step |-> "off"]]
          = [s \in Starts |-> [step |-> IF s <= 0 THEN "failed" ELSE "off"]]
    <2>1. \A s \in Starts : ~(s <= 0)
      BY DEF Starts
    <2> QED BY <2>1
  <1>2. DevicesFrom(0, 0, 0)
    BY <1>1 DEF DevicesInit, DevicesFrom
  <1>3. here \subseteq Devices /\ 0 \in 0..MaxMoves /\ 0 \in 0..MaxDrops
    BY DeviceAssumption DEF DevicesInit
  <1> QED BY <1>2, <1>3, DevicesInvFrom

\* A step that leaves the sessions, requests and processes alone.
LEMMA StreamsStay ==
  ASSUME StreamsInv, UNCHANGED <<sessions, start, bridge, attached>>
  PROVE  StreamsInv'
  <1>1. StreamTypes'
    BY DEF StreamsInv, StreamTypes
  <1>2. BridgesServe'
    BY DEF StreamsInv, BridgesServe
  <1>3. MadeInOrder'
    BY DEF StreamsInv, MadeInOrder
  <1>4. AloneIsFirst'
    BY DEF StreamsInv, AloneIsFirst, LoneRequest
  <1> QED BY <1>1, <1>2, <1>3, <1>4 DEF StreamsInv

\* A refresh that begins or is joined.
LEMMA JoinTypes ==
  ASSUME InventoryTypes, NEW e \in BOOLEAN, Join(e)
  PROVE  refresh' \in [busy : BOOLEAN, seen : SUBSET Devices, emits : BOOLEAN]
  <1>1. CASE refresh.busy
    <2>1. refresh' = [refresh EXCEPT !.emits = refresh.emits \/ e]
      BY <1>1 DEF Join
    <2>2. (refresh.emits \/ e) \in BOOLEAN
      OBVIOUS
    <2> DEFINE b == refresh.emits \/ e
    <2>3. refresh' = [refresh EXCEPT !.emits = b] /\ b \in BOOLEAN
      BY <2>1, <2>2
    <2> HIDE DEF b
    <2> QED BY <2>3 DEF InventoryTypes
  <1>2. CASE ~refresh.busy
    <2>1. refresh' = [busy |-> TRUE, seen |-> here, emits |-> e]
      BY <1>2 DEF Join
    <2> QED BY <2>1 DEF InventoryTypes
  <1> QED BY <1>1, <1>2

\* Streams end: the sessions of some phones, or that of a simulator with its bridge and
\* its video.
LEMMA StreamsEnd ==
  ASSUME StreamsInv, NEW ended \in SUBSET sessions,
         sessions' = sessions \ ended, start' = start,
         attached' = attached \ ended,
         bridge' = [s \in Starts |-> IF s \in ended /\ bridge[s] = "ready" THEN "ended" ELSE bridge[s]]
  PROVE  StreamsInv'
  <1>1. StreamTypes'
    BY DEF StreamsInv, StreamTypes
  <1>2. \A s \in Starts : /\ s \in sessions' <=> s \in sessions /\ s \notin ended
                          /\ bridge'[s] = IF s \in ended /\ bridge[s] = "ready" THEN "ended"
                                          ELSE bridge[s]
    BY DEF StreamsInv, StreamTypes
  <1>3. BridgesServe'
    BY <1>2 DEF StreamsInv, BridgesServe
  <1>4. MadeInOrder' /\ AloneIsFirst'
    BY DEF StreamsInv, MadeInOrder, AloneIsFirst, LoneRequest
  <1> QED BY <1>1, <1>3, <1>4 DEF StreamsInv

\* Requests go on to their next steps, or fail; those that begin to prepare a simulator
\* start its bridge.
LEMMA RefreshKeepsStreams ==
  ASSUME DevicesInv, RefreshEnds
  PROVE  StreamsInv'
  <1> DEFINE present == refresh.seen \cup remembered'
             looking == {s \in Starts : start[s].step = "looking"}
             found   == {s \in looking : start[s].device \in present}
  <1>1. PICK stale \in SUBSET {s \in sessions : start[s].device \in Phones \ present} :
               sessions' = sessions \ stale
    BY DEF RefreshEnds
  <1>2. /\ start' = [s \in Starts |->
                  IF s \notin looking THEN start[s]
                  ELSE [start[s] EXCEPT !.step = IF s \in found THEN "preparing" ELSE "failed"]]
        /\ bridge' = [s \in Starts |->
                  IF s \in found /\ start[s].device \in Simulators THEN "starting" ELSE bridge[s]]
        /\ attached' = attached
    BY DEF RefreshEnds
  <1> HIDE DEF present
  <1>3. \A s \in Starts : s \in looking => start[s] \in Requests
    BY AtWorkIsRequest DEF DevicesInv, StreamsInv
  <1>4. \A s \in Starts :
           \/ s \notin looking /\ start'[s] = start[s]
           \/ /\ s \in looking /\ start'[s] \in Requests /\ start[s] \in Requests
              /\ start'[s].step \in {"preparing", "failed"}
              /\ start'[s].step = "preparing" <=> s \in found
              /\ start'[s].device = start[s].device /\ start'[s].alone = start[s].alone
    BY <1>2, <1>3 DEF Requests
  <1>5. StreamTypes'
    BY <1>1, <1>2, <1>4 DEF DevicesInv, StreamsInv, StreamTypes
  <1>6. \A s \in stale : start[s].device \notin Simulators
    BY DeviceAssumption
  <1>7. \A s \in sessions : s \in Starts /\ s \notin looking /\ start'[s] = start[s]
    BY <1>4 DEF DevicesInv, StreamsInv, StreamTypes, BridgesServe
  <1>8. \A s \in Starts :
           bridge'[s] = IF s \in found /\ start[s].device \in Simulators THEN "starting" ELSE bridge[s]
    BY <1>2
  <1>9. BridgesServe'
    <2>1. \A s \in sessions' : start'[s].step = "started"
      BY <1>1, <1>7 DEF DevicesInv, StreamsInv, BridgesServe
    <2>2. \A s \in Starts : s \notin looking =>
             /\ bridge'[s] = bridge[s] /\ start'[s] = start[s]
             /\ bridge[s] = "ready" => s \in sessions'
             /\ s \in sessions' => s \in sessions
      BY <1>1, <1>4, <1>6, <1>8 DEF DevicesInv, StreamsInv, BridgesServe
    <2>3. \A s \in Starts : s \in looking =>
             /\ s \notin sessions /\ s \notin sessions'
             /\ bridge[s] \notin {"ready", "starting"}
             /\ bridge[s] # "none" => start[s].device \in Simulators
      BY <1>1, <1>7 DEF DevicesInv, StreamsInv, BridgesServe, StreamTypes, Requests
    <2>4. \A s \in Starts :
             /\ bridge'[s] = "ready" <=> (s \in sessions' /\ start'[s].device \in Simulators)
             /\ bridge'[s] = "starting"
                   <=> (start'[s].step = "preparing" /\ start'[s].device \in Simulators)
             /\ bridge'[s] # "none" => start'[s] \in Requests /\ start'[s].device \in Simulators
      <3> SUFFICES ASSUME NEW s \in Starts
                   PROVE
             /\ bridge'[s] = "ready" <=> (s \in sessions' /\ start'[s].device \in Simulators)
             /\ bridge'[s] = "starting"
                   <=> (start'[s].step = "preparing" /\ start'[s].device \in Simulators)
             /\ bridge'[s] # "none" => start'[s] \in Requests /\ start'[s].device \in Simulators
        OBVIOUS
      <3>1. CASE s \notin looking
        BY <2>2, <3>1 DEF DevicesInv, StreamsInv, BridgesServe
      <3>2. CASE s \in looking
        BY <1>4, <1>8, <2>3, <3>2
      <3> QED BY <3>1, <3>2
    <2>5. attached' \subseteq {s \in Starts : bridge'[s] = "ready"}
      BY <1>2, <2>2, <2>3 DEF DevicesInv, StreamsInv, BridgesServe
    <2> QED BY <2>1, <2>4, <2>5 DEF BridgesServe
  <1>10. \A s \in Starts : start'[s].step # "off" <=> start[s].step # "off"
    BY <1>4
  <1>11. MadeInOrder'
    BY <1>10 DEF DevicesInv, StreamsInv, MadeInOrder
  <1>12. AloneIsFirst'
    <2>1. \A s \in Starts : s \in looking => start[s].step = "looking"
      OBVIOUS
    <2> HIDE DEF looking, found
    <2> SUFFICES ASSUME NEW r \in Starts, NEW s \in Starts, LoneRequest(r, s)'
                 PROVE  r \notin sessions' /\ start'[r].step \notin {"looking", "preparing"}
      BY DEF AloneIsFirst
    <2>2. LoneRequest(r, s)
      BY <1>4 DEF LoneRequest
    <2>3. r \notin sessions /\ start[r].step \notin {"looking", "preparing"}
      BY <2>2 DEF DevicesInv, StreamsInv, AloneIsFirst
    <2> QED BY <1>1, <1>4, <2>1, <2>3
  <1> QED BY <1>5, <1>9, <1>11, <1>12 DEF StreamsInv

\* A request that is made after all others, and has nobody beside it if it is alone.
LEMMA StartKeepsStreams ==
  ASSUME DevicesInv, NEW w \in Requesters, NEW d \in Devices, StartStream(w, d)
  PROVE  StreamsInv'
  <1> DEFINE lone == \A r \in Starts : start[r].step \in {"looking", "preparing"}
                                          => start[r].device # d
             request == [step |-> "looking", device |-> d, by |-> w, alone |-> lone]
  <1>1. PICK s \in Starts :
          /\ start[s].step = "off" /\ \A r \in 1..s - 1 : start[r].step # "off"
          /\ IF Of(d) # {} THEN start' = [start EXCEPT ![s] = [step |-> "joined"]]
                          ELSE start' = [start EXCEPT ![s] = request]
    BY DEF StartStream
  <1>0. lone \in BOOLEAN
    OBVIOUS
  <1>12. lone => \A r \in Starts : start[r].step \in {"looking", "preparing"}
                                       => start[r].device # d
    OBVIOUS
  <1> HIDE DEF lone
  <1>13. /\ request \in Requests /\ request.step = "looking" /\ request.device = d
         /\ request.alone = lone
    BY <1>0, DeviceAssumption DEF Requests
  <1> HIDE DEF request
  <1>2. UNCHANGED <<sessions, bridge, attached>>
    BY DEF StartStream
  <1>3. StreamTypes /\ BridgesServe /\ MadeInOrder /\ AloneIsFirst
    BY DEF DevicesInv, StreamsInv
  <1>4. /\ s \notin sessions /\ bridge[s] = "none"
        /\ start[s].step = "off"
    BY <1>1, <1>3 DEF BridgesServe, StreamTypes, Requests
  <1>5. /\ start' \in [Starts -> IdleStarts \cup Requests]
        /\ \A r \in Starts \ {s} : start'[r] = start[r]
        /\ start'[s].step \in {"joined", "looking"}
        /\ start'[s] \in Requests => Of(d) = {} /\ start'[s] = request
    <2>1. CASE Of(d) # {}
      <3>1. start' = [start EXCEPT ![s] = [step |-> "joined"]]
        BY <1>1, <2>1
      <3> QED BY <1>3, <2>1, <3>1 DEF StreamTypes, IdleStarts, Requests
    <2>2. CASE Of(d) = {}
      <3>1. start' = [start EXCEPT ![s] = request]
        BY <1>1, <2>2
      <3> QED BY <1>3, <1>13, <2>2, <3>1 DEF StreamTypes
    <2> QED BY <2>1, <2>2
  <1>6. StreamTypes'
    BY <1>2, <1>3, <1>5 DEF StreamTypes
  <1>7. BridgesServe'
    <2>1. \A r \in Starts \ {s} :
          /\ bridge'[r] = "ready" <=> (r \in sessions' /\ start'[r].device \in Simulators)
          /\ bridge'[r] = "starting"
                <=> (start'[r].step = "preparing" /\ start'[r].device \in Simulators)
          /\ bridge'[r] # "none" => start'[r] \in Requests /\ start'[r].device \in Simulators
      BY <1>2, <1>3, <1>5 DEF BridgesServe
    <2>2. bridge'[s] = "none" /\ s \notin sessions' /\ start'[s].step # "preparing"
      BY <1>2, <1>4, <1>5
    <2>3. \A r \in sessions' : start'[r].step = "started"
      BY <1>2, <1>3, <1>4, <1>5 DEF BridgesServe, StreamTypes
    <2>4. attached' \subseteq {r \in Starts : bridge'[r] = "ready"}
      BY <1>2, <1>3 DEF BridgesServe
    <2> QED BY <2>1, <2>2, <2>3, <2>4 DEF BridgesServe
  <1>8. \A r \in Starts : r < s => start[r].step # "off"
    <2> SUFFICES ASSUME NEW r \in Starts, r < s PROVE start[r].step # "off"
      OBVIOUS
    <2>1. r \in 1..s - 1
      BY DEF Starts
    <2> QED BY <1>1, <2>1
  <1>9. MadeInOrder'
    BY <1>3, <1>5, <1>8 DEF MadeInOrder
  <1>10. \A r \in Starts : s < r => start[r].step = "off"
    BY <1>1, <1>3 DEF MadeInOrder
  <1>11. AloneIsFirst'
    <2> SUFFICES ASSUME NEW r \in Starts, NEW t \in Starts, LoneRequest(r, t)'
                 PROVE  r \notin sessions' /\ start'[r].step \notin {"looking", "preparing"}
      BY DEF AloneIsFirst
    <2>0. r < t /\ {start'[r], start'[t]} \subseteq Requests
          /\ start'[r].device = start'[t].device /\ start'[t].alone
      BY DEF LoneRequest
    <2>1. CASE t = s
      <3>1. r # s /\ start'[r] = start[r]
        BY <1>5, <2>0, <2>1 DEF Starts
      <3>2. Of(d) = {} /\ start'[s] = request
        BY <1>5, <2>0, <2>1
      <3>3. start[r].device = d
        BY <1>13, <2>0, <2>1, <3>1, <3>2
      <3>4. \A q \in Starts : start[q].step \in {"looking", "preparing"} => start[q].device # d
        BY <1>12, <1>13, <2>0, <2>1, <3>2
      <3>5. r \notin sessions
        BY <3>2, <3>3 DEF Of
      <3> QED BY <1>2, <3>1, <3>3, <3>4, <3>5
    <2>2. CASE r = s
      <3>1. s < t /\ t # s
        BY <2>0, <2>2 DEF Starts
      <3>2. start'[t].step = "off"
        BY <1>5, <1>10, <3>1
      <3> QED BY <2>0, <3>2 DEF Requests
    <2>3. CASE r # s /\ t # s
      <3>1. LoneRequest(r, t)
        BY <1>5, <2>0, <2>3 DEF LoneRequest
      <3> QED BY <1>2, <1>3, <1>5, <2>3, <3>1 DEF AloneIsFirst
    <2> QED BY <2>1, <2>2, <2>3
  <1> QED BY <1>6, <1>7, <1>9, <1>11 DEF StreamsInv

\* A request that has prepared its stream gets a session, or fails with its process.
LEMMA PreparationKeepsStreams ==
  ASSUME StreamsInv, NEW s \in Starts, Prepared(s) \/ PreparationFails(s)
  PROVE  StreamsInv'
  <1>1. /\ start[s].step = "preparing" /\ attached' = attached
        /\ \/ /\ start' = [start EXCEPT ![s].step = "started"] /\ sessions' = sessions \cup {s}
              /\ bridge' = IF bridge[s] = "starting" THEN [bridge EXCEPT ![s] = "ready"] ELSE bridge
           \/ /\ start' = [start EXCEPT ![s].step = "failed"] /\ sessions' = sessions
              /\ bridge' = IF bridge[s] = "starting" THEN [bridge EXCEPT ![s] = "ended"] ELSE bridge
    BY DEF Prepared, PreparationFails
  <1>2. StreamTypes /\ BridgesServe /\ MadeInOrder /\ AloneIsFirst
    BY DEF StreamsInv
  <1>3. start[s] \in Requests /\ s \notin sessions
    BY <1>1, <1>2, AtWorkIsRequest DEF BridgesServe
  <1>4. /\ start' \in [Starts -> IdleStarts \cup Requests]
        /\ \A r \in Starts \ {s} : start'[r] = start[r]
        /\ start'[s] \in Requests /\ start'[s].step \in {"started", "failed"}
        /\ start'[s].device = start[s].device /\ start'[s].alone = start[s].alone
        /\ start'[s].step = "started" => sessions' = sessions \cup {s}
        /\ start'[s].step = "failed" => sessions' = sessions
    BY <1>1, <1>2, <1>3 DEF StreamTypes, Requests
  <1>5. /\ bridge' \in [Starts -> {"none", "starting", "ready", "ended"}]
        /\ \A r \in Starts \ {s} : bridge'[r] = bridge[r]
        /\ bridge[s] = "starting" => bridge'[s] = IF start'[s].step = "started" THEN "ready" ELSE "ended"
        /\ bridge[s] # "starting" => bridge'[s] = bridge[s]
    BY <1>1, <1>2, <1>3 DEF StreamTypes, Requests
  <1>6. StreamTypes'
    BY <1>1, <1>2, <1>4, <1>5 DEF StreamTypes
  <1>7. \A r \in Starts \ {s} : r \in sessions' <=> r \in sessions
    BY <1>1
  <1>8. BridgesServe'
    <2>1. \A r \in sessions' : start'[r].step = "started"
      BY <1>1, <1>2, <1>3, <1>4, <1>7 DEF BridgesServe, StreamTypes
    <2>2. attached' \subseteq {r \in Starts : bridge'[r] = "ready"}
      BY <1>1, <1>2, <1>5 DEF BridgesServe
    <2>3. /\ bridge'[s] = "ready" <=> (s \in sessions' /\ start'[s].device \in Simulators)
          /\ bridge'[s] = "starting"
                <=> (start'[s].step = "preparing" /\ start'[s].device \in Simulators)
          /\ bridge'[s] # "none" => start'[s] \in Requests /\ start'[s].device \in Simulators
      BY <1>1, <1>2, <1>3, <1>4, <1>5 DEF BridgesServe
    <2>4. \A r \in Starts \ {s} :
          /\ bridge'[r] = "ready" <=> (r \in sessions' /\ start'[r].device \in Simulators)
          /\ bridge'[r] = "starting"
                <=> (start'[r].step = "preparing" /\ start'[r].device \in Simulators)
          /\ bridge'[r] # "none" => start'[r] \in Requests /\ start'[r].device \in Simulators
      BY <1>2, <1>4, <1>5, <1>7 DEF BridgesServe
    <2> QED BY <2>1, <2>2, <2>3, <2>4 DEF BridgesServe
  <1>9. \A r \in Starts : start'[r].step # "off" <=> start[r].step # "off"
    BY <1>1, <1>4
  <1>10. MadeInOrder'
    BY <1>2, <1>9 DEF MadeInOrder
  <1>11. AloneIsFirst'
    <2> SUFFICES ASSUME NEW r \in Starts, NEW t \in Starts, LoneRequest(r, t)'
                 PROVE  r \notin sessions' /\ start'[r].step \notin {"looking", "preparing"}
      BY DEF AloneIsFirst
    <2>1. LoneRequest(r, t)
      BY <1>3, <1>4 DEF LoneRequest
    <2>2. r \notin sessions /\ start[r].step \notin {"looking", "preparing"}
      BY <1>2, <2>1 DEF AloneIsFirst
    <2>3. r # s
      BY <1>1, <2>2
    <2> QED BY <1>4, <1>7, <2>2, <2>3
  <1> QED BY <1>6, <1>8, <1>10, <1>11 DEF StreamsInv

\* The exit of a bridge and the end of a stream take the session and the video along.
LEMMA EndKeepsStreams ==
  ASSUME StreamsInv, NEW w, NEW s \in Starts, BridgeExits(s) \/ StopStream(w, s)
  PROVE  StreamsInv'
  <1>1. /\ s \in sessions
        /\ bridge' = IF bridge[s] = "ready" THEN [bridge EXCEPT ![s] = "ended"] ELSE bridge
        /\ sessions' = sessions \ {s} /\ attached' = attached \ {s} /\ start' = start
    BY DEF BridgeExits, StopStream, StreamsInv, BridgesServe
  <1>2. bridge' = [r \in Starts |-> IF r \in {s} /\ bridge[r] = "ready" THEN "ended" ELSE bridge[r]]
    BY <1>1 DEF StreamsInv, StreamTypes
  <1> QED BY <1>1, <1>2, StreamsEnd

\* Video is attached to a session whose bridge is ready.
LEMMA AttachKeepsStreams ==
  ASSUME StreamsInv, NEW s \in Starts, AttachVideo(s)
  PROVE  StreamsInv'
  <1>1. /\ UNCHANGED <<sessions, start, bridge>> /\ s \in sessions /\ bridge[s] # "none"
        /\ attached' = attached \cup {s} \/ attached' = attached \ {s}
    BY DEF AttachVideo
  <1>2. bridge[s] = "ready"
    BY <1>1 DEF StreamsInv, BridgesServe
  <1>3. StreamTypes' /\ MadeInOrder' /\ AloneIsFirst'
    BY <1>1 DEF StreamsInv, StreamTypes, MadeInOrder, AloneIsFirst, LoneRequest
  <1>4. BridgesServe'
    BY <1>1, <1>2 DEF StreamsInv, BridgesServe
  <1> QED BY <1>3, <1>4 DEF StreamsInv

\* The answers that are due are to those who asked.
LEMMA AnswersAreTyped ==
  ASSUME NEW w \in Watchers, NEW s \in Starts, NEW kind \in {"started", "stopped"}
  PROVE  Answer(w, kind, s) \in [to : Watchers, kind : {"started", "stopped"}, session : Starts]
  BY DEF Answer

\* The end of a refresh is told to those who listen, those whose request awaits it are
\* answered, and clients that left meanwhile are listened to all the same.
LEMMA RefreshKeepsRest ==
  ASSUME DevicesInv, RefreshEnds
  PROVE  InventoryTypes' /\ WatchInv'
  <1>1. PICK expired \in SUBSET (remembered \ refresh.seen) :
               remembered' = (remembered \ expired) \cup (refresh.seen \cap Phones)
    BY DEF RefreshEnds
  <1>2. sessions' \subseteq Starts
    BY RefreshKeepsStreams DEF StreamsInv, StreamTypes
  <1>3. /\ refresh' = NoRefresh /\ answers' = answers \cup due /\ due' = {}
        /\ UNCHANGED <<here, listed, moves, dropped>>
        /\ wire' = [w \in Watchers |->
                  IF watcher[w] = "asked" \/ (refresh.emits /\ w \in Listening) THEN {sessions'}
                  ELSE wire[w]]
        /\ watcher' = [w \in Watchers |-> IF watcher[w] = "asked" THEN "open" ELSE watcher[w]]
        /\ strays' = [asked |-> 0, open |-> strays.open + strays.asked]
        /\ polling' = (polling \/ strays.asked > 0 \/ \E w \in Watchers : watcher[w] = "asked")
    BY DEF RefreshEnds
  <1>4. wire' \in [Watchers -> SUBSET SUBSET Starts]
    BY <1>2, <1>3 DEF DevicesInv, InventoryTypes
  <1>5. InventoryTypes'
    BY <1>1, <1>3, <1>4 DEF DevicesInv, InventoryTypes, NoRefresh
  <1>6. watcher' \in [Watchers -> {"off", "asked", "open"}]
    BY <1>3 DEF DevicesInv, WatchInv
  <1>7. Listening' # {} => polling'
    BY <1>3 DEF DevicesInv, WatchInv, Listening
  <1>8. /\ strays' \in [asked : Nat, open : Nat] /\ dropped' \in 0..MaxDrops
        /\ strays'.asked + strays'.open <= dropped'
    <2>1. /\ strays.asked \in Nat /\ strays.open \in Nat /\ dropped' = dropped
          /\ strays.asked + strays.open <= dropped /\ dropped \in 0..MaxDrops
      BY <1>3 DEF DevicesInv, WatchInv
    <2>2. strays'.asked = 0 /\ strays'.open = strays.open + strays.asked
      BY <1>3
    <2>3. strays.open + strays.asked \in Nat
      BY <2>1
    <2> QED BY <1>3, <2>1, <2>2, <2>3
  <1>9. polling' \in BOOLEAN
    BY <1>3
  <1> QED BY <1>5, <1>6, <1>7, <1>8, <1>9 DEF WatchInv

\* The other steps that leave the clients' streams as they are.
LEMMA WatchersStay ==
  ASSUME WatchInv, UNCHANGED <<watcher, strays, dropped>>, polling' = polling \/ polling' = TRUE
  PROVE  WatchInv'
  <1>1. Listening' = Listening
    BY DEF Listening
  <1> QED BY <1>1 DEF WatchInv

\* The steps of the streams tell the inventory no more than it may know.
LEMMA StepKeepsRest ==
  ASSUME DevicesInv,
         \/ Poll
         \/ \E d \in Devices : DeviceMoves(d) \/ \E w \in Requesters : StartStream(w, d)
         \/ \E s \in Starts : Prepared(s) \/ PreparationFails(s) \/ BridgeExits(s) \/ AttachVideo(s)
         \/ \E w \in Requesters, s \in Starts : StopStream(w, s)
  PROVE  InventoryTypes' /\ WatchInv'
  <1>1. InventoryTypes /\ WatchInv /\ StreamsInv /\ Requesters \subseteq Watchers
    BY DeviceAssumption DEF DevicesInv
  <1>2. CASE Poll
    <2>1. Join(TRUE) /\ UNCHANGED <<here, remembered, wire, due, answers, listed, moves>>
      BY <1>2 DEF Poll
    <2>2. InventoryTypes'
      BY <1>1, <2>1, JoinTypes DEF InventoryTypes
    <2> QED BY <1>1, <1>2, <2>2, WatchersStay DEF Poll
  <1>3. ASSUME NEW d \in Devices, DeviceMoves(d)
        PROVE  InventoryTypes' /\ WatchInv'
    <2>1. moves' \in 0..MaxMoves
      <3>1. moves \in 0..MaxMoves /\ MaxMoves \in Nat
        BY <1>1, DeviceAssumption DEF InventoryTypes
      <3> QED BY <1>3, <3>1 DEF DeviceMoves
    <2>2. InventoryTypes'
      BY <1>1, <1>3, <2>1 DEF DeviceMoves, InventoryTypes
    <2> QED BY <1>1, <1>3, <2>2, WatchersStay DEF DeviceMoves
  <1>4. ASSUME NEW d \in Devices, NEW w \in Requesters, StartStream(w, d)
        PROVE  InventoryTypes' /\ WatchInv'
    <2>1. UNCHANGED <<here, remembered, wire, due, listed, moves>>
      BY <1>4 DEF StartStream
    <2>2. \/ /\ refresh' = refresh
             /\ \E t \in Of(d) : answers' = answers \cup {Answer(w, "started", t)}
          \/ Join(FALSE) /\ answers' = answers
      BY <1>4 DEF StartStream
    <2>3. Of(d) \subseteq Starts
      BY <1>1 DEF Of, StreamsInv, StreamTypes
    <2>4. answers' \subseteq [to : Watchers, kind : {"started", "stopped"}, session : Starts]
      <3>1. CASE answers' = answers
        BY <1>1, <3>1 DEF InventoryTypes
      <3>2. ASSUME NEW t \in Of(d), answers' = answers \cup {Answer(w, "started", t)}
            PROVE  answers' \subseteq [to : Watchers, kind : {"started", "stopped"},
                                       session : Starts]
        <4>1. Answer(w, "started", t) \in [to : Watchers, kind : {"started", "stopped"},
                                            session : Starts]
          BY <1>1, <2>3, AnswersAreTyped
        <4> QED BY <1>1, <3>2, <4>1 DEF InventoryTypes
      <3> QED BY <2>2, <3>1, <3>2
    <2>5. refresh' \in [busy : BOOLEAN, seen : SUBSET Devices, emits : BOOLEAN]
      BY <1>1, <2>2, JoinTypes DEF InventoryTypes
    <2>6. InventoryTypes'
      BY <1>1, <2>1, <2>4, <2>5 DEF InventoryTypes
    <2> QED BY <1>1, <1>4, <2>6, WatchersStay DEF StartStream
  <1>5. ASSUME NEW s \in Starts, Prepared(s)
        PROVE  InventoryTypes' /\ WatchInv'
    <2>1. /\ UNCHANGED <<here, remembered, wire, answers, listed, moves>>
          /\ due' = due \cup {Answer(start[s].by, "started", s)} /\ Join(TRUE)
          /\ start[s].step = "preparing"
      BY <1>5 DEF Prepared
    <2>2. start[s].by \in Watchers
      BY <1>1, <2>1, AtWorkIsRequest DEF StreamsInv, Requests
    <2>3. InventoryTypes'
      BY ZenonT(60), <1>1, <2>1, <2>2, JoinTypes, AnswersAreTyped DEF InventoryTypes
    <2> QED BY <1>1, <1>5, <2>3, WatchersStay DEF Prepared
  <1>6. ASSUME NEW s \in Starts, PreparationFails(s) \/ AttachVideo(s)
        PROVE  InventoryTypes' /\ WatchInv'
    <2>1. UNCHANGED <<here, remembered, refresh, polling, watcher, strays, wire, due, answers,
                      listed, moves, dropped>>
      BY <1>6 DEF PreparationFails, AttachVideo
    <2>2. InventoryTypes'
      BY <1>1, <2>1 DEF InventoryTypes
    <2> QED BY <1>1, <2>1, <2>2, WatchersStay
  <1>7. ASSUME NEW s \in Starts, BridgeExits(s)
        PROVE  InventoryTypes' /\ WatchInv'
    <2>1. UNCHANGED <<here, remembered, wire, due, answers, listed, moves>> /\ Join(TRUE)
      BY <1>7 DEF BridgeExits
    <2>2. InventoryTypes'
      BY <1>1, <2>1, JoinTypes DEF InventoryTypes
    <2> QED BY <1>1, <1>7, <2>2, WatchersStay DEF BridgeExits
  <1>8. ASSUME NEW w \in Requesters, NEW s \in Starts, StopStream(w, s)
        PROVE  InventoryTypes' /\ WatchInv'
    <2>1. /\ UNCHANGED <<here, remembered, wire, answers, listed, moves>> /\ Join(TRUE)
          /\ due' = due \cup {Answer(w, "stopped", s)}
      BY <1>8 DEF StopStream
    <2>2. InventoryTypes'
      BY ZenonT(60), <1>1, <2>1, JoinTypes, AnswersAreTyped DEF InventoryTypes
    <2> QED BY <1>1, <1>8, <2>2, WatchersStay DEF StopStream
  <1> QED BY <1>2, <1>3, <1>4, <1>5, <1>6, <1>7, <1>8

\* The steps of a client's event stream: polling goes on while another one is open.
LEMMA ClientKeepsRest ==
  ASSUME DevicesInv,
         \/ \E w \in Watchers : Watch(w) \/ ConnectionLost(w) \/ Receive(w)
         \/ \E a \in answers : ReceiveAnswer(a)
  PROVE  InventoryTypes' /\ WatchInv'
  <1>1. InventoryTypes /\ WatchInv
    BY DEF DevicesInv
  <1>2. ASSUME NEW w \in Watchers, Watch(w)
        PROVE  InventoryTypes' /\ WatchInv'
    <2>1. /\ UNCHANGED <<here, remembered, wire, due, answers, listed, moves, strays, dropped>>
          /\ Join(FALSE) /\ polling' = TRUE /\ watcher' = [watcher EXCEPT ![w] = "asked"]
      BY <1>2 DEF Watch
    <2>2. InventoryTypes'
      BY <1>1, <2>1, JoinTypes DEF InventoryTypes
    <2> QED BY <1>1, <2>1, <2>2 DEF WatchInv
  <1>3. ASSUME NEW w \in Watchers, ConnectionLost(w)
        PROVE  InventoryTypes' /\ WatchInv'
    <2>1. /\ watcher[w] # "off" /\ dropped < MaxDrops /\ dropped' = dropped + 1
          /\ watcher' = [watcher EXCEPT ![w] = "off"] /\ wire' = [wire EXCEPT ![w] = {}]
          /\ UNCHANGED <<here, remembered, refresh, due, answers, listed, moves>>
      BY <1>3 DEF ConnectionLost
    <2>2. InventoryTypes'
      BY <1>1, <2>1 DEF InventoryTypes
    <2>3. /\ dropped' \in 0..MaxDrops /\ dropped' = dropped + 1 /\ dropped \in Nat
          /\ strays.asked \in Nat /\ strays.open \in Nat /\ strays.asked + strays.open <= dropped
      <3>1. dropped \in 0..MaxDrops /\ MaxDrops \in Nat
        BY <1>1, DeviceAssumption DEF WatchInv
      <3> QED BY <1>1, <2>1, <3>1 DEF WatchInv
    <2>4. Listening' = Listening \ {w}
      BY <1>1, <2>1 DEF WatchInv, Listening
    <2>5. watcher' \in [Watchers -> {"off", "asked", "open"}]
      BY <1>1, <2>1 DEF WatchInv
    <2>6. CASE watcher[w] = "asked"
      <3>1. strays' = [strays EXCEPT !.asked = strays.asked + 1] /\ polling' = polling
        BY <1>3, <2>6 DEF ConnectionLost
      <3>2. strays' \in [asked : Nat, open : Nat] /\ strays'.asked = strays.asked + 1
            /\ strays'.open = strays.open
        BY <1>1, <2>3, <3>1 DEF WatchInv
      <3>3. strays'.asked + strays'.open <= dropped'
        BY <2>3, <3>2
      <3> QED BY <1>1, <2>2, <2>3, <2>4, <2>5, <3>1, <3>2, <3>3 DEF WatchInv
    <2>7. CASE watcher[w] # "asked"
      <3>1. strays' = strays /\ polling' = StillPolling(Listening \ {w})
        BY <1>3, <2>7 DEF ConnectionLost
      <3>2. Listening' # {} => polling'
        BY <1>1, <2>4, <3>1 DEF WatchInv, StillPolling
      <3>3. polling' \in BOOLEAN
        BY <3>1 DEF StillPolling
      <3>4. strays'.asked + strays'.open <= dropped'
        BY <2>3, <3>1
      <3> QED BY <1>1, <2>2, <2>3, <2>5, <3>1, <3>2, <3>3, <3>4 DEF WatchInv
    <2> QED BY <2>6, <2>7
  <1>4. ASSUME NEW w \in Watchers, Receive(w)
        PROVE  InventoryTypes' /\ WatchInv'
    <2>1. PICK snapshot \in wire[w] : listed' = [listed EXCEPT ![w] = snapshot]
      BY <1>4 DEF Receive
    <2>2. snapshot \subseteq Starts
      BY <1>1, <2>1 DEF InventoryTypes
    <2>3. InventoryTypes'
      BY <1>1, <1>4, <2>1, <2>2 DEF Receive, InventoryTypes
    <2> QED BY <1>1, <1>4, <2>3, WatchersStay DEF Receive
  <1>5. ASSUME NEW a \in answers, ReceiveAnswer(a)
        PROVE  InventoryTypes' /\ WatchInv'
    <2>1. a.to \in Watchers /\ a.session \in Starts
      BY <1>1 DEF InventoryTypes
    <2>2. listed' = [listed EXCEPT ![a.to] = IF a.kind = "started" THEN listed[a.to] \cup {a.session}
                                             ELSE listed[a.to] \ {a.session}]
      BY <1>5 DEF ReceiveAnswer
    <2>3. listed' \in [Watchers -> SUBSET Starts]
      BY <1>1, <2>1, <2>2 DEF InventoryTypes
    <2>4. InventoryTypes'
      BY <1>1, <1>5, <2>3 DEF ReceiveAnswer, InventoryTypes
    <2> QED BY <1>1, <1>5, <2>4, WatchersStay DEF ReceiveAnswer
  <1> QED BY <1>2, <1>3, <1>4, <1>5

\* Every step of the devices keeps the invariant.
LEMMA DevicesInvNext == DevicesInv /\ [DevicesNext]_deviceVars => DevicesInv'
  <1> SUFFICES ASSUME DevicesInv, [DevicesNext]_deviceVars
               PROVE  DevicesInv'
    OBVIOUS
  <1>0. StreamsInv
    BY DEF DevicesInv
  <1>1. CASE RefreshEnds
    BY <1>1, RefreshKeepsStreams, RefreshKeepsRest DEF DevicesInv
  <1>2. CASE Poll
    <2>1. UNCHANGED <<sessions, start, bridge, attached>>
      BY <1>2 DEF Poll
    <2> QED BY <1>0, <1>2, <2>1, StreamsStay, StepKeepsRest DEF DevicesInv
  <1>3. CASE \E d \in Devices : DeviceMoves(d) \/ \E w \in Requesters : StartStream(w, d)
    <2>1. ASSUME NEW d \in Devices, DeviceMoves(d)
          PROVE  UNCHANGED <<sessions, start, bridge, attached>>
      BY <2>1 DEF DeviceMoves
    <2>2. StreamsInv'
      BY <1>0, <1>3, <2>1, StreamsStay, StartKeepsStreams
    <2> QED BY <1>3, <2>2, StepKeepsRest DEF DevicesInv
  <1>4. CASE \E s \in Starts : \/ Prepared(s) \/ PreparationFails(s)
                             \/ BridgeExits(s) \/ AttachVideo(s)
    <2>1. StreamsInv'
      BY <1>0, <1>4, PreparationKeepsStreams, EndKeepsStreams, AttachKeepsStreams
    <2> QED BY <1>4, <2>1, StepKeepsRest DEF DevicesInv
  <1>5. CASE \E w \in Requesters, s \in Starts : StopStream(w, s)
    <2>1. StreamsInv'
      BY <1>0, <1>5, EndKeepsStreams
    <2> QED BY <1>5, <2>1, StepKeepsRest DEF DevicesInv
  <1>6. CASE \/ \E w \in Watchers : Watch(w) \/ ConnectionLost(w) \/ Receive(w)
             \/ \E a \in answers : ReceiveAnswer(a)
    <2>1. UNCHANGED <<sessions, start, bridge, attached>>
      BY <1>6 DEF Watch, ConnectionLost, Receive, ReceiveAnswer
    <2> QED BY <1>0, <1>6, <2>1, StreamsStay, ClientKeepsRest DEF DevicesInv
  <1>7. CASE UNCHANGED deviceVars
    <2>1. StreamsInv'
      BY <1>0, <1>7, StreamsStay DEF deviceVars
    <2>2. InventoryTypes'
      BY <1>7 DEF deviceVars, DevicesInv, InventoryTypes
    <2>3. WatchInv'
      BY <1>7, WatchersStay DEF deviceVars, DevicesInv
    <2> QED BY <2>1, <2>2, <2>3 DEF DevicesInv
  <1> QED BY <1>1, <1>2, <1>3, <1>4, <1>5, <1>6, <1>7 DEF DevicesNext

\* The streams of devices and the processes behind them agree, for all devices, clients,
\* requests and failures (deviceService.ts:891, 1186, 1289, 1953).
THEOREM DevicesHold ==
  DevicesInit /\ [][DevicesNext]_deviceVars => [](DevicesTypeOK /\ DevicesAreSound)
  BY DevicesInvInit, DevicesInvNext, DevicesInvMeans, PTL

(***************************************************************************)
(* Terminals.  Each chunk the shell of a session has written is shown by a *)
(* client that listens, waits behind its gate, travels to it, or is part   *)
(* of the screen it is yet to be sent; that screen is sent once.           *)
(***************************************************************************)

Frames == [type : {"data", "attach", "exit"}, shell : Nat, upto : Nat]

\* A frame brings a chunk: as output, or as part of a screen.
Brings(f, g, k) ==
    /\ f.type # "exit" /\ f.shell = g
    /\ f.upto = k \/ (f.type = "attach" /\ k \in 1..f.upto)

Carries(frames, g, k) == \E i \in DOMAIN frames : Brings(frames[i], g, k)

NoScreen(frames)  == \A i \in DOMAIN frames : frames[i].type # "attach"
OneScreen(frames) ==
    \A i, j \in DOMAIN frames : frames[i].type = "attach" /\ frames[j].type = "attach" => i = j

\* What a chunk that c does not have yet waits for: the screen that c has not asked for
\* yet, or the one that is being flushed.
OnScreen(l, g, k) ==
    l.payload = "unsent" \/ (l.payload = "flushing" /\ l.of = g /\ k <= l.upto)

Known(c, g, k) ==
    \/ <<g, k>> \in client[c].shown \cup Painted(client[c].pending)
    \/ Carries(pipe[c], g, k)

\* The session and its shells: those that have not started are blank, and only the
\* session's shell runs.
SessionInv ==
    /\ workspace \in BOOLEAN /\ started \in 0..MaxShells
    /\ session \in [shell : 0..MaxShells, active : BOOLEAN, exited : BOOLEAN]
    /\ session.shell <= started
    /\ session.shell = NoShell => session = NoSession
    /\ shell \in [1..MaxShells -> [state : {"none", "running", "killed", "ended", "gone"},
                                   out : 0..MaxChunks]]
    /\ \A g \in 1..MaxShells :
          /\ g > started => shell[g].state = "none" /\ shell[g].out = 0
          /\ shell[g].state = "running" => session.shell = g /\ session.active

ClientTypes ==
    /\ line \in [Clients -> [open : BOOLEAN, payload : {"unsent", "flushing", "sent"},
                             of : 0..MaxShells, upto : Nat]]
    /\ pipe \in [Clients -> Seq(Frames)]
    /\ client \in [Clients -> [state : {"away", "off", "open", "closing", "retry"},
                               ready : BOOLEAN, restored : BOOLEAN, pending : Seq(Frames),
                               shown : SUBSET (Nat \X Nat), told : BOOLEAN]]

ViewerTypes ==
    /\ listeners \subseteq Clients /\ exitListeners \subseteq Clients
    /\ viewers \in [Kinds -> Nat] /\ sizedBy \in Clients \cup {Nobody}
    /\ miscounted \in BOOLEAN

\* The two sides of a connection agree; a screen is sent once on it, and a screen that
\* has been sent is in the pipe until it is restored.
Connected(c) ==
    /\ line[c].open <=> client[c].state \in {"open", "closing"}
    /\ ~line[c].open => line[c] = NoLine
    /\ line[c].payload # "sent" => ~client[c].restored /\ NoScreen(pipe[c])
    /\ client[c].restored => NoScreen(pipe[c])
    /\ OneScreen(pipe[c])
    /\ c \in listeners \cup exitListeners => line[c].open /\ session.shell # NoShell

\* What the session's shell has written reaches c, one way or the other.
NothingMissed(c) ==
    c \in listeners /\ client[c].state = "open"
       => \A k \in 1..shell[session.shell].out :
             Known(c, session.shell, k) \/ OnScreen(line[c], session.shell, k)

TerminalInv ==
    /\ SessionInv /\ ClientTypes /\ ViewerTypes
    /\ \A c \in Clients : Connected(c) /\ NothingMissed(c)

\* Nobody has connected at the start.
LEMMA TerminalInvFrom ==
  ASSUME workspace \in BOOLEAN, session = NoSession, started \in 0..MaxShells,
         shell \in [1..MaxShells -> [state : {"none", "gone"}, out : {0}]],
         \A g \in 1..MaxShells : g > started => shell[g].state = "none",
         listeners = {}, exitListeners = {}, viewers = [k \in Kinds |-> 0], sizedBy = Nobody,
         line = [c \in Clients |-> NoLine], pipe = [c \in Clients |-> << >>],
         client \in [Clients -> [state : {"away", "off"}, ready : {FALSE}, restored : {FALSE},
                                 pending : {<< >>}, shown : {{}}, told : {FALSE}]],
         miscounted = FALSE
  PROVE  TerminalInv
  <1>0. MaxShells \in Nat /\ MaxChunks \in Nat
    BY TerminalAssumption
  <1>1. SessionInv
    BY <1>0 DEF SessionInv, NoSession, NoShell
  <1>2. NoLine \in [open : BOOLEAN, payload : {"unsent", "flushing", "sent"},
                    of : 0..MaxShells, upto : Nat]
    BY <1>0 DEF NoLine, NoShell
  <1>3. << >> \in Seq(Frames) /\ {} \subseteq Nat \X Nat
    BY EmptySeq
  <1>4. client \in [Clients -> [state : {"away", "off", "open", "closing", "retry"},
                               ready : BOOLEAN, restored : BOOLEAN, pending : Seq(Frames),
                               shown : SUBSET (Nat \X Nat), told : BOOLEAN]]
    BY ZenonT(60), <1>3
  <1>5. ClientTypes
    BY <1>2, <1>3, <1>4 DEF ClientTypes
  <1>6. ViewerTypes
    BY DEF ViewerTypes
  <1>7. \A c \in Clients : Connected(c) /\ NothingMissed(c)
    <2> TAKE c \in Clients
    <2>1. line[c] = NoLine /\ ~NoLine.open
      BY DEF NoLine
    <2>2. pipe[c] = << >> /\ client[c].state \in {"away", "off"} /\ ~client[c].restored
      OBVIOUS
    <2>3. NoScreen(<< >>) /\ OneScreen(<< >>)
      BY DEF NoScreen, OneScreen
    <2> QED BY <2>1, <2>2, <2>3 DEF Connected, NothingMissed
  <1> QED BY <1>1, <1>5, <1>6, <1>7 DEF TerminalInv

\* The runtime starts with no shell at all, ...
LEMMA TerminalInvInit == TerminalInit => TerminalInv
  <1> SUFFICES ASSUME TerminalInit PROVE TerminalInv
    OBVIOUS
  <1>1. started \in 0..MaxShells
    BY TerminalAssumption DEF TerminalInit
  <1> QED BY <1>1, TerminalInvFrom DEF TerminalInit

\* ... and the instance of MCServices with the one that has ended, if it allows for it.
LEMMA TerminalInvMC ==
  ASSUME MaxShells # 0, MCTerminalInit
  PROVE  TerminalInv
  <1>1. ASSUME NEW shells \in {0, 1}, NEW cs, TerminalFrom(shells, cs), workspace \in BOOLEAN
        PROVE  TerminalInv
    <2>1. started \in 0..MaxShells /\ started = shells
      BY <1>1, TerminalAssumption DEF TerminalFrom
    <2>2. shell \in [1..MaxShells -> [state : {"none", "gone"}, out : {0}]]
      BY <1>1 DEF TerminalFrom
    <2>3. \A g \in 1..MaxShells : g > started => shell[g].state = "none"
      BY <1>1, <2>1 DEF TerminalFrom
    <2>4. client \in [Clients -> [state : {"away", "off"}, ready : {FALSE}, restored : {FALSE},
                                  pending : {<< >>}, shown : {{}}, told : {FALSE}]]
      BY <1>1 DEF TerminalFrom, Looking
    <2> QED BY <1>1, <2>1, <2>2, <2>3, <2>4, TerminalInvFrom DEF TerminalFrom
  <1> QED BY <1>1 DEF MCTerminalInit

\* The invariant gives the types and the property of the output.
LEMMA TerminalInvMeans == TerminalInv => TerminalTypeOK /\ NoOutputLost
  <1> SUFFICES ASSUME TerminalInv PROVE TerminalTypeOK /\ NoOutputLost
    OBVIOUS
  <1>1. TerminalTypeOK
    <2>1. session.shell \in 0..started
      BY TerminalAssumption DEF TerminalInv, SessionInv
    <2>2. \A g \in 1..MaxShells :
          /\ shell[g].state \in {"none", "running", "killed", "ended", "gone"}
          /\ shell[g].out \in 0..MaxChunks
          /\ shell[g].state = "running" => session.shell = g /\ session.active
      BY DEF TerminalInv, SessionInv
    <2>3. \A k \in Kinds : viewers[k] \in Nat
      BY DEF TerminalInv, ViewerTypes
    <2>4. \A c \in Clients : /\ line[c].payload \in {"unsent", "flushing", "sent"}
                             /\ client[c].state \in {"away", "off", "open", "closing", "retry"}
      BY DEF TerminalInv, ClientTypes
    <2>5. listeners \cup exitListeners \subseteq {c \in Clients : line[c].open}
      BY DEF TerminalInv, ViewerTypes, Connected
    <2>6. /\ workspace \in BOOLEAN /\ miscounted \in BOOLEAN /\ started \in 0..MaxShells
          /\ sizedBy \in Clients \cup {Nobody}
      BY DEF TerminalInv, SessionInv, ViewerTypes
    <2> QED BY <2>1, <2>2, <2>3, <2>4, <2>5, <2>6 DEF TerminalTypeOK
  <1>2. NoOutputLost
    <2> SUFFICES ASSUME NEW c \in listeners, client[c].state = "open", client[c].restored,
                        NEW k \in 1..shell[session.shell].out
                 PROVE  <<session.shell, k>> \in client[c].shown \cup Painted(client[c].pending)
                                                   \cup Painted(pipe[c])
      BY DEF NoOutputLost, Chunks
    <2>1. c \in Clients /\ Connected(c) /\ NothingMissed(c)
      BY DEF TerminalInv, ViewerTypes
    <2>2. line[c].payload = "sent" /\ NoScreen(pipe[c])
      BY <2>1 DEF Connected
    <2>3. Known(c, session.shell, k)
      BY <2>1, <2>2 DEF NothingMissed, OnScreen
    <2>4. Carries(pipe[c], session.shell, k) => <<session.shell, k>> \in Painted(pipe[c])
      BY <2>2 DEF Carries, Brings, NoScreen, Painted
    <2> QED BY <2>3, <2>4 DEF Known
  <1> QED BY <1>1, <1>2

\* A frame that is appended comes on top of what the others bring; only a screen makes
\* a difference to whether one is on its way.
LEMMA FrameAppended ==
  ASSUME NEW s \in Seq(Frames), NEW f \in Frames
  PROVE  /\ Append(s, f) \in Seq(Frames)
         /\ \A g, k : Carries(Append(s, f), g, k) <=> Carries(s, g, k) \/ Brings(f, g, k)
         /\ Painted(Append(s, f)) = Painted(s) \cup {<<f.shell, f.upto>>}
         /\ NoScreen(Append(s, f)) <=> NoScreen(s) /\ f.type # "attach"
         /\ OneScreen(s) /\ (NoScreen(s) \/ f.type # "attach") => OneScreen(Append(s, f))
  <1> DEFINE t == Append(s, f)
  <1>1. /\ t \in Seq(Frames) /\ Len(t) = Len(s) + 1 /\ Len(s) \in Nat
        /\ \A i \in 1..Len(s) : t[i] = s[i]
        /\ t[Len(s) + 1] = f
    BY AppendProperties, LenProperties
  <1> HIDE DEF t
  <1>2. /\ DOMAIN s = 1..Len(s) /\ DOMAIN t = 1..Len(t)
        /\ DOMAIN t = DOMAIN s \cup {Len(s) + 1} /\ Len(s) + 1 \notin DOMAIN s
    <2>1. DOMAIN s = 1..Len(s) /\ DOMAIN t = 1..Len(t)
      BY <1>1, LenProperties
    <2> QED BY <1>1, <2>1
  <1>3. /\ \A i \in DOMAIN s : i \in DOMAIN t /\ t[i] = s[i]
        /\ \A i \in DOMAIN t : i \in DOMAIN s \/ t[i] = f
        /\ Len(s) + 1 \in DOMAIN t
    BY <1>1, <1>2
  <1>4. \A g, k : Carries(t, g, k) <=> Carries(s, g, k) \/ Brings(f, g, k)
    BY <1>1, <1>3 DEF Carries
  <1>5. Painted(t) = Painted(s) \cup {<<f.shell, f.upto>>}
    BY <1>1, <1>3 DEF Painted
  <1>6. NoScreen(t) <=> NoScreen(s) /\ f.type # "attach"
    BY <1>1, <1>3 DEF NoScreen
  <1>7. OneScreen(s) /\ (NoScreen(s) \/ f.type # "attach") => OneScreen(t)
    BY <1>1, <1>2, <1>3 DEF OneScreen, NoScreen
  <1> QED BY <1>1, <1>4, <1>5, <1>6, <1>7 DEF t

\* The frame at the head is all that is missing from the tail.
LEMMA FrameTaken ==
  ASSUME NEW s \in Seq(Frames), s # << >>
  PROVE  /\ Head(s) \in Frames /\ Tail(s) \in Seq(Frames)
         /\ \A g, k : Carries(s, g, k) => Carries(Tail(s), g, k) \/ Brings(Head(s), g, k)
         /\ NoScreen(s) => NoScreen(Tail(s)) /\ Head(s).type # "attach"
         /\ OneScreen(s) => OneScreen(Tail(s))
         /\ OneScreen(s) /\ Head(s).type = "attach" => NoScreen(Tail(s))
  <1> DEFINE t == Tail(s)
             h == Head(s)
  <1>1. /\ h \in Frames /\ h = s[1] /\ t \in Seq(Frames) /\ Len(t) = Len(s) - 1
        /\ Len(s) \in Nat \ {0} /\ DOMAIN s = 1..Len(s) /\ DOMAIN t = 1..Len(t)
        /\ \A i \in 1..Len(t) : t[i] = s[i + 1]
    <2>1. Len(s) \in Nat \ {0} /\ DOMAIN s = 1..Len(s)
      BY EmptySeq, LenProperties
    <2>2. Tail(s) \in Seq(Frames) /\ Len(Tail(s)) = Len(s) - 1 /\ Head(s) \in Frames
          /\ \A i \in 1..Len(Tail(s)) : Tail(s)[i] = s[i + 1]
      BY HeadTailProperties
    <2>3. Head(s) = s[1]
      BY DEF Head
    <2>4. DOMAIN Tail(s) = 1..Len(Tail(s))
      BY <2>2, LenProperties
    <2> QED BY <2>1, <2>2, <2>3, <2>4
  <1> HIDE DEF t, h
  <1>2. \A i \in DOMAIN t : i + 1 \in DOMAIN s /\ t[i] = s[i + 1] /\ i + 1 # 1
    BY <1>1
  <1>3. 1 \in DOMAIN s /\ \A i \in DOMAIN s : i = 1 \/ (i - 1 \in DOMAIN t /\ s[i] = t[i - 1])
    <2>1. 1 \in DOMAIN s
      BY <1>1
    <2>2. ASSUME NEW i \in DOMAIN s, i # 1
          PROVE  i - 1 \in DOMAIN t /\ s[i] = t[i - 1]
      <3>1. i \in Nat /\ i > 1 /\ i <= Len(s)
        BY <1>1, <2>2
      <3>2. i - 1 \in 1..Len(t) /\ (i - 1) + 1 = i
        BY <1>1, <3>1
      <3> QED BY <1>1, <3>2
    <2> QED BY <2>1, <2>2
  <1>4. \A g, k : Carries(s, g, k) => Carries(t, g, k) \/ Brings(h, g, k)
    BY <1>1, <1>3 DEF Carries
  <1>5. NoScreen(s) => NoScreen(t) /\ h.type # "attach"
    BY <1>1, <1>2, <1>3 DEF NoScreen
  <1>6. OneScreen(s) => OneScreen(t)
    <2> SUFFICES ASSUME OneScreen(s), NEW i \in DOMAIN t, NEW j \in DOMAIN t,
                        t[i].type = "attach", t[j].type = "attach"
                 PROVE  i = j
      BY DEF OneScreen
    <2>1. i + 1 = j + 1
      BY <1>2 DEF OneScreen
    <2>2. i \in Int /\ j \in Int
      BY <1>1
    <2> QED BY <2>1, <2>2
  <1>7. OneScreen(s) /\ h.type = "attach" => NoScreen(t)
    BY <1>1, <1>2, <1>3 DEF OneScreen, NoScreen
  <1> QED BY <1>1, <1>4, <1>5, <1>6, <1>7 DEF t, h

\* What is on a client's side of its connection is as it was.
LEMMA ClientStays ==
  ASSUME NEW c \in Clients, Connected(c), NothingMissed(c),
         UNCHANGED <<session, shell>>,
         line'[c] = line[c], pipe'[c] = pipe[c], client'[c] = client[c],
         c \in listeners' => c \in listeners, c \in exitListeners' => c \in exitListeners
  PROVE  Connected(c)' /\ NothingMissed(c)'
  BY DEF Connected, NothingMissed, Known, OnScreen

\* A step of one client leaves the others where they are.
LEMMA OneClientMoves ==
  ASSUME TerminalInv, NEW c \in Clients,
         SessionInv', ClientTypes', ViewerTypes', UNCHANGED <<session, shell>>,
         \A d \in Clients \ {c} : /\ line'[d] = line[d] /\ pipe'[d] = pipe[d]
                                  /\ client'[d] = client[d]
                                  /\ d \in listeners' => d \in listeners
                                  /\ d \in exitListeners' => d \in exitListeners,
         Connected(c)', NothingMissed(c)'
  PROVE  TerminalInv'
  <1>1. \A d \in Clients \ {c} : Connected(d)' /\ NothingMissed(d)'
    BY ClientStays DEF TerminalInv
  <1> QED BY <1>1 DEF TerminalInv

\* The session stays, so do its types.
LEMMA SessionStays ==
  ASSUME SessionInv, UNCHANGED sessionVars
  PROVE  SessionInv'
  BY DEF SessionInv, sessionVars

\* A shell that starts is the session's, has written nothing and is the only one to run.
LEMMA ShellStarts ==
  ASSUME SessionInv, StartShell, workspace' = workspace
  PROVE  /\ SessionInv'
         /\ session'.active /\ session'.shell \in 1..MaxShells /\ session'.shell # NoShell
         /\ shell'[session'.shell].out = 0
  <1> DEFINE new == started + 1
  <1>1. /\ MaxShells \in Nat /\ MaxChunks \in Nat /\ started \in Nat /\ new \in 1..MaxShells
        /\ new > started
    BY TerminalAssumption DEF SessionInv, StartShell
  <1>2. /\ started' = new /\ session' = [shell |-> new, active |-> TRUE, exited |-> FALSE]
        /\ shell' = [Killed(session) EXCEPT ![new].state = "running"]
    BY DEF StartShell
  <1> HIDE DEF new
  <1>3. \A g \in 1..MaxShells :
           /\ Killed(session)[g] \in [state : {"none", "running", "killed", "ended", "gone"},
                                      out : 0..MaxChunks]
           /\ Killed(session)[g].out = shell[g].out
           /\ Killed(session)[g].state # "running"
           /\ g > started => Killed(session)[g] = shell[g]
    <2> TAKE g \in 1..MaxShells
    <2>1. shell[g] \in [state : {"none", "running", "killed", "ended", "gone"}, out : 0..MaxChunks]
      BY DEF SessionInv
    <2>2. CASE session.active /\ g = session.shell
      <3>1. ~(g > started)
        BY <1>1, <2>2 DEF SessionInv
      <3> QED BY <2>1, <2>2, <3>1 DEF Killed
    <2>3. CASE ~(session.active /\ g = session.shell)
      BY <2>1, <2>3 DEF Killed, SessionInv
    <2> QED BY <2>2, <2>3
  <1>4. Killed(session) \in [1..MaxShells -> [state : {"none", "running", "killed", "ended", "gone"},
                                             out : 0..MaxChunks]]
    BY <1>3 DEF Killed
  <1>5. /\ shell' \in [1..MaxShells -> [state : {"none", "running", "killed", "ended", "gone"},
                                        out : 0..MaxChunks]]
        /\ shell'[new].state = "running" /\ shell'[new].out = Killed(session)[new].out
        /\ \A g \in 1..MaxShells : g # new => shell'[g] = Killed(session)[g]
    BY <1>1, <1>2, <1>4
  <1>6. shell'[new].out = 0
    BY <1>1, <1>3, <1>5 DEF SessionInv
  <1>7. session'.active /\ session'.shell = new /\ new # NoShell
    BY <1>1, <1>2 DEF NoShell
  <1>8. \A g \in 1..MaxShells :
           /\ g > started' => shell'[g].state = "none" /\ shell'[g].out = 0
           /\ shell'[g].state = "running" => session'.shell = g /\ session'.active
    <2> TAKE g \in 1..MaxShells
    <2>1. CASE g = new
      BY <1>1, <1>2, <1>7, <2>1
    <2>2. CASE g # new
      <3>1. g > started' => g > started
        BY <1>1, <1>2 DEF new
      <3> QED BY <1>3, <1>5, <2>2, <3>1 DEF SessionInv
    <2> QED BY <2>1, <2>2
  <1>9. SessionInv'
    <2>1. workspace' \in BOOLEAN /\ started' \in 0..MaxShells /\ session'.shell <= started'
      BY <1>1, <1>2, <1>7 DEF SessionInv
    <2>2. session' \in [shell : 0..MaxShells, active : BOOLEAN, exited : BOOLEAN]
      BY <1>1, <1>2
    <2> QED BY <1>5, <1>7, <1>8, <2>1, <2>2 DEF SessionInv
  <1> QED BY <1>1, <1>6, <1>7, <1>9

\* When a new shell takes over, nobody has missed anything of it.
LEMMA EverybodyHears ==
  ASSUME TerminalInv, SessionInv', session'.shell # NoShell, shell'[session'.shell].out = 0,
         UNCHANGED <<listeners, exitListeners, line, pipe, client>>, NEW c \in Clients
  PROVE  Connected(c)' /\ NothingMissed(c)'
  <1>1. Connected(c)'
    BY DEF TerminalInv, Connected
  <1>2. NothingMissed(c)'
    BY DEF NothingMissed
  <1> QED BY <1>1, <1>2

\* The shells change their states, and the session's shell stays.
LEMMA ShellsMove ==
  ASSUME TerminalInv, SessionInv', session'.shell = session.shell,
         \A g \in 1..MaxShells : shell'[g].out = shell[g].out,
         UNCHANGED <<listeners, exitListeners, viewers, sizedBy, miscounted, line, pipe, client>>
  PROVE  TerminalInv'
  <1>1. ClientTypes' /\ ViewerTypes'
    BY DEF TerminalInv, ClientTypes, ViewerTypes
  <1>2. ASSUME NEW c \in Clients
        PROVE  Connected(c)' /\ NothingMissed(c)'
    <2>1. Connected(c) /\ NothingMissed(c) /\ Connected(c)'
      BY DEF TerminalInv, Connected
    <2>2. c \in listeners => session.shell \in 1..MaxShells
      BY <2>1, TerminalAssumption DEF Connected, TerminalInv, SessionInv, NoShell
    <2>3. NothingMissed(c)'
      BY <2>1, <2>2 DEF NothingMissed, Known, OnScreen
    <2> QED BY <2>1, <2>3
  <1> QED BY <1>1, <1>2 DEF TerminalInv

\* A script replaces the session's shell, or stops it only.
LEMMA ScriptKeepsInv ==
  ASSUME TerminalInv, RunScript
  PROVE  TerminalInv'
  <1>1. UNCHANGED <<workspace, listeners, exitListeners, viewers, sizedBy, line, pipe, client,
                    miscounted>>
    BY DEF RunScript
  <1>2. SessionInv /\ ClientTypes' /\ ViewerTypes'
    BY <1>1 DEF TerminalInv, ClientTypes, ViewerTypes
  <1>3. CASE StartShell
    <2>1. SessionInv' /\ session'.shell # NoShell /\ shell'[session'.shell].out = 0
      BY <1>1, <1>2, <1>3, ShellStarts
    <2>2. \A c \in Clients : Connected(c)' /\ NothingMissed(c)'
      BY <1>1, <2>1, EverybodyHears
    <2> QED BY <1>2, <2>1, <2>2 DEF TerminalInv
  <1>4. CASE /\ session' = [session EXCEPT !.active = FALSE]
             /\ shell' = Killed(session) /\ started' = started
    <2>1. /\ session' \in [shell : 0..MaxShells, active : BOOLEAN, exited : BOOLEAN]
          /\ session'.shell = session.shell /\ session'.exited = session.exited /\ ~session'.active
      BY <1>2, <1>4 DEF SessionInv
    <2>2. \A g \in 1..MaxShells :
             /\ shell'[g] \in [state : {"none", "running", "killed", "ended", "gone"},
                               out : 0..MaxChunks]
             /\ shell'[g].out = shell[g].out
             /\ shell'[g].state # "running"
             /\ g > started => shell'[g] = shell[g]
      <3> TAKE g \in 1..MaxShells
      <3>1. shell[g] \in [state : {"none", "running", "killed", "ended", "gone"}, out : 0..MaxChunks]
        BY <1>2 DEF SessionInv
      <3>2. CASE session.active /\ g = session.shell
        <4>1. ~(g > started)
          BY <1>2, <3>2, TerminalAssumption DEF SessionInv
        <4> QED BY <1>4, <3>1, <3>2, <4>1 DEF Killed
      <3>3. CASE ~(session.active /\ g = session.shell)
        BY <1>2, <1>4, <3>1, <3>3 DEF Killed, SessionInv
      <3> QED BY <3>2, <3>3
    <2>3. shell' \in [1..MaxShells -> [state : {"none", "running", "killed", "ended", "gone"},
                                       out : 0..MaxChunks]]
      BY <1>4, <2>2 DEF Killed
    <2>4. session'.shell = NoShell => session' = NoSession
      <3> SUFFICES ASSUME session.shell = NoShell PROVE session' = session
        BY <1>2, <2>1 DEF SessionInv
      <3>1. ~session.active
        BY <1>2 DEF SessionInv, NoSession
      <3> QED BY <1>2, <1>4, <2>1, <3>1 DEF SessionInv
    <2>5. SessionInv'
      BY <1>1, <1>2, <1>4, <2>1, <2>2, <2>3, <2>4 DEF SessionInv
    <2> QED BY <1>1, <2>1, <2>2, <2>5, ShellsMove
  <1> QED BY <1>3, <1>4 DEF RunScript

\* A session that is killed has nobody left who listens.
LEMMA KillKeepsInv ==
  ASSUME TerminalInv, KillSession
  PROVE  TerminalInv'
  <1>1. /\ UNCHANGED <<workspace, started, viewers, sizedBy, line, pipe, client, miscounted>>
        /\ session' = NoSession /\ listeners' = {} /\ exitListeners' = {}
        /\ shell' = [g \in 1..MaxShells |-> IF Killed(session)[g].state = "killed"
                                            THEN [shell[g] EXCEPT !.state = "ended"] ELSE shell[g]]
    BY DEF KillSession
  <1>2. SessionInv /\ ClientTypes' /\ ViewerTypes'
    BY <1>1 DEF TerminalInv, ClientTypes, ViewerTypes
  <1>3. \A g \in 1..MaxShells :
           /\ shell'[g] \in [state : {"none", "running", "killed", "ended", "gone"},
                             out : 0..MaxChunks]
           /\ shell'[g].out = shell[g].out
           /\ shell'[g].state # "running"
           /\ g > started => shell'[g] = shell[g]
    <2> TAKE g \in 1..MaxShells
    <2>1. shell[g] \in [state : {"none", "running", "killed", "ended", "gone"}, out : 0..MaxChunks]
      BY <1>2 DEF SessionInv
    <2>2. /\ g > started => ~(session.active /\ g = session.shell)
          /\ Killed(session)[g] = IF session.active /\ g = session.shell
                                  THEN [shell[g] EXCEPT !.state = "killed"] ELSE shell[g]
      BY <1>2, TerminalAssumption DEF SessionInv, Killed
    <2>3. CASE Killed(session)[g].state = "killed"
      BY <1>1, <1>2, <2>1, <2>2, <2>3 DEF SessionInv
    <2>4. CASE Killed(session)[g].state # "killed"
      BY <1>1, <1>2, <2>1, <2>2, <2>4 DEF SessionInv
    <2> QED BY <2>3, <2>4
  <1>4. shell' \in [1..MaxShells -> [state : {"none", "running", "killed", "ended", "gone"},
                                     out : 0..MaxChunks]]
    BY <1>1, <1>3
  <1>5. SessionInv'
    <2>1. session' \in [shell : 0..MaxShells, active : BOOLEAN, exited : BOOLEAN]
          /\ session'.shell <= started'
      BY <1>1, <1>2, TerminalAssumption DEF NoSession, NoShell, SessionInv
    <2> QED BY <1>1, <1>2, <1>3, <1>4, <2>1 DEF SessionInv
  <1>6. \A c \in Clients : Connected(c)' /\ NothingMissed(c)'
    BY <1>1 DEF TerminalInv, Connected, NothingMissed
  <1> QED BY <1>2, <1>5, <1>6 DEF TerminalInv

\* A connection that begins or goes is of its type.
LEMMA ConnectionTypes ==
  ASSUME ClientTypes, NEW c \in Clients, NEW state \in {"open", "retry"},
         client' = Connection(c, state)
  PROVE  /\ client' \in [Clients -> [state : {"away", "off", "open", "closing", "retry"},
                               ready : BOOLEAN, restored : BOOLEAN, pending : Seq(Frames),
                               shown : SUBSET (Nat \X Nat), told : BOOLEAN]]
         /\ client'[c].state = state /\ ~client'[c].restored
         /\ \A d \in Clients \ {c} : client'[d] = client[d]
  <1>1. << >> \in Seq(Frames)
    BY EmptySeq
  <1> DEFINE s == [client[c] EXCEPT !.state = state, !.ready = FALSE,
                                    !.restored = FALSE, !.pending = << >>, !.told = FALSE]
  <1>2. client' = [client EXCEPT ![c] = s]
    BY DEF Connection
  <1>3. s \in [state : {"open", "retry"}, ready : BOOLEAN, restored : {FALSE},
               pending : Seq(Frames), shown : SUBSET (Nat \X Nat), told : BOOLEAN]
        /\ s.state = state /\ s.restored = FALSE
    BY ZenonT(60), <1>1 DEF ClientTypes
  <1> HIDE DEF s
  <1>4. s \in [state : {"away", "off", "open", "closing", "retry"},
               ready : BOOLEAN, restored : BOOLEAN, pending : Seq(Frames),
               shown : SUBSET (Nat \X Nat), told : BOOLEAN]
    BY <1>3
  <1>5. client'[c] = s /\ \A d \in Clients \ {c} : client'[d] = client[d]
    BY <1>2 DEF ClientTypes
  <1>6. client' \in [Clients -> [state : {"away", "off", "open", "closing", "retry"},
                               ready : BOOLEAN, restored : BOOLEAN, pending : Seq(Frames),
                               shown : SUBSET (Nat \X Nat), told : BOOLEAN]]
    BY <1>2, <1>4 DEF ClientTypes
  <1> QED BY <1>3, <1>5, <1>6

\* A new connection asks for its screen first.
LEMMA ConnectKeepsInv ==
  ASSUME TerminalInv, NEW c \in Clients, Connect(c)
  PROVE  TerminalInv'
  <1>1. /\ viewers' = [viewers EXCEPT ![Kind(c)] = viewers[Kind(c)] + 1]
        /\ listeners' = IF session'.active THEN listeners \cup {c} ELSE listeners
        /\ exitListeners' = exitListeners \cup {c}
        /\ line' = [line EXCEPT ![c] = [NoLine EXCEPT !.open = TRUE]]
        /\ pipe' = [pipe EXCEPT ![c] = << >>]
        /\ client' = Connection(c, "open")
        /\ UNCHANGED <<workspace, sizedBy, miscounted, troubles>>
        /\ \/ Reusable /\ UNCHANGED <<session, shell, started>>
           \/ ~Reusable /\ StartShell
    BY DEF Connect
  <1>2. SessionInv /\ ClientTypes /\ ViewerTypes
    BY DEF TerminalInv
  <1>3. /\ client' \in [Clients -> [state : {"away", "off", "open", "closing", "retry"},
                               ready : BOOLEAN, restored : BOOLEAN, pending : Seq(Frames),
                               shown : SUBSET (Nat \X Nat), told : BOOLEAN]]
        /\ client'[c].state = "open" /\ ~client'[c].restored
        /\ \A d \in Clients \ {c} : client'[d] = client[d]
    BY <1>1, <1>2, ConnectionTypes
  <1>4. /\ [NoLine EXCEPT !.open = TRUE] \in [open : {TRUE}, payload : {"unsent"},
                                              of : 0..MaxShells, upto : Nat]
        /\ << >> \in Seq(Frames) /\ NoScreen(<< >>) /\ OneScreen(<< >>)
    <2>1. 0 \in 0..MaxShells
      BY TerminalAssumption
    <2>2. << >> \in Seq(Frames) /\ NoScreen(<< >>) /\ OneScreen(<< >>)
      BY EmptySeq DEF NoScreen, OneScreen
    <2> QED BY <2>1, <2>2 DEF NoLine, NoShell
  <1>5. /\ ClientTypes' /\ line'[c].open /\ line'[c].payload = "unsent" /\ pipe'[c] = << >>
        /\ \A d \in Clients \ {c} : line'[d] = line[d] /\ pipe'[d] = pipe[d]
    BY <1>1, <1>2, <1>3, <1>4 DEF ClientTypes
  <1>6. Kind(c) \in Kinds
    BY DEF Kind, Kinds
  <1>7. ViewerTypes'
    BY <1>1, <1>2, <1>6 DEF ViewerTypes
  <1>8. SessionInv' /\ session'.shell # NoShell
    <2>1. CASE Reusable /\ UNCHANGED <<session, shell, started>>
      BY <1>1, <1>2, <2>1 DEF SessionInv, Reusable
    <2>2. CASE StartShell
      BY <1>1, <1>2, <2>2, ShellStarts
    <2> QED BY <1>1, <2>1, <2>2
  <1>9. Connected(c)' /\ NothingMissed(c)'
    BY <1>3, <1>4, <1>5, <1>8 DEF Connected, NothingMissed, OnScreen
  <1>10. CASE UNCHANGED <<session, shell>>
    <2>1. \A d \in Clients \ {c} : /\ d \in listeners' => d \in listeners
                                   /\ d \in exitListeners' => d \in exitListeners
      BY <1>1
    <2> QED BY <1>3, <1>5, <1>7, <1>8, <1>9, <1>10, <2>1, OneClientMoves
  <1>11. CASE StartShell
    <2>1. shell'[session'.shell].out = 0
      BY <1>1, <1>2, <1>11, ShellStarts
    <2>2. ASSUME NEW d \in Clients \ {c}
          PROVE  Connected(d)' /\ NothingMissed(d)'
      <3>1. Connected(d)
        BY DEF TerminalInv
      <3>2. d \in listeners' \cup exitListeners' => d \in listeners \cup exitListeners
        BY <1>1
      <3>3. Connected(d)'
        BY <1>3, <1>5, <1>8, <3>1, <3>2 DEF Connected
      <3>4. NothingMissed(d)'
        BY <2>1 DEF NothingMissed
      <3> QED BY <3>3, <3>4
    <2> QED BY <1>5, <1>7, <1>8, <1>9, <2>2 DEF TerminalInv
  <1> QED BY <1>1, <1>10, <1>11

\* A connection that does not come about is on neither side.
LEMMA ConnectFailsKeepsInv ==
  ASSUME TerminalInv, NEW c \in Clients, ConnectFails(c)
  PROVE  TerminalInv'
  <1>1. /\ UNCHANGED <<sessionVars, listeners, exitListeners, line, pipe>>
        /\ viewers' = [viewers EXCEPT ![Kind(c)] = viewers[Kind(c)] + 1]
        /\ miscounted' = TRUE /\ client' = Connection(c, "retry")
        /\ client[c].state \in {"off", "retry"}
    BY DEF ConnectFails
  <1>2. SessionInv /\ ClientTypes /\ ViewerTypes /\ Connected(c)
    BY DEF TerminalInv
  <1>3. /\ client' \in [Clients -> [state : {"away", "off", "open", "closing", "retry"},
                               ready : BOOLEAN, restored : BOOLEAN, pending : Seq(Frames),
                               shown : SUBSET (Nat \X Nat), told : BOOLEAN]]
        /\ client'[c].state = "retry" /\ ~client'[c].restored
        /\ \A d \in Clients \ {c} : client'[d] = client[d]
    BY <1>1, <1>2, ConnectionTypes
  <1>4. SessionInv' /\ ClientTypes'
    BY <1>1, <1>2, <1>3, SessionStays DEF ClientTypes
  <1>5. Kind(c) \in Kinds
    BY DEF Kind, Kinds
  <1>6. ViewerTypes'
    BY <1>1, <1>2, <1>5 DEF ViewerTypes, sessionVars
  <1>7. Connected(c)' /\ NothingMissed(c)'
    BY <1>1, <1>2, <1>3 DEF Connected, NothingMissed, NoLine, sessionVars
  <1> QED BY <1>1, <1>3, <1>4, <1>6, <1>7, OneClientMoves DEF sessionVars

\* A connection that goes takes its place among the listeners along.
LEMMA DisconnectKeepsInv ==
  ASSUME TerminalInv, NEW c \in Clients, LoseSocket(c) \/ FinishClose(c)
  PROVE  TerminalInv'
  <1>1. PICK k \in {1, 2} : Unregister(c, k)
    BY DEF LoseSocket, FinishClose
  <1>2. /\ UNCHANGED sessionVars
        /\ pipe' = [pipe EXCEPT ![c] = << >>]
        /\ client' = Connection(c, "retry")
        /\ miscounted' \in {miscounted, TRUE}
    BY DEF LoseSocket, FinishClose
  <1>3. /\ viewers' = [viewers EXCEPT ![Kind(c)] = IF viewers[Kind(c)] >= k
                                                   THEN viewers[Kind(c)] - k ELSE 0]
        /\ listeners' = listeners \ {c}
        /\ exitListeners' = exitListeners \ {c}
        /\ line' = [line EXCEPT ![c] = NoLine]
    BY <1>1 DEF Unregister
  <1>4. SessionInv /\ ClientTypes /\ ViewerTypes
    BY DEF TerminalInv
  <1>5. /\ client' \in [Clients -> [state : {"away", "off", "open", "closing", "retry"},
                               ready : BOOLEAN, restored : BOOLEAN, pending : Seq(Frames),
                               shown : SUBSET (Nat \X Nat), told : BOOLEAN]]
        /\ client'[c].state = "retry" /\ ~client'[c].restored
        /\ \A d \in Clients \ {c} : client'[d] = client[d]
    BY <1>2, <1>4, ConnectionTypes
  <1>6. /\ NoLine \in [open : {FALSE}, payload : {"unsent"}, of : 0..MaxShells, upto : Nat]
        /\ << >> \in Seq(Frames) /\ NoScreen(<< >>) /\ OneScreen(<< >>)
    <2>1. 0 \in 0..MaxShells
      BY TerminalAssumption
    <2>2. << >> \in Seq(Frames) /\ NoScreen(<< >>) /\ OneScreen(<< >>)
      BY EmptySeq DEF NoScreen, OneScreen
    <2> QED BY <2>1, <2>2 DEF NoLine, NoShell
  <1>7. /\ ClientTypes' /\ line'[c] = NoLine /\ pipe'[c] = << >>
        /\ \A d \in Clients \ {c} : line'[d] = line[d] /\ pipe'[d] = pipe[d]
    BY <1>2, <1>3, <1>4, <1>5, <1>6 DEF ClientTypes
  <1>8. ViewerTypes'
    <2>1. Kind(c) \in Kinds
      BY DEF Kind, Kinds
    <2>2. viewers[Kind(c)] \in Nat
      BY <1>4, <2>1 DEF ViewerTypes
    <2>3. (IF viewers[Kind(c)] >= k THEN viewers[Kind(c)] - k ELSE 0) \in Nat
      BY <2>2
    <2>4. viewers' \in [Kinds -> Nat]
      BY <1>3, <1>4, <2>3 DEF ViewerTypes
    <2> QED BY <1>2, <1>3, <1>4, <2>4 DEF ViewerTypes, sessionVars
  <1>9. SessionInv'
    BY <1>2, <1>4, SessionStays
  <1>10. Connected(c)' /\ NothingMissed(c)'
    BY <1>3, <1>5, <1>6, <1>7 DEF Connected, NothingMissed
  <1>11. \A d \in Clients \ {c} : /\ d \in listeners' => d \in listeners
                                  /\ d \in exitListeners' => d \in exitListeners
    BY <1>3
  <1> QED BY <1>2, <1>5, <1>7, <1>8, <1>9, <1>10, <1>11, OneClientMoves DEF sessionVars

\* A client's side whose gate opens keeps what it shows, and shows what it held back.
LEMMA GatePaints ==
  ASSUME NEW s \in [state : {"away", "off", "open", "closing", "retry"},
                    ready : BOOLEAN, restored : BOOLEAN, pending : Seq(Frames),
                    shown : SUBSET (Nat \X Nat), told : BOOLEAN]
  PROVE  /\ GateOpened(s) \in [state : {"away", "off", "open", "closing", "retry"},
                    ready : BOOLEAN, restored : BOOLEAN, pending : Seq(Frames),
                    shown : SUBSET (Nat \X Nat), told : BOOLEAN]
         /\ GateOpened(s).state = s.state /\ GateOpened(s).restored = s.restored
         /\ GateOpened(s).shown = s.shown \cup Painted(s.pending)
  <1>1. << >> \in Seq(Frames)
    BY EmptySeq
  <1> DEFINE p == Painted(s.pending)
  <1>2. p \in SUBSET (Nat \X Nat)
    <2>1. s.pending \in Seq(Frames) /\ \A i \in DOMAIN s.pending : s.pending[i] \in Frames
      BY ElementOfSeq, LenProperties
    <2> QED BY <2>1 DEF Painted, Frames
  <1> HIDE DEF p
  <1>3. GateOpened(s) = [s EXCEPT !.ready = TRUE, !.shown = s.shown \cup p, !.pending = << >>]
    BY DEF GateOpened, p
  <1>4. /\ GateOpened(s) \in [state : {"away", "off", "open", "closing", "retry"},
                    ready : BOOLEAN, restored : BOOLEAN, pending : Seq(Frames),
                    shown : SUBSET (Nat \X Nat), told : BOOLEAN]
        /\ GateOpened(s).state = s.state /\ GateOpened(s).restored = s.restored
        /\ GateOpened(s).shown = s.shown \cup p
    BY ZenonT(60), <1>1, <1>2, <1>3
  <1> QED BY <1>4 DEF p

\* The first message asks for the screen that has all there is so far.
LEMMA AskKeepsInv ==
  ASSUME TerminalInv, NEW c \in Clients, AskForPayload(c)
  PROVE  TerminalInv'
  <1> DEFINE upto == IF session = NoSession THEN 0 ELSE shell[session.shell].out
             asked == [line[c] EXCEPT !.payload = "flushing", !.of = session.shell, !.upto = upto]
  <1>1. /\ line[c].open
        /\ line' = [line EXCEPT ![c] = IF line[c].payload # "unsent" THEN line[c] ELSE asked]
        /\ UNCHANGED <<workspace, session, shell, started, listeners, exitListeners, viewers, pipe,
                       client, miscounted, troubles>>
        /\ sizedBy' \in {sizedBy, c}
    BY DEF AskForPayload
  <1>2. SessionInv /\ ClientTypes /\ ViewerTypes /\ Connected(c) /\ NothingMissed(c)
    BY DEF TerminalInv
  <1>3. session.shell \in 0..MaxShells /\ (session # NoSession => session.shell \in 1..MaxShells)
    BY <1>2, TerminalAssumption DEF SessionInv, NoShell
  <1>4. upto \in Nat /\ (session.shell # NoShell => upto = shell[session.shell].out)
    <2>1. session.shell # NoShell => session # NoSession
      BY DEF NoSession
    <2>2. session # NoSession => shell[session.shell].out \in 0..MaxChunks
      BY <1>2, <1>3 DEF SessionInv
    <2>3. 0..MaxChunks \subseteq Nat
      BY TerminalAssumption
    <2> QED BY <2>1, <2>2, <2>3
  <1> HIDE DEF upto
  <1>5. /\ asked \in [open : BOOLEAN, payload : {"flushing"}, of : 0..MaxShells, upto : Nat]
        /\ asked.open = line[c].open /\ asked.payload = "flushing" /\ asked.of = session.shell
        /\ asked.upto = upto
    BY ZenonT(60), <1>2, <1>3, <1>4 DEF ClientTypes
  <1> HIDE DEF asked
  <1>6. /\ ClientTypes' /\ \A d \in Clients \ {c} : line'[d] = line[d]
        /\ line'[c] = IF line[c].payload # "unsent" THEN line[c] ELSE asked
    BY <1>1, <1>2, <1>5 DEF ClientTypes
  <1>7. SessionInv' /\ ViewerTypes'
    BY <1>1, <1>2 DEF SessionInv, ViewerTypes
  <1>8. CASE line[c].payload # "unsent"
    <2>1. line'[c] = line[c]
      BY <1>6, <1>8
    <2>2. Connected(c)' /\ NothingMissed(c)'
      BY <1>1, <1>2, <2>1, ClientStays
    <2> QED BY <1>1, <1>6, <1>7, <2>2, OneClientMoves
  <1>9. CASE line[c].payload = "unsent"
    <2>1. line'[c] = asked
      BY <1>6, <1>9
    <2>2. Connected(c)'
      BY <1>1, <1>2, <1>5, <1>9, <2>1 DEF Connected
    <2>3. NothingMissed(c)'
      <3> SUFFICES ASSUME c \in listeners, NEW k \in 1..shell[session.shell].out
                   PROVE  OnScreen(line'[c], session.shell, k)
        BY <1>1 DEF NothingMissed
      <3>1. upto = shell[session.shell].out
        BY <1>2, <1>4 DEF Connected
      <3> QED BY <1>5, <2>1, <3>1 DEF OnScreen
    <2> QED BY <1>1, <1>6, <1>7, <2>2, <2>3, OneClientMoves
  <1> QED BY <1>8, <1>9

\* The screen that is sent brings what it was to have.
LEMMA SendKeepsInv ==
  ASSUME TerminalInv, NEW c \in Clients, SendPayload(c)
  PROVE  TerminalInv'
  <1>1. PICK n \in 0..MaxChunks :
          /\ IF line[c].of = NoShell \/ line[c].of # session.shell THEN n = 0
             ELSE n \in line[c].upto..shell[line[c].of].out
          /\ pipe' = [pipe EXCEPT ![c] = Append(pipe[c], Attached(line[c].of, n)) \o
                        (IF session.exited THEN <<ExitOf(session.shell)>> ELSE << >>)]
    BY DEF SendPayload
  <1>2. /\ line[c].payload = "flushing"
        /\ line' = [line EXCEPT ![c] = [NoLine EXCEPT !.open = TRUE, !.payload = "sent"]]
        /\ UNCHANGED <<sessionVars, listeners, exitListeners, viewers, client, miscounted,
                        troubles>>
    BY DEF SendPayload
  <1>3. SessionInv /\ ClientTypes /\ ViewerTypes /\ Connected(c) /\ NothingMissed(c)
    BY DEF TerminalInv
  <1>4. /\ n \in Nat /\ line[c].of \in Nat /\ session.shell \in Nat
        /\ Attached(line[c].of, n) \in Frames
        /\ ExitOf(session.shell) \in Frames
    <2>1. n \in Nat /\ line[c].of \in Nat /\ session.shell \in Nat
      BY <1>3, TerminalAssumption DEF ClientTypes, SessionInv
    <2> QED BY <2>1 DEF Attached, ExitOf, Frames
  <1> DEFINE screen == Attached(line[c].of, n)
             ends   == ExitOf(session.shell)
             first  == Append(pipe[c], screen)
             sent   == first \o (IF session.exited THEN <<ends>> ELSE << >>)
  <1>5. /\ screen.type = "attach" /\ screen.shell = line[c].of /\ screen.upto = n
        /\ ends.type = "exit"
    BY DEF Attached, ExitOf
  <1>6. screen \in Frames /\ ends \in Frames /\ pipe[c] \in Seq(Frames)
        /\ NoScreen(pipe[c]) /\ OneScreen(pipe[c]) /\ ~client[c].restored /\ line[c].open
    BY <1>2, <1>3, <1>4 DEF ClientTypes, Connected, NoLine
  <1>7. pipe' = [pipe EXCEPT ![c] = sent]
    BY <1>1
  <1> HIDE DEF screen, ends
  <1>8. /\ first \in Seq(Frames) /\ OneScreen(first)
        /\ \A g, k : Carries(first, g, k) <=> Carries(pipe[c], g, k) \/ Brings(screen, g, k)
    BY <1>6, FrameAppended
  <1> HIDE DEF first
  <1>9. sent = first \/ sent = Append(first, ends)
    <2>1. first \o << >> = first
      BY <1>8, ConcatEmptySeq
    <2>2. Append(first, ends) = first \o <<ends>>
      BY <1>6, <1>8, AppendIsConcat
    <2> QED BY <2>1, <2>2
  <1> HIDE DEF sent
  <1>10. /\ sent \in Seq(Frames) /\ OneScreen(sent)
         /\ \A g, k : Carries(pipe[c], g, k) \/ Brings(screen, g, k) => Carries(sent, g, k)
    <2>1. CASE sent = first
      BY <1>8, <2>1
    <2>2. CASE sent = Append(first, ends)
      <3>1. /\ Append(first, ends) \in Seq(Frames)
            /\ OneScreen(Append(first, ends))
            /\ \A g, k : Carries(first, g, k) => Carries(Append(first, ends), g, k)
        BY <1>5, <1>6, <1>8, FrameAppended
      <3> QED BY <1>8, <2>2, <3>1
    <2> QED BY <1>9, <2>1, <2>2
  <1>11. [NoLine EXCEPT !.open = TRUE, !.payload = "sent"]
            \in [open : {TRUE}, payload : {"sent"}, of : 0..MaxShells, upto : Nat]
    <2>1. 0 \in 0..MaxShells
      BY TerminalAssumption
    <2> QED BY <2>1 DEF NoLine, NoShell
  <1>12. line' \in [Clients -> [open : BOOLEAN, payload : {"unsent", "flushing", "sent"},
                                of : 0..MaxShells, upto : Nat]]
         /\ line'[c].open /\ line'[c].payload = "sent"
         /\ \A d \in Clients \ {c} : line'[d] = line[d]
    BY <1>2, <1>3, <1>11 DEF ClientTypes
  <1>13. /\ pipe' \in [Clients -> Seq(Frames)] /\ pipe'[c] = sent
         /\ \A d \in Clients \ {c} : pipe'[d] = pipe[d]
    BY <1>3, <1>7, <1>10 DEF ClientTypes
  <1>14. SessionInv' /\ ClientTypes' /\ ViewerTypes'
    BY <1>2, <1>3, <1>12, <1>13, SessionStays DEF ClientTypes, ViewerTypes, sessionVars
  <1>15. Connected(c)'
    BY <1>2, <1>3, <1>6, <1>10, <1>12, <1>13 DEF Connected, sessionVars
  <1>16. NothingMissed(c)'
    <2> SUFFICES ASSUME c \in listeners, client[c].state = "open",
                        NEW k \in 1..shell[session.shell].out
                 PROVE  Known(c, session.shell, k)'
      BY <1>2 DEF NothingMissed, sessionVars
    <2>1. Known(c, session.shell, k) \/ OnScreen(line[c], session.shell, k)
      BY <1>3 DEF NothingMissed
    <2>2. CASE Known(c, session.shell, k)
      BY <1>2, <1>10, <1>13, <2>2 DEF Known, sessionVars
    <2>3. CASE OnScreen(line[c], session.shell, k)
      <3>1. line[c].of = session.shell /\ k <= line[c].upto /\ session.shell # NoShell
        BY <1>2, <1>3, <2>3 DEF OnScreen, Connected
      <3>2. k \in 1..n
        <4>1. n \in line[c].upto..shell[session.shell].out
          BY <1>1, <3>1
        <4>2. line[c].upto \in Nat /\ k \in Int /\ k >= 1
          BY <1>3 DEF ClientTypes
        <4> QED BY <1>4, <3>1, <4>1, <4>2
      <3>3. Brings(screen, session.shell, k)
        BY <1>5, <3>1, <3>2 DEF Brings
      <3>4. Carries(sent, session.shell, k)
        BY <1>10, <3>3
      <3> QED BY <1>2, <1>13, <3>4 DEF Known, sessionVars
    <2> QED BY <2>1, <2>2, <2>3
  <1> QED BY <1>2, <1>12, <1>13, <1>14, <1>15, <1>16, OneClientMoves DEF sessionVars

\* The gate paints what was held back.
LEMMA GateKeepsInv ==
  ASSUME TerminalInv, NEW c \in Clients, GateFallback(c)
  PROVE  TerminalInv'
  <1> DEFINE s == client[c]
             t == GateOpened(s)
  <1>1. /\ client' = [client EXCEPT ![c] = t]
        /\ UNCHANGED <<sessionVars, listeners, exitListeners, viewers, line, pipe, miscounted,
                        troubles>>
    BY DEF GateFallback
  <1>2. SessionInv /\ ClientTypes /\ ViewerTypes /\ Connected(c) /\ NothingMissed(c)
    BY DEF TerminalInv
  <1>3. /\ t \in [state : {"away", "off", "open", "closing", "retry"},
                  ready : BOOLEAN, restored : BOOLEAN, pending : Seq(Frames),
                  shown : SUBSET (Nat \X Nat), told : BOOLEAN]
        /\ t.state = s.state /\ t.restored = s.restored
        /\ t.shown = s.shown \cup Painted(s.pending)
    BY <1>2, GatePaints DEF ClientTypes
  <1> HIDE DEF t
  <1>4. /\ client'[c] = t /\ \A d \in Clients \ {c} : client'[d] = client[d]
        /\ ClientTypes'
    BY <1>1, <1>2, <1>3 DEF ClientTypes
  <1>5. SessionInv' /\ ViewerTypes'
    BY <1>1, <1>2, SessionStays DEF ViewerTypes, sessionVars
  <1>6. Connected(c)' /\ NothingMissed(c)'
    <2>1. Connected(c)'
      BY <1>1, <1>2, <1>3, <1>4 DEF Connected, sessionVars
    <2>2. \A g, k : Known(c, g, k) => Known(c, g, k)'
      BY <1>1, <1>3, <1>4 DEF Known
    <2>3. NothingMissed(c)'
      BY <1>1, <1>2, <1>3, <1>4, <2>2 DEF NothingMissed, sessionVars
    <2> QED BY <2>1, <2>3
  <1> QED BY <1>1, <1>4, <1>5, <1>6, OneClientMoves DEF sessionVars

\* What a client receives stays known to it, but for a session whose end it hears of.
LEMMA ReceiveKeepsInv ==
  ASSUME TerminalInv, NEW c \in Clients, ReceiveFrame(c)
  PROVE  TerminalInv'
  <1> DEFINE f == Head(pipe[c])
             rest == Tail(pipe[c])
             s == client[c]
  <1>1. /\ pipe[c] # << >> /\ s.state = "open"
        /\ pipe' = [pipe EXCEPT ![c] = rest]
        /\ UNCHANGED <<sessionVars, listeners, exitListeners, viewers, line, miscounted, troubles>>
    BY DEF ReceiveFrame
  <1>2. SessionInv /\ ClientTypes /\ ViewerTypes /\ Connected(c) /\ NothingMissed(c)
    BY DEF TerminalInv
  <1>3. pipe[c] \in Seq(Frames) /\ s \in [state : {"away", "off", "open", "closing", "retry"},
                  ready : BOOLEAN, restored : BOOLEAN, pending : Seq(Frames),
                  shown : SUBSET (Nat \X Nat), told : BOOLEAN]
    BY <1>2 DEF ClientTypes
  <1>4. /\ f \in Frames /\ rest \in Seq(Frames)
        /\ \A g, k : Carries(pipe[c], g, k) => Carries(rest, g, k) \/ Brings(f, g, k)
        /\ NoScreen(pipe[c]) => NoScreen(rest) /\ f.type # "attach"
        /\ OneScreen(rest)
        /\ f.type = "attach" => NoScreen(rest)
    BY <1>1, <1>2, <1>3, FrameTaken DEF Connected
  <1>5. /\ f.type \in {"data", "attach", "exit"} /\ f.shell \in Nat /\ f.upto \in Nat
        /\ <<f.shell, f.upto>> \in Nat \X Nat
    BY <1>4 DEF Frames
  <1>6. /\ f.type = "data" /\ s.ready =>
              client' = [client EXCEPT ![c].shown = s.shown \cup {<<f.shell, f.upto>>}]
        /\ f.type = "data" /\ ~s.ready =>
              client' = [client EXCEPT ![c].pending = Append(s.pending, f)]
        /\ f.type = "attach" =>
              client' = [client EXCEPT ![c] = GateOpened(Restored(s, f))]
        /\ f.type = "exit" =>
              client' = [client EXCEPT ![c].told = TRUE,
                                       ![c].state = IF workspace THEN "closing" ELSE s.state]
    <2>1. f.type = "data" /\ s.ready =>
              client' = [client EXCEPT ![c].shown = s.shown \cup {<<f.shell, f.upto>>}]
      BY DEF ReceiveFrame
    <2>2. f.type = "data" /\ ~s.ready =>
              client' = [client EXCEPT ![c].pending = Append(s.pending, f)]
      BY DEF ReceiveFrame
    <2>3. f.type = "attach" => client' = [client EXCEPT ![c] = GateOpened(Restored(s, f))]
      BY DEF ReceiveFrame
    <2>4. f.type = "exit" =>
              client' = [client EXCEPT ![c].told = TRUE,
                                       ![c].state = IF workspace THEN "closing" ELSE s.state]
      BY <1>2 DEF ReceiveFrame, ClientTypes
    <2> QED BY <2>1, <2>2, <2>3, <2>4
  <1> HIDE DEF f, rest
  <1>7. \E t : /\ client' = [client EXCEPT ![c] = t]
               /\ t \in [state : {"away", "off", "open", "closing", "retry"},
                         ready : BOOLEAN, restored : BOOLEAN, pending : Seq(Frames),
                         shown : SUBSET (Nat \X Nat), told : BOOLEAN]
               /\ t.state \in {"open", "closing"}
               /\ t.restored => s.restored \/ f.type = "attach"
               /\ f.type = "attach" => s.state = t.state
               /\ \A x : x \in s.shown \cup Painted(s.pending) => x \in t.shown \cup Painted(t.pending)
               /\ f.type # "exit" => \A g, k : k # 0 /\ Brings(f, g, k)
                                        => <<g, k>> \in t.shown \cup Painted(t.pending)
    <2>1. CASE f.type = "data" /\ s.ready
      <3> DEFINE t == [s EXCEPT !.shown = s.shown \cup {<<f.shell, f.upto>>}]
      <3>1. client' = [client EXCEPT ![c] = t]
        BY <1>2, <1>6, <2>1 DEF ClientTypes
      <3>2. /\ t \in [state : {"away", "off", "open", "closing", "retry"},
                      ready : BOOLEAN, restored : BOOLEAN, pending : Seq(Frames),
                      shown : SUBSET (Nat \X Nat), told : BOOLEAN]
            /\ t.state = s.state /\ t.restored = s.restored /\ t.pending = s.pending
            /\ t.shown = s.shown \cup {<<f.shell, f.upto>>}
        BY <1>3, <1>5
      <3> HIDE DEF t
      <3>3. \A g, k : Brings(f, g, k) => <<g, k>> \in t.shown
        BY <2>1, <3>2 DEF Brings
      <3> QED BY <1>1, <2>1, <3>1, <3>2, <3>3
    <2>2. CASE f.type = "data" /\ ~s.ready
      <3> DEFINE q == Append(s.pending, f)
      <3>0. /\ q \in Seq(Frames) /\ Painted(q) = Painted(s.pending) \cup {<<f.shell, f.upto>>}
        BY <1>3, <1>4, FrameAppended
      <3> HIDE DEF q
      <3> DEFINE t == [s EXCEPT !.pending = q]
      <3>1. client' = [client EXCEPT ![c] = t]
        BY <1>2, <1>6, <2>2 DEF ClientTypes, q
      <3>2. /\ t \in [state : {"away", "off", "open", "closing", "retry"},
                      ready : BOOLEAN, restored : BOOLEAN, pending : Seq(Frames),
                      shown : SUBSET (Nat \X Nat), told : BOOLEAN]
            /\ t.state = s.state /\ t.restored = s.restored /\ t.pending = q
            /\ t.shown = s.shown
        BY <1>3, <3>0
      <3> HIDE DEF t
      <3>3. \A g, k : Brings(f, g, k) => <<g, k>> \in Painted(t.pending)
        BY <2>2, <3>0, <3>2 DEF Brings
      <3> QED BY <1>1, <2>2, <3>0, <3>1, <3>2, <3>3
    <2>3. CASE f.type = "attach"
      <3> DEFINE screen == Chunks(f.shell, 1..f.upto)
                 r == Restored(s, f)
                 t == GateOpened(r)
      <3>0. client' = [client EXCEPT ![c] = t]
        BY <1>6, <2>3
      <3>1. screen \subseteq Nat \X Nat
        BY <1>5 DEF Chunks
      <3>2. \A g, k : k # 0 /\ Brings(f, g, k) => <<g, k>> \in screen
        <4> SUFFICES ASSUME NEW g, NEW k, k # 0, Brings(f, g, k) PROVE <<g, k>> \in screen
          OBVIOUS
        <4>1. g = f.shell /\ k \in 1..f.upto
          BY <1>5 DEF Brings
        <4> QED BY <4>1 DEF Chunks
      <3>5. r = [s EXCEPT !.restored = TRUE, !.shown = s.shown \cup screen]
        BY DEF Restored
      <3> HIDE DEF screen, r
      <3>3. /\ r \in [state : {"away", "off", "open", "closing", "retry"},
                      ready : BOOLEAN, restored : BOOLEAN, pending : Seq(Frames),
                      shown : SUBSET (Nat \X Nat), told : BOOLEAN]
            /\ r.state = s.state /\ r.pending = s.pending
            /\ r.shown = s.shown \cup screen
        BY <1>3, <3>1, <3>5
      <3>4. /\ t \in [state : {"away", "off", "open", "closing", "retry"},
                    ready : BOOLEAN, restored : BOOLEAN, pending : Seq(Frames),
                    shown : SUBSET (Nat \X Nat), told : BOOLEAN]
            /\ t.state = s.state
            /\ t.shown = s.shown \cup screen \cup Painted(s.pending)
        BY <3>3, GatePaints
      <3> HIDE DEF t
      <3> QED BY <1>1, <2>3, <3>0, <3>2, <3>4
    <2>4. CASE f.type = "exit"
      <3> DEFINE state == IF workspace THEN "closing" ELSE s.state
                 t == [s EXCEPT !.told = TRUE, !.state = state]
      <3>0. state \in {"open", "closing"}
        BY <1>1
      <3> HIDE DEF state
      <3>1. client' = [client EXCEPT ![c] = t]
        BY <1>2, <1>6, <2>4 DEF ClientTypes, state
      <3>2. /\ t \in [state : {"away", "off", "open", "closing", "retry"},
                      ready : BOOLEAN, restored : BOOLEAN, pending : Seq(Frames),
                      shown : SUBSET (Nat \X Nat), told : BOOLEAN]
            /\ t.state = state /\ t.restored = s.restored /\ t.pending = s.pending
            /\ t.shown = s.shown
        BY <1>3, <3>0
      <3> HIDE DEF t
      <3> QED BY <2>4, <3>0, <3>1, <3>2
    <2> QED BY <1>5, <2>1, <2>2, <2>3, <2>4
  <1>8. PICK t : /\ client' = [client EXCEPT ![c] = t]
                 /\ t \in [state : {"away", "off", "open", "closing", "retry"},
                           ready : BOOLEAN, restored : BOOLEAN, pending : Seq(Frames),
                           shown : SUBSET (Nat \X Nat), told : BOOLEAN]
                 /\ t.state \in {"open", "closing"}
                 /\ t.restored => s.restored \/ f.type = "attach"
                 /\ f.type = "attach" => s.state = t.state
                 /\ \A x : x \in s.shown \cup Painted(s.pending) => x \in t.shown \cup Painted(t.pending)
                 /\ f.type # "exit" => \A g, k : k # 0 /\ Brings(f, g, k)
                                          => <<g, k>> \in t.shown \cup Painted(t.pending)
    BY <1>7
  <1>9. /\ client'[c] = t /\ pipe'[c] = rest /\ ClientTypes'
        /\ \A d \in Clients \ {c} : client'[d] = client[d] /\ pipe'[d] = pipe[d]
    <2>1. /\ client' = [client EXCEPT ![c] = t]
          /\ t \in [state : {"away", "off", "open", "closing", "retry"},
                     ready : BOOLEAN, restored : BOOLEAN, pending : Seq(Frames),
                     shown : SUBSET (Nat \X Nat), told : BOOLEAN]
      BY <1>8
    <2>2. pipe' = [pipe EXCEPT ![c] = rest] /\ rest \in Seq(Frames) /\ line' = line
      BY <1>1, <1>4
    <2>3. /\ client'[c] = t /\ \A d \in Clients \ {c} : client'[d] = client[d]
          /\ client' \in [Clients -> [state : {"away", "off", "open", "closing", "retry"},
                               ready : BOOLEAN, restored : BOOLEAN, pending : Seq(Frames),
                               shown : SUBSET (Nat \X Nat), told : BOOLEAN]]
      BY <1>2, <2>1 DEF ClientTypes
    <2>4. /\ pipe'[c] = rest /\ \A d \in Clients \ {c} : pipe'[d] = pipe[d]
          /\ pipe' \in [Clients -> Seq(Frames)]
      BY <1>2, <2>2 DEF ClientTypes
    <2> QED BY <1>2, <2>2, <2>3, <2>4 DEF ClientTypes
  <1>10. SessionInv' /\ ViewerTypes'
    BY <1>1, <1>2, SessionStays DEF ViewerTypes, sessionVars
  <1>11. Connected(c)'
    <2>1. f.type = "attach" => line[c].payload = "sent"
      BY <1>2, <1>4 DEF Connected
    <2>2. NoScreen(pipe[c]) => NoScreen(rest) /\ f.type # "attach"
      BY <1>4
    <2>3. (f.type = "attach" => NoScreen(rest)) /\ OneScreen(rest)
      BY <1>4
    <2>4. /\ client'[c].state \in {"open", "closing"} /\ client[c].state = "open"
          /\ client'[c].restored => client[c].restored \/ f.type = "attach"
          /\ pipe'[c] = rest
      BY <1>1, <1>8, <1>9
    <2>5. UNCHANGED <<session, listeners, exitListeners, line>>
      BY <1>1 DEF sessionVars
    <2> QED BY <1>2, <2>1, <2>2, <2>3, <2>4, <2>5 DEF Connected
  <1>12. NothingMissed(c)'
    <2> SUFFICES ASSUME c \in listeners, NEW k \in 1..shell[session.shell].out,
                        Known(c, session.shell, k)
                 PROVE  Known(c, session.shell, k)'
      BY <1>1, <1>2 DEF NothingMissed, sessionVars
    <2>1. k # 0
      OBVIOUS
    <2>2. Brings(f, session.shell, k) => f.type # "exit"
      BY DEF Brings
    <2>3. client'[c] = t /\ pipe'[c] = rest /\ session' = session
      BY <1>1, <1>9 DEF sessionVars
    <2>4. CASE <<session.shell, k>> \in s.shown \cup Painted(s.pending)
      <3>1. <<session.shell, k>> \in t.shown \cup Painted(t.pending)
        BY <1>8, <2>4
      <3> QED BY <2>3, <3>1 DEF Known
    <2>5. CASE Carries(rest, session.shell, k)
      BY <2>3, <2>5 DEF Known
    <2>6. CASE Brings(f, session.shell, k)
      <3>1. <<session.shell, k>> \in t.shown \cup Painted(t.pending)
        BY <1>8, <2>1, <2>2, <2>6
      <3> QED BY <2>3, <3>1 DEF Known
    <2> QED BY <1>4, <2>4, <2>5, <2>6 DEF Known
  <1> QED BY <1>1, <1>9, <1>10, <1>11, <1>12, OneClientMoves DEF sessionVars

\* A frame that is sent to several clients is added to the pipes of those connected.
LEMMA FrameIsSent ==
  ASSUME ClientTypes, NEW cs, NEW f \in Frames, f.type # "attach", pipe' = SentTo(cs, f)
  PROVE  /\ pipe' \in [Clients -> Seq(Frames)]
         /\ \A c \in Clients :
               /\ NoScreen(pipe'[c]) <=> NoScreen(pipe[c])
               /\ OneScreen(pipe[c]) => OneScreen(pipe'[c])
               /\ \A g, k : Carries(pipe[c], g, k) => Carries(pipe'[c], g, k)
               /\ c \in cs /\ line[c].open => \A g, k : Brings(f, g, k) => Carries(pipe'[c], g, k)
  <1>1. ASSUME NEW c \in Clients
        PROVE  /\ pipe'[c] \in Seq(Frames)
               /\ NoScreen(pipe'[c]) <=> NoScreen(pipe[c])
               /\ OneScreen(pipe[c]) => OneScreen(pipe'[c])
               /\ \A g, k : Carries(pipe[c], g, k) => Carries(pipe'[c], g, k)
               /\ c \in cs /\ line[c].open => \A g, k : Brings(f, g, k) => Carries(pipe'[c], g, k)
    <2>1. pipe[c] \in Seq(Frames)
      BY DEF ClientTypes
    <2>2. CASE c \in cs /\ line[c].open
      <3>1. pipe'[c] = Append(pipe[c], f)
        BY <2>2 DEF SentTo
      <3> QED BY <2>1, <3>1, FrameAppended
    <2>3. CASE ~(c \in cs /\ line[c].open)
      <3>1. pipe'[c] = pipe[c]
        BY <2>3 DEF SentTo
      <3> QED BY <2>1, <2>3, <3>1
    <2> QED BY <2>2, <2>3
  <1>2. pipe' \in [Clients -> Seq(Frames)]
    BY <1>1 DEF SentTo
  <1> QED BY <1>1, <1>2

\* What a shell writes is sent to all who listen.
LEMMA WriteKeepsInv ==
  ASSUME TerminalInv, NEW g \in 1..MaxShells, WriteOutput(g)
  PROVE  TerminalInv'
  <1> DEFINE chunk == shell[g].out + 1
             f == Data(g, chunk)
  <1>1. /\ shell[g].state \in {"running", "killed"} /\ shell[g].out < MaxChunks
        /\ shell' = [shell EXCEPT ![g].out = chunk]
        /\ pipe' = SentTo(listeners, f)
        /\ UNCHANGED <<workspace, session, started, listeners, exitListeners, viewers, sizedBy, line,
                       client, miscounted, troubles>>
    BY DEF WriteOutput
  <1>2. SessionInv /\ ClientTypes /\ ViewerTypes
    BY DEF TerminalInv
  <1>3. /\ g \in Nat /\ chunk \in 0..MaxChunks /\ chunk \in Nat
        /\ shell[g].out \in Nat /\ chunk = shell[g].out + 1
    <2>1. shell[g].out \in 0..MaxChunks
      BY <1>2 DEF SessionInv
    <2> QED BY <1>1, <2>1, TerminalAssumption
  <1> HIDE DEF chunk
  <1>4. f \in Frames /\ f.type = "data" /\ f.shell = g /\ f.upto = chunk
    BY <1>3 DEF Data, Frames
  <1> HIDE DEF f
  <1>5. /\ pipe' \in [Clients -> Seq(Frames)]
        /\ \A c \in Clients :
               /\ NoScreen(pipe'[c]) <=> NoScreen(pipe[c])
               /\ OneScreen(pipe[c]) => OneScreen(pipe'[c])
               /\ \A h, k : Carries(pipe[c], h, k) => Carries(pipe'[c], h, k)
               /\ c \in listeners /\ line[c].open
                     => \A h, k : Brings(f, h, k) => Carries(pipe'[c], h, k)
    BY <1>1, <1>2, <1>4, FrameIsSent
  <1>6. SessionInv'
    <2>1. /\ shell' \in [1..MaxShells -> [state : {"none", "running", "killed", "ended", "gone"},
                                          out : 0..MaxChunks]]
          /\ shell'[g].state = shell[g].state
          /\ \A h \in 1..MaxShells : h # g => shell'[h] = shell[h]
      BY <1>1, <1>2, <1>3 DEF SessionInv
    <2>2. ~(g > started)
      BY <1>1, <1>2 DEF SessionInv
    <2>3. \A h \in 1..MaxShells :
             /\ h > started => shell'[h].state = "none" /\ shell'[h].out = 0
             /\ shell'[h].state = "running" => session.shell = h /\ session.active
      BY <1>2, <2>1, <2>2 DEF SessionInv
    <2> QED BY <1>1, <1>2, <2>1, <2>3 DEF SessionInv
  <1>7. ClientTypes' /\ ViewerTypes'
    BY <1>1, <1>2, <1>5 DEF ClientTypes, ViewerTypes
  <1>8. ASSUME NEW c \in Clients
        PROVE  Connected(c)' /\ NothingMissed(c)'
    <2>1. Connected(c) /\ NothingMissed(c)
      BY DEF TerminalInv
    <2>2. Connected(c)'
      BY <1>1, <1>5, <2>1 DEF Connected
    <2>3. ASSUME c \in listeners, client[c].state = "open",
                 NEW k \in 1..shell'[session.shell].out
          PROVE  Known(c, session.shell, k)' \/ OnScreen(line[c], session.shell, k)
      <3>1. session.shell \in 1..MaxShells /\ line[c].open
        BY <1>2, <2>1, <2>3, TerminalAssumption DEF Connected, SessionInv, NoShell
      <3>3. CASE k \in 1..shell[session.shell].out
        <4>1. Known(c, session.shell, k) \/ OnScreen(line[c], session.shell, k)
          BY <2>1, <2>3, <3>3 DEF NothingMissed
        <4>2. Known(c, session.shell, k) => Known(c, session.shell, k)'
          BY <1>1, <1>5 DEF Known
        <4> QED BY <4>1, <4>2
      <3>4. CASE k \notin 1..shell[session.shell].out
        <4>1. session.shell = g /\ k = chunk
          <5>1. g # session.shell => shell'[session.shell] = shell[session.shell]
            BY <1>1, <1>2, <3>1 DEF SessionInv
          <5>2. g = session.shell
            BY <3>4, <5>1
          <5>3. shell'[g].out = chunk
            BY <1>1, <1>2 DEF SessionInv
          <5> QED BY <1>3, <3>4, <5>2, <5>3
        <4>2. Brings(f, session.shell, k)
          BY <1>4, <4>1 DEF Brings
        <4>3. Carries(pipe'[c], session.shell, k)
          BY <1>5, <2>3, <3>1, <4>2
        <4> QED BY <1>1, <4>3 DEF Known
      <3> QED BY <3>3, <3>4
    <2>4. NothingMissed(c)'
      BY <1>1, <2>3 DEF NothingMissed
    <2> QED BY <2>2, <2>4
  <1> QED BY <1>6, <1>7, <1>8 DEF TerminalInv

\* A shell ends, or a session that it has ended under becomes inactive.
LEMMA EndKeepsInv ==
  ASSUME TerminalInv, NEW g \in 1..MaxShells, EndShell(g) \/ WriteFails(g)
  PROVE  TerminalInv'
  <1>1. UNCHANGED <<workspace, started, listeners, exitListeners, viewers, sizedBy, line,
                    pipe, client, miscounted>>
    BY DEF EndShell, WriteFails
  <1>2. SessionInv
    BY DEF TerminalInv
  <1>3. CASE EndShell(g)
    <2>1. /\ shell[g].state \in {"running", "killed"} /\ session' = session
          /\ shell' = [shell EXCEPT ![g].state = "ended"]
      BY <1>3 DEF EndShell
    <2>2. /\ shell' \in [1..MaxShells -> [state : {"none", "running", "killed", "ended", "gone"},
                                          out : 0..MaxChunks]]
          /\ shell'[g].state = "ended" /\ shell'[g].out = shell[g].out
          /\ \A h \in 1..MaxShells : h # g => shell'[h] = shell[h]
      BY <1>2, <2>1 DEF SessionInv
    <2>3. ~(g > started)
      BY <1>2, <2>1 DEF SessionInv
    <2>4. SessionInv'
      BY <1>1, <1>2, <2>1, <2>2, <2>3 DEF SessionInv
    <2> QED BY <1>1, <2>1, <2>2, <2>4, ShellsMove
  <1>4. CASE WriteFails(g)
    <2>1. /\ shell[g].state = "ended" /\ session.shell = g /\ shell' = shell
          /\ session' = [session EXCEPT !.active = FALSE]
      BY <1>4 DEF WriteFails
    <2>2. /\ session' \in [shell : 0..MaxShells, active : BOOLEAN, exited : BOOLEAN]
          /\ session'.shell = session.shell
      BY <1>2, <2>1 DEF SessionInv
    <2>4. session.shell # NoShell
      BY <2>1 DEF NoShell
    <2>3. SessionInv'
      BY <1>1, <1>2, <2>1, <2>2, <2>4 DEF SessionInv
    <2> QED BY <1>1, <2>1, <2>2, <2>3, ShellsMove
  <1> QED BY <1>3, <1>4

\* The end of the session's shell is told to those who wait for it.
LEMMA ReportKeepsInv ==
  ASSUME TerminalInv, NEW g \in 1..MaxShells, ReportEnd(g)
  PROVE  TerminalInv'
  <1>1. /\ shell[g].state = "ended"
        /\ shell' = [shell EXCEPT ![g].state = "gone"]
        /\ UNCHANGED <<workspace, started, listeners, exitListeners, viewers, sizedBy, line, client,
                       miscounted, troubles>>
        /\ \/ /\ session.shell = g
              /\ session' = [session EXCEPT !.active = FALSE, !.exited = TRUE]
              /\ pipe' = SentTo(exitListeners, ExitOf(g))
           \/ session.shell # g /\ session' = session /\ pipe' = pipe
    BY DEF ReportEnd
  <1>2. SessionInv /\ ClientTypes /\ ViewerTypes
    BY DEF TerminalInv
  <1>3. /\ shell' \in [1..MaxShells -> [state : {"none", "running", "killed", "ended", "gone"},
                                        out : 0..MaxChunks]]
        /\ shell'[g].state = "gone" /\ shell'[g].out = shell[g].out
        /\ \A h \in 1..MaxShells : h # g => shell'[h] = shell[h]
    BY <1>1, <1>2 DEF SessionInv
  <1>4. ~(g > started)
    BY <1>1, <1>2 DEF SessionInv
  <1>5. CASE session.shell # g
    <2>1. SessionInv'
      BY <1>1, <1>2, <1>3, <1>4, <1>5 DEF SessionInv
    <2> QED BY <1>1, <1>3, <1>5, <2>1, ShellsMove
  <1>6. CASE session.shell = g
    <2>1. session' = [session EXCEPT !.active = FALSE, !.exited = TRUE]
          /\ pipe' = SentTo(exitListeners, ExitOf(g))
      BY <1>1, <1>6
    <2>2. /\ session' \in [shell : 0..MaxShells, active : BOOLEAN, exited : BOOLEAN]
          /\ session'.shell = g
      BY <1>2, <1>6, <2>1 DEF SessionInv
    <2>8. g # NoShell /\ g \in Nat
      BY TerminalAssumption DEF NoShell
    <2>3. SessionInv'
      BY <1>1, <1>2, <1>3, <1>4, <1>6, <2>2, <2>8 DEF SessionInv
    <2>4. ExitOf(g) \in Frames /\ ExitOf(g).type = "exit"
      BY <2>8 DEF ExitOf, Frames
    <2>5. /\ pipe' \in [Clients -> Seq(Frames)]
          /\ \A c \in Clients :
               /\ NoScreen(pipe'[c]) <=> NoScreen(pipe[c])
               /\ OneScreen(pipe[c]) => OneScreen(pipe'[c])
               /\ \A h, k : Carries(pipe[c], h, k) => Carries(pipe'[c], h, k)
      BY <1>2, <2>1, <2>4, FrameIsSent
    <2>6. ClientTypes' /\ ViewerTypes'
      BY <1>1, <1>2, <2>5 DEF ClientTypes, ViewerTypes
    <2>7. ASSUME NEW c \in Clients
          PROVE  Connected(c)' /\ NothingMissed(c)'
      <3>1. Connected(c) /\ NothingMissed(c)
        BY DEF TerminalInv
      <3>2. Connected(c)'
        BY <1>1, <1>6, <2>2, <2>5, <2>8, <3>1 DEF Connected
      <3>3. \A h, k : Known(c, h, k) => Known(c, h, k)'
        BY <1>1, <2>5 DEF Known
      <3>4. NothingMissed(c)'
        BY <1>1, <1>3, <1>6, <2>2, <3>1, <3>3 DEF NothingMissed
      <3> QED BY <3>2, <3>4
    <2> QED BY <2>3, <2>6, <2>7 DEF TerminalInv
  <1> QED BY <1>5, <1>6

\* Every step of the terminal keeps the invariant.
LEMMA TerminalInvNext == TerminalInv /\ [TerminalNext]_terminalVars => TerminalInv'
  <1> SUFFICES ASSUME TerminalInv, [TerminalNext]_terminalVars
               PROVE  TerminalInv'
    OBVIOUS
  <1>1. CASE RunScript \/ KillSession
    BY <1>1, ScriptKeepsInv, KillKeepsInv
  <1>2. ASSUME NEW c \in Clients, ClientStep(c)
        PROVE  TerminalInv'
    BY <1>2, ConnectKeepsInv, ConnectFailsKeepsInv, DisconnectKeepsInv, AskKeepsInv, SendKeepsInv,
       ReceiveKeepsInv, GateKeepsInv
    DEF ClientStep
  <1>3. ASSUME NEW g \in 1..MaxShells, ShellStep(g)
        PROVE  TerminalInv'
    BY <1>3, WriteKeepsInv, EndKeepsInv, ReportKeepsInv DEF ShellStep
  <1>4. CASE UNCHANGED terminalVars
    <2>1. SessionInv' /\ UNCHANGED <<session, shell, listeners, exitListeners, viewers, sizedBy,
                                     miscounted, line, pipe, client>>
      BY <1>4, SessionStays DEF terminalVars, sessionVars, TerminalInv
    <2> QED BY <2>1, ShellsMove
  <1> QED BY <1>1, <1>2, <1>3, <1>4 DEF TerminalNext

\* A client that listens and has been sent the screen misses nothing, for all clients,
\* shells and amounts of output, however sockets are lost, sessions killed and shells
\* replaced (terminal.ts:170, 212).
THEOREM TerminalsHold == TerminalSpec => [](TerminalTypeOK /\ NoOutputLost)
  BY TerminalInvInit, TerminalInvNext, TerminalInvMeans, PTL DEF TerminalSpec

\* While nothing has been miscounted, the runtime knows how many clients look on whose
\* size goes first.
Lookers == {c \in Clients \ Remote : line[c].open}

ViewersCounted ==
    ~miscounted => IsFiniteSet(Lookers) /\ viewers["authoritative"] = Cardinality(Lookers)

CountInv == TerminalInv /\ ViewersCounted

\* A step that opens and closes no connection leaves the count right.
LEMMA CountStays ==
  ASSUME ViewersCounted, viewers' = viewers, miscounted' = miscounted,
         \A c \in Clients : line'[c].open = line[c].open
  PROVE  ViewersCounted'
  <1>1. Lookers' = Lookers
    BY DEF Lookers
  <1> QED BY <1>1 DEF ViewersCounted

\* A connection that begins is counted.
LEMMA ConnectIsCounted ==
  ASSUME TerminalInv, ViewersCounted, NEW c \in Clients, Connect(c)
  PROVE  ViewersCounted'
  <1>1. /\ viewers' = [viewers EXCEPT ![Kind(c)] = viewers[Kind(c)] + 1]
        /\ line' = [line EXCEPT ![c] = [NoLine EXCEPT !.open = TRUE]]
        /\ miscounted' = miscounted /\ client[c].state \in {"off", "retry"}
    BY DEF Connect
  <1>2. viewers \in [Kinds -> Nat] /\ ClientTypes /\ Connected(c)
    BY DEF TerminalInv, ViewerTypes
  <1>3. /\ ~line[c].open /\ line'[c].open
        /\ \A d \in Clients \ {c} : line'[d] = line[d]
    BY <1>1, <1>2 DEF Connected, ClientTypes, NoLine
  <1>4. CASE c \in Remote
    <2>1. Lookers' = Lookers
      BY <1>3, <1>4 DEF Lookers
    <2>2. viewers'["authoritative"] = viewers["authoritative"]
      BY <1>1, <1>2, <1>4 DEF Kind, Kinds
    <2> QED BY <1>1, <2>1, <2>2 DEF ViewersCounted
  <1>5. CASE c \notin Remote
    <2>1. Lookers' = Lookers \cup {c} /\ c \notin Lookers
      BY <1>3, <1>5 DEF Lookers
    <2>2. viewers'["authoritative"] = viewers["authoritative"] + 1
      BY <1>1, <1>2, <1>5 DEF Kind, Kinds
    <2> QED BY <1>1, <2>1, <2>2, FS_AddElement DEF ViewersCounted
  <1> QED BY <1>4, <1>5

\* One that goes is taken off, once or else it is miscounted.
LEMMA DisconnectIsCounted ==
  ASSUME TerminalInv, ViewersCounted, NEW c \in Clients, LoseSocket(c) \/ FinishClose(c)
  PROVE  ViewersCounted'
  <1> SUFFICES ASSUME ~miscounted' PROVE ViewersCounted'
    BY DEF ViewersCounted
  <1>1. /\ Unregister(c, 1) /\ miscounted' = miscounted
        /\ client[c].state \in {"open", "closing"}
    BY DEF LoseSocket, FinishClose
  <1>2. /\ viewers' = [viewers EXCEPT ![Kind(c)] = IF viewers[Kind(c)] >= 1
                                                   THEN viewers[Kind(c)] - 1 ELSE 0]
        /\ line' = [line EXCEPT ![c] = NoLine]
    BY <1>1 DEF Unregister
  <1>3. viewers \in [Kinds -> Nat] /\ ClientTypes /\ Connected(c)
    BY DEF TerminalInv, ViewerTypes
  <1>4. /\ line[c].open /\ ~line'[c].open
        /\ \A d \in Clients \ {c} : line'[d] = line[d]
    BY <1>1, <1>2, <1>3 DEF Connected, ClientTypes, NoLine
  <1>5. CASE c \in Remote
    <2>1. Lookers' = Lookers
      BY <1>4, <1>5 DEF Lookers
    <2>2. viewers'["authoritative"] = viewers["authoritative"]
      BY <1>2, <1>3, <1>5 DEF Kind, Kinds
    <2> QED BY <1>1, <2>1, <2>2 DEF ViewersCounted
  <1>6. CASE c \notin Remote
    <2>1. Lookers' = Lookers \ {c} /\ c \in Lookers
      BY <1>4, <1>6 DEF Lookers
    <2>2. IsFiniteSet(Lookers) /\ viewers["authoritative"] = Cardinality(Lookers)
      BY <1>1 DEF ViewersCounted
    <2>3. /\ IsFiniteSet(Lookers') /\ Cardinality(Lookers') = Cardinality(Lookers) - 1
          /\ Cardinality(Lookers) \in Nat /\ Cardinality(Lookers') \in Nat
      BY <2>1, <2>2, FS_RemoveElement, FS_CardinalityType
    <2>4. viewers'["authoritative"] = IF viewers["authoritative"] >= 1
                                      THEN viewers["authoritative"] - 1 ELSE 0
      BY <1>2, <1>3, <1>6 DEF Kind, Kinds
    <2>5. viewers'["authoritative"] = Cardinality(Lookers')
      BY <2>2, <2>3, <2>4
    <2> QED BY <2>3, <2>5 DEF ViewersCounted
  <1> QED BY <1>5, <1>6

\* The count is right at the start ...
LEMMA CountInvInit == TerminalInit => CountInv
  <1> SUFFICES ASSUME TerminalInit PROVE CountInv
    OBVIOUS
  <1>1. Lookers = {} /\ viewers["authoritative"] = 0
    BY DEF TerminalInit, Lookers, NoLine, Kinds
  <1>2. ViewersCounted
    BY <1>1, FS_EmptySet DEF ViewersCounted
  <1> QED BY <1>2, TerminalInvInit DEF CountInv

\* ... and after every step.
LEMMA CountInvNext == CountInv /\ [TerminalNext]_terminalVars => CountInv'
  <1> SUFFICES ASSUME CountInv, [TerminalNext]_terminalVars
               PROVE  CountInv'
    OBVIOUS
  <1>1. TerminalInv /\ ViewersCounted /\ TerminalInv'
    BY TerminalInvNext DEF CountInv
  <1>2. CASE \/ RunScript \/ KillSession \/ UNCHANGED terminalVars
             \/ \E g \in 1..MaxShells : ShellStep(g)
    <2>1. UNCHANGED <<viewers, miscounted, line>>
      BY <1>2 DEF RunScript, KillSession, terminalVars, ShellStep, WriteOutput, EndShell,
                  WriteFails, ReportEnd
    <2> QED BY <1>1, <2>1, CountStays DEF CountInv
  <1>3. ASSUME NEW c \in Clients, Connect(c) \/ LoseSocket(c) \/ FinishClose(c)
        PROVE  CountInv'
    BY <1>1, <1>3, ConnectIsCounted, DisconnectIsCounted DEF CountInv
  <1>4. ASSUME NEW c \in Clients, ConnectFails(c)
        PROVE  CountInv'
    <2>1. miscounted' = TRUE
      BY <1>4 DEF ConnectFails
    <2> QED BY <1>1, <2>1 DEF CountInv, ViewersCounted
  <1>5. ASSUME NEW c \in Clients,
               AskForPayload(c) \/ SendPayload(c) \/ ReceiveFrame(c) \/ GateFallback(c)
        PROVE  CountInv'
    <2>1. UNCHANGED <<viewers, miscounted>>
      BY <1>5 DEF AskForPayload, SendPayload, ReceiveFrame, GateFallback
    <2>2. ClientTypes /\ Connected(c)
      BY <1>1 DEF TerminalInv
    <2>3. CASE ReceiveFrame(c) \/ GateFallback(c)
      BY <1>1, <2>1, <2>3, CountStays DEF ReceiveFrame, GateFallback, CountInv
    <2>4. CASE AskForPayload(c)
      <3>1. \E l : /\ line' = [line EXCEPT ![c] = l] /\ l.open = line[c].open
        <4> DEFINE asked == [line[c] EXCEPT !.payload = "flushing", !.of = session.shell,
                                 !.upto = IF session = NoSession THEN 0
                                          ELSE shell[session.shell].out]
        <4>1. line' = [line EXCEPT ![c] = IF line[c].payload # "unsent" THEN line[c] ELSE asked]
          BY <2>4 DEF AskForPayload
        <4>2. asked.open = line[c].open
          BY <2>2 DEF ClientTypes
        <4> HIDE DEF asked
        <4> QED BY <4>1, <4>2
      <3>2. \A d \in Clients : line'[d].open = line[d].open
        BY <2>2, <3>1 DEF ClientTypes
      <3> QED BY <1>1, <2>1, <3>2, CountStays DEF CountInv
    <2>5. CASE SendPayload(c)
      <3>1. /\ line[c].payload = "flushing"
            /\ line' = [line EXCEPT ![c] = [NoLine EXCEPT !.open = TRUE, !.payload = "sent"]]
        BY <2>5 DEF SendPayload
      <3>2. line[c].open = TRUE
        BY <2>2, <3>1 DEF Connected, ClientTypes, NoLine
      <3>3. [NoLine EXCEPT !.open = TRUE, !.payload = "sent"].open = TRUE
        BY DEF NoLine
      <3>4. \A d \in Clients : line'[d].open = line[d].open
        BY <2>2, <3>1, <3>2, <3>3 DEF ClientTypes
      <3> QED BY <1>1, <2>1, <3>4, CountStays DEF CountInv
    <2> QED BY <1>5, <2>3, <2>4, <2>5
  <1>6. ASSUME NEW c \in Clients, ClientStep(c)
        PROVE  CountInv'
    BY <1>3, <1>4, <1>5, <1>6 DEF ClientStep
  <1> QED BY <1>2, <1>6 DEF TerminalNext

\* A remote client that sets the size finds nobody counted, so nobody connected.
LEMMA YieldStep ==
  ASSUME CountInv, TerminalNext, sizedBy' # sizedBy, sizedBy' \in Remote, ~miscounted
  PROVE  ~\E c \in Clients \ Remote : line[c].open
  <1>1. PICK c \in Clients : AskForPayload(c)
    BY DEF TerminalNext, RunScript, KillSession, ClientStep, ShellStep, Connect, ConnectFails,
           LoseSocket, SendPayload, ReceiveFrame, GateFallback, FinishClose, WriteOutput,
           EndShell, WriteFails, ReportEnd, sessionVars
  <1>2. viewers["authoritative"] = 0
    BY <1>1 DEF AskForPayload
  <1>3. IsFiniteSet(Lookers) /\ Cardinality(Lookers) = 0
    BY <1>2 DEF CountInv, ViewersCounted
  <1>4. Lookers = {}
    BY <1>3, FS_EmptySet
  <1> QED BY <1>4 DEF Lookers

\* A remote client does not change the size while another viewer is connected, unless the
\* viewers have been miscounted, for any number of clients (terminalService.ts:387,
\* terminal.ts:308).
THEOREM RemoteClientsYield == TerminalSpec => RemoteYields
  <1>1. CountInv /\ [TerminalNext]_terminalVars
           => [sizedBy' # sizedBy /\ sizedBy' \in Remote
                 => miscounted \/ ~\E c \in Clients \ Remote : line[c].open]_terminalVars
    BY YieldStep
  <1> QED BY <1>1, CountInvInit, CountInvNext, PTL DEF TerminalSpec, RemoteYields

(***************************************************************************)
(* The four services beside each other, as the run services has them.      *)
(* Each moves while the others rest, so its own invariant is kept by its   *)
(* own steps and by the rest of the others.                                *)
(***************************************************************************)
ServicesInv == WorktreeInv /\ PoolInv /\ CountInv /\ DevicesInv

servicesVars == <<worktreeVars, poolVars, terminalVars, deviceVars>>

\* The count of viewers is right where the instance of MCServices starts.
LEMMA CountInvMC ==
  ASSUME MaxShells # 0, MCTerminalInit
  PROVE  CountInv
  <1>1. viewers = [k \in Kinds |-> 0] /\ line = [c \in Clients |-> NoLine]
    BY DEF MCTerminalInit, TerminalFrom
  <1>2. Lookers = {} /\ viewers["authoritative"] = 0
    BY <1>1 DEF Lookers, NoLine, Kinds
  <1>3. ViewersCounted
    BY <1>2, FS_EmptySet DEF ViewersCounted
  <1> QED BY <1>3, TerminalInvMC DEF CountInv

\* So are the streams of devices, wherever that instance starts them.
LEMMA DevicesInvMC ==
  ASSUME MCDevicesInit
  PROVE  DevicesInv
  <1>1. MaxStarts \in Nat /\ MaxMoves \in Nat /\ MaxDrops \in Nat /\ Simulators \subseteq Devices
    BY DeviceAssumption DEF Devices
  <1>2. CASE here = Simulators /\ DevicesFrom(0, MaxMoves, MaxDrops)
    BY <1>1, <1>2, DevicesInvFrom
  <1>3. CASE here \in SUBSET Devices /\ DevicesFrom(1, MaxMoves, 0)
    BY <1>1, <1>3, DevicesInvFrom
  <1>4. CASE here \in SUBSET Devices /\ DevicesFrom(1, 0, MaxDrops)
    BY <1>1, <1>4, DevicesInvFrom
  <1>5. CASE DevicesRest
    BY <1>1, <1>5, DevicesInvFrom DEF DevicesRest
  <1> QED BY <1>2, <1>3, <1>4, <1>5 DEF MCDevicesInit

\* All four hold at the start.
LEMMA ServicesInvInit ==
  ASSUME MaxShells # 0, ServicesInit
  PROVE  ServicesInv
  <1>1. WorktreeInit /\ PoolInit /\ MCTerminalInit /\ MCDevicesInit
    BY DEF ServicesInit
  <1> QED BY <1>1, WorktreeInvInit, PoolInvInit, CountInvMC, DevicesInvMC DEF ServicesInv

\* A step of the services is a step of each of them, or leaves it alone.
LEMMA ServicesStep ==
  ASSUME [ServicesNext]_servicesVars
  PROVE  /\ [WorktreeNext]_worktreeVars /\ [PoolNext]_poolVars
         /\ [TerminalNext]_terminalVars /\ [DevicesNext]_deviceVars
  BY DEF ServicesNext, servicesVars

\* Every step keeps them.
LEMMA ServicesInvNext ==
  ServicesInv /\ [ServicesNext]_servicesVars => ServicesInv'
  BY ServicesStep, WorktreeInvNext, PoolInvNext, CountInvNext, DevicesInvNext DEF ServicesInv

\* They give the types and the properties of the services.
LEMMA ServicesInvMeans ==
  ServicesInv => /\ ServicesTypeOK /\ UsableHasDirectory
                 /\ LeasesAreSound /\ NoOutputLost /\ DevicesAreSound
  <1> SUFFICES ASSUME ServicesInv
               PROVE  /\ ServicesTypeOK /\ UsableHasDirectory
                      /\ LeasesAreSound /\ NoOutputLost /\ DevicesAreSound
    OBVIOUS
  <1>1. WorktreeTypeOK /\ UsableHasDirectory
    BY WorktreeInvMeans DEF ServicesInv
  <1>2. PoolTypeOK /\ LeasesAreSound
    BY DEF ServicesInv, PoolInv, LeasedIsBusy, LeasesAreSound, LeasedNotDisposed, Opened
  <1>3. TerminalTypeOK /\ NoOutputLost
    BY TerminalInvMeans DEF ServicesInv, CountInv
  <1>4. DevicesTypeOK /\ DevicesAreSound
    BY DevicesInvMeans DEF ServicesInv
  <1> QED BY <1>1, <1>2, <1>3, <1>4 DEF ServicesTypeOK

\* The services of the runtime keep their types, and what each promises, beside each
\* other: a usable worktree has its directory (worktreeService.ts:381), an agent has one
\* turn (agentPool.ts:47), a client of a terminal misses no output (terminal.ts:170), and
\* every process of a stream is known to a session (deviceService.ts:891).
THEOREM ServicesHold ==
  ASSUME MaxShells # 0
  PROVE  ServicesSpec => [](/\ ServicesTypeOK /\ UsableHasDirectory
                            /\ LeasesAreSound /\ NoOutputLost /\ DevicesAreSound)
  <1>1. ServicesInit => ServicesInv
    BY ServicesInvInit
  <1> QED BY <1>1, ServicesInvNext, ServicesInvMeans, PTL DEF ServicesSpec, servicesVars

\* The size of a terminal is as safe from remote clients beside the other services
\* (terminalService.ts:387, terminal.ts:308).
THEOREM RemoteClientsYieldThere ==
  ASSUME MaxShells # 0
  PROVE  ServicesSpec => RemoteYields
  <1>1. ServicesInit => ServicesInv
    BY ServicesInvInit
  <1>2. ServicesInv /\ [ServicesNext]_servicesVars
           => [sizedBy' # sizedBy /\ sizedBy' \in Remote
                 => miscounted \/ ~\E c \in Clients \ Remote : line[c].open]_terminalVars
    BY ServicesStep, YieldStep DEF ServicesInv
  <1> QED BY <1>1, <1>2, ServicesInvNext, PTL DEF ServicesSpec, servicesVars, RemoteYields

=============================================================================
