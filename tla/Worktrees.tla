----------------------------- MODULE Worktrees -----------------------------
(***************************************************************************)
(* The life of one worktree that is not the primary one: its row in the    *)
(* database, its directory, the job that provisions it, the requests to    *)
(* delete it and the one background job they share, the deletion of its    *)
(* repository, which removes it without marking the row, and restarts of   *)
(* the runtime, whose recovery runs beside the requests of clients.        *)
(***************************************************************************)
EXTENDS Naturals

CONSTANTS
    Deleters,       \* calls of requestDeletion
    Evictions,      \* deletions of the repository
    MaxBoots        \* bound: restarts

Removers == Evictions \cup {"job"}

ASSUME WorktreeAssumption == "job" \notin Evictions /\ MaxBoots \in Nat

VARIABLES
    row,            \* the status of the Worktree row, before and after it exists too
    disk,           \* the directory
    provision,      \* what the provisioning job is doing
    removal,        \* removal[x]: what remover x is doing
    deleter,        \* deleter[q]: what request q is doing
    recovery,       \* what the recovery after a restart is doing
    torn,           \* history: a removal was cut short under an active row
    boots

worktreeVars == <<row, disk, provision, removal, deleter, recovery, torn, boots>>

-----------------------------------------------------------------------------
Rows == {"none", "creating", "active", "create_failed", "deleting", "delete_failed", "gone"}

AtWork(x)  == removal[x] \notin {"off", "over"}
RowExists  == row \notin {"none", "gone"}
Step(x, s) == removal' = [removal EXCEPT ![x] = s]

WorktreeInit ==
    /\ row = "none" /\ disk = "absent" /\ provision = "off"
    /\ removal = [x \in Removers |-> "off"]
    /\ deleter = [q \in Deleters |-> "off"]
    /\ recovery = "done"
    /\ torn = FALSE /\ boots = 0

-----------------------------------------------------------------------------
(* create and its provisioning job.                                        *)
-----------------------------------------------------------------------------
CreateWorktree ==
    /\ row = "none"
    /\ row' = "creating" /\ provision' = "fetching"
    /\ UNCHANGED <<disk, removal, deleter, recovery, torn, boots>>

\* git worktree add begins to fill the directory.
StartAdd ==
    /\ provision = "fetching"
    /\ disk' = "partial" /\ provision' = "adding"
    /\ UNCHANGED <<row, removal, deleter, recovery, torn, boots>>

FinishAdd ==
    /\ provision = "adding" /\ disk = "partial"
    /\ disk' = "present" /\ provision' = "added"
    /\ UNCHANGED <<row, removal, deleter, recovery, torn, boots>>

\* A failed git command: what it left is removed.
AddFails ==
    /\ provision \in {"fetching", "adding"}
    /\ disk' = "absent" /\ provision' = "failed"
    /\ UNCHANGED <<row, removal, deleter, recovery, torn, boots>>

\* The first thread is created and the row updated; either may fail, the update
\* when the row is gone.
Activate ==
    /\ provision = "added"
    /\ \/ /\ RowExists
          /\ row' = "active" /\ provision' = "off"
       \/ provision' = "failed" /\ UNCHANGED row
    /\ UNCHANGED <<disk, removal, deleter, recovery, torn, boots>>

\* A row that is gone is left alone.
RecordCreateFailure ==
    /\ provision = "failed"
    /\ row' = IF RowExists THEN "create_failed" ELSE row
    /\ provision' = "off"
    /\ UNCHANGED <<disk, removal, deleter, recovery, torn, boots>>

-----------------------------------------------------------------------------
(* requestDeletion.                                                        *)
-----------------------------------------------------------------------------
\* scheduleDeletion: the job in flight is joined.
Scheduled(removals) == IF AtWork("job") THEN removals ELSE [removals EXCEPT !["job"] = "read"]

LoadCandidate(q) ==
    /\ deleter[q] = "off"
    /\ RowExists
    /\ IF row # "deleting"
       THEN deleter' = [deleter EXCEPT ![q] = "mark"] /\ UNCHANGED removal
       ELSE deleter' = [deleter EXCEPT ![q] = "over"] /\ removal' = Scheduled(removal)
    /\ UNCHANGED <<row, disk, provision, recovery, torn, boots>>

\* markDeletionState fails when the row has gone meanwhile.
MarkDeleting(q) ==
    /\ deleter[q] = "mark"
    /\ deleter' = [deleter EXCEPT ![q] = "over"]
    /\ IF RowExists
       THEN row' = "deleting" /\ removal' = Scheduled(removal)
       ELSE UNCHANGED <<row, removal>>
    /\ UNCHANGED <<disk, provision, recovery, torn, boots>>

-----------------------------------------------------------------------------
(* deleteWorktreeNow and worktreeService.remove.                           *)
-----------------------------------------------------------------------------
\* The route that deletes the repository has read its worktrees.  It joins a job
\* in flight, and removes by itself, without a mark, otherwise.
Evict(x) ==
    /\ removal[x] = "off" /\ RowExists
    /\ Step(x, IF AtWork("job") THEN "join" ELSE "read")
    /\ UNCHANGED <<row, disk, provision, deleter, recovery, torn, boots>>

JoinedEnds(x) ==
    /\ removal[x] = "join" /\ ~AtWork("job")
    /\ Step(x, "drop")
    /\ UNCHANGED <<row, disk, provision, deleter, recovery, torn, boots>>

\* The job runs the teardown scripts, unless it is forced.
ReadWorktree(x) ==
    /\ removal[x] = "read"
    /\ \/ ~RowExists /\ Step(x, "failed")
       \/ row = "create_failed" /\ Step(x, "sweep")
       \/ RowExists /\ row # "create_failed" /\ Step(x, "git")
       \/ /\ x = "job" /\ RowExists /\ row # "create_failed"
          /\ Step(x, "teardown")
    /\ UNCHANGED <<row, disk, provision, deleter, recovery, torn, boots>>

Teardown(x) ==
    /\ removal[x] = "teardown"
    /\ \E s \in {"git", "failed"} : Step(x, s)
    /\ UNCHANGED <<row, disk, provision, deleter, recovery, torn, boots>>

\* removeGitWorktree.  A directory git does not know (yet) stays where it is.
GitRemove(x) ==
    /\ removal[x] = "git"
    /\ \/ disk' \in (IF disk = "partial" THEN {"partial", "absent"} ELSE {"absent"})
          /\ Step(x, "row")
       \/ disk' \in (IF disk = "absent" THEN {"absent"} ELSE {disk, "partial"})
          /\ Step(x, "failed")
    /\ UNCHANGED <<row, provision, deleter, recovery, torn, boots>>

\* The same for a worktree whose creation failed; errors are ignored.
Sweep(x) ==
    /\ removal[x] = "sweep"
    /\ disk' \in {disk, "absent"}
    /\ Step(x, "row")
    /\ UNCHANGED <<row, provision, deleter, recovery, torn, boots>>

DeleteRow(x) ==
    /\ removal[x] = "row"
    /\ IF RowExists THEN row' = "gone" /\ Step(x, "rm")
       ELSE Step(x, "failed") /\ UNCHANGED row
    /\ UNCHANGED <<disk, provision, deleter, recovery, torn, boots>>

RemoveDirectory(x) ==
    /\ removal[x] = "rm"
    /\ disk' = "absent"
    /\ Step(x, IF x = "job" THEN "off" ELSE "drop")
    /\ UNCHANGED <<row, provision, deleter, recovery, torn, boots>>

\* Mutant of RemovalFails: the failure is not recorded.
FailsSilently(x) ==
    /\ removal[x] = "failed"
    /\ Step(x, IF x = "job" THEN "off" ELSE "drop")
    /\ UNCHANGED <<row, disk, provision, deleter, recovery, torn, boots>>

\* The job records the failure; the route logs it and goes on.  Provisioning that
\* is about to end takes no notice of a failed removal.
RemovalFails(x) ==
    /\ removal[x] = "failed"
    /\ row' = IF x = "job" /\ RowExists THEN "delete_failed" ELSE row
    /\ Step(x, IF x = "job" THEN "off" ELSE "drop")
    /\ torn' = (torn \/ (provision = "added" /\ disk # "present"))
    /\ UNCHANGED <<disk, provision, deleter, recovery, boots>>

\* The row goes with the repository's.
DropRepository(x) ==
    /\ removal[x] = "drop"
    /\ row' = "gone"
    /\ Step(x, "over")
    /\ UNCHANGED <<disk, provision, deleter, recovery, torn, boots>>

-----------------------------------------------------------------------------
(* A restart, and the recovery that follows once the server listens.       *)
-----------------------------------------------------------------------------
RestartRuntime ==
    /\ boots < MaxBoots
    /\ boots' = boots + 1
    /\ provision' = "off"
    /\ removal' = [x \in Removers |-> IF x = "job" THEN "off"
                                      ELSE IF AtWork(x) THEN "over" ELSE removal[x]]
    /\ deleter' = [q \in Deleters |-> IF deleter[q] = "mark" THEN "over" ELSE deleter[q]]
    /\ torn' = (torn \/ (row = "active" /\ disk # "present"))
    /\ recovery' = "creations"
    /\ UNCHANGED <<row, disk>>

\* recoverPendingCreations and recoverPendingDeletions: the rows are looked for,
\* and updated afterwards whatever they have become; a row that is gone makes the
\* update fail, which is logged.
FindPending ==
    /\ recovery \in {"creations", "deletions"}
    /\ recovery' = CASE recovery = "creations" /\ row = "creating" -> "fail creation"
                     [] recovery = "creations" /\ row # "creating" -> "deletions"
                     [] recovery = "deletions" /\ row = "deleting" -> "fail deletion"
                     [] OTHER -> "done"
    /\ UNCHANGED <<row, disk, provision, removal, deleter, torn, boots>>

\* Mutant of MarkPending: an interrupted deletion is taken back.
RestorePending ==
    /\ recovery \in {"fail creation", "fail deletion"}
    /\ row' = CASE ~RowExists -> row
                [] RowExists /\ recovery = "fail creation" -> "create_failed"
                [] RowExists /\ recovery = "fail deletion" -> "active"
    /\ recovery' = IF recovery = "fail creation" THEN "deletions" ELSE "done"
    /\ UNCHANGED <<disk, provision, removal, deleter, torn, boots>>

MarkPending ==
    /\ recovery \in {"fail creation", "fail deletion"}
    /\ row' = CASE ~RowExists -> row
                [] RowExists /\ recovery = "fail creation" -> "create_failed"
                [] RowExists /\ recovery = "fail deletion" -> "delete_failed"
    /\ recovery' = IF recovery = "fail creation" THEN "deletions" ELSE "done"
    /\ UNCHANGED <<disk, provision, removal, deleter, torn, boots>>

-----------------------------------------------------------------------------
Provisioning == StartAdd \/ FinishAdd \/ AddFails \/ Activate \/ RecordCreateFailure

Removal(x) ==
    \/ JoinedEnds(x) \/ ReadWorktree(x) \/ Teardown(x) \/ GitRemove(x) \/ Sweep(x)
    \/ DeleteRow(x) \/ RemoveDirectory(x) \/ RemovalFails(x) \/ DropRepository(x)

Recovery == FindPending \/ MarkPending

WorktreeNext ==
    \/ CreateWorktree \/ Provisioning \/ Recovery \/ RestartRuntime
    \/ \E q \in Deleters : LoadCandidate(q) \/ MarkDeleting(q)
    \/ \E x \in Evictions : Evict(x)
    \/ \E x \in Removers : Removal(x)

WorktreeSpec == WorktreeInit /\ [][WorktreeNext]_worktreeVars

\* What was begun goes on: git commands and scripts have time limits, and queries
\* settle.
WorktreeFairness ==
    /\ WF_worktreeVars(Provisioning) /\ WF_worktreeVars(Recovery)
    /\ \A q \in Deleters : WF_worktreeVars(MarkDeleting(q))
    /\ \A x \in Removers : WF_worktreeVars(Removal(x))

FairWorktreeSpec == WorktreeSpec /\ WorktreeFairness

-----------------------------------------------------------------------------
RemovalSteps == {"read", "git", "sweep", "row", "rm", "failed"}

\* The variables keep to their types; the removal for a repository, which is forced,
\* runs no teardown scripts, and the job leaves the repository alone (worktreeService.ts, worktreeDeletionService.ts).
WorktreeTypeOK ==
    /\ row \in Rows
    /\ disk \in {"absent", "partial", "present"}
    /\ provision \in {"off", "fetching", "adding", "added", "failed"}
    /\ removal["job"] \in {"off", "teardown"} \cup RemovalSteps
    /\ \A x \in Evictions : removal[x] \in {"off", "join", "drop", "over"} \cup RemovalSteps
    /\ deleter \in [Deleters -> {"off", "mark", "over"}]
    /\ recovery \in {"creations", "deletions", "fail creation", "fail deletion", "done"}
    /\ torn \in BOOLEAN /\ boots \in 0..MaxBoots

\* A worktree that is offered for use has its directory, unless something is
\* removing it at this moment, or a removal without a mark was cut short by a
\* restart or one of a worktree in preparation by an error
\* (worktreeService.ts:283, worktreeDeletionService.ts:65).
UsableHasDirectory ==
    row = "active" => \/ disk = "present"
                      \/ \E x \in Removers : AtWork(x)
                      \/ torn

\* A worktree does not stay in preparation or in deletion for good, whatever
\* fails, overlaps or is cut short by a restart (worktreeDeletionService.ts:91,
\* worktreeService.ts:702).
TransitionsSettle ==
    row \in {"creating", "deleting"} ~> row \notin {"creating", "deleting"}
=============================================================================
