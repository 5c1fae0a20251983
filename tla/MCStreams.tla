----------------------------- MODULE MCStreams -----------------------------
(***************************************************************************)
(* What clients show of the runtime's state, the events of a thread, the   *)
(* live status of a worktree and the files of an editor, each in an        *)
(* instance small enough for TLC.  They share no state; the one that moves *)
(* first is the only one to move.                                          *)
(***************************************************************************)
EXTENDS EventStream, LiveStatus, FileEditor

StreamsInit == StreamInit /\ LiveInit /\ FileInit

StreamsNext ==
    \/ LiveInit /\ FileInit /\ StreamNext /\ UNCHANGED <<liveVars, fileVars>>
    \/ StreamInit /\ FileInit /\ LiveNext /\ UNCHANGED <<streamVars, fileVars>>
    \/ StreamInit /\ LiveInit /\ FileNext /\ UNCHANGED <<streamVars, liveVars>>

StreamsSpec ==
    /\ StreamsInit /\ [][StreamsNext]_<<streamVars, liveVars, fileVars>>
    /\ StreamFairness /\ LiveFairness

\* The variables of both streams keep to their types (useThreadEventStream.ts,
\* workspaceLiveUpdateService.ts).
StreamsTypeOK == StreamTypeOK /\ LiveTypeOK

\* No stream goes on behind something its client has missed: neither the events of a
\* thread (chats.ts:50) nor the numbers of a channel (workspaceLiveUpdateService.ts).
NothingIsSkipped == CursorIsShown /\ NoEventLost
=============================================================================
