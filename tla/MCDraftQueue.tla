---------------------------- MODULE MCDraftQueue ----------------------------
(***************************************************************************)
(* Instances of DraftQueue small enough for TLC: the endpoints called.     *)
(***************************************************************************)
EXTENDS DraftQueue

FourCalls  == 1..4
FiveCalls  == 1..5

\* Drafts that are watched, wanted now and taken back.
DraftsOps == <<"queue", "queue", "request", "cancel">>

\* Drafts queued while a run is at work: the run of one may end before the dispatcher
\* that sent it is done, and the next draft's wake-up is lost on it.
SendNowOps == <<"queue", "queue", "queue", "request", "watch">>

\* A draft wanted now while a run is at work, which is stopped or cut short, and the
\* draft perhaps deleted meanwhile.
StopNowOps == <<"send", "queue", "request", "stop", "delete">>
=============================================================================
