---------------------------- MODULE MCWorkspace ----------------------------
(***************************************************************************)
(* Automations and their slots, turns of Codex, set-up scripts, the panes  *)
(* of the editor and the status of threads, which share no state, each in  *)
(* an instance small enough for TLC.  The one that moves first is the only *)
(* one to move.  Nothing that fairness is about is enabled in a component  *)
(* that rests in its initial state.                                        *)
(***************************************************************************)
EXTENDS MCAutomation, MCRecurrence, CodexTurn, SetupStream, EditorGroups, ThreadStatus

WorkspaceInit == MCAutoInit /\ RecurrenceInit /\ CodexInit /\ SetupInit /\ EditorInit
                 /\ StatusInit

\* At rest, and in one of its initial states if it has several.
AutoRests       == autoRestarts = 0 /\ edits = 0 /\ clock = 0 /\ jobs = NeverCalls(ManualCalls)
                   /\ runs = << >>
RecurrenceRests == rule = NoRule
EditorRests     == EditorInit /\ desktop
StatusRests     == StatusInit

WorkspaceNext ==
    \/ /\ RecurrenceRests /\ CodexInit /\ SetupInit /\ EditorRests /\ StatusRests
       /\ AutoNext
       /\ UNCHANGED <<recurrenceVars, codexVars, setupVars, editorVars, statusVars>>
    \/ /\ AutoRests /\ CodexInit /\ SetupInit /\ EditorRests /\ StatusRests
       /\ RecurrenceNext
       /\ UNCHANGED <<autoVars, codexVars, setupVars, editorVars, statusVars>>
    \/ /\ AutoRests /\ RecurrenceRests /\ SetupInit /\ EditorRests /\ StatusRests
       /\ CodexNext
       /\ UNCHANGED <<autoVars, recurrenceVars, setupVars, editorVars, statusVars>>
    \/ /\ AutoRests /\ RecurrenceRests /\ CodexInit /\ EditorRests /\ StatusRests
       /\ SetupNext
       /\ UNCHANGED <<autoVars, recurrenceVars, codexVars, editorVars, statusVars>>
    \/ /\ AutoRests /\ RecurrenceRests /\ CodexInit /\ SetupInit /\ StatusRests
       /\ EditorNext
       /\ UNCHANGED <<autoVars, recurrenceVars, codexVars, setupVars, statusVars>>
    \* the log of a thread and the list of threads are apart too
    \/ /\ AutoRests /\ RecurrenceRests /\ CodexInit /\ SetupInit /\ EditorRests
       /\ log = << >> \/ badges = << >>
       /\ StatusNext
       /\ log' = << >> \/ badges' = << >>
       /\ UNCHANGED <<autoVars, recurrenceVars, codexVars, setupVars, editorVars>>

WorkspaceSpec ==
    /\ WorkspaceInit
    /\ [][WorkspaceNext]_<<autoVars, recurrenceVars, codexVars, setupVars, editorVars,
                           statusVars>>
    /\ AutoFairness /\ CodexFairness /\ SetupFairness
=============================================================================
