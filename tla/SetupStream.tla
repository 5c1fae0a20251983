----------------------------- MODULE SetupStream -----------------------------
(***************************************************************************)
(* The set-up scripts of a worktree, streamed to a client: each request    *)
(* stops the script that runs, tries one shell after another until one can *)
(* be started, and tells its client when the script has ended.  All        *)
(* streams of the worktree share one entry in the map of active scripts:   *)
(* the process and the emitter that a stop is about.  The process of an    *)
(* old stream may change the entry of its successor.                       *)
(***************************************************************************)
EXTENDS Integers, FiniteSets

CONSTANTS
    MaxStreams,     \* requests
    MaxShells       \* shells that exist

ASSUME SetupAssumption == MaxStreams \in Nat /\ MaxShells \in Nat \ {0}

VARIABLES
    streams,    \* number of streams so far
    script,     \* of each stream: its shell and the state of its process
    audience,   \* of each stream: its client, "open", "told" or "gone"
    entry       \* active.get(worktreeId): the streams of its process and emitter

setupVars == <<streams, script, audience, entry>>

Streams == 1..MaxStreams
NoEntry == [process |-> 0, emitter |-> 0]

SetupInit ==
    /\ streams = 0 /\ entry = NoEntry
    /\ script = [s \in Streams |-> [shell |-> 0, state |-> "off"]]
    /\ audience = [s \in Streams |-> "off"]

\* stopScript: the process of the entry is sent a signal, the client of its emitter told.
Stopped ==
    [s \in Streams |-> IF s = entry.process /\ script[s].state = "running"
                       THEN [script[s] EXCEPT !.state = "stopping"] ELSE script[s]]
Told(s) == [audience EXCEPT ![s] = IF @ = "open" THEN "told" ELSE @]
ToldByStop == [s \in Streams |-> IF s = entry.emitter THEN Told(s)[s] ELSE audience[s]]

\* A process is started: it runs, or the failure is yet to be noticed.
Spawned(shell) == [shell : {shell}, state : {"running", "failing"}]

StartStream ==
    LET s == streams + 1 IN
    /\ s \in Streams
    /\ streams' = s
    /\ \E child \in Spawned(1) : script' = [Stopped EXCEPT ![s] = child]
    /\ audience' = [ToldByStop EXCEPT ![s] = "open"]
    /\ entry' = [process |-> s, emitter |-> s]

\* The script of a stream has ended, or died of the signal: whatever entry there is, is
\* removed.
ScriptCloses(s) ==
    /\ script[s].state \in {"running", "stopping"}
    /\ script' = [script EXCEPT ![s].state = "over"]
    /\ audience' = Told(s)
    /\ entry' = NoEntry
    /\ UNCHANGED streams

\* The shell could not be started.  The next one is tried, and its process becomes that
\* of whatever entry there is.
GiveUpSilently(s) ==
    /\ script[s].state = "failing"
    /\ IF script[s].shell < MaxShells
       THEN /\ \E child \in Spawned(script[s].shell + 1) : script' = [script EXCEPT ![s] = child]
            /\ entry' = IF entry = NoEntry THEN entry ELSE [entry EXCEPT !.process = s]
            /\ UNCHANGED audience
       ELSE /\ script' = [script EXCEPT ![s].state = "over"]
            /\ entry' = NoEntry
            /\ UNCHANGED audience
    /\ UNCHANGED streams

ShellFails(s) ==
    /\ script[s].state = "failing"
    /\ IF script[s].shell < MaxShells
       THEN /\ \E child \in Spawned(script[s].shell + 1) : script' = [script EXCEPT ![s] = child]
            /\ entry' = IF entry = NoEntry THEN entry ELSE [entry EXCEPT !.process = s]
            /\ UNCHANGED audience
       ELSE /\ script' = [script EXCEPT ![s].state = "over"]
            /\ entry' = NoEntry
            /\ audience' = Told(s)
    /\ UNCHANGED streams

StopScript ==
    /\ entry # NoEntry
    /\ script' = Stopped /\ audience' = ToldByStop /\ entry' = NoEntry
    /\ UNCHANGED streams

\* The connection of a client closes, after it was told or because the client left: what
\* runs in the worktree is stopped, if it is the script of that client or not.
ClientCloses(s) ==
    /\ audience[s] \in {"open", "told"}
    /\ script' = Stopped
    /\ audience' = [ToldByStop EXCEPT ![s] = "gone"]
    /\ entry' = NoEntry
    /\ UNCHANGED streams

SetupNext ==
    \/ StartStream \/ StopScript
    \/ \E s \in Streams : ScriptCloses(s) \/ ShellFails(s) \/ ClientCloses(s)

\* A script may run for as long as it likes, unless it was sent a signal.
SetupFairness ==
    WF_setupVars(\E s \in Streams :
                    \/ ShellFails(s)
                    \/ script[s].state = "stopping" /\ ScriptCloses(s)
                    \/ audience[s] = "told" /\ ClientCloses(s))

SetupSpec == SetupInit /\ [][SetupNext]_setupVars /\ SetupFairness

-----------------------------------------------------------------------------
\* Whichever of the streams of a worktree replaces, stops or outlasts another, no client
\* waits for a script that is not at work: each is told of the end, or left
\* (scriptStreamService.ts:84, routes/repositories.ts:547).
EveryScriptStreamEnds ==
    []<>(\A s \in Streams : audience[s] = "open" => script[s].state = "running")
=============================================================================
