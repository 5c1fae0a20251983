---------------------------- MODULE MCServices ----------------------------
(***************************************************************************)
(* Worktrees, the pool of agents, terminals and the streams of devices,    *)
(* which share no state, each in an instance small enough for TLC.  The    *)
(* service that moves first is the only one to move, so that one run goes  *)
(* through the states of all of them instead of their product.             *)
(***************************************************************************)
EXTENDS Worktrees, AgentPool, Terminals, DeviceStreams

\* A terminal is looked at by one client while two shells follow one another, or
\* by all of them while its second shell is at work.
Looking(cs) == [c \in Clients |-> [state |-> IF c \in cs THEN "off" ELSE "away",
                                   ready |-> FALSE, restored |-> FALSE, pending |-> << >>,
                                   shown |-> {}, told |-> FALSE]]

TerminalFrom(shells, cs) ==
    /\ started = shells /\ client = Looking(cs)
    /\ shell = [g \in 1..MaxShells |-> [state |-> IF g <= shells THEN "gone" ELSE "none", out |-> 0]]
    /\ session = NoSession /\ listeners = {} /\ exitListeners = {}
    /\ viewers = [k \in Kinds |-> 0] /\ sizedBy = Nobody
    /\ line = [c \in Clients |-> NoLine] /\ pipe = [c \in Clients |-> << >>]
    /\ miscounted = FALSE /\ troubles = 0

MCTerminalInit ==
    \/ workspace \in BOOLEAN /\ \E c \in Clients \ Remote : TerminalFrom(0, {c})
    \/ workspace = TRUE /\ TerminalFrom(1, Clients)

\* Two starts of a simulator overlap in quiet times; or there is one start, and either
\* a connection breaks or a device comes.
DevicesFrom(tried, moved, lost) ==
    /\ start = [s \in Starts |-> [step |-> IF s <= tried THEN "failed" ELSE "off"]]
    /\ bridge = [s \in Starts |-> "none"] /\ refresh = NoRefresh /\ polling = FALSE
    /\ remembered = {} /\ sessions = {} /\ attached = {}
    /\ watcher = [w \in Watchers |-> "off"] /\ strays = [asked |-> 0, open |-> 0]
    /\ wire = [w \in Watchers |-> {}] /\ due = {} /\ answers = {}
    /\ listed = [w \in Watchers |-> {}] /\ moves = moved /\ dropped = lost

DevicesRest == here = {} /\ DevicesFrom(MaxStarts, MaxMoves, MaxDrops)

MCDevicesInit ==
    \/ here = Simulators /\ DevicesFrom(0, MaxMoves, MaxDrops)
    \/ here \in SUBSET Devices /\ DevicesFrom(1, MaxMoves, 0)
    \/ here \in SUBSET Devices /\ DevicesFrom(1, 0, MaxDrops)
    \/ DevicesRest

\* One that has not moved yet.
PoolRests == \A t \in Turns : turn[t].step = "off" /\ turn[t].tries = 0
                              /\ turn[t].session = None
TerminalsRest == workspace /\ TerminalFrom(1, Clients)

ServicesInit ==
    /\ WorktreeInit /\ PoolInit /\ MCTerminalInit /\ MCDevicesInit
    /\ DevicesRest \/ (TerminalsRest /\ PoolRests)

ServicesNext ==
    \/ /\ DevicesRest /\ TerminalsRest /\ PoolRests
       /\ WorktreeNext /\ UNCHANGED <<poolVars, terminalVars, deviceVars>>
    \/ /\ DevicesRest /\ TerminalsRest /\ WorktreeInit
       /\ PoolNext /\ UNCHANGED <<worktreeVars, terminalVars, deviceVars>>
    \/ /\ DevicesRest /\ PoolRests /\ WorktreeInit
       /\ TerminalNext /\ UNCHANGED <<worktreeVars, poolVars, deviceVars>>
    \/ /\ TerminalsRest /\ PoolRests /\ WorktreeInit
       /\ DevicesNext /\ UNCHANGED <<worktreeVars, poolVars, terminalVars>>

ServicesSpec ==
    /\ ServicesInit /\ [][ServicesNext]_<<worktreeVars, poolVars, terminalVars, deviceVars>>
    /\ WorktreeFairness /\ PoolFairness /\ TerminalFairness /\ DevicesFairness

\* The variables of the services keep to their types; what the pool offers under an id is
\* an agent with that id which works (agentPool.ts:134, terminalService.ts,
\* worktreeService.ts, deviceService.ts).
ServicesTypeOK == WorktreeTypeOK /\ PoolTypeOK /\ TerminalTypeOK /\ DevicesTypeOK
=============================================================================
