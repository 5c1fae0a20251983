----------------------------- MODULE AgentPool -----------------------------
(***************************************************************************)
(* The pool of Cursor agents of the runtime.  A turn leases the idle agent *)
(* of its session, or opens one when there is none or it is busy, and      *)
(* tells its thread which session it got before it works.  A released      *)
(* agent stays in the pool until its idle timer disposes of it.            *)
(***************************************************************************)
EXTENDS Naturals

CONSTANTS
    Turns,          \* turns of threads, each with up to MaxTries attempts
    Agents,         \* the agents that can be opened
    Sessions,       \* agent ids
    Ephemeral,      \* the turns that ask for an agent outside the pool
    MaxTries,       \* CURSOR_SDK_MAX_ATTEMPTS
    None            \* no session, no agent

ASSUME PoolAssumption ==
    /\ MaxTries \in Nat /\ Ephemeral \subseteq Turns
    /\ None \notin Sessions \cup Agents

VARIABLES
    pool,           \* pooledCursorSdkAgentsByAgentId
    agentId,        \* the id of each agent that has been opened
    busy, armed,    \* the agents that are busy, and whose idle timer runs
    disposed,       \* the agents that have been disposed of
    turn,           \* turn[t]: the step of t's attempt, its session and its agent
    leaked          \* history: the agents whose lease was lost

poolVars == <<pool, agentId, busy, armed, disposed, turn, leaked>>

-----------------------------------------------------------------------------
Opened   == {a \in Agents : agentId[a] # None}
Holds(t) == turn[t].step \in {"announce", "leased"}

PoolInit ==
    /\ pool = [s \in Sessions |-> None]
    /\ agentId = [a \in Agents |-> None]
    /\ busy = {} /\ armed = {} /\ disposed = {} /\ leaked = {}
    /\ turn \in [Turns -> [step : {"off"}, session : Sessions \cup {None}, agent : {None},
                           tries : {0}]]

\* The agent t may take from the pool.
IdleAgent(t) ==
    IF t \in Ephemeral \/ turn[t].session = None THEN None
    ELSE IF pool[turn[t].session] \in busy THEN None ELSE pool[turn[t].session]

-----------------------------------------------------------------------------
(* acquireCursorSdkAgent.                                                  *)
-----------------------------------------------------------------------------
\* Mutant of Acquire: busy agents are shared.
AcquireBusy(t) ==
    LET a == IF turn[t].session = None THEN None ELSE pool[turn[t].session] IN
    /\ turn[t].step = "off" /\ turn[t].tries < MaxTries
    /\ IF a # None
       THEN /\ armed' = armed \ {a}
            /\ busy' = busy \cup {a}
            /\ turn' = [turn EXCEPT ![t].step = "announce", ![t].agent = a, ![t].tries = @ + 1]
       ELSE /\ turn' = [turn EXCEPT ![t].step = "opening", ![t].tries = @ + 1]
            /\ UNCHANGED <<busy, armed>>
    /\ UNCHANGED <<pool, agentId, disposed, leaked>>

Acquire(t) ==
    /\ turn[t].step = "off" /\ turn[t].tries < MaxTries
    /\ IF IdleAgent(t) # None
       THEN /\ armed' = armed \ {IdleAgent(t)}
            /\ busy' = busy \cup {IdleAgent(t)}
            /\ turn' = [turn EXCEPT ![t].step = "announce", ![t].agent = IdleAgent(t),
                                    ![t].tries = @ + 1]
       ELSE /\ turn' = [turn EXCEPT ![t].step = "opening", ![t].tries = @ + 1]
            /\ UNCHANGED <<busy, armed>>
    /\ UNCHANGED <<pool, agentId, disposed, leaked>>

\* Agent.resume or Agent.create has returned.  An agent another turn has opened for
\* the same session meanwhile, or holds, is replaced in the pool.
Open(t) ==
    /\ turn[t].step = "opening"
    /\ \E a \in Agents \ Opened, s \in Sessions :
          /\ IF turn[t].session = None
             THEN \A b \in Agents : agentId[b] # s
             ELSE s = turn[t].session
          /\ agentId' = [agentId EXCEPT ![a] = s]
          /\ busy' = busy \cup {a}
          /\ pool' = IF t \in Ephemeral THEN pool ELSE [pool EXCEPT ![s] = a]
          /\ turn' = [turn EXCEPT ![t].step = "announce", ![t].agent = a]
    /\ UNCHANGED <<armed, disposed, leaked>>

OpenFails(t) ==
    /\ turn[t].step = "opening"
    /\ turn' = [turn EXCEPT ![t].step = "off"]
    /\ UNCHANGED <<pool, agentId, busy, armed, disposed, leaked>>

\* onSessionId stores the session with the thread.  When that fails, the agent is
\* busy and nobody holds its lease.
Announce(t) ==
    /\ turn[t].step = "announce"
    /\ \/ /\ turn' = [turn EXCEPT ![t].step = "leased"]
          /\ UNCHANGED leaked
       \/ /\ turn' = [turn EXCEPT ![t].step = "off", ![t].agent = None]
          /\ leaked' = leaked \cup {turn[t].agent}
    /\ UNCHANGED <<pool, agentId, busy, armed, disposed>>

-----------------------------------------------------------------------------
\* Mutant of Release: no timer is set.
ReleaseForGood(t) ==
    /\ turn[t].step = "leased"
    /\ turn' = [turn EXCEPT ![t].step = "off", ![t].agent = None]
    /\ busy' = busy \ {turn[t].agent}
    /\ UNCHANGED <<pool, agentId, armed, disposed, leaked>>

\* The attempt is over, whatever its outcome; another may follow.
Release(t) ==
    /\ turn[t].step = "leased"
    /\ turn' = [turn EXCEPT ![t].step = "off", ![t].agent = None]
    /\ IF t \in Ephemeral
       THEN disposed' = disposed \cup {turn[t].agent} /\ UNCHANGED <<busy, armed>>
       ELSE /\ busy' = busy \ {turn[t].agent}
            /\ armed' = armed \cup {turn[t].agent}
            /\ UNCHANGED disposed
    /\ UNCHANGED <<pool, agentId, leaked>>

\* Mutant of IdleTimeout: the entry of the pool stays.
TimeoutKeepsEntry(a) ==
    /\ a \in armed
    /\ armed' = armed \ {a}
    /\ disposed' = disposed \cup {a}
    /\ UNCHANGED <<pool, agentId, busy, turn, leaked>>

\* The idle timer takes whatever agent the pool has under the id out of the pool.
IdleTimeout(a) ==
    /\ a \in armed
    /\ armed' = armed \ {a}
    /\ disposed' = disposed \cup {a}
    /\ pool' = [pool EXCEPT ![agentId[a]] = None]
    /\ UNCHANGED <<agentId, busy, turn, leaked>>

-----------------------------------------------------------------------------
TurnStep(t) == Acquire(t) \/ Open(t) \/ OpenFails(t) \/ Announce(t) \/ Release(t)

PoolNext == (\E t \in Turns : TurnStep(t)) \/ (\E a \in Agents : IdleTimeout(a))

PoolSpec == PoolInit /\ [][PoolNext]_poolVars

\* Calls of the SDK and of the database settle, turns end, timers fire; no turn need
\* begin.
PoolFairness ==
    /\ \A t \in Turns : WF_poolVars(turn[t].step # "off" /\ TurnStep(t))
    /\ \A a \in Agents : WF_poolVars(IdleTimeout(a))

FairPoolSpec == PoolSpec /\ PoolFairness

-----------------------------------------------------------------------------
Attempts == [step : {"off", "opening", "announce", "leased"},
             session : Sessions \cup {None}, agent : Agents \cup {None}, tries : Nat]

\* The variables keep to their types; what the pool offers under an id is an agent
\* with that id which has not been disposed of (agentPool.ts:134).
PoolTypeOK ==
    /\ pool \in [Sessions -> Agents \cup {None}]
    /\ agentId \in [Agents -> Sessions \cup {None}]
    /\ busy \subseteq Agents /\ armed \subseteq Agents
    /\ disposed \subseteq Agents /\ leaked \subseteq Agents
    /\ turn \in [Turns -> Attempts]
    /\ \A s \in Sessions : pool[s] # None => /\ agentId[pool[s]] = s
                                            /\ pool[s] \notin disposed

\* An agent a turn has leased is not disposed of under its hands, although the idle
\* timer of an earlier lease, or of another agent with the same id, may be running ...
LeasedNotDisposed == \A t \in Turns : Holds(t) => turn[t].agent \in Agents \ disposed

\* ... and no other turn has it.
LeasesAreExclusive ==
    \A t, u \in Turns : t # u /\ Holds(t) /\ Holds(u) => turn[t].agent # turn[u].agent

\* An agent is in the hands of one turn at a time, and works as long as it is, however
\* turns, retries and idle timers of agents with one id overlap (agentPool.ts:47, 134).
LeasesAreSound == LeasedNotDisposed /\ LeasesAreExclusive

\* Every agent that was opened is disposed of in the end, those included that were
\* replaced in the pool, unless its lease was lost: again and again nothing is left
\* open (agentPool.ts:134, 150).
AgentsAreDisposed == []<>(Opened \subseteq disposed \cup leaked)
=============================================================================
