-------------------------- MODULE AgentPoolProofs --------------------------
(***************************************************************************)
(* The safety of AgentPool for all turns, agents, sessions and numbers of  *)
(* attempts: no agent is disposed of while a turn has leased it, and no    *)
(* two turns lease the same one.                                           *)
(*                                                                         *)
(* Neither is inductive by itself.  What makes them so is that a leased    *)
(* agent is always busy, that the idle timer never runs for a busy agent,  *)
(* and that an agent leased outside the pool is nowhere in the pool.       *)
(***************************************************************************)
EXTENDS AgentPool, TLAPS

\* An agent somebody has leased is open and busy, and its timer is not running.
LeasedIsBusy == \A t \in Turns : Holds(t) => turn[t].agent \in (Opened \cap busy) \ disposed

\* Timers run for idle agents that are open.
TimersAreIdle == armed \subseteq Opened \ (busy \cup disposed)

\* Only open agents have been disposed of.
DisposedWereOpen == disposed \subseteq Opened

\* The agent of a turn that wants its own is not in the pool.
EphemeralNotPooled ==
    \A t \in Ephemeral : Holds(t) => \A s \in Sessions : pool[s] # turn[t].agent

PoolInv ==
    /\ PoolTypeOK
    /\ LeasedIsBusy
    /\ LeasesAreExclusive
    /\ TimersAreIdle
    /\ DisposedWereOpen
    /\ EphemeralNotPooled

-----------------------------------------------------------------------------
\* The turn that takes a step is in its type, and the others are as they were.
LEMMA TurnMoves ==
  ASSUME PoolTypeOK, NEW t \in Turns, NEW a \in Agents \cup {None},
         NEW step \in {"off", "opening", "announce", "leased"},
         turn' = [turn EXCEPT ![t].step = step, ![t].agent = a]
  PROVE  /\ turn' \in [Turns -> Attempts]
         /\ turn'[t].step = step /\ turn'[t].agent = a
         /\ \A u \in Turns \ {t} : turn'[u] = turn[u]
  <1>1. turn \in [Turns -> Attempts]
    BY DEF PoolTypeOK
  <1>2. turn' = [turn EXCEPT ![t] = [turn[t] EXCEPT !.step = step, !.agent = a]]
    BY <1>1
  <1>3. [turn[t] EXCEPT !.step = step, !.agent = a] \in Attempts
    BY <1>1 DEF Attempts
  <1> QED BY <1>1, <1>2, <1>3 DEF Attempts

\* A step that leaves the agents alone and leases none keeps the invariant.
LEMMA NoNewLease ==
  ASSUME PoolInv, PoolTypeOK', UNCHANGED <<pool, agentId, busy, armed, disposed>>,
         \A u \in Turns : Holds(u)' => Holds(u) /\ turn'[u].agent = turn[u].agent
  PROVE  PoolInv'
  <1>1. Opened' = Opened
    BY DEF Opened
  <1>2. LeasedIsBusy'
    BY <1>1 DEF PoolInv, LeasedIsBusy
  <1>3. LeasesAreExclusive'
    BY DEF PoolInv, LeasesAreExclusive
  <1>4. TimersAreIdle' /\ DisposedWereOpen'
    BY <1>1 DEF PoolInv, TimersAreIdle, DisposedWereOpen
  <1>5. EphemeralNotPooled'
    BY PoolAssumption DEF PoolInv, EphemeralNotPooled
  <1> QED BY <1>2, <1>3, <1>4, <1>5 DEF PoolInv

\* At the start nothing is open, pooled or leased, so the invariant holds.
LEMMA PoolInvInit == PoolInit => PoolInv
  BY PoolAssumption
  DEF PoolInit, PoolInv, PoolTypeOK, Attempts, LeasedIsBusy, LeasesAreExclusive, TimersAreIdle,
      DisposedWereOpen, EphemeralNotPooled, Holds, Opened

\* An agent that a turn may take from the pool is open, idle and not disposed of.
LEMMA IdleAgentIsFree ==
  ASSUME PoolInv, NEW t \in Turns, IdleAgent(t) # None
  PROVE  /\ t \notin Ephemeral
         /\ IdleAgent(t) \in Opened \ (busy \cup disposed)
         /\ \E s \in Sessions : pool[s] = IdleAgent(t)
  <1>1. turn[t].session \in Sessions \cup {None}
    BY DEF PoolInv, PoolTypeOK, Attempts
  <1>2. t \notin Ephemeral /\ turn[t].session \in Sessions
    BY <1>1 DEF IdleAgent
  <1>3. IdleAgent(t) = pool[turn[t].session] /\ pool[turn[t].session] \notin busy
    BY <1>2 DEF IdleAgent
  <1>4. /\ pool[turn[t].session] \in Agents \ disposed
        /\ agentId[pool[turn[t].session]] = turn[t].session
    BY <1>2, <1>3 DEF PoolInv, PoolTypeOK, Attempts
  <1> QED BY <1>2, <1>3, <1>4, PoolAssumption DEF Opened

\* The lease of an idle agent: it becomes busy, and its timer is cleared.
LEMMA PoolInvAcquire ==
  ASSUME PoolInv, NEW t \in Turns, Acquire(t)
  PROVE  PoolInv'
  <1>1. CASE IdleAgent(t) = None
    <2>1. turn' = [turn EXCEPT ![t].step = "opening", ![t].tries = @ + 1]
      BY <1>1 DEF Acquire
    <2>2. UNCHANGED <<pool, agentId, busy, armed, disposed, leaked>>
      BY <1>1 DEF Acquire
    <2>3. PoolTypeOK'
      BY <2>1, <2>2 DEF PoolInv, PoolTypeOK, Attempts
    <2>4. \A u \in Turns : Holds(u)' => Holds(u) /\ turn'[u].agent = turn[u].agent
      BY <2>1 DEF Holds, PoolInv, PoolTypeOK, Attempts
    <2> QED BY <2>2, <2>3, <2>4, NoNewLease
  <1>2. CASE IdleAgent(t) # None
    <2> DEFINE a == IdleAgent(t)
    <2>1. /\ armed' = armed \ {a} /\ busy' = busy \cup {a}
          /\ turn' = [turn EXCEPT ![t].step = "announce", ![t].agent = a, ![t].tries = @ + 1]
          /\ UNCHANGED <<pool, agentId, disposed, leaked>>
      BY <1>2 DEF Acquire
    <2>2. /\ t \notin Ephemeral /\ a \in Opened \ (busy \cup disposed)
          /\ a \in Agents
      BY <1>2, IdleAgentIsFree DEF Opened
    <2> HIDE DEF a
    <2>3. PoolTypeOK'
      BY <2>1, <2>2 DEF PoolInv, PoolTypeOK, Attempts
    <2>4. Holds(t)' /\ turn'[t].agent = a
      BY <2>1 DEF Holds, PoolInv, PoolTypeOK, Attempts
    <2>5. \A u \in Turns \ {t} : turn'[u] = turn[u] /\ (Holds(u)' <=> Holds(u))
      BY <2>1 DEF Holds, PoolInv, PoolTypeOK, Attempts
    <2>6. Opened' = Opened
      BY <2>1 DEF Opened
    <2>12. a \in (Opened' \cap busy') \ disposed'
      BY <2>1, <2>2, <2>6
    <2>13. \A u \in Turns \ {t} : Holds(u) => turn[u].agent \in (Opened' \cap busy') \ disposed'
      BY <2>1, <2>6 DEF PoolInv, LeasedIsBusy
    <2>7. LeasedIsBusy'
      BY <2>4, <2>5, <2>12, <2>13 DEF LeasedIsBusy
    <2>10. \A u \in Turns : Holds(u) => turn[u].agent # a
      BY <2>2 DEF PoolInv, LeasedIsBusy
    <2>11. LeasesAreExclusive'
      BY <2>4, <2>5, <2>10 DEF PoolInv, LeasesAreExclusive
    <2>8. TimersAreIdle' /\ DisposedWereOpen'
      BY <2>1, <2>6 DEF PoolInv, TimersAreIdle, DisposedWereOpen
    <2>9. EphemeralNotPooled'
      BY <2>1, <2>2, <2>5, PoolAssumption DEF PoolInv, EphemeralNotPooled
    <2> QED BY <2>3, <2>7, <2>8, <2>9, <2>11 DEF PoolInv
  <1> QED BY <1>1, <1>2

\* A new agent is nobody else's, whatever the pool held under its id.
LEMMA PoolInvOpen ==
  ASSUME PoolInv, NEW t \in Turns, Open(t)
  PROVE  PoolInv'
  <1>1. PICK a \in Agents \ Opened, s \in Sessions :
          /\ agentId' = [agentId EXCEPT ![a] = s]
          /\ busy' = busy \cup {a}
          /\ pool' = IF t \in Ephemeral THEN pool ELSE [pool EXCEPT ![s] = a]
          /\ turn' = [turn EXCEPT ![t].step = "announce", ![t].agent = a]
          /\ UNCHANGED <<armed, disposed, leaked>>
    BY DEF Open
  <1>2. agentId[a] = None /\ a # None
    BY <1>1, PoolAssumption DEF Opened
  <1>3. Opened' = Opened \cup {a}
    BY <1>1, PoolAssumption DEF Opened, PoolInv, PoolTypeOK, Attempts
  <1>4. a \notin armed \cup disposed
    BY <1>1 DEF PoolInv, TimersAreIdle, DisposedWereOpen
  <1>5. \A r \in Sessions : pool[r] # a
    BY <1>2, PoolAssumption DEF PoolInv, PoolTypeOK, Attempts
  <1>6. PoolTypeOK'
    <2>1. \A r \in Sessions : pool'[r] # None => agentId'[pool'[r]] = r /\ pool'[r] \notin disposed'
      BY <1>1, <1>4, <1>5 DEF PoolInv, PoolTypeOK, Attempts
    <2>2. /\ agentId' \in [Agents -> Sessions \cup {None}]
          /\ busy' \subseteq Agents /\ armed' \subseteq Agents
          /\ disposed' \subseteq Agents /\ leaked' \subseteq Agents
      BY <1>1 DEF PoolInv, PoolTypeOK, Attempts
    <2>3. pool' \in [Sessions -> Agents \cup {None}]
      BY <1>1 DEF PoolInv, PoolTypeOK, Attempts
    <2>4. turn' \in [Turns -> Attempts]
      BY <1>1, TurnMoves DEF PoolInv
    <2> QED BY <2>1, <2>2, <2>3, <2>4 DEF PoolTypeOK
  <1>7. Holds(t)' /\ turn'[t].agent = a
    BY <1>1 DEF Holds, PoolInv, PoolTypeOK, Attempts
  <1>8. \A u \in Turns \ {t} : turn'[u] = turn[u] /\ (Holds(u)' <=> Holds(u))
    BY <1>1 DEF Holds, PoolInv, PoolTypeOK, Attempts
  <1>9. \A u \in Turns : Holds(u) => turn[u].agent # a
    BY <1>1 DEF PoolInv, LeasedIsBusy
  <1>14. a \in (Opened' \cap busy') \ disposed'
    BY <1>1, <1>3, <1>4
  <1>15. \A u \in Turns \ {t} : Holds(u) => turn[u].agent \in (Opened' \cap busy') \ disposed'
    BY <1>1, <1>3 DEF PoolInv, LeasedIsBusy
  <1>10. LeasedIsBusy'
    BY <1>7, <1>8, <1>14, <1>15 DEF LeasedIsBusy
  <1>13. LeasesAreExclusive'
    BY <1>7, <1>8, <1>9 DEF PoolInv, LeasesAreExclusive
  <1>11. TimersAreIdle' /\ DisposedWereOpen'
    BY <1>1, <1>3, <1>4 DEF PoolInv, TimersAreIdle, DisposedWereOpen
  <1>12. EphemeralNotPooled'
    <2> SUFFICES ASSUME NEW u \in Ephemeral, Holds(u)', NEW r \in Sessions
                 PROVE  pool'[r] # turn'[u].agent
      BY DEF EphemeralNotPooled
    <2>1. CASE u = t
      BY <2>1, <1>1, <1>5, <1>7
    <2>2. CASE u # t
      <3>1. u \in Turns /\ Holds(u) /\ turn'[u].agent = turn[u].agent
        BY <2>2, <1>8, PoolAssumption
      <3>2. pool[r] # turn[u].agent /\ turn[u].agent # a
        BY <3>1, <1>9 DEF PoolInv, EphemeralNotPooled
      <3> QED BY <3>1, <3>2, <1>1 DEF PoolInv, PoolTypeOK, Attempts
    <2> QED BY <2>1, <2>2
  <1> QED BY <1>6, <1>10, <1>11, <1>12, <1>13 DEF PoolInv

\* The failure to open an agent leaves the turn without one.
LEMMA PoolInvOpenFails ==
  ASSUME PoolInv, NEW t \in Turns, OpenFails(t)
  PROVE  PoolInv'
  <1>1. PoolTypeOK'
    BY DEF OpenFails, PoolInv, PoolTypeOK, Attempts
  <1>2. \A u \in Turns : Holds(u)' => Holds(u) /\ turn'[u].agent = turn[u].agent
    BY DEF OpenFails, Holds, PoolInv, PoolTypeOK, Attempts
  <1>3. UNCHANGED <<pool, agentId, busy, armed, disposed>>
    BY DEF OpenFails
  <1> QED BY <1>1, <1>2, <1>3, NoNewLease

\* A lease that is announced stays; one whose announcement fails is given to nobody.
LEMMA PoolInvAnnounce ==
  ASSUME PoolInv, NEW t \in Turns, Announce(t)
  PROVE  PoolInv'
  <1>1. PoolTypeOK'
    <2>1. turn' \in [Turns -> Attempts]
      BY DEF Announce, PoolInv, PoolTypeOK, Attempts
    <2>2. leaked' \subseteq Agents
      BY DEF Announce, PoolInv, PoolTypeOK, LeasedIsBusy, Holds, Opened
    <2> QED BY <2>1, <2>2 DEF Announce, PoolInv, PoolTypeOK, Attempts
  <1>2. \A u \in Turns : Holds(u)' => Holds(u) /\ turn'[u].agent = turn[u].agent
    BY DEF Announce, Holds, PoolInv, PoolTypeOK, Attempts
  <1>3. UNCHANGED <<pool, agentId, busy, armed, disposed>>
    BY DEF Announce
  <1> QED BY <1>1, <1>2, <1>3, NoNewLease

\* The released agent was only this turn's: a pooled one becomes idle and its timer
\* starts, any other is disposed of.
LEMMA PoolInvRelease ==
  ASSUME PoolInv, NEW t \in Turns, Release(t)
  PROVE  PoolInv'
  <1> DEFINE a == turn[t].agent
  <1>1. /\ Holds(t)
        /\ turn' = [turn EXCEPT ![t].step = "off", ![t].agent = None]
        /\ UNCHANGED <<pool, agentId, leaked>>
    BY DEF Release, Holds
  <1>2. a \in (Opened \cap busy) \ disposed /\ a \in Agents
    BY <1>1 DEF PoolInv, LeasedIsBusy, Opened
  <1>3. ~Holds(t)'
    BY <1>1 DEF Holds, PoolInv, PoolTypeOK, Attempts
  <1>4. \A u \in Turns \ {t} : turn'[u] = turn[u] /\ (Holds(u)' <=> Holds(u))
    BY <1>1 DEF Holds, PoolInv, PoolTypeOK, Attempts
  <1>5. \A u \in Turns \ {t} : Holds(u) => turn[u].agent # a
    BY <1>1 DEF PoolInv, LeasesAreExclusive
  <1>6. LeasesAreExclusive' /\ EphemeralNotPooled'
    BY <1>1, <1>3, <1>4, PoolAssumption DEF PoolInv, LeasesAreExclusive, EphemeralNotPooled
  <1>7. Opened' = Opened
    BY <1>1 DEF Opened
  <1>10. turn' \in [Turns -> Attempts]
    BY <1>1, TurnMoves DEF PoolInv
  <1>8. CASE t \in Ephemeral
    <2>1. disposed' = disposed \cup {a} /\ UNCHANGED <<busy, armed>>
      BY <1>8 DEF Release
    <2>2. \A s \in Sessions : pool[s] # a
      BY <1>8, <1>1 DEF PoolInv, EphemeralNotPooled
    <2> HIDE DEF a
    <2>3. PoolTypeOK'
      BY <1>1, <1>2, <1>10, <2>1, <2>2 DEF PoolInv, PoolTypeOK, Attempts
    <2>4. LeasedIsBusy'
      BY <1>3, <1>4, <1>5, <1>7, <2>1 DEF PoolInv, LeasedIsBusy
    <2>5. TimersAreIdle' /\ DisposedWereOpen'
      BY <1>2, <1>7, <2>1 DEF PoolInv, TimersAreIdle, DisposedWereOpen
    <2> QED BY <1>6, <2>3, <2>4, <2>5 DEF PoolInv
  <1>9. CASE t \notin Ephemeral
    <2>1. busy' = busy \ {a} /\ armed' = armed \cup {a} /\ UNCHANGED disposed
      BY <1>9 DEF Release
    <2> HIDE DEF a
    <2>2. PoolTypeOK'
      BY <1>1, <1>2, <1>10, <2>1 DEF PoolInv, PoolTypeOK, Attempts
    <2>3. LeasedIsBusy'
      BY <1>3, <1>4, <1>5, <1>7, <2>1 DEF PoolInv, LeasedIsBusy
    <2>4. TimersAreIdle' /\ DisposedWereOpen'
      BY <1>2, <1>7, <2>1 DEF PoolInv, TimersAreIdle, DisposedWereOpen
    <2> QED BY <1>6, <2>2, <2>3, <2>4 DEF PoolInv
  <1> QED BY <1>8, <1>9

\* The timer disposes of an agent nobody has leased, and the pool forgets it.
LEMMA PoolInvIdleTimeout ==
  ASSUME PoolInv, NEW a \in Agents, IdleTimeout(a)
  PROVE  PoolInv'
  <1>1. /\ a \in armed /\ armed' = armed \ {a} /\ disposed' = disposed \cup {a}
        /\ pool' = [pool EXCEPT ![agentId[a]] = None]
        /\ UNCHANGED <<agentId, busy, turn, leaked>>
    BY DEF IdleTimeout
  <1>2. a \in Opened \ (busy \cup disposed)
    BY <1>1 DEF PoolInv, TimersAreIdle
  <1>3. \A u \in Turns : Holds(u) => turn[u].agent # a
    BY <1>2 DEF PoolInv, LeasedIsBusy
  <1>4. \A s \in Sessions : pool'[s] # None => s # agentId[a] /\ pool'[s] = pool[s]
    BY <1>1 DEF PoolInv, PoolTypeOK, Attempts
  <1>5. PoolTypeOK'
    BY <1>1, <1>4 DEF PoolInv, PoolTypeOK, Attempts
  <1>6. Opened' = Opened /\ \A u \in Turns : Holds(u)' <=> Holds(u)
    BY <1>1 DEF Opened, Holds
  <1>7. LeasedIsBusy' /\ LeasesAreExclusive'
    BY <1>1, <1>3, <1>6 DEF PoolInv, LeasedIsBusy, LeasesAreExclusive
  <1>8. TimersAreIdle' /\ DisposedWereOpen'
    BY <1>1, <1>2, <1>6 DEF PoolInv, TimersAreIdle, DisposedWereOpen
  <1>9. EphemeralNotPooled'
    <2>1. \A t \in Turns : Holds(t) => turn[t].agent # None
      BY PoolAssumption DEF PoolInv, LeasedIsBusy, Opened
    <2> QED BY <1>1, <1>4, <1>6, <2>1, PoolAssumption DEF PoolInv, EphemeralNotPooled
  <1> QED BY <1>5, <1>7, <1>8, <1>9 DEF PoolInv

\* Every step keeps the invariant.
LEMMA PoolInvNext == PoolInv /\ [PoolNext]_poolVars => PoolInv'
  <1> SUFFICES ASSUME PoolInv, [PoolNext]_poolVars PROVE PoolInv'
    OBVIOUS
  <1>1. ASSUME NEW t \in Turns, TurnStep(t) PROVE PoolInv'
    BY <1>1, PoolInvAcquire, PoolInvOpen, PoolInvOpenFails, PoolInvAnnounce, PoolInvRelease
    DEF TurnStep
  <1>2. ASSUME NEW a \in Agents, IdleTimeout(a) PROVE PoolInv'
    BY <1>2, PoolInvIdleTimeout
  <1>3. CASE UNCHANGED poolVars
    BY <1>3 DEF poolVars, PoolInv, PoolTypeOK, LeasedIsBusy, LeasesAreExclusive,
       TimersAreIdle, DisposedWereOpen, EphemeralNotPooled, Opened, Holds
  <1> QED BY <1>1, <1>2, <1>3 DEF PoolNext

\* The invariant holds in every reachable state.
LEMMA PoolInvAlways == PoolSpec => []PoolInv
  BY PoolInvInit, PoolInvNext, PTL DEF PoolSpec

\* The pool offers only live agents under their own ids, for all constants
\* (agentPool.ts:134).
THEOREM PoolTypes == PoolSpec => []PoolTypeOK
  <1>1. PoolInv => PoolTypeOK
    BY DEF PoolInv
  <1> QED BY <1>1, PoolInvAlways, PTL

\* An agent is never disposed of while a turn works with it (agentPool.ts:47, 134).
THEOREM NoLeaseIsDisposed == PoolSpec => []LeasedNotDisposed
  <1>1. PoolInv => LeasedNotDisposed
    BY DEF PoolInv, LeasedIsBusy, LeasedNotDisposed, Opened
  <1> QED BY <1>1, PoolInvAlways, PTL

\* Two turns never work with the same agent (agentPool.ts:47).
THEOREM LeasesStayExclusive == PoolSpec => []LeasesAreExclusive
  <1>1. PoolInv => LeasesAreExclusive
    BY DEF PoolInv
  <1> QED BY <1>1, PoolInvAlways, PTL

\* An agent is in the hands of one turn at a time, and works as long as it is, however
\* many turns and agents there are (agentPool.ts:47, 134).
THEOREM LeasesStaySound == PoolSpec => []LeasesAreSound
  <1>1. LeasedNotDisposed /\ LeasesAreExclusive => LeasesAreSound
    BY DEF LeasesAreSound
  <1> QED BY <1>1, NoLeaseIsDisposed, LeasesStayExclusive, PTL
=============================================================================
