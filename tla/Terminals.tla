----------------------------- MODULE Terminals -----------------------------
(***************************************************************************)
(* One terminal session of the runtime: its shell, which is replaced by    *)
(* the next one when it has ended or a script is to run in its place, the  *)
(* screen the runtime keeps to restore clients from, and the sockets of    *)
(* the clients that look at it, connect again after a loss and, of a       *)
(* workspace's terminal, after the shell has ended.                        *)
(*                                                                         *)
(* Output is a sequence of numbered chunks; a screen is the set of chunks  *)
(* that have been painted on it.                                           *)
(***************************************************************************)
EXTENDS Naturals, Sequences, FiniteSets

CONSTANTS
    Clients,        \* the clients that look at the session
    Remote,         \* those among them whose viewport is "remote"
    MaxShells,      \* bound: shells started
    MaxChunks,      \* bound: chunks a shell writes
    MaxTroubles     \* bound: sockets lost, sessions killed, shells that do not start

ASSUME TerminalAssumption ==
    Remote \subseteq Clients /\ MaxShells \in Nat /\ MaxChunks \in Nat /\ MaxTroubles \in Nat

NoShell == 0
Nobody  == "nobody"

VARIABLES
    workspace,      \* isWorkspaceTerminalSessionId: a terminal, or a script's output?
    session,        \* the entry in sessions: its shell, and whether it is active
    shell,          \* shell[g]: the state of the g-th shell and how much it has written
    started,        \* shells so far
    listeners,      \* the clients whose sockets the session writes to, ...
    exitListeners,  \* ... and tells of its end
    viewers,        \* sessionViewerCounts
    sizedBy,        \* the client whose size the terminal has
    line,           \* line[c]: the runtime's side of c's connection
    pipe,           \* pipe[c]: frames on their way to c
    client,         \* client[c]: c's side of the connection, and its screen
    miscounted,     \* history: a viewer was counted twice, or never taken off
    troubles

terminalVars == <<workspace, session, shell, started, listeners, exitListeners, viewers,
                  sizedBy, line, pipe, client, miscounted, troubles>>
sessionVars  == <<workspace, session, shell, started, sizedBy>>

-----------------------------------------------------------------------------
Kinds      == {"authoritative", "remote"}
Kind(c)    == IF c \in Remote THEN "remote" ELSE "authoritative"
NoSession  == [shell |-> NoShell, active |-> FALSE, exited |-> FALSE]
NoLine     == [open |-> FALSE, payload |-> "unsent", of |-> NoShell, upto |-> 0]
Data(g, n) == [type |-> "data", shell |-> g, upto |-> n]
Attached(g, n) == [type |-> "attach", shell |-> g, upto |-> n]
ExitOf(g)  == [type |-> "exit", shell |-> g, upto |-> 0]

\* A frame sent to the clients of a set whose sockets are open.
SentTo(cs, frame) ==
    [c \in Clients |-> IF c \in cs /\ line[c].open THEN Append(pipe[c], frame) ELSE pipe[c]]

TerminalInit ==
    /\ workspace \in BOOLEAN
    /\ session = NoSession
    /\ shell = [g \in 1..MaxShells |-> [state |-> "none", out |-> 0]]
    /\ started = 0
    /\ listeners = {} /\ exitListeners = {}
    /\ viewers = [k \in Kinds |-> 0]
    /\ sizedBy = Nobody
    /\ line = [c \in Clients |-> NoLine]
    /\ pipe = [c \in Clients |-> << >>]
    /\ client = [c \in Clients |-> [state |-> "off", ready |-> FALSE, restored |-> FALSE,
                                    pending |-> << >>, shown |-> {}, told |-> FALSE]]
    /\ miscounted = FALSE /\ troubles = 0

-----------------------------------------------------------------------------
(* spawn.                                                                  *)
-----------------------------------------------------------------------------
\* The session is used as it is: an active one, or the remains of a script.
Reusable == session # NoSession /\ (session.active \/ ~workspace)

\* The shells after the one of an active session has been killed.
Killed(s) == [g \in 1..MaxShells |-> IF s.active /\ g = s.shell
                                     THEN [shell[g] EXCEPT !.state = "killed"] ELSE shell[g]]

\* A new shell takes the place of the last one, which is killed if it is active.
\* The listeners stay.
StartShell ==
    /\ started < MaxShells
    /\ started' = started + 1
    /\ session' = [shell |-> started + 1, active |-> TRUE, exited |-> FALSE]
    /\ shell' = [Killed(session) EXCEPT ![started + 1].state = "running"]

\* runTerminalCommand in exec mode: the script replaces what the session has, which
\* is lost too when the script does not start.
RunScript ==
    /\ ~workspace
    /\ \/ StartShell /\ UNCHANGED troubles
       \/ /\ troubles < MaxTroubles
          /\ troubles' = troubles + 1
          /\ session' = [session EXCEPT !.active = FALSE]
          /\ shell' = Killed(session)
          /\ UNCHANGED started
    /\ UNCHANGED <<workspace, listeners, exitListeners, viewers, sizedBy, line, pipe, client,
                   miscounted>>

\* kill: the session is forgotten with its listeners, whose sockets stay open.  What
\* its shell may still write is left out.
KillSession ==
    /\ session # NoSession /\ troubles < MaxTroubles
    /\ troubles' = troubles + 1
    /\ session' = NoSession
    /\ shell' = [g \in 1..MaxShells |-> IF Killed(session)[g].state = "killed"
                                        THEN [shell[g] EXCEPT !.state = "ended"] ELSE shell[g]]
    /\ listeners' = {} /\ exitListeners' = {}
    /\ UNCHANGED <<workspace, started, viewers, sizedBy, line, pipe, client, miscounted>>

-----------------------------------------------------------------------------
(* handleTerminalWebSocket and connectTerminalRuntime.                     *)
-----------------------------------------------------------------------------
\* The client's side of a connection: output is held back until the screen is
\* restored.  What it held back before is forgotten when the connection goes.
Connection(c, state) ==
    [client EXCEPT ![c] = [@ EXCEPT !.state = state, !.ready = FALSE, !.restored = FALSE,
                                    !.pending = << >>, !.told = FALSE]]

\* The socket is told of output and of the end from now on; an ended session tells
\* of its end only.
Connect(c) ==
    /\ client[c].state \in {"off", "retry"}
    /\ \/ Reusable /\ UNCHANGED <<session, shell, started>>
       \/ ~Reusable /\ StartShell
    /\ viewers' = [viewers EXCEPT ![Kind(c)] = @ + 1]
    /\ listeners' = IF session'.active THEN listeners \cup {c} ELSE listeners
    /\ exitListeners' = exitListeners \cup {c}
    /\ line' = [line EXCEPT ![c] = [NoLine EXCEPT !.open = TRUE]]
    /\ pipe' = [pipe EXCEPT ![c] = << >>]
    /\ client' = Connection(c, "open")
    /\ UNCHANGED <<workspace, sizedBy, miscounted, troubles>>

\* No shell starts: the socket is closed, but its viewer stays counted.
ConnectFails(c) ==
    /\ client[c].state \in {"off", "retry"} /\ ~Reusable
    /\ troubles < MaxTroubles
    /\ troubles' = troubles + 1
    /\ viewers' = [viewers EXCEPT ![Kind(c)] = @ + 1]
    /\ miscounted' = TRUE
    /\ client' = Connection(c, "retry")
    /\ UNCHANGED <<sessionVars, listeners, exitListeners, line, pipe>>

\* What the close handler does, k times.
Unregister(c, k) ==
    /\ viewers' = [viewers EXCEPT ![Kind(c)] = IF @ >= k THEN @ - k ELSE 0]
    /\ listeners' = listeners \ {c}
    /\ exitListeners' = exitListeners \ {c}
    /\ line' = [line EXCEPT ![c] = NoLine]

\* The socket is closed or lost; one that is lost with an error runs the handlers of
\* "error" and of "close".
LoseSocket(c) ==
    /\ client[c].state = "open" /\ troubles < MaxTroubles
    /\ troubles' = troubles + 1
    /\ \/ Unregister(c, 1) /\ UNCHANGED miscounted
       \/ Unregister(c, 2) /\ miscounted' = TRUE
    /\ pipe' = [pipe EXCEPT ![c] = << >>]
    /\ client' = Connection(c, "retry")
    /\ UNCHANGED sessionVars

\* Mutant of AskForPayload: the size of a remote client counts whenever it comes.
AskAndSize(c) ==
    /\ line[c].open
    /\ sizedBy' = IF session.active THEN c ELSE sizedBy
    /\ line' = [line EXCEPT ![c] = IF @.payload # "unsent" THEN @
                                   ELSE [@ EXCEPT !.payload = "flushing", !.of = session.shell,
                                         !.upto = IF session = NoSession THEN 0
                                                  ELSE shell[session.shell].out]]
    /\ UNCHANGED <<workspace, session, shell, started, listeners, exitListeners, viewers, pipe,
                   client, miscounted, troubles>>

\* The client sends its size, which a remote one may set only while nobody else
\* looks on; the first message asks for the screen as well.
AskForPayload(c) ==
    /\ line[c].open
    /\ sizedBy' = IF session.active /\ (c \notin Remote \/ viewers["authoritative"] = 0)
                  THEN c ELSE sizedBy
    /\ line' = [line EXCEPT ![c] = IF @.payload # "unsent" THEN @
                                   ELSE [@ EXCEPT !.payload = "flushing", !.of = session.shell,
                                         !.upto = IF session = NoSession THEN 0
                                                  ELSE shell[session.shell].out]]
    /\ UNCHANGED <<workspace, session, shell, started, listeners, exitListeners, viewers, pipe,
                   client, miscounted, troubles>>

\* The emulator is flushed: the screen has all that was written before, and may have
\* what came after; that of a shell which has been replaced is empty.  An end that
\* has been is told along with it.
SendPayload(c) ==
    /\ line[c].payload = "flushing"
    /\ \E n \in 0..MaxChunks :
          /\ IF line[c].of = NoShell \/ line[c].of # session.shell THEN n = 0
             ELSE n \in line[c].upto..shell[line[c].of].out
          /\ pipe' = [pipe EXCEPT ![c] = Append(@, Attached(line[c].of, n)) \o
                        (IF session.exited THEN <<ExitOf(session.shell)>> ELSE << >>)]
    /\ line' = [line EXCEPT ![c] = [NoLine EXCEPT !.open = TRUE, !.payload = "sent"]]
    /\ UNCHANGED <<sessionVars, listeners, exitListeners, viewers, client, miscounted,
                   troubles>>

-----------------------------------------------------------------------------
(* The client.                                                             *)
-----------------------------------------------------------------------------
Chunks(g, ns) == {<<g, n>> : n \in ns}
Painted(frames) == {<<frames[i].shell, frames[i].upto>> : i \in DOMAIN frames}

\* The screen of an attach frame is painted over what the client shows.
Restored(s, f) == [s EXCEPT !.restored = TRUE, !.shown = @ \cup Chunks(f.shell, 1..f.upto)]

\* The gate of live output is opened and what was held back is painted.
GateOpened(s) == [s EXCEPT !.ready = TRUE, !.shown = @ \cup Painted(s.pending), !.pending = << >>]

\* Mutant of ReceiveFrame: what was held back is taken to be part of the screen.
ReceiveAndDrop(c) ==
    LET f == Head(pipe[c]) IN
    /\ pipe[c] # << >> /\ client[c].state = "open"
    /\ pipe' = [pipe EXCEPT ![c] = Tail(@)]
    /\ CASE f.type = "data" /\ client[c].ready ->
              client' = [client EXCEPT ![c].shown = @ \cup {<<f.shell, f.upto>>}]
         [] f.type = "data" /\ ~client[c].ready ->
              client' = [client EXCEPT ![c].pending = Append(@, f)]
         [] f.type = "attach" ->
              client' = [client EXCEPT ![c] =
                            [Restored(@, f) EXCEPT !.ready = TRUE, !.pending = << >>]]
         [] f.type = "exit" ->
              client' = [client EXCEPT ![c].told = TRUE,
                                       ![c].state = IF workspace THEN "closing" ELSE @]
    /\ UNCHANGED <<sessionVars, listeners, exitListeners, viewers, line, miscounted, troubles>>

\* A workspace's terminal closes the socket when it hears of the end.
ReceiveFrame(c) ==
    LET f == Head(pipe[c]) IN
    /\ pipe[c] # << >> /\ client[c].state = "open"
    /\ pipe' = [pipe EXCEPT ![c] = Tail(@)]
    /\ CASE f.type = "data" /\ client[c].ready ->
              client' = [client EXCEPT ![c].shown = @ \cup {<<f.shell, f.upto>>}]
         [] f.type = "data" /\ ~client[c].ready ->
              client' = [client EXCEPT ![c].pending = Append(@, f)]
         [] f.type = "attach" ->
              client' = [client EXCEPT ![c] = GateOpened(Restored(@, f))]
         [] f.type = "exit" ->
              client' = [client EXCEPT ![c].told = TRUE,
                                       ![c].state = IF workspace THEN "closing" ELSE @]
    /\ UNCHANGED <<sessionVars, listeners, exitListeners, viewers, line, miscounted, troubles>>

\* The fallback timer opens the gate of a client whose screen does not come.
GateFallback(c) ==
    /\ client[c].state = "open" /\ ~client[c].ready
    /\ client' = [client EXCEPT ![c] = GateOpened(@)]
    /\ UNCHANGED <<sessionVars, listeners, exitListeners, viewers, line, pipe, miscounted,
                   troubles>>

\* The socket the client has closed is closed on both sides; it connects again later.
FinishClose(c) ==
    /\ client[c].state = "closing"
    /\ Unregister(c, 1)
    /\ pipe' = [pipe EXCEPT ![c] = << >>]
    /\ client' = Connection(c, "retry")
    /\ UNCHANGED <<sessionVars, miscounted, troubles>>

-----------------------------------------------------------------------------
(* The shells.                                                             *)
-----------------------------------------------------------------------------
\* Output goes to the emulator and to every listener, that of a shell which is being
\* replaced too.
WriteOutput(g) ==
    /\ shell[g].state \in {"running", "killed"} /\ shell[g].out < MaxChunks
    /\ shell' = [shell EXCEPT ![g].out = @ + 1]
    /\ pipe' = SentTo(listeners, Data(g, shell[g].out + 1))
    /\ UNCHANGED <<workspace, session, started, listeners, exitListeners, viewers, sizedBy, line,
                   client, miscounted, troubles>>

EndShell(g) ==
    /\ shell[g].state \in {"running", "killed"}
    /\ shell' = [shell EXCEPT ![g].state = "ended"]
    /\ UNCHANGED <<workspace, session, started, listeners, exitListeners, viewers, sizedBy, line,
                   pipe, client, miscounted, troubles>>

\* Something is written to a shell that has ended before its end is known.
WriteFails(g) ==
    /\ shell[g].state = "ended" /\ session.shell = g /\ session.active
    /\ session' = [session EXCEPT !.active = FALSE]
    /\ UNCHANGED <<workspace, shell, started, listeners, exitListeners, viewers, sizedBy, line,
                   pipe, client, miscounted, troubles>>

\* Mutant of ReportEnd: only a session still active is told of.
ReportActiveEnd(g) ==
    /\ shell[g].state = "ended"
    /\ shell' = [shell EXCEPT ![g].state = "gone"]
    /\ IF session.shell = g /\ session.active
       THEN /\ session' = [session EXCEPT !.active = FALSE, !.exited = TRUE]
            /\ pipe' = SentTo(exitListeners, ExitOf(g))
       ELSE UNCHANGED <<session, pipe>>
    /\ UNCHANGED <<workspace, started, listeners, exitListeners, viewers, sizedBy, line, client,
                   miscounted, troubles>>

\* onExit: the end of the session's shell is told, that of another one is not.
ReportEnd(g) ==
    /\ shell[g].state = "ended"
    /\ shell' = [shell EXCEPT ![g].state = "gone"]
    /\ IF session.shell = g
       THEN /\ session' = [session EXCEPT !.active = FALSE, !.exited = TRUE]
            /\ pipe' = SentTo(exitListeners, ExitOf(g))
       ELSE UNCHANGED <<session, pipe>>
    /\ UNCHANGED <<workspace, started, listeners, exitListeners, viewers, sizedBy, line, client,
                   miscounted, troubles>>

-----------------------------------------------------------------------------
ClientStep(c) ==
    \/ Connect(c) \/ ConnectFails(c) \/ LoseSocket(c) \/ AskForPayload(c) \/ SendPayload(c)
    \/ ReceiveFrame(c) \/ GateFallback(c) \/ FinishClose(c)

ShellStep(g) == WriteOutput(g) \/ EndShell(g) \/ WriteFails(g) \/ ReportEnd(g)

TerminalNext ==
    \/ RunScript \/ KillSession
    \/ \E c \in Clients : ClientStep(c)
    \/ \E g \in 1..MaxShells : ShellStep(g)

TerminalSpec == TerminalInit /\ [][TerminalNext]_terminalVars

\* Frames arrive, emulators are flushed, ends are reported, and a terminal that is on
\* screen sends its size.  No shell need write or end.
TerminalFairness ==
    /\ \A c \in Clients : /\ WF_terminalVars(ReceiveFrame(c))
                          /\ WF_terminalVars(SendPayload(c))
                          /\ WF_terminalVars(line[c].payload = "unsent" /\ AskForPayload(c))
                          /\ WF_terminalVars(FinishClose(c))
    /\ \A g \in 1..MaxShells : WF_terminalVars(ReportEnd(g))

FairTerminalSpec == TerminalSpec /\ TerminalFairness

-----------------------------------------------------------------------------
\* The variables keep to their types; only the shell of the session is at work, all
\* others have ended or been killed (terminalService.ts:459).
TerminalTypeOK ==
    /\ workspace \in BOOLEAN /\ miscounted \in BOOLEAN
    /\ session.shell \in 0..started /\ started \in 0..MaxShells
    /\ \A g \in 1..MaxShells :
          /\ shell[g].state \in {"none", "running", "killed", "ended", "gone"}
          /\ shell[g].out \in 0..MaxChunks
          /\ shell[g].state = "running" => session.shell = g /\ session.active
    /\ listeners \cup exitListeners \subseteq {c \in Clients : line[c].open}
    /\ \A k \in Kinds : viewers[k] \in Nat
    /\ sizedBy \in Clients \cup {Nobody}
    /\ \A c \in Clients : /\ line[c].payload \in {"unsent", "flushing", "sent"}
                          /\ client[c].state \in {"away", "off", "open", "closing", "retry"}

\* A remote client does not change the size while another viewer is connected, unless
\* the viewers have been miscounted (terminalService.ts:387, terminal.ts:308).
RemoteYields ==
    [][sizedBy' # sizedBy /\ sizedBy' \in Remote
         => miscounted \/ ~\E c \in Clients \ Remote : line[c].open]_terminalVars

\* A client that listens and has been sent the screen misses nothing the session's
\* shell has written: it is on its screen, held back or on its way, though output
\* goes on while the screen is being prepared (terminal.ts:170, 212).
NoOutputLost ==
    \A c \in listeners :
       client[c].state = "open" /\ client[c].restored
          => Chunks(session.shell, 1..shell[session.shell].out)
                \subseteq client[c].shown \cup Painted(client[c].pending)
                          \cup Painted(pipe[c])

\* Whoever is connected when the session's shell has ended hears of it, or else loses
\* the connection or sees the next shell, or the session is killed.  A client that was
\* connected before it was killed has been forgotten (terminalService.ts:583, 722,
\* terminal.ts:155).
ShellHasEnded == session # NoSession /\ shell[session.shell].state \in {"ended", "gone"}

EndIsTold ==
    \A c \in Clients :
       []<>(\/ client[c].told
            \/ client[c].state # "open"
            \/ c \notin exitListeners
            \/ ~ShellHasEnded)
=============================================================================
