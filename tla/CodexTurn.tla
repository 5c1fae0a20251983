------------------------------ MODULE CodexTurn ------------------------------
(***************************************************************************)
(* One turn of the Codex runner: a child process is started, asked to      *)
(* initialise, to resume or start a session and to start a turn, each      *)
(* request with a time limit of its own; the turn is then awaited, while   *)
(* messages of the child are handled by asynchronous callbacks that may    *)
(* fail, or outlast the turn.  The turn ends by a message, an unreadable   *)
(* line, the end of the process, the limit for the first signal of the     *)
(* turn, or a stop by the user.                                            *)
(*                                                                         *)
(* What promises wait for runs before the next event of the process, but   *)
(* after all lines that arrived together.  The text of messages is left    *)
(* out, and so are the conversions between the protocol and tool events.   *)
(***************************************************************************)
EXTENDS Integers, FiniteSets

CONSTANTS
    ToolCalls,      \* tool messages of the child that the runtime handles
    UserGates       \* requests of the child that a user answers

VARIABLES
    resumes,        \* a session id was given
    planning,       \* permissionMode is "plan"
    step,           \* where the runner is
    request,        \* the request it waits for: none, open (pending) or settled
    agent,          \* the child process
    turn,           \* the turn, as the child reports it
    outcome,        \* completed and completionError
    finished,
    signal,         \* sawFirstTurnSignal
    timer,          \* firstTurnSignalTimer
    aborted,        \* abortController.signal.aborted
    calls           \* callbacks: not made, at work, done

codexVars == <<resumes, planning, step, request, agent, turn, outcome, finished, signal,
               timer, aborted, calls>>

Callbacks == ToolCalls \cup UserGates
Over      == step \in {"returned", "failed"}
Pending   == {c \in Callbacks : calls[c] = "open"}

CodexInit ==
    /\ resumes = FALSE /\ planning = FALSE /\ aborted = FALSE
    /\ step = "off" /\ request = "none"
    /\ agent = "off" /\ turn = "off" /\ outcome = "none"
    /\ finished = FALSE /\ signal = FALSE /\ timer = FALSE
    /\ calls = [c \in Callbacks |-> "none"]

-----------------------------------------------------------------------------
(* finish(), which happens once; the end of the runner, with its finally.  *)
-----------------------------------------------------------------------------
FinishWith(error) ==
    IF finished THEN UNCHANGED <<outcome, request, agent, timer, finished>>
    ELSE /\ finished' = TRUE /\ timer' = FALSE /\ agent' = "gone"
         /\ outcome' = IF outcome = "none" THEN error ELSE outcome
         /\ request' = IF request = "open" THEN "refused" ELSE request

\* rejectWith, resolveComplete: the first result counts.
Complete(result) == outcome' = IF outcome = "none" THEN result ELSE outcome

EndFailedOnly(how) ==
    /\ step' = how /\ request' = "none" /\ finished' = TRUE
    /\ agent' = (IF how = "failed" THEN "gone" ELSE agent)
    /\ timer' = (timer /\ finished)
    /\ UNCHANGED <<resumes, planning, turn, outcome, signal, aborted, calls>>

End(how) ==
    /\ step' = how /\ request' = "none" /\ finished' = TRUE /\ agent' = "gone"
    /\ timer' = (timer /\ finished)
    /\ UNCHANGED <<resumes, planning, turn, outcome, signal, aborted, calls>>

\* The next request; sendRequest refuses it once the process is given up.
Ask(next) ==
    /\ step' = next
    /\ request' = IF finished THEN "refused" ELSE "open"
    /\ UNCHANGED <<resumes, planning, agent, turn, outcome, finished, signal, timer, aborted, calls>>

\* A continuation of a promise is due.
Due ==
    \/ request \notin {"none", "open"}
    \/ step = "await" /\ outcome # "none"
    \/ turn = "completing"

-----------------------------------------------------------------------------
(* The runner.                                                             *)
-----------------------------------------------------------------------------
\* The process is started and asked to initialise.  A stop that precedes the listener for
\* it is not noticed: nothing reads the signal.
Spawn ==
    /\ step = "off"
    /\ resumes' \in BOOLEAN /\ planning' \in BOOLEAN /\ aborted' \in BOOLEAN
    /\ step' = "initialize" /\ request' = "open" /\ agent' = "running"
    /\ UNCHANGED <<turn, outcome, finished, signal, timer, calls>>

AfterSkills == IF resumes THEN "resume" ELSE "start"

\* A skill list is not needed, and a session that is not found is started anew.
Continue ==
    /\ request \notin {"none", "open"}
    /\ \/ step = "initialize" /\ request = "ok" /\ Ask("skills")
       \/ step = "skills" /\ Ask(AfterSkills)
       \/ step = "resume" /\ request = "missing" /\ Ask("start")
       \/ /\ step \in {"resume", "start"} /\ request = "ok"
          /\ step' = "session" /\ request' = "none"
          /\ UNCHANGED <<resumes, planning, agent, turn, outcome, finished, signal, timer,
                         aborted, calls>>
       \/ /\ step = "turn" /\ request = "ok"
          /\ step' = "await" /\ request' = "none" /\ timer' = ~signal
          /\ UNCHANGED <<resumes, planning, agent, turn, outcome, finished, signal, aborted,
                         calls>>
       \/ /\ step # "skills" /\ request # "ok"
          /\ ~(step = "resume" /\ request = "missing")
          /\ End("failed")

\* The session id is stored and the input of the turn is built, which may fail.
SessionOpened == step = "session" /\ (Ask("turn") \/ End("failed"))

Completed ==
    /\ step = "await" /\ outcome # "none"
    /\ IF outcome = "error" THEN End("failed")
       ELSE IF planning
            THEN \* a plan was found in what the agent said, or not
                 \/ /\ step' = "plan"
                    /\ UNCHANGED <<resumes, planning, request, agent, turn, outcome, finished,
                                   signal, timer, aborted, calls>>
                 \/ End("returned")
            ELSE End("returned")

PlanSaved == step = "plan" /\ (End("returned") \/ End("failed"))

-----------------------------------------------------------------------------
(* Lines of the child, which are not read any more once it is given up.    *)
-----------------------------------------------------------------------------
Talking == agent = "running" /\ ~finished

\* The turn begins before its request is answered.
BeginTurn ==
    /\ Talking /\ step = "turn" /\ request = "open" /\ turn = "off"
    /\ turn' = "running"
    /\ UNCHANGED <<resumes, planning, step, request, agent, outcome, finished, signal, timer,
                   aborted, calls>>

Respond(answer) ==
    /\ Talking /\ request = "open"
    /\ answer = "missing" => step = "resume"
    /\ step = "turn" => (answer = "ok" <=> turn # "off")
    /\ request' = answer
    /\ UNCHANGED <<resumes, planning, step, agent, turn, outcome, finished, signal, timer,
                   aborted, calls>>

Garbage ==
    /\ Talking
    /\ FinishWith("error")
    /\ UNCHANGED <<resumes, planning, step, turn, signal, aborted, calls>>

\* A message of the turn makes the runtime do something, or wait for the user.
Call(c) ==
    /\ Talking /\ turn = "running" /\ calls[c] = "none"
    /\ signal' = TRUE /\ timer' = FALSE
    /\ calls' = [calls EXCEPT ![c] = "open"]
    /\ UNCHANGED <<resumes, planning, step, request, agent, turn, outcome, finished, aborted>>

\* A child that waits for the user does not end the turn.  One that failed is a result at
\* once, ...
EndTurn(how) ==
    /\ Talking /\ turn = "running" /\ Pending \cap UserGates = {}
    /\ turn' = how
    /\ signal' = TRUE /\ timer' = FALSE
    /\ IF how = "failed" THEN Complete("error") ELSE UNCHANGED outcome
    /\ UNCHANGED <<resumes, planning, step, request, agent, finished, aborted, calls>>

\* ... and one that is completed when onThinking, which is awaited, has returned; a line that
\* arrived with it and cannot be read comes first.
TurnCompleted ==
    /\ turn = "completing"
    /\ turn' = "completed"
    /\ Complete("ok")
    /\ UNCHANGED <<resumes, planning, step, request, agent, finished, signal, timer, aborted,
                   calls>>

-----------------------------------------------------------------------------
(* Other events.                                                           *)
-----------------------------------------------------------------------------
\* The process could not be started, or ends.
AgentExits ==
    /\ agent = "running" /\ ~Due
    /\ FinishWith("error")
    /\ UNCHANGED <<resumes, planning, step, turn, signal, aborted, calls>>

RequestTimeout ==
    /\ request = "open"
    /\ request' = "refused"
    /\ UNCHANGED <<resumes, planning, step, agent, turn, outcome, finished, signal, timer,
                   aborted, calls>>

FirstSignalTimeout ==
    /\ timer /\ ~Due
    /\ IF finished THEN timer' = FALSE /\ UNCHANGED <<outcome, request, agent, finished>>
                   ELSE FinishWith("error")
    /\ UNCHANGED <<resumes, planning, step, turn, signal, aborted, calls>>

\* A callback ends, even after the turn.  A failure of it fails the turn, and so does an
\* answer of the user that can no longer be written.
CallbackEnds(c, fails) ==
    /\ calls[c] = "open" /\ ~Due
    /\ calls' = [calls EXCEPT ![c] = "done"]
    /\ IF fails \/ (c \in UserGates /\ agent = "gone") THEN Complete("error")
                                                       ELSE UNCHANGED outcome
    /\ UNCHANGED <<resumes, planning, step, request, agent, turn, finished, signal, timer, aborted>>

\* The user stops the run; the listener is there until the runner ends.
Abort ==
    /\ step # "off" /\ ~aborted /\ ~Over /\ ~Due
    /\ aborted' = TRUE
    /\ FinishWith("error")
    /\ UNCHANGED <<resumes, planning, step, turn, signal, calls>>

-----------------------------------------------------------------------------
Turning == \E how \in {"completing", "failed"} : EndTurn(how)

CodexNext ==
    \/ Spawn \/ Continue \/ SessionOpened \/ Completed \/ PlanSaved
    \/ BeginTurn \/ Garbage \/ Turning \/ TurnCompleted \/ AgentExits
    \/ RequestTimeout \/ FirstSignalTimeout \/ Abort
    \/ \E answer \in {"ok", "refused", "missing"} : Respond(answer)
    \/ \E c \in Callbacks : Call(c) \/ \E fails \in BOOLEAN : CallbackEnds(c, fails)

\* The child may be silent, but a turn that gave a sign of life ends.  The runtime's own
\* callbacks end; nothing makes the user answer.
CodexFairness ==
    /\ WF_codexVars(Continue \/ SessionOpened \/ Completed \/ PlanSaved)
    /\ WF_codexVars(RequestTimeout \/ FirstSignalTimeout)
    /\ WF_codexVars(signal /\ Turning)
    /\ WF_codexVars(TurnCompleted)
    /\ WF_codexVars(\E c \in ToolCalls, fails \in BOOLEAN : CallbackEnds(c, fails))

CodexSpec == CodexInit /\ [][CodexNext]_codexVars /\ CodexFairness

-----------------------------------------------------------------------------
\* However a turn ended, no process, request, timer or callback of the runtime is left,
\* and it is reported as a success only if the child said so.
LeftNothing ==
    /\ Over /\ agent = "gone" /\ request = "none" /\ ~timer
    /\ Pending \subseteq UserGates
    /\ step = "returned" => turn = "completed"

\* A turn ends, whether the child answers, is silent, fails or is stopped, unless it waits
\* for the user; and it cleans up (codex/sessionRunner.ts:925, 1672).
TurnCleansUp ==
    []<>(step = "off" \/ LeftNothing \/ (~finished /\ Pending \cap UserGates # {}))
=============================================================================
