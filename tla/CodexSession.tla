---------------------------- MODULE CodexSession ----------------------------
(***************************************************************************)
(* A CodexSolver (agents/codex_solver.py) and the "codex app-server" process *)
(* it speaks JSON-RPC with.  The solver's task sends requests and waits for  *)
(* the turn to be done; a reader task reads what the process writes, hands   *)
(* answers to who waits for them, runs the tools a turn calls, and wakes the *)
(* solver.  The process answers late, fails turns, or dies.                   *)
(***************************************************************************)
EXTENDS Naturals, Sequences, FiniteSets

CONSTANTS MaxTurns,    \* bound: turns of the session
          MaxTools,    \* bound: tool calls and outputs of all turns
          MaxUnread    \* bound: messages written and not yet read

ASSUME BoundsAssumption == MaxTurns \in Nat \ {0} /\ MaxTools \in Nat /\ MaxUnread \in Nat \ {0}

VARIABLES
  solver,      \* where the solver's task is
  turn,        \* the number of the current turn, 0 before the first
  rpc,         \* the request the solver waits for, or Nothing
  answer,      \* what its future was resolved with, or "none"
  timers,      \* tasks that wait for an answer, in the order in which their timeouts expire
  turnDone,    \* _turn_done
  doneBy,      \* history: what set it, a turn's completion or the end of the output
  structured,  \* _structured_output: the turn it is from, or 0
  abandoned,   \* history: turns that the solver has left and the process may still run
  reader,      \* where the reader's task is
  compacted,   \* _compact_requested
  futures,     \* keys of _pending_responses, which holds futures
  process,     \* _proc
  requests,    \* process: requests it has read and not answered
  running,     \* process: turns it works on
  calling,     \* process: the turn that waits for a tool, or 0
  output,      \* what it has written and nobody has read
  calls,       \* tool calls and outputs so far
  sandbox,     \* the solver's container
  cutShort     \* history: the solver was cancelled in its own stop()

solverVars == <<solver, turn, rpc, answer, turnDone, doneBy, structured, abandoned>>
readerVars == <<reader, compacted>>
processVars == <<process, requests, running, calling, output, calls>>
sessionVars == <<solverVars, timers, readerVars, futures, processVars, sandbox, cutShort>>

Turns == 1 .. MaxTurns
Nothing == 0
Initialize == MaxTurns + 1   \* request ids: a turn has its number, the others the next ones
Thread == MaxTurns + 2
Compact == MaxTurns + 3
Requests == 1 .. MaxTurns + 3
Eof == MaxTurns + 1
Messages ==
  [type : {"answer"}, id : Requests, ok : BOOLEAN] \union
  [type : {"completed", "output"}, turn : Turns] \union
  [type : {"tool", "usage"}]
ReaderRuns == {"reading", "inTool", "compacting"}

SessionTypeOK ==
  /\ solver \in {"new", "starting", "initializing", "threading", "ready", "turnStarting",
                 "inTurn", "failed", "stopReader", "stopProcess", "stopSandbox", "stopped"}
  /\ turn \in 0 .. MaxTurns
  /\ rpc \in {Nothing} \union Requests /\ answer \in {"none", "ok", "error"}
  /\ timers \in Seq({"solver", "reader"}) /\ Len(timers) <= 2
  /\ turnDone \in BOOLEAN /\ doneBy \in {Nothing, Eof} \union Turns
  /\ structured \in 0 .. MaxTurns /\ abandoned \subseteq Turns
  /\ reader \in {"none", "eof", "dead", "cancelled"} \union ReaderRuns
  /\ compacted \in BOOLEAN
  /\ futures \subseteq Requests /\ requests \subseteq Requests
  /\ process \in {"none", "running", "exited"}
  /\ running \subseteq Turns /\ calling \in 0 .. MaxTurns
  /\ output \in Seq(Messages) /\ Len(output) <= MaxUnread
  /\ calls \in 0 .. MaxTools
  /\ sandbox \in {"none", "up", "stopped"} /\ cutShort \in BOOLEAN

SessionInit ==
  /\ solver = "new" /\ turn = 0 /\ rpc = Nothing /\ answer = "none" /\ timers = <<>>
  /\ turnDone = FALSE /\ doneBy = Nothing /\ structured = Nothing /\ abandoned = {}
  /\ reader = "none" /\ compacted = FALSE /\ futures = {}
  /\ process = "none" /\ requests = {} /\ running = {} /\ calling = Nothing /\ output = <<>>
  /\ calls = 0 /\ sandbox = "none" /\ cutShort = FALSE

-----------------------------------------------------------------------------
(* _rpc: write the request, wait for the future, 300 seconds at most.  Every *)
(* request has the same timeout, so they expire in the order they were made. *)

\* A write to a process that is gone raises once asyncio has noticed; the future then stays
\* in the table.  Otherwise nobody will ever answer: the end of the output resolves nothing.
WriteRaises == process # "running"

Request(id, who) ==
  /\ futures' = futures \union {id}
  /\ requests' = IF process = "running" THEN requests \union {id} ELSE requests
  /\ timers' = Append(timers, who)

\* A task waits for one answer at a time.
TimersBut(who) ==
  IF \E i \in DOMAIN timers : timers[i] = who
  THEN LET place == CHOOSE i \in DOMAIN timers : timers[i] = who
       IN SubSeq(timers, 1, place - 1) \o SubSeq(timers, place + 1, Len(timers))
  ELSE timers

KeepTimer(who) == UNCHANGED timers   \* mutant
Drop(who) == timers' = TimersBut(who)

SolverAsks(id, where) ==
  /\ Request(id, "solver")
  /\ rpc' = id /\ answer' = "none"
  /\ solver' = where

\* The same, by a solver whose last request was answered.
SolverAsksNext(id, where) ==
  /\ futures' = (futures \ {rpc}) \union {id}
  /\ requests' = IF process = "running" THEN requests \union {id} ELSE requests
  /\ timers' = Append(TimersBut("solver"), "solver")
  /\ rpc' = id /\ answer' = "none"
  /\ solver' = where

\* The wait is over, by an answer, by the timeout or by a cancellation.
SolverAsked(where) ==
  /\ Drop("solver")
  /\ futures' = futures \ {rpc}
  /\ rpc' = Nothing /\ answer' = "none"
  /\ solver' = where

-----------------------------------------------------------------------------
(* start() *)

StartSession ==
  /\ solver = "new"
  /\ solver' = "starting"
  /\ UNCHANGED <<turn, rpc, answer, turnDone, doneBy, structured, abandoned, timers, readerVars,
                 futures, processVars, sandbox, cutShort>>

\* The sandbox runs, the process is spawned and the reader created.
SessionStarts ==
  /\ solver = "starting"
  /\ sandbox' = "up"
  /\ process' = "running"
  /\ reader' = "reading"
  /\ futures' = {Initialize} /\ requests' = {Initialize} /\ timers' = <<"solver">>
  /\ rpc' = Initialize
  /\ solver' = "initializing"
  /\ UNCHANGED <<turn, answer, turnDone, doneBy, structured, abandoned, compacted, running, calling,
                 output, calls, cutShort>>

\* The sandbox does not start, or, once it runs, no process can be spawned.
SessionStartFails ==
  /\ solver = "starting"
  /\ sandbox' \in {"none", "up"}
  /\ solver' = "failed"
  /\ UNCHANGED <<turn, rpc, answer, turnDone, doneBy, structured, abandoned, timers, readerVars,
                 futures, processVars, cutShort>>

Initialized ==
  /\ solver = "initializing" /\ answer = "ok"
  /\ \/ SolverAsksNext(Thread, "threading")
     \/ WriteRaises /\ SolverAsked("failed") /\ UNCHANGED requests
  /\ UNCHANGED <<turn, turnDone, doneBy, structured, abandoned, readerVars, process, running,
                 calling, output, calls, sandbox, cutShort>>

ThreadStarted ==
  /\ solver = "threading" /\ answer = "ok"
  /\ SolverAsked("ready")
  /\ UNCHANGED <<turn, turnDone, doneBy, structured, abandoned, readerVars, processVars, sandbox,
                 cutShort>>

HandshakeFails ==
  /\ solver \in {"initializing", "threading"} /\ answer = "error"
  /\ SolverAsked("failed")
  /\ UNCHANGED <<turn, turnDone, doneBy, structured, abandoned, readerVars, processVars, sandbox,
                 cutShort>>

-----------------------------------------------------------------------------
(* run_until_done_or_gave_up *)

\* Mutant: what the last turn left is not reset.
KeepTurn == UNCHANGED <<turnDone, doneBy, structured>>
ResetTurn == turnDone' = FALSE /\ doneBy' = Nothing /\ structured' = Nothing

BeginTurn ==
  /\ solver = "ready" /\ turn < MaxTurns
  /\ turn' = turn + 1
  /\ ResetTurn
  /\ \/ SolverAsks(turn + 1, "turnStarting")
     \/ /\ WriteRaises   \* an ERROR result
        /\ futures' = futures \union {turn + 1}
        /\ UNCHANGED <<solver, rpc, answer, timers, requests>>
  /\ UNCHANGED <<abandoned, readerVars, process, running, calling, output, calls, sandbox, cutShort>>

TurnAccepted ==
  /\ solver = "turnStarting" /\ answer = "ok"
  /\ SolverAsked("inTurn")
  /\ UNCHANGED <<turn, turnDone, doneBy, structured, abandoned, readerVars, processVars, sandbox,
                 cutShort>>

TurnRefused ==
  /\ solver = "turnStarting" /\ answer = "error"
  /\ SolverAsked("ready")
  /\ UNCHANGED <<turn, turnDone, doneBy, structured, abandoned, readerVars, processVars, sandbox,
                 cutShort>>

SolverTimesOut ==
  /\ rpc # Nothing /\ answer = "none"
  /\ Head(timers) = "solver"
  /\ SolverAsked(IF solver = "turnStarting" THEN "ready" ELSE "failed")
  /\ abandoned' = IF solver = "turnStarting" THEN abandoned \union {turn} ELSE abandoned
  /\ UNCHANGED <<turn, turnDone, doneBy, structured, readerVars, processVars, sandbox, cutShort>>

\* The result is made of the error, the structured output and the confirmation.  A turn that
\* the completion of another one has ended goes on in the process.
TurnReturns ==
  /\ solver = "inTurn" /\ turnDone
  /\ solver' = "ready"
  /\ abandoned' = IF doneBy \in {turn, Eof} THEN abandoned ELSE abandoned \union {turn}
  /\ UNCHANGED <<turn, rpc, answer, turnDone, doneBy, structured, timers, readerVars,
                 futures, processVars, sandbox, cutShort>>

-----------------------------------------------------------------------------
(* stop(), which the swarm calls whatever happened.  A cancelled turn returns *)
(* a CANCELLED result, a cancelled start raises: both lead here.               *)

StopSession ==
  /\ solver \in {"ready", "failed"}
  /\ solver' = "stopReader"
  /\ UNCHANGED <<turn, rpc, answer, turnDone, doneBy, structured, abandoned, timers, readerVars,
                 futures, processVars, sandbox, cutShort>>

CancelSession ==
  /\ solver \in {"initializing", "threading", "turnStarting", "inTurn"}
  /\ SolverAsked("stopReader")
  /\ UNCHANGED <<turn, turnDone, doneBy, structured, abandoned, readerVars, processVars, sandbox,
                 cutShort>>

\* Mutant: the sandbox is stopped with the process only.
AfterReaderNoSandbox == IF process = "none" THEN "stopped" ELSE "stopProcess"
AfterReader == IF process = "none" THEN "stopSandbox" ELSE "stopProcess"

\* The reader is cancelled and awaited, wherever it is.
ReaderStopped ==
  /\ solver = "stopReader"
  /\ reader' = IF reader \in ReaderRuns THEN "cancelled" ELSE reader
  /\ futures' = IF reader = "compacting" THEN futures \ {Compact} ELSE futures
  /\ Drop("reader")
  /\ solver' = AfterReader
  /\ UNCHANGED <<turn, rpc, answer, turnDone, doneBy, structured, abandoned, compacted, processVars,
                 sandbox, cutShort>>

\* Terminated, or killed after five seconds.
ProcessStopped ==
  /\ solver = "stopProcess"
  /\ process' = "none" /\ requests' = {} /\ running' = {} /\ calling' = Nothing
  /\ solver' = "stopSandbox"
  /\ UNCHANGED <<turn, rpc, answer, turnDone, doneBy, structured, abandoned, timers, readerVars,
                 futures, output, calls, sandbox, cutShort>>

SandboxStopped ==
  /\ solver = "stopSandbox"
  /\ sandbox' = IF sandbox = "up" THEN "stopped" ELSE sandbox
  /\ solver' = "stopped"
  /\ UNCHANGED <<turn, rpc, answer, turnDone, doneBy, structured, abandoned, timers, readerVars,
                 futures, processVars, cutShort>>

\* Only Exception is caught around the wait for the process: a cancellation skips the rest.
StopCut ==
  /\ solver \in {"stopProcess", "stopSandbox"}
  /\ solver' = "stopped"
  /\ cutShort' = TRUE
  /\ UNCHANGED <<turn, rpc, answer, turnDone, doneBy, structured, abandoned, timers, readerVars,
                 futures, processVars, sandbox>>

-----------------------------------------------------------------------------
(* _read_loop *)

Reads(m) == output # <<>> /\ reader = "reading" /\ Head(output).type = m /\ output' = Tail(output)

\* An answer that comes after its request has timed out is ignored.
ReadAnswer ==
  /\ Reads("answer")
  /\ LET m == Head(output) IN
     /\ futures' = futures \ {m.id}
     /\ answer' = IF m.id \in futures /\ m.id = rpc THEN IF m.ok THEN "ok" ELSE "error"
                                                    ELSE answer
  /\ UNCHANGED <<solver, turn, rpc, turnDone, doneBy, structured, abandoned, timers, readerVars, process,
                 requests, running, calling, calls, sandbox, cutShort>>

ReadOutput ==
  /\ Reads("output")
  /\ structured' = Head(output).turn
  /\ UNCHANGED <<solver, turn, rpc, answer, turnDone, doneBy, abandoned, timers, readerVars, futures,
                 process, requests, running, calling, calls, sandbox, cutShort>>

\* turn/completed: a failed turn drops the structured output.  The turn's number is not
\* looked at.
ReadCompleted ==
  /\ Reads("completed")
  /\ turnDone' = TRUE
  /\ doneBy' = Head(output).turn
  /\ structured' \in {structured, Nothing}
  /\ UNCHANGED <<solver, turn, rpc, answer, abandoned, timers, readerVars, futures, process, requests,
                 running, calling, calls, sandbox, cutShort>>

ReadTool ==
  /\ Reads("tool")
  /\ reader' = "inTool"
  /\ UNCHANGED <<solverVars, timers, compacted, futures, process, requests, running, calling, calls,
                 sandbox, cutShort>>

\* The context is 70% full: one request for compaction, whose answer the reader itself
\* would have to read.
ReadUsage ==
  /\ Reads("usage")
  /\ compacted' = TRUE
  /\ \/ compacted /\ UNCHANGED <<reader, futures, requests, timers>>
     \/ ~compacted /\ Request(Compact, "reader") /\ reader' = "compacting"
     \/ ~compacted /\ WriteRaises /\ futures' = futures \union {Compact}
                   /\ UNCHANGED <<reader, requests, timers>>
  /\ UNCHANGED <<solverVars, process, running, calling, calls, sandbox, cutShort>>

CompactionNeverEnds == FALSE   \* mutant: no timeout
CompactionTimesOut == reader = "compacting" /\ Head(timers) = "reader"

CompactionFails ==
  /\ CompactionTimesOut
  /\ Drop("reader")
  /\ futures' = futures \ {Compact}
  /\ reader' = "reading"
  /\ UNCHANGED <<solverVars, compacted, processVars, sandbox, cutShort>>

ReadEnd ==
  /\ reader = "reading" /\ output = <<>> /\ process = "exited"
  /\ turnDone' = TRUE /\ doneBy' = Eof
  /\ reader' = "eof"
  /\ UNCHANGED <<solver, turn, rpc, answer, structured, abandoned, timers, compacted, futures, processVars,
                 sandbox, cutShort>>

\* A tool call ends and its result is written, for a process that may be gone.
ToolReturns ==
  /\ reader = "inTool"
  /\ reader' = "reading"
  /\ calling' = Nothing
  /\ UNCHANGED <<solverVars, timers, compacted, futures, process, requests, running, output, calls,
                 sandbox, cutShort>>

\* Arguments that are no object, a sandbox that raises, or a write to a process that is
\* gone: the exception ends the reader, and nobody looks at it.
ToolRaises ==
  /\ reader = "inTool"
  /\ reader' = "dead"
  /\ UNCHANGED <<solverVars, timers, compacted, futures, processVars, sandbox, cutShort>>

-----------------------------------------------------------------------------
(* The process *)

Write(m) == /\ process = "running" /\ Len(output) < MaxUnread
            /\ output' = Append(output, m)
            /\ UNCHANGED <<solverVars, timers, readerVars, futures, process, sandbox, cutShort>>

AnswerRequest(id, ok) ==
  /\ id \in requests
  /\ requests' = requests \ {id}
  /\ running' = IF id \in Turns /\ ok THEN running \union {id} ELSE running
  /\ Write([type |-> "answer", id |-> id, ok |-> ok])
  /\ UNCHANGED <<calling, calls>>

CallTool(t) ==
  /\ t \in running /\ calling = Nothing /\ calls < MaxTools
  /\ calling' = t /\ calls' = calls + 1
  /\ Write([type |-> "tool"])
  /\ UNCHANGED <<requests, running>>

Report(t) ==
  /\ t \in running /\ calls < MaxTools
  /\ calls' = calls + 1
  /\ \/ Write([type |-> "output", turn |-> t]) \/ Write([type |-> "usage"])
  /\ UNCHANGED <<requests, running, calling>>

CompleteTurn(t) ==
  /\ t \in running /\ calling # t
  /\ running' = running \ {t}
  /\ Write([type |-> "completed", turn |-> t])
  /\ UNCHANGED <<requests, calling, calls>>

ProcessExits ==
  /\ process = "running"
  /\ process' = "exited" /\ requests' = {} /\ running' = {} /\ calling' = Nothing
  /\ UNCHANGED <<solverVars, timers, readerVars, futures, output, calls, sandbox, cutShort>>

-----------------------------------------------------------------------------
StartStep == SessionStarts \/ SessionStartFails \/ Initialized \/ ThreadStarted \/ HandshakeFails
TurnStep == TurnAccepted \/ TurnRefused \/ SolverTimesOut \/ TurnReturns
StopStep == ReaderStopped \/ ProcessStopped \/ SandboxStopped \/ StopCut
ReadStep == ReadAnswer \/ ReadOutput \/ ReadCompleted \/ ReadTool \/ ReadUsage \/ ReadEnd
ToolStep == ToolReturns \/ ToolRaises

SessionNext ==
  \/ StartSession \/ StartStep \/ BeginTurn \/ TurnStep
  \/ StopSession \/ CancelSession \/ StopStep
  \/ ReadStep \/ CompactionFails \/ ToolStep
  \/ \E id \in Requests, ok \in BOOLEAN : AnswerRequest(id, ok)
  \/ \E t \in Turns : CallTool(t) \/ Report(t) \/ CompleteTurn(t)
  \/ ProcessExits

(* The event loop resumes both tasks, timeouts expire, and a tool returns: each *)
(* has a timeout of its own.  The process completes a turn that it has nothing   *)
(* more to do for.                                                               *)
SessionFairness ==
  /\ WF_sessionVars(StartStep \/ TurnStep \/ StopStep)
  /\ WF_sessionVars(ReadStep \/ CompactionFails \/ ToolStep)
  /\ \A t \in Turns : WF_sessionVars(CompleteTurn(t))

SessionSpec == SessionInit /\ [][SessionNext]_sessionVars
FairSessionSpec == SessionSpec /\ SessionFairness

-----------------------------------------------------------------------------
(* Properties *)

\* Although the reader blocks itself on its compaction request, the process dies and
\* answers are lost, every turn returns to the swarm, unless a tool call that raised has
\* ended the reader.
TurnEnds == []<>(\/ solver \notin {"turnStarting", "inTurn"}
                 \/ solver = "inTurn" /\ reader = "dead")

\* The completion and the output a turn returns with are its own, or those of a turn that
\* the solver had left while the process went on with it: its start had timed out, or it
\* had in its turn been ended by the completion of such a turn.
ResultIsOfItsTurn ==
  solver = "inTurn" /\ turnDone =>
    /\ doneBy \in {turn, Eof} \union abandoned
    /\ structured \in {turn, Nothing} \union abandoned

\* After stop(), whatever the session had come to, the reader is over, and without a
\* second cancellation the process and the container are gone.
StopLeavesNothing ==
  solver = "stopped" => /\ reader \notin ReaderRuns
                        /\ (cutShort \/ (process = "none" /\ sandbox # "up"))
=============================================================================
