------------------------- MODULE CodexSessionProofs -------------------------
(***************************************************************************)
(* The theorems of CodexSession, for any number of turns, tool calls and    *)
(* unread messages.                                                         *)
(*                                                                         *)
(* A turn is loose while the process may still have something to say of it, *)
(* or has said something that nobody has read.  The solver looks at no      *)
(* turn number, so that a result can only be trusted because a loose turn   *)
(* is the current one or one that the solver has left (LooseInv).  That     *)
(* needs to know why a turn is not loose any more when the solver goes on:  *)
(* its completion is the last that is written of it (CompletedInv), a       *)
(* refused one was never begun (RefusedInv), and a process that is gone     *)
(* works on nothing (GoneInv).                                              *)
(***************************************************************************)
EXTENDS CodexSession, SequenceTheorems, TLAPS

-----------------------------------------------------------------------------
(* The inductive invariant *)

Asked == requests \intersect Turns
Of(m, t) == m.type \in {"completed", "output"} /\ m.turn = t
Reported == {t \in Turns : \E i \in 1 .. Len(output) : Of(output[i], t)}
Loose == Asked \union running \union Reported

\* The part of the types that the other parts need.
DataInv ==
  /\ turn \in 0 .. MaxTurns /\ abandoned \subseteq 1 .. turn
  /\ running \subseteq Turns /\ output \in Seq(Messages)

\* Where the solver is between two turns.
Between == {"initializing", "threading", "ready"}

\* What is still open in the process is the current turn, or one that the solver has left.
LooseInv == /\ Loose \subseteq abandoned \union {turn}
            /\ solver \in Between => Loose \subseteq abandoned

\* A turn is not worked on before its request is answered.
AskedInv == \A t \in Asked : t \notin running \union Reported

\* A turn that was refused is not worked on, and answers are to turns that were asked for.
RefusedInv ==
  /\ \A i \in 1 .. Len(output) :
       output[i].type = "answer" /\ output[i].id \in Turns =>
         output[i].id <= turn /\ (output[i].ok \/ output[i].id \notin Loose)
  /\ solver = "turnStarting" => rpc = turn /\ (answer = "error" => turn \notin Loose)

\* Nothing comes of a turn after its completion.
CompletedInv ==
  /\ \A i \in 1 .. Len(output) : output[i].type = "completed" =>
       /\ output[i].turn \notin Asked \union running
       /\ \A j \in i + 1 .. Len(output) : ~Of(output[j], output[i].turn)
  /\ doneBy \in Turns => doneBy \notin Loose

\* A process that does not run works on nothing, and one whose end was read has said all.
GoneInv ==
  /\ process # "running" => Asked = {} /\ running = {}
  /\ doneBy = Eof => process # "running" /\ Loose = {}
  /\ solver \in {"new", "starting"} =>
       process = "none" /\ reader = "none" /\ turn = 0 /\ Loose = {} /\ doneBy = Nothing

ResultInv ==
  /\ turnDone => doneBy \in {turn, Eof} \union abandoned
  /\ structured \in {turn, Nothing} \union abandoned

\* stop() comes to the process after the reader and to the sandbox after the process.
StopInv ==
  /\ solver \in {"stopProcess", "stopSandbox", "stopped"} => reader \notin ReaderRuns
  /\ solver = "stopSandbox" => process = "none"
  /\ solver = "stopped" /\ ~cutShort => process = "none" /\ sandbox # "up"

TurnInv == DataInv /\ LooseInv /\ AskedInv /\ RefusedInv /\ CompletedInv /\ ResultInv
SessionInv == TurnInv /\ GoneInv /\ StopInv

LEMMA SessionInitInv == SessionInit => SessionInv
<1> SUFFICES ASSUME SessionInit PROVE SessionInv
  OBVIOUS
<1>1. MaxTurns \in Nat \ {0}
  BY BoundsAssumption
<1>2. output = <<>> /\ Len(output) = 0 /\ Asked = {} /\ running = {} /\ Reported = {}
  BY DEF SessionInit, Asked, Reported
<1>3. Loose = {}
  BY <1>2 DEF Loose
<1>4. DataInv /\ LooseInv /\ AskedInv /\ ResultInv
  BY <1>1, <1>2, <1>3 DEF SessionInit, DataInv, LooseInv, AskedInv, ResultInv, Nothing
<1>5. RefusedInv /\ CompletedInv
  BY <1>1, <1>2, <1>3 DEF SessionInit, RefusedInv, CompletedInv, Nothing, Turns
<1>6. GoneInv /\ StopInv
  BY <1>1, <1>2, <1>3 DEF SessionInit, GoneInv, StopInv, Nothing, Eof
<1>7. QED
  BY <1>4, <1>5, <1>6 DEF SessionInv, TurnInv

-----------------------------------------------------------------------------
(* Requests and messages *)

LEMMA Bounds ==
  /\ MaxTurns \in Nat /\ MaxTurns > 0
  /\ Turns \subseteq Nat /\ Turns \subseteq Requests /\ Nothing \notin Turns /\ Eof \notin Turns
  /\ Initialize \notin Turns /\ Thread \notin Turns /\ Compact \notin Turns
BY BoundsAssumption DEF Turns, Requests, Nothing, Eof, Initialize, Thread, Compact

LEMMA MessageFacts ==
  ASSUME NEW m \in Messages
  PROVE  /\ m.type = "answer" => m.id \in Requests /\ m.ok \in BOOLEAN
         /\ m.type \in {"completed", "output"} => m.turn \in Turns
         /\ m.type \in {"answer", "completed", "output", "tool", "usage"}
BY DEF Messages

\* What is read is the first message, and the others move up.
LEMMA OutputRead ==
  ASSUME DataInv, output # <<>>, output' = Tail(output)
  PROVE  /\ Len(output) \in Nat /\ Len(output') = Len(output) - 1
         /\ output' \in Seq(Messages)
         /\ 1 \in 1 .. Len(output) /\ Head(output) = output[1] /\ Head(output) \in Messages
         /\ \A i \in 1 .. Len(output') : i + 1 \in 1 .. Len(output) /\ output'[i] = output[i + 1]
         /\ Reported' \subseteq Reported
<1>1. output \in Seq(Messages)
  BY DEF DataInv
<1>2. /\ Len(output) \in Nat /\ Len(output') = Len(output) - 1
      /\ output' \in Seq(Messages)
      /\ 1 \in 1 .. Len(output) /\ Head(output) = output[1] /\ Head(output) \in Messages
      /\ \A i \in 1 .. Len(output') : i + 1 \in 1 .. Len(output) /\ output'[i] = output[i + 1]
  BY <1>1
<1>3. Reported' \subseteq Reported
  BY <1>2 DEF Reported, Of
<1>4. QED
  BY <1>2, <1>3

LEMMA OutputWritten ==
  ASSUME DataInv, NEW m \in Messages, output' = Append(output, m)
  PROVE  /\ Len(output) \in Nat /\ Len(output') = Len(output) + 1
         /\ output' \in Seq(Messages)
         /\ \A i \in 1 .. Len(output) : output'[i] = output[i]
         /\ output'[Len(output) + 1] = m
         /\ \A t \in Turns : t \in Reported' <=> t \in Reported \/ Of(m, t)
<1>1. output \in Seq(Messages)
  BY DEF DataInv
<1>2. /\ Len(output) \in Nat /\ Len(output') = Len(output) + 1
      /\ output' \in Seq(Messages)
      /\ \A i \in 1 .. Len(output) : output'[i] = output[i]
      /\ output'[Len(output) + 1] = m
  BY <1>1
<1>3. ASSUME NEW t \in Turns PROVE t \in Reported' <=> t \in Reported \/ Of(m, t)
  <2>1. t \in Reported' <=> \E i \in 1 .. Len(output) + 1 : Of(output'[i], t)
    BY <1>2 DEF Reported, Of
  <2>2. \A i \in 1 .. Len(output) + 1 : i \in 1 .. Len(output) \/ i = Len(output) + 1
    BY <1>2
  <2>3. \A i \in 1 .. Len(output) : i \in 1 .. Len(output) + 1
    BY <1>2
  <2>4. Len(output) + 1 \in 1 .. Len(output) + 1
    BY <1>2
  <2>5. t \in Reported <=> \E i \in 1 .. Len(output) : Of(output[i], t)
    BY DEF Reported
  <2>6. QED
    BY <1>2, <2>1, <2>2, <2>3, <2>4, <2>5
<1>4. QED
  BY <1>2, <1>3

LEMMA LooseFacts ==
  ASSUME SessionInv
  PROVE  /\ Asked \subseteq Loose /\ running \subseteq Loose /\ Reported \subseteq Loose
         /\ Loose \subseteq Turns
         /\ \A t \in Loose : t \in Nat /\ t <= turn
<1>1. Asked \subseteq Loose /\ running \subseteq Loose /\ Reported \subseteq Loose
  BY DEF Loose
<1>2. Loose \subseteq Turns
  BY DEF Loose, Asked, Reported, SessionInv, TurnInv, DataInv
<1>3. ASSUME NEW t \in Loose PROVE t \in Nat /\ t <= turn
  <2>1. t \in abandoned \union {turn} /\ abandoned \subseteq 1 .. turn /\ turn \in 0 .. MaxTurns
    BY <1>3 DEF SessionInv, TurnInv, LooseInv, DataInv
  <2>2. QED
    BY <2>1, Bounds
<1>4. QED
  BY <1>1, <1>2, <1>3

-----------------------------------------------------------------------------
(* Steps that neither write nor read a message of a turn *)

Quiet ==
  /\ UNCHANGED <<turn, running, output, turnDone, doneBy, structured, process>>
  /\ Asked' = Asked
  /\ abandoned \subseteq abandoned' /\ abandoned' \subseteq 1 .. turn
  /\ solver' \in Between => solver \in Between \/ Loose \subseteq abandoned'
  /\ solver' = "turnStarting" => solver = "turnStarting" /\ UNCHANGED <<rpc, answer>>
  /\ solver' \in {"new", "starting"} => solver \in {"new", "starting"} /\ UNCHANGED reader

LEMMA QuietKeepsInv ==
  ASSUME SessionInv, Quiet
  PROVE  TurnInv' /\ GoneInv'
<1>1. Asked' = Asked /\ running' = running /\ Reported' = Reported /\ Loose' = Loose
  BY DEF Quiet, Reported, Loose, Of
<1>2. DataInv' /\ LooseInv' /\ AskedInv'
  BY <1>1 DEF SessionInv, TurnInv, Quiet, DataInv, LooseInv, AskedInv
<1>3. RefusedInv'
  BY <1>1 DEF SessionInv, TurnInv, Quiet, RefusedInv
<1>4. CompletedInv'
  BY <1>1 DEF SessionInv, TurnInv, Quiet, CompletedInv, Of
<1>5. ResultInv' /\ GoneInv'
  BY <1>1 DEF SessionInv, TurnInv, Quiet, ResultInv, GoneInv
<1>6. QED
  BY <1>2, <1>3, <1>4, <1>5 DEF TurnInv

LEMMA QuietSteps ==
  ASSUME SessionInv,
         \/ StartSession \/ SessionStartFails \/ Initialized \/ ThreadStarted \/ HandshakeFails
         \/ TurnStep \/ StopSession \/ CancelSession
         \/ ReaderStopped \/ SandboxStopped \/ StopCut \/ CompactionFails \/ ToolStep
  PROVE  Quiet
<1>1. abandoned \subseteq 1 .. turn /\ turn \in 0 .. MaxTurns
  BY DEF SessionInv, TurnInv, DataInv
<1>2. CASE StartSession \/ SessionStartFails \/ StopSession
  BY <1>1, <1>2 DEF StartSession, SessionStartFails, StopSession, Quiet, Between, Asked, processVars, readerVars
<1>3. CASE Initialized
  <2>1. requests' = requests \/ requests' = requests \union {Thread}
    BY <1>3 DEF Initialized, SolverAsksNext
  <2>2. Asked' = Asked
    BY <2>1, Bounds DEF Asked
  <2>3. QED
    BY <1>1, <1>3, <2>2 DEF Initialized, SolverAsksNext, SolverAsked, Quiet, Between
<1>4. CASE ThreadStarted
  <2>1. Loose \subseteq abandoned
    BY <1>4 DEF ThreadStarted, SessionInv, TurnInv, LooseInv, Between
  <2>2. QED
    BY <1>1, <1>4, <2>1 DEF ThreadStarted, SolverAsked, Quiet, Between, Asked, processVars
<1>5. CASE HandshakeFails \/ CancelSession \/ TurnAccepted
  BY <1>1, <1>5 DEF HandshakeFails, CancelSession, TurnAccepted, SolverAsked, Quiet, Between, Asked, processVars
<1>6. CASE TurnRefused
  <2>1. turn \notin Loose /\ Loose \subseteq abandoned \union {turn}
    BY <1>6 DEF TurnRefused, SessionInv, TurnInv, RefusedInv, LooseInv
  <2>2. QED
    BY <1>1, <1>6, <2>1 DEF TurnRefused, SolverAsked, Quiet, Between, Asked, processVars
<1>7. CASE SolverTimesOut
  <2>1. solver = "turnStarting" => turn \in 1 .. turn
    BY <1>1, <1>7, Bounds DEF SolverTimesOut, SessionInv, TurnInv, RefusedInv, Nothing
  <2>2. Loose \subseteq abandoned \union {turn}
    BY DEF SessionInv, TurnInv, LooseInv
  <2>3. QED
    BY <1>1, <1>7, <2>1, <2>2 DEF SolverTimesOut, SolverAsked, Quiet, Between, Asked, processVars
<1>8. CASE TurnReturns
  <2>1. turnDone /\ doneBy \in {turn, Eof} \union abandoned /\ Loose \subseteq abandoned \union {turn}
    BY <1>8 DEF TurnReturns, SessionInv, TurnInv, ResultInv, LooseInv
  <2>2. CASE doneBy \in {turn, Eof}
    <3>1. doneBy = Eof => Loose = {}
      BY DEF SessionInv, GoneInv
    <3>2. doneBy = turn => turn \notin Loose
      BY LooseFacts DEF SessionInv, TurnInv, CompletedInv
    <3>3. Loose \subseteq abandoned
      BY <2>1, <2>2, <3>1, <3>2
    <3>4. QED
      BY <1>1, <1>8, <2>2, <3>3 DEF TurnReturns, Quiet, Between, Asked, processVars
  <2>3. CASE doneBy \notin {turn, Eof}
    <3>1. turn \in 1 .. turn
      BY <1>1, <2>1, <2>3, Bounds
    <3>2. QED
      BY <1>1, <1>8, <2>1, <2>3, <3>1 DEF TurnReturns, Quiet, Between, Asked, processVars
  <2>4. QED
    BY <2>2, <2>3
<1>9. CASE ReaderStopped \/ SandboxStopped \/ StopCut
  <2>1. AfterReader \in {"stopSandbox", "stopProcess"}
    BY DEF AfterReader
  <2>2. QED
    BY <1>1, <1>9, <2>1 DEF ReaderStopped, SandboxStopped, StopCut, Quiet, Between, Asked, processVars
<1>10. CASE CompactionFails \/ ToolReturns \/ ToolRaises
  <2>1. solver \notin {"new", "starting"}
    BY <1>10 DEF CompactionFails, CompactionTimesOut, ToolReturns, ToolRaises, SessionInv, GoneInv
  <2>2. QED
    BY <1>1, <1>10, <2>1 DEF CompactionFails, ToolReturns, ToolRaises, Quiet, Between, Asked, processVars,
       solverVars
<1>11. QED
  BY <1>2, <1>3, <1>4, <1>5, <1>6, <1>7, <1>8, <1>9, <1>10 DEF TurnStep, ToolStep

-----------------------------------------------------------------------------
(* Steps that read a message *)

\* The first message m is read, and the solver's state has of it what the kind of m says.
MessageRead(m) ==
  /\ reader = "reading" /\ output # <<>> /\ m = Head(output) /\ output' = Tail(output)
  /\ Asked' = Asked
  /\ UNCHANGED <<turn, running, abandoned, process, solver, rpc>>
  /\ answer' \in {answer, "ok"} \/ (answer' = "error" /\ m.type = "answer" /\ m.id = rpc /\ ~m.ok)
  /\ structured' \in {structured, Nothing} \/ (m.type = "output" /\ structured' = m.turn)
  /\ UNCHANGED <<turnDone, doneBy>> \/ (m.type = "completed" /\ doneBy' = m.turn)

LEMMA ReadSteps ==
  ASSUME SessionInv, ReadAnswer \/ ReadOutput \/ ReadCompleted \/ ReadTool \/ ReadUsage
  PROVE  MessageRead(Head(output))
<1>1. CASE ReadAnswer
  BY <1>1 DEF ReadAnswer, Reads, MessageRead, Asked, readerVars
<1>2. CASE ReadOutput \/ ReadCompleted \/ ReadTool
  BY <1>2 DEF ReadOutput, ReadCompleted, ReadTool, Reads, MessageRead, Asked, readerVars, solverVars
<1>3. CASE ReadUsage
  <2>1. requests' = requests \/ requests' = requests \union {Compact}
    BY <1>3 DEF ReadUsage, Request
  <2>2. Asked' = Asked
    BY <2>1, Bounds DEF Asked
  <2>3. QED
    BY <1>3, <2>2 DEF ReadUsage, Reads, MessageRead, solverVars
<1>4. QED
  BY <1>1, <1>2, <1>3

LEMMA ReadKeepsInv ==
  ASSUME SessionInv, NEW m, MessageRead(m)
  PROVE  TurnInv' /\ GoneInv'
<1>1. DataInv
  BY DEF SessionInv, TurnInv
<1>2. /\ Len(output) \in Nat /\ Len(output') = Len(output) - 1
      /\ output' \in Seq(Messages)
      /\ 1 \in 1 .. Len(output) /\ m = output[1] /\ m \in Messages
      /\ \A i \in 1 .. Len(output') : i + 1 \in 1 .. Len(output) /\ output'[i] = output[i + 1]
      /\ Reported' \subseteq Reported
  BY <1>1, OutputRead DEF MessageRead
<1>3. Asked' = Asked /\ running' = running /\ Loose' \subseteq Loose
  BY <1>2 DEF MessageRead, Loose
<1>4. m.type \in {"completed", "output"} => m.turn \in Turns /\ m.turn \in Loose
  <2> SUFFICES ASSUME m.type \in {"completed", "output"} PROVE m.turn \in Turns /\ m.turn \in Loose
    OBVIOUS
  <2>1. m.turn \in Turns
    BY <1>2, MessageFacts
  <2>2. m.turn \in Reported
    BY <1>2, <2>1 DEF Reported, Of
  <2>3. QED
    BY <2>1, <2>2 DEF Loose
<1>5. DataInv' /\ LooseInv' /\ AskedInv'
  BY <1>1, <1>2, <1>3 DEF SessionInv, TurnInv, MessageRead, DataInv, LooseInv, AskedInv
<1>6. RefusedInv'
  <2>1. ASSUME NEW i \in 1 .. Len(output'), output'[i].type = "answer", output'[i].id \in Turns
        PROVE  output'[i].id <= turn /\ (output'[i].ok \/ output'[i].id \notin Loose')
    BY <1>2, <1>3, <2>1 DEF SessionInv, TurnInv, RefusedInv
  <2>2. ASSUME solver = "turnStarting", answer' = "error"
        PROVE  turn \notin Loose'
    <3>1. rpc = turn
      BY <2>2 DEF SessionInv, TurnInv, RefusedInv
    <3>2. CASE answer = "error"
      BY <1>3, <2>2, <3>2 DEF SessionInv, TurnInv, RefusedInv
    <3>3. CASE answer # "error"
      <4>1. m.type = "answer" /\ m.id = turn /\ ~m.ok
        BY <2>2, <3>1, <3>3 DEF MessageRead
      <4>2. turn \in Turns => turn \notin Loose
        BY <1>2, <4>1 DEF SessionInv, TurnInv, RefusedInv
      <4>3. QED
        BY <1>3, <4>2, LooseFacts
    <3>4. QED
      BY <3>2, <3>3
  <2>3. turn' = turn /\ solver' = solver /\ rpc' = rpc
    BY DEF MessageRead
  <2>4. QED
    BY <2>1, <2>2, <2>3 DEF SessionInv, TurnInv, RefusedInv
<1>7. CompletedInv'
  <2>1. ASSUME NEW i \in 1 .. Len(output'), output'[i].type = "completed"
        PROVE  /\ output'[i].turn \notin Asked \union running
               /\ \A j \in i + 1 .. Len(output') : ~Of(output'[j], output'[i].turn)
    <3>1. i + 1 \in 1 .. Len(output) /\ output'[i] = output[i + 1]
      BY <1>2
    <3>2. \A j \in i + 1 .. Len(output') :
            j + 1 \in (i + 1) + 1 .. Len(output) /\ output'[j] = output[j + 1]
      BY <1>2
    <3>3. QED
      BY <2>1, <3>1, <3>2 DEF SessionInv, TurnInv, CompletedInv
  <2>2. doneBy' \in Turns => doneBy' \notin Loose'
    <3>1. CASE doneBy' = doneBy
      BY <1>3, <3>1 DEF SessionInv, TurnInv, CompletedInv
    <3>2. CASE m.type = "completed" /\ doneBy' = m.turn
      <4>1. /\ m.turn \notin Asked \union running
            /\ \A j \in 1 + 1 .. Len(output) : ~Of(output[j], m.turn)
        BY <1>2, <3>2 DEF SessionInv, TurnInv, CompletedInv
      <4>2. \A i \in 1 .. Len(output') : i + 1 \in 1 + 1 .. Len(output)
        BY <1>2
      <4>3. m.turn \notin Reported'
        BY <1>2, <4>1, <4>2 DEF Reported, Of
      <4>4. QED
        BY <1>3, <3>2, <4>1, <4>3 DEF Loose
    <3>3. QED
      BY <3>1, <3>2 DEF MessageRead
  <2>3. QED
    BY <1>3, <2>1, <2>2 DEF CompletedInv, Of
<1>8. ResultInv'
  <2>1. m.type \in {"completed", "output"} => m.turn \in {turn} \union abandoned
    BY <1>4 DEF SessionInv, TurnInv, LooseInv
  <2>2. QED
    BY <2>1 DEF SessionInv, TurnInv, ResultInv, MessageRead
<1>9. GoneInv'
  <2>1. solver \notin {"new", "starting"}
    BY DEF SessionInv, GoneInv, MessageRead
  <2>2. doneBy' = Eof => doneBy = Eof
    BY <1>4, Bounds DEF MessageRead
  <2>3. QED
    BY <1>3, <2>1, <2>2 DEF SessionInv, GoneInv, MessageRead
<1>10. QED
  BY <1>5, <1>6, <1>7, <1>8, <1>9 DEF TurnInv

-----------------------------------------------------------------------------
(* Steps that write a message *)

\* What a process that runs may write: m, after which a turn may be answered or completed.
MessageWritten(m) ==
  /\ m \in Messages /\ process = "running" /\ output' = Append(output, m)
  /\ UNCHANGED <<turn, abandoned, process, solver, rpc, answer, turnDone, doneBy, structured, reader>>
  /\ running' \subseteq Turns
  /\ \/ /\ m.type = "answer" /\ m.id \in requests /\ Asked' = Asked \ {m.id}
        /\ running' = IF m.id \in Turns /\ m.ok THEN running \union {m.id} ELSE running
     \/ m.type \in {"tool", "usage"} /\ Asked' = Asked /\ running' = running
     \/ m.type = "output" /\ m.turn \in running /\ Asked' = Asked /\ running' = running
     \/ m.type = "completed" /\ m.turn \in running /\ Asked' = Asked /\ running' = running \ {m.turn}

LEMMA WriteSteps ==
  ASSUME SessionInv,
         \/ \E id \in Requests, ok \in BOOLEAN : AnswerRequest(id, ok)
         \/ \E t \in Turns : CallTool(t) \/ Report(t) \/ CompleteTurn(t)
  PROVE  \E m : MessageWritten(m)
<1>1. running \subseteq Turns
  BY DEF SessionInv, TurnInv, DataInv
<1>2. ASSUME NEW id \in Requests, NEW ok \in BOOLEAN, AnswerRequest(id, ok)
      PROVE  MessageWritten([type |-> "answer", id |-> id, ok |-> ok])
  <2>1. [type |-> "answer", id |-> id, ok |-> ok] \in Messages
    BY DEF Messages
  <2>2. requests' = requests \ {id} /\ id \in requests
    BY <1>2 DEF AnswerRequest
  <2>3. Asked' = Asked \ {id}
    BY <2>2 DEF Asked
  <2>4. QED
    BY <1>1, <1>2, <2>1, <2>2, <2>3 DEF AnswerRequest, Write, MessageWritten, solverVars, readerVars
<1>3. ASSUME NEW t \in Turns, CallTool(t)
      PROVE  MessageWritten([type |-> "tool"])
  <2>1. [type |-> "tool"] \in Messages
    BY DEF Messages
  <2>2. QED
    BY <1>1, <1>3, <2>1 DEF CallTool, Write, MessageWritten, Asked, solverVars, readerVars
<1>4. ASSUME NEW t \in Turns, Report(t)
      PROVE  \E m : MessageWritten(m)
  <2>1. [type |-> "usage"] \in Messages /\ [type |-> "output", turn |-> t] \in Messages
    BY DEF Messages
  <2>2. t \in running /\ UNCHANGED <<requests, running>>
    BY <1>4 DEF Report
  <2>3. CASE Write([type |-> "usage"])
    <3>1. MessageWritten([type |-> "usage"])
      BY <1>1, <2>1, <2>2, <2>3 DEF Write, MessageWritten, Asked, solverVars, readerVars
    <3>2. QED
      BY <3>1
  <2>4. CASE Write([type |-> "output", turn |-> t])
    <3>1. MessageWritten([type |-> "output", turn |-> t])
      BY <1>1, <2>1, <2>2, <2>4 DEF Write, MessageWritten, Asked, solverVars, readerVars
    <3>2. QED
      BY <3>1
  <2>5. QED
    BY <1>4, <2>3, <2>4 DEF Report
<1>5. ASSUME NEW t \in Turns, CompleteTurn(t)
      PROVE  MessageWritten([type |-> "completed", turn |-> t])
  <2>1. [type |-> "completed", turn |-> t] \in Messages
    BY DEF Messages
  <2>2. QED
    BY <1>1, <1>5, <2>1 DEF CompleteTurn, Write, MessageWritten, Asked, solverVars, readerVars
<1>6. QED
  BY <1>2, <1>3, <1>4, <1>5

\* A message of a turn is one of a turn that is loose already.
LEMMA WriteKeepsLoose ==
  ASSUME SessionInv, NEW m, MessageWritten(m)
  PROVE  /\ Loose' \subseteq Loose /\ Asked' \subseteq Asked
         /\ \A t \in Turns : t \in Reported' <=> t \in Reported \/ Of(m, t)
<1>1. \A t \in Turns : t \in Reported' <=> t \in Reported \/ Of(m, t)
  BY OutputWritten DEF SessionInv, TurnInv, MessageWritten
<1>2. \A t \in Turns : Of(m, t) => t \in running
  BY DEF MessageWritten, Of
<1>3. Reported' \subseteq Turns
  BY DEF Reported
<1>4. Reported' \subseteq Loose
  BY <1>1, <1>2, <1>3 DEF Loose
<1>5. running' \subseteq Loose
  <2>1. ASSUME NEW t \in running' PROVE t \in Loose
    <3>1. t \in running \/ (t \in requests /\ t \in Turns)
      BY <2>1 DEF MessageWritten
    <3>2. QED
      BY <3>1 DEF Loose, Asked
  <2>2. QED
    BY <2>1
<1>6. Asked' \subseteq Asked
  BY DEF MessageWritten
<1>7. QED
  BY <1>1, <1>4, <1>5, <1>6 DEF Loose

LEMMA WriteKeepsInv ==
  ASSUME SessionInv, NEW m, MessageWritten(m)
  PROVE  TurnInv' /\ GoneInv'
<1>1. DataInv
  BY DEF SessionInv, TurnInv
<1>2. /\ Len(output) \in Nat /\ Len(output') = Len(output) + 1
      /\ output' \in Seq(Messages)
      /\ \A i \in 1 .. Len(output) : output'[i] = output[i]
      /\ output'[Len(output) + 1] = m
  BY <1>1, OutputWritten DEF MessageWritten
<1>3. /\ Loose' \subseteq Loose /\ Asked' \subseteq Asked
      /\ \A t \in Turns : t \in Reported' <=> t \in Reported \/ Of(m, t)
  BY WriteKeepsLoose
<1>4. /\ UNCHANGED <<turn, abandoned, process, solver, rpc, answer, turnDone, doneBy, structured, reader>>
      /\ process = "running" /\ running' \subseteq Turns /\ m \in Messages
  BY DEF MessageWritten
<1>5. \A i \in 1 .. Len(output') : i \in 1 .. Len(output) \/ i = Len(output) + 1
  BY <1>2
<1>6. DataInv' /\ LooseInv' /\ ResultInv'
  BY <1>1, <1>2, <1>3, <1>4 DEF SessionInv, TurnInv, DataInv, LooseInv, ResultInv
<1>7. AskedInv'
  <2> SUFFICES ASSUME NEW t \in Asked' PROVE t \notin running' \union Reported'
    BY DEF AskedInv
  <2>1. t \in Asked /\ t \in Turns
    BY <1>3 DEF Asked
  <2>2. t \notin running /\ t \notin Reported
    BY <2>1 DEF SessionInv, TurnInv, AskedInv
  <2>3. t \notin running'
    BY <2>2 DEF MessageWritten
  <2>4. ~Of(m, t)
    BY <2>2 DEF MessageWritten, Of
  <2>5. QED
    BY <1>3, <2>1, <2>2, <2>3, <2>4
<1>8. RefusedInv'
  <2>1. ASSUME NEW i \in 1 .. Len(output'), output'[i].type = "answer", output'[i].id \in Turns
        PROVE  output'[i].id <= turn /\ (output'[i].ok \/ output'[i].id \notin Loose')
    <3>1. CASE i \in 1 .. Len(output)
      BY <1>2, <1>3, <2>1, <3>1 DEF SessionInv, TurnInv, RefusedInv
    <3>2. CASE i = Len(output) + 1
      <4>1. /\ m.id \in Turns /\ m.type = "answer" /\ output'[i] = m
            /\ m.id \in requests /\ Asked' = Asked \ {m.id}
            /\ running' = IF m.ok THEN running \union {m.id} ELSE running
        BY <1>2, <2>1, <3>2 DEF MessageWritten
      <4>2. m.id \in Asked
        BY <4>1 DEF Asked
      <4>3. m.id <= turn /\ m.id \notin running \union Reported
        BY <4>2, LooseFacts DEF SessionInv, TurnInv, AskedInv
      <4>4. ~m.ok => m.id \notin Loose'
        BY <1>3, <4>1, <4>3 DEF Loose, Of
      <4>5. QED
        BY <4>1, <4>3, <4>4
    <3>3. QED
      BY <1>5, <3>1, <3>2
  <2>2. QED
    BY <1>3, <1>4, <2>1 DEF SessionInv, TurnInv, RefusedInv
<1>9. CompletedInv'
  <2>1. ASSUME NEW i \in 1 .. Len(output'), output'[i].type = "completed"
        PROVE  /\ output'[i].turn \notin Asked' \union running'
               /\ \A j \in i + 1 .. Len(output') : ~Of(output'[j], output'[i].turn)
    <3>1. CASE i \in 1 .. Len(output)
      <4> DEFINE t == output[i].turn
      <4>1. /\ output'[i] = output[i] /\ t \notin Asked \union running
            /\ \A j \in i + 1 .. Len(output) : ~Of(output[j], t)
        BY <1>2, <2>1, <3>1 DEF SessionInv, TurnInv, CompletedInv
      <4>2. t \notin Asked' \union running'
        BY <4>1 DEF MessageWritten, Asked
      <4>3. ~Of(m, t)
        BY <4>1 DEF MessageWritten, Of
      <4>4. \A j \in i + 1 .. Len(output') : j \in i + 1 .. Len(output) \/ j = Len(output) + 1
        BY <1>2
      <4>5. \A j \in i + 1 .. Len(output) : output'[j] = output[j]
        BY <1>2, <3>1
      <4> HIDE DEF t
      <4>6. \A j \in i + 1 .. Len(output') : ~Of(output'[j], t)
        BY <1>2, <4>1, <4>3, <4>4, <4>5
      <4>7. QED
        BY <4>1, <4>2, <4>6 DEF t
    <3>2. CASE i = Len(output) + 1
      <4>1. m.type = "completed" /\ output'[i] = m /\ m.turn \in running
            /\ Asked' = Asked /\ running' = running \ {m.turn}
        BY <1>2, <2>1, <3>2 DEF MessageWritten
      <4>2. m.turn \notin Asked
        BY <4>1 DEF SessionInv, TurnInv, AskedInv
      <4>3. i + 1 .. Len(output') = {}
        BY <1>2, <3>2
      <4>4. QED
        BY <4>1, <4>2, <4>3
    <3>3. QED
      BY <1>5, <3>1, <3>2
  <2>2. doneBy' \in Turns => doneBy' \notin Loose'
    BY <1>3, <1>4 DEF SessionInv, TurnInv, CompletedInv
  <2>3. QED
    BY <2>1, <2>2 DEF CompletedInv, Of
<1>10. GoneInv'
  BY <1>3, <1>4 DEF SessionInv, GoneInv
<1>11. QED
  BY <1>6, <1>7, <1>8, <1>9, <1>10 DEF TurnInv

-----------------------------------------------------------------------------
(* The session starts, a turn begins, the process ends *)

LEMMA StartKeepsInv ==
  ASSUME SessionInv, SessionStarts
  PROVE  TurnInv' /\ GoneInv'
<1>1. /\ turn = 0 /\ Loose = {} /\ doneBy = Nothing
  BY DEF SessionInv, GoneInv, SessionStarts
<1>2. /\ solver' = "initializing" /\ process' = "running" /\ requests' = {Initialize}
      /\ UNCHANGED <<turn, turnDone, doneBy, structured, abandoned, running, output>>
  BY DEF SessionStarts
<1>3. Asked' = {} /\ Reported' = Reported /\ running' = running
  BY <1>2, Bounds DEF Asked, Reported, Of
<1>4. Loose' = {} /\ Asked = {} /\ Reported = {} /\ running = {}
  BY <1>1, <1>3 DEF Loose
<1>5. DataInv' /\ LooseInv' /\ AskedInv' /\ ResultInv'
  BY <1>2, <1>3, <1>4 DEF SessionInv, TurnInv, DataInv, LooseInv, AskedInv, ResultInv
<1>6. RefusedInv'
  BY <1>2, <1>4 DEF SessionInv, TurnInv, RefusedInv
<1>7. CompletedInv'
  BY <1>2, <1>3, <1>4 DEF SessionInv, TurnInv, CompletedInv, Of
<1>8. GoneInv'
  BY <1>1, <1>2, <1>4, BoundsAssumption DEF GoneInv, Nothing, Eof
<1>9. QED
  BY <1>5, <1>6, <1>7, <1>8 DEF TurnInv

\* The new turn is one that the process has never heard of.
LEMMA BeginKeepsInv ==
  ASSUME SessionInv, BeginTurn
  PROVE  TurnInv' /\ GoneInv'
<1>1. /\ solver = "ready" /\ turn < MaxTurns /\ turn' = turn + 1
      /\ turnDone' = FALSE /\ doneBy' = Nothing /\ structured' = Nothing
      /\ UNCHANGED <<abandoned, process, running, output>>
  BY DEF BeginTurn, ResetTurn
<1>2. turn \in 0 .. MaxTurns /\ turn \in Nat /\ abandoned \subseteq 1 .. turn /\ running \subseteq Turns
  BY Bounds DEF SessionInv, TurnInv, DataInv
<1>3. turn + 1 \in Turns /\ Loose \subseteq abandoned /\ turn + 1 \notin Loose
  <2>1. turn + 1 \in Turns
    BY <1>1, <1>2, Bounds DEF Turns
  <2>2. Loose \subseteq abandoned
    BY <1>1 DEF SessionInv, TurnInv, LooseInv, Between
  <2>3. turn + 1 \notin abandoned
    BY <1>2
  <2>4. QED
    BY <2>1, <2>2, <2>3
<1>4. \/ solver' = "turnStarting" /\ rpc' = turn + 1 /\ answer' = "none"
      \/ solver' = "ready"
  BY <1>1 DEF BeginTurn, SolverAsks
<1>5. requests' = requests \/ (requests' = requests \union {turn + 1} /\ process = "running")
  BY DEF BeginTurn, SolverAsks, Request
<1>6. solver' = "ready" => requests' = requests
  BY <1>1 DEF BeginTurn, SolverAsks
<1>7. Asked \subseteq Asked' /\ Asked' \subseteq Asked \union {turn + 1}
  BY <1>3, <1>5 DEF Asked
<1>8. Reported' = Reported /\ running' = running
  BY <1>1 DEF Reported, Of
<1>9. Loose \subseteq Loose' /\ Loose' \subseteq Loose \union {turn + 1}
  BY <1>7, <1>8 DEF Loose
<1>10. solver' = "ready" => Loose' = Loose
  BY <1>6, <1>8 DEF Loose, Asked
<1>11. DataInv'
  <2>1. turn + 1 \in 0 .. MaxTurns /\ abandoned \subseteq 1 .. turn + 1
    BY <1>1, <1>2, Bounds
  <2>2. QED
    BY <1>1, <2>1 DEF SessionInv, TurnInv, DataInv
<1>12. LooseInv'
  <2>1. solver' \in Between => solver' = "ready"
    BY <1>4 DEF Between
  <2>2. QED
    BY <1>1, <1>3, <1>9, <1>10, <2>1 DEF LooseInv
<1>13. AskedInv'
  <2>1. turn + 1 \notin running \union Reported
    BY <1>3 DEF Loose
  <2>2. QED
    BY <1>7, <1>8, <2>1 DEF SessionInv, TurnInv, AskedInv
<1>14. RefusedInv'
  <2>1. ASSUME NEW i \in 1 .. Len(output), output[i].type = "answer", output[i].id \in Turns
        PROVE  output[i].id <= turn + 1 /\ (output[i].ok \/ output[i].id \notin Loose')
    <3>1. output[i].id <= turn /\ (output[i].ok \/ output[i].id \notin Loose)
      BY <2>1 DEF SessionInv, TurnInv, RefusedInv
    <3>2. output[i].id \in Nat
      BY <2>1, Bounds
    <3>3. output[i].id # turn + 1 /\ output[i].id <= turn + 1
      BY <1>2, <3>1, <3>2
    <3>4. QED
      BY <1>9, <3>1, <3>3
  <2>2. solver' = "turnStarting" => rpc' = turn' /\ answer' # "error"
    BY <1>1, <1>4
  <2>3. QED
    BY <1>1, <2>1, <2>2 DEF RefusedInv
<1>15. CompletedInv'
  <2>1. ASSUME NEW i \in 1 .. Len(output), output[i].type = "completed"
        PROVE  /\ output[i].turn \notin Asked' \union running
               /\ \A j \in i + 1 .. Len(output) : ~Of(output[j], output[i].turn)
    <3>1. /\ output[i].turn \notin Asked \union running
          /\ \A j \in i + 1 .. Len(output) : ~Of(output[j], output[i].turn)
      BY <2>1 DEF SessionInv, TurnInv, CompletedInv
    <3>2. output[i] \in Messages
      BY DEF SessionInv, TurnInv, DataInv
    <3>3. output[i].turn \in Turns
      BY <2>1, <3>2, MessageFacts
    <3>4. output[i].turn \in Reported
      BY <2>1, <3>3 DEF Reported, Of
    <3>5. output[i].turn # turn + 1
      BY <1>3, <3>4 DEF Loose
    <3>6. QED
      BY <1>7, <3>1, <3>5
  <2>2. doneBy' \notin Turns
    BY <1>1, Bounds
  <2>3. QED
    BY <1>1, <2>1, <2>2 DEF CompletedInv, Of
<1>16. ResultInv'
  BY <1>1 DEF ResultInv
<1>17. GoneInv'
  <2>1. solver' \notin {"new", "starting"}
    BY <1>4
  <2>2. process' # "running" => Asked' = {} /\ running' = {}
    BY <1>1, <1>5 DEF SessionInv, GoneInv, Asked
  <2>3. doneBy' # Eof
    BY <1>1, BoundsAssumption DEF Nothing, Eof
  <2>4. QED
    BY <2>1, <2>2, <2>3 DEF GoneInv
<1>18. QED
  BY <1>11, <1>12, <1>13, <1>14, <1>15, <1>16, <1>17 DEF TurnInv

\* The process is gone, or its end is read: nothing becomes loose.
LEMMA EndKeepsInv ==
  ASSUME SessionInv, ProcessExits \/ ProcessStopped \/ ReadEnd
  PROVE  TurnInv' /\ GoneInv'
<1>1. CASE ProcessExits \/ ProcessStopped
  <2>1. /\ process' # "running" /\ requests' = {} /\ running' = {}
        /\ UNCHANGED <<turn, rpc, answer, turnDone, doneBy, structured, abandoned, output>>
        /\ solver' = solver \/ solver' = "stopSandbox"
    BY <1>1 DEF ProcessExits, ProcessStopped, solverVars
  <2>2. solver \notin {"new", "starting"}
    BY <1>1 DEF ProcessExits, ProcessStopped, SessionInv, GoneInv
  <2>3. Asked' = {} /\ Reported' = Reported
    BY <2>1 DEF Asked, Reported, Of
  <2>4. Loose' \subseteq Loose
    BY <2>1, <2>3 DEF Loose
  <2>5. DataInv' /\ LooseInv' /\ AskedInv' /\ ResultInv'
    BY <2>1, <2>3, <2>4 DEF SessionInv, TurnInv, DataInv, LooseInv, AskedInv, ResultInv, Between
  <2>6. RefusedInv'
    BY <2>1, <2>4 DEF SessionInv, TurnInv, RefusedInv
  <2>7. CompletedInv'
    BY <2>1, <2>3, <2>4 DEF SessionInv, TurnInv, CompletedInv, Of
  <2>8. GoneInv'
    BY <2>1, <2>2, <2>3, <2>4 DEF SessionInv, GoneInv
  <2>9. QED
    BY <2>5, <2>6, <2>7, <2>8 DEF TurnInv
<1>2. CASE ReadEnd
  <2>1. /\ reader = "reading" /\ process = "exited" /\ output = <<>> /\ doneBy' = Eof
        /\ UNCHANGED <<solver, turn, rpc, answer, structured, abandoned, output, process, requests, running>>
    BY <1>2 DEF ReadEnd, processVars
  <2>2. Len(output) = 0
    BY <2>1
  <2>3. Reported = {} /\ Asked = {} /\ running = {}
    BY <2>1, <2>2 DEF Reported, SessionInv, GoneInv
  <2>4. Asked' = Asked /\ Loose' = Loose /\ Loose = {}
    BY <2>1, <2>3 DEF Asked, Loose, Reported, Of
  <2>5. DataInv' /\ LooseInv' /\ AskedInv'
    BY <2>1, <2>3, <2>4 DEF SessionInv, TurnInv, DataInv, LooseInv, AskedInv
  <2>6. RefusedInv' /\ CompletedInv' /\ ResultInv'
    BY <2>1, <2>2, <2>4 DEF SessionInv, TurnInv, RefusedInv, CompletedInv, ResultInv
  <2>7. GoneInv'
    BY <2>1, <2>3, <2>4 DEF SessionInv, GoneInv
  <2>8. QED
    BY <2>5, <2>6, <2>7 DEF TurnInv
<1>3. QED
  BY <1>1, <1>2

-----------------------------------------------------------------------------
(* stop() *)

LEMMA StopStays ==
  ASSUME SessionInv, SessionNext
  PROVE  StopInv'
<1>1. StopInv
  BY DEF SessionInv
<1>2. CASE StartSession \/ StartStep \/ BeginTurn \/ TurnStep \/ StopSession \/ CancelSession
  <2>1. solver' \notin {"stopProcess", "stopSandbox", "stopped"}
    BY <1>2 DEF StartSession, StartStep, SessionStarts, SessionStartFails, Initialized, ThreadStarted,
       HandshakeFails, BeginTurn, SolverAsks, SolverAsksNext, SolverAsked, TurnStep, TurnAccepted,
       TurnRefused, SolverTimesOut, TurnReturns, StopSession, CancelSession
  <2>2. QED
    BY <2>1 DEF StopInv
<1>3. CASE StopStep
  <2>1. CASE ReaderStopped
    BY <2>1 DEF ReaderStopped, AfterReader, StopInv, ReaderRuns, processVars
  <2>2. CASE ProcessStopped
    BY <1>1, <2>2 DEF ProcessStopped, StopInv, readerVars
  <2>3. CASE SandboxStopped
    BY <1>1, <2>3 DEF SandboxStopped, StopInv, readerVars, processVars
  <2>4. CASE StopCut
    BY <1>1, <2>4 DEF StopCut, StopInv, readerVars
  <2>5. QED
    BY <1>3, <2>1, <2>2, <2>3, <2>4 DEF StopStep
<1>4. CASE ReadStep \/ CompactionFails \/ ToolStep
  <2>1. /\ reader \in ReaderRuns
        /\ UNCHANGED <<solver, process, sandbox, cutShort>>
    BY <1>4 DEF ReadStep, ReadAnswer, ReadOutput, ReadCompleted, ReadTool, ReadUsage, ReadEnd, Reads,
       CompactionFails, CompactionTimesOut, ToolStep, ToolReturns, ToolRaises, ReaderRuns,
       solverVars, processVars
  <2>2. QED
    BY <1>1, <2>1 DEF StopInv
<1>5. CASE \/ \E id \in Requests, ok \in BOOLEAN : AnswerRequest(id, ok)
           \/ \E t \in Turns : CallTool(t) \/ Report(t) \/ CompleteTurn(t)
  <2>1. UNCHANGED <<solver, process, sandbox, cutShort, reader>>
    BY <1>5 DEF AnswerRequest, CallTool, Report, CompleteTurn, Write, solverVars, readerVars
  <2>2. QED
    BY <1>1, <2>1 DEF StopInv
<1>6. CASE ProcessExits
  BY <1>1, <1>6 DEF ProcessExits, StopInv, solverVars, readerVars
<1>7. QED
  BY <1>2, <1>3, <1>4, <1>5, <1>6 DEF SessionNext

-----------------------------------------------------------------------------
(* Types and timers *)

\* Who waits for an answer has one timer, and nobody else has any.
TimersInv ==
  /\ timers \in Seq({"solver", "reader"})
  /\ \A i, j \in DOMAIN timers : timers[i] = timers[j] => i = j
  /\ \A i \in DOMAIN timers : timers[i] = "solver" => rpc # Nothing
  /\ \A i \in DOMAIN timers : timers[i] = "reader" => reader = "compacting"

SolverTypes ==
  /\ solver \in {"new", "starting", "initializing", "threading", "ready", "turnStarting",
                 "inTurn", "failed", "stopReader", "stopProcess", "stopSandbox", "stopped"}
  /\ rpc \in {Nothing} \union Requests /\ answer \in {"none", "ok", "error"}
  /\ solver \in {"new", "starting", "ready", "inTurn"} => rpc = Nothing
  /\ sandbox \in {"none", "up", "stopped"} /\ cutShort \in BOOLEAN
TurnTypes ==
  /\ turnDone \in BOOLEAN /\ doneBy \in {Nothing, Eof} \union Turns
  /\ structured \in 0 .. MaxTurns
ReaderTypes ==
  /\ reader \in {"none", "eof", "dead", "cancelled"} \union ReaderRuns /\ compacted \in BOOLEAN
  /\ futures \subseteq Requests
ProcessTypes ==
  /\ requests \subseteq Requests /\ process \in {"none", "running", "exited"}
  /\ calling \in 0 .. MaxTurns
  /\ Len(output) <= MaxUnread /\ calls \in 0 .. MaxTools
Typed == SolverTypes /\ TurnTypes /\ ReaderTypes /\ ProcessTypes

LEMMA SolverTypesStay ==
  ASSUME SessionInv, Typed, SessionNext
  PROVE  SolverTypes'
<1> USE DEF Typed
<1>1. turn \in 0 .. MaxTurns
  BY DEF SessionInv, TurnInv, DataInv
<1>2. CASE StartSession \/ SessionStarts \/ SessionStartFails
  BY <1>2, Bounds DEF StartSession, SessionStarts, SessionStartFails, SolverTypes, Initialize, Requests
<1>3. CASE Initialized \/ ThreadStarted \/ HandshakeFails
  BY <1>3, Bounds DEF Initialized, ThreadStarted, HandshakeFails, SolverAsked, SolverAsksNext,
                      SolverTypes, Thread, Requests
<1>4. CASE BeginTurn
  BY <1>1, <1>4, Bounds DEF BeginTurn, SolverAsks, SolverTypes, Requests
<1>5. CASE TurnStep
  BY <1>5 DEF TurnStep, TurnAccepted, TurnRefused, SolverTimesOut, TurnReturns, SolverAsked, SolverTypes
<1>6. CASE StopSession \/ CancelSession
  BY <1>6 DEF StopSession, CancelSession, SolverAsked, SolverTypes
<1>7. CASE StopStep
  BY <1>7 DEF StopStep, ReaderStopped, ProcessStopped, SandboxStopped, StopCut, AfterReader, SolverTypes
<1>8. CASE ReadStep
  <2>1. UNCHANGED <<solver, rpc, sandbox, cutShort>> /\ answer' \in {answer, "ok", "error"}
    BY <1>8 DEF ReadStep, ReadAnswer, ReadOutput, ReadCompleted, ReadTool, ReadUsage, ReadEnd, solverVars
  <2>2. QED
    BY <2>1 DEF SolverTypes
<1>9. CASE \/ CompactionFails \/ ToolStep \/ ProcessExits
           \/ \E id \in Requests, ok \in BOOLEAN : AnswerRequest(id, ok)
           \/ \E t \in Turns : CallTool(t) \/ Report(t) \/ CompleteTurn(t)
  <2>1. UNCHANGED <<solver, rpc, answer, sandbox, cutShort>>
    BY <1>9 DEF CompactionFails, ToolStep, ToolReturns, ToolRaises, ProcessExits, AnswerRequest,
                CallTool, Report, CompleteTurn, Write, solverVars
  <2>2. QED
    BY <2>1 DEF SolverTypes
<1>10. QED
  BY <1>2, <1>3, <1>4, <1>5, <1>6, <1>7, <1>8, <1>9 DEF SessionNext, StartStep

LEMMA TurnTypesStay ==
  ASSUME SessionInv, Typed, SessionNext
  PROVE  TurnTypes'
<1> USE DEF Typed
<1>1. CASE UNCHANGED <<turnDone, doneBy, structured>>
  BY <1>1 DEF TurnTypes
<1>2. CASE BeginTurn
  <2>1. turnDone' \in BOOLEAN /\ doneBy' = Nothing /\ structured' = Nothing
    BY <1>2 DEF BeginTurn, ResetTurn
  <2>2. QED
    BY <2>1, Bounds DEF TurnTypes, Nothing
<1>3. CASE ReadOutput \/ ReadCompleted
  <2>1. Head(output).type \in {"output", "completed"} /\ output # <<>>
    BY <1>3 DEF ReadOutput, ReadCompleted, Reads
  <2>2. Head(output) \in Messages
    BY <2>1 DEF SessionInv, TurnInv, DataInv
  <2>3. Head(output).turn \in Turns
    BY <2>1, <2>2, MessageFacts
  <2>4. CASE ReadOutput
    BY <2>3, <2>4 DEF ReadOutput, TurnTypes, Turns
  <2>5. CASE ReadCompleted
    <3>1. turnDone' \in BOOLEAN /\ doneBy' \in Turns /\ structured' \in {structured, Nothing}
      BY <2>3, <2>5 DEF ReadCompleted
    <3>2. QED
      BY <3>1, Bounds DEF TurnTypes, Nothing
  <2>6. QED
    BY <1>3, <2>4, <2>5
<1>4. CASE ReadEnd
  <2>1. turnDone' \in BOOLEAN /\ doneBy' = Eof /\ structured' = structured
    BY <1>4 DEF ReadEnd
  <2>2. QED
    BY <2>1 DEF TurnTypes
<1>5. CASE \/ StartSession \/ SessionStarts \/ SessionStartFails \/ Initialized \/ ThreadStarted
           \/ HandshakeFails \/ TurnStep \/ StopSession \/ CancelSession \/ StopStep
  <2>1. UNCHANGED <<turnDone, doneBy, structured>>
    BY <1>5 DEF StartSession, SessionStarts, SessionStartFails, Initialized, ThreadStarted, HandshakeFails,
         TurnStep, TurnAccepted, TurnRefused, SolverTimesOut, TurnReturns, StopSession, CancelSession,
         StopStep, ReaderStopped, ProcessStopped, SandboxStopped, StopCut
  <2>2. QED
    BY <1>1, <2>1
<1>6. CASE \/ ReadAnswer \/ ReadTool \/ ReadUsage \/ CompactionFails \/ ToolStep \/ ProcessExits
           \/ \E id \in Requests, ok \in BOOLEAN : AnswerRequest(id, ok)
           \/ \E t \in Turns : CallTool(t) \/ Report(t) \/ CompleteTurn(t)
  <2>1. UNCHANGED <<turnDone, doneBy, structured>>
    BY <1>6 DEF ReadAnswer, ReadTool, ReadUsage, CompactionFails, ToolStep, ToolReturns, ToolRaises,
         ProcessExits, AnswerRequest, CallTool, Report, CompleteTurn, Write, solverVars
  <2>2. QED
    BY <1>1, <2>1
<1>7. QED
  BY <1>2, <1>3, <1>4, <1>5, <1>6 DEF SessionNext, StartStep, ReadStep

LEMMA ReaderTypesStay ==
  ASSUME SessionInv, Typed, SessionNext
  PROVE  ReaderTypes'
<1> USE DEF Typed
<1>1. turn \in 0 .. MaxTurns
  BY DEF SessionInv, TurnInv, DataInv
<1>2. {Initialize, Thread, Compact} \subseteq Requests
  BY Bounds DEF Initialize, Thread, Compact, Requests
<1>3. reader' \in {"none", "eof", "dead", "cancelled"} \union ReaderRuns
  <2>1. reader' \in {reader, "reading", "cancelled", "inTool", "compacting", "eof", "dead"}
    BY DEF SessionNext, StartStep, TurnStep, StopStep, ReadStep, ToolStep, StartSession, SessionStarts,
         SessionStartFails, Initialized, ThreadStarted, HandshakeFails, BeginTurn, TurnAccepted, TurnRefused,
         SolverTimesOut, TurnReturns, StopSession, CancelSession, ReaderStopped, ProcessStopped, SandboxStopped,
         StopCut, ReadAnswer, ReadOutput, ReadCompleted, ReadTool, ReadUsage, ReadEnd, CompactionFails,
         ToolReturns, ToolRaises, AnswerRequest, CallTool, Report, CompleteTurn, ProcessExits, Write, readerVars
  <2>2. QED
    BY <2>1 DEF ReaderTypes, ReaderRuns
<1>4. compacted' \in BOOLEAN
  <2>1. compacted' = compacted \/ compacted' = TRUE
    BY DEF SessionNext, StartStep, TurnStep, StopStep, ReadStep, ToolStep, StartSession, SessionStarts,
         SessionStartFails, Initialized, ThreadStarted, HandshakeFails, BeginTurn, TurnAccepted, TurnRefused,
         SolverTimesOut, TurnReturns, StopSession, CancelSession, ReaderStopped, ProcessStopped, SandboxStopped,
         StopCut, ReadAnswer, ReadOutput, ReadCompleted, ReadTool, ReadUsage, ReadEnd, CompactionFails,
         ToolReturns, ToolRaises, AnswerRequest, CallTool, Report, CompleteTurn, ProcessExits, Write, readerVars
  <2>2. QED
    BY <2>1 DEF ReaderTypes
<1>5. futures' \subseteq futures \union {Initialize, Thread, Compact, turn + 1}
  <2>1. CASE StartSession \/ StartStep \/ BeginTurn
    BY <2>1 DEF StartSession, StartStep, SessionStarts, SessionStartFails, Initialized, ThreadStarted,
         HandshakeFails, BeginTurn, SolverAsks, SolverAsksNext, SolverAsked, Request
  <2>2. CASE TurnStep \/ StopSession \/ CancelSession \/ StopStep
    BY <2>2 DEF TurnStep, TurnAccepted, TurnRefused, SolverTimesOut, TurnReturns, StopSession, CancelSession,
         StopStep, ReaderStopped, ProcessStopped, SandboxStopped, StopCut, SolverAsked
  <2>3. CASE ReadStep \/ CompactionFails \/ ToolStep
    BY <2>3 DEF ReadStep, ReadAnswer, ReadOutput, ReadCompleted, ReadTool, ReadUsage, ReadEnd,
         CompactionFails, ToolStep, ToolReturns, ToolRaises, Request
  <2>4. CASE \/ \E id \in Requests, ok \in BOOLEAN : AnswerRequest(id, ok)
             \/ \E t \in Turns : CallTool(t) \/ Report(t) \/ CompleteTurn(t)
             \/ ProcessExits
    BY <2>4 DEF AnswerRequest, CallTool, Report, CompleteTurn, ProcessExits, Write
  <2>5. QED
    BY <2>1, <2>2, <2>3, <2>4 DEF SessionNext
<1>6. futures' \subseteq Requests
  <2>1. turn + 1 \in Requests
    BY <1>1, Bounds DEF Requests
  <2>2. QED
    BY <1>2, <1>5, <2>1 DEF ReaderTypes
<1>7. QED
  BY <1>3, <1>4, <1>6 DEF ReaderTypes

LEMMA ProcessTypesStay ==
  ASSUME SessionInv, Typed, SessionNext
  PROVE  ProcessTypes'
<1> USE DEF Typed
<1>1. turn \in 0 .. MaxTurns /\ output \in Seq(Messages) /\ Len(output) \in Nat
  BY DEF SessionInv, TurnInv, DataInv
<1>2. {Initialize, Thread, Compact} \subseteq Requests /\ turn + 1 \in Requests
  BY <1>1, Bounds DEF Initialize, Thread, Compact, Requests
<1>3. Nothing \in 0 .. MaxTurns
  BY Bounds DEF Nothing
<1>4. CASE StartSession \/ StartStep \/ BeginTurn
  <2>1. /\ requests' \subseteq requests \union {Initialize, Thread, turn + 1}
        /\ process' \in {process, "running"} /\ UNCHANGED <<calling, output, calls>>
    BY <1>4 DEF StartSession, StartStep, SessionStarts, SessionStartFails, Initialized, ThreadStarted,
         HandshakeFails, BeginTurn, SolverAsks, SolverAsksNext, Request, processVars
  <2>2. QED
    BY <1>2, <2>1 DEF ProcessTypes
<1>5. CASE TurnStep \/ StopSession \/ CancelSession \/ StopStep \/ CompactionFails \/ ToolStep \/ ProcessExits
  <2>1. /\ requests' \in {requests, {}}
        /\ process' \in {process, "none", "exited"} /\ calling' \in {calling, Nothing}
        /\ UNCHANGED <<output, calls>>
    BY <1>5 DEF TurnStep, TurnAccepted, TurnRefused, SolverTimesOut, TurnReturns, StopSession, CancelSession,
         StopStep, ReaderStopped, ProcessStopped, SandboxStopped, StopCut, CompactionFails,
         ToolStep, ToolReturns, ToolRaises, ProcessExits, processVars
  <2>2. QED
    BY <1>3, <2>1 DEF ProcessTypes
<1>6. CASE ReadStep
  <2>1. /\ requests' \subseteq requests \union {Compact} /\ UNCHANGED <<process, calling, calls>>
        /\ output' = output \/ (output # <<>> /\ output' = Tail(output))
    BY <1>6 DEF ReadStep, ReadAnswer, ReadOutput, ReadCompleted, ReadTool, ReadUsage, ReadEnd, Reads,
         Request, processVars
  <2>2. Len(output') <= Len(output)
    BY <1>1, <2>1
  <2>3. Len(output') <= MaxUnread
    <3>1. Len(output') \in Nat /\ MaxUnread \in Nat
      BY <1>1, <2>1, BoundsAssumption
    <3>2. QED
      BY <1>1, <2>2, <3>1 DEF ProcessTypes
  <2>4. QED
    BY <1>2, <2>1, <2>3 DEF ProcessTypes
<1>7. CASE \/ \E id \in Requests, ok \in BOOLEAN : AnswerRequest(id, ok)
           \/ \E t \in Turns : CallTool(t) \/ Report(t) \/ CompleteTurn(t)
  <2>1. /\ requests' \subseteq requests /\ process' = process /\ calling' \in {calling} \union Turns
        /\ calls' = calls \/ (calls < MaxTools /\ calls' = calls + 1)
    BY <1>7 DEF AnswerRequest, CallTool, Report, CompleteTurn, Write
  <2>2. Len(output) < MaxUnread /\ \E m : output' = Append(output, m)
    BY <1>7 DEF AnswerRequest, CallTool, Report, CompleteTurn, Write
  <2>3. Len(output') = Len(output) + 1
    BY <1>1, <2>2
  <2>4. QED
    BY <1>1, <2>1, <2>2, <2>3, BoundsAssumption DEF ProcessTypes, Turns
<1>8. QED
  BY <1>4, <1>5, <1>6, <1>7 DEF SessionNext

\* Who is let out of the queue of timers leaves the others there, in their order.
LEMMA TimersButFacts ==
  ASSUME TimersInv, NEW who \in {"solver", "reader"}
  PROVE  /\ TimersBut(who) \in Seq({"solver", "reader"})
         /\ \A i, j \in DOMAIN TimersBut(who) : TimersBut(who)[i] = TimersBut(who)[j] => i = j
         /\ \A i \in DOMAIN TimersBut(who) :
              TimersBut(who)[i] # who /\ \E j \in DOMAIN timers : timers[j] = TimersBut(who)[i]
<1> DEFINE S == {"solver", "reader"}
           n == Len(timers)
<1>1. timers \in Seq(S) /\ n \in Nat /\ DOMAIN timers = 1 .. n
  BY DEF TimersInv
<1>2. CASE \E i \in DOMAIN timers : timers[i] = who
  <2> DEFINE k == CHOOSE i \in DOMAIN timers : timers[i] = who
             front == SubSeq(timers, 1, k - 1)
             rest == SubSeq(timers, k + 1, n)
             b == front \o rest
  <2>1. k \in 1 .. n /\ timers[k] = who
    BY <1>1, <1>2
  <2>2. TimersBut(who) = b
    BY <1>2 DEF TimersBut
  <2> HIDE DEF k
  <2>3. \A i \in 1 .. n : timers[i] \in S
    BY <1>1
  <2>4. /\ front \in Seq(S) /\ Len(front) = k - 1
        /\ \A i \in 1 .. k - 1 : front[i] = timers[i]
    BY <1>1, <2>1
  <2>5. /\ rest \in Seq(S) /\ Len(rest) = n - k
        /\ \A i \in 1 .. n - k : rest[i] = timers[k + i]
    <3>1. \A i \in k + 1 .. n : timers[i] \in S
      BY <1>1, <2>1, <2>3
    <3>2. /\ rest \in Seq(S)
          /\ Len(rest) = IF k + 1 <= n THEN n - (k + 1) + 1 ELSE 0
          /\ \A i \in 1 .. n - (k + 1) + 1 : rest[i] = timers[k + 1 + i - 1]
      BY <1>1, <2>1, <3>1, SubSeqProperties
    <3>3. n - (k + 1) + 1 = n - k /\ n \in Nat /\ k \in 1 .. n
          /\ \A i \in 1 .. n - k : k + 1 + i - 1 = k + i
      BY <1>1, <2>1
    <3> HIDE DEF rest, n
    <3>4. Len(rest) = n - k
      <4>1. CASE k + 1 <= n
        BY <3>2, <3>3, <4>1
      <4>2. CASE ~(k + 1 <= n)
        BY <3>2, <3>3, <4>2
      <4>3. QED
        BY <4>1, <4>2
    <3>5. QED
      BY <3>2, <3>3, <3>4
  <2> HIDE DEF front, rest
  <2>6. b \in Seq(S) /\ DOMAIN b = 1 .. n - 1
    <3>1. b \in Seq(S) /\ Len(b) = Len(front) + Len(rest)
      BY <2>4, <2>5
    <3>2. Len(b) = n - 1
      BY <1>1, <2>1, <2>4, <2>5, <3>1
    <3>3. QED
      BY <3>1, <3>2
  <2>7. ASSUME NEW i \in 1 .. n - 1 PROVE b[i] = timers[IF i < k THEN i ELSE i + 1]
    <3>1. CASE i < k
      BY <1>1, <2>1, <2>4, <2>5, <3>1
    <3>2. CASE ~(i < k)
      <4>1. b[i] = rest[i - (k - 1)]
        BY <1>1, <2>1, <2>4, <2>5, <3>2
      <4>2. i - (k - 1) \in 1 .. n - k /\ k + (i - (k - 1)) = i + 1
        BY <1>1, <2>1, <3>2
      <4>3. QED
        BY <2>5, <3>2, <4>1, <4>2
    <3>3. QED
      BY <3>1, <3>2
  <2> HIDE DEF b
  <2>8. \A i, j \in 1 .. n : timers[i] = timers[j] => i = j
    BY <1>1 DEF TimersInv
  <2>9. \A i, j \in 1 .. n - 1 : b[i] = b[j] => i = j
    BY <1>1, <2>1, <2>7, <2>8
  <2>10. ASSUME NEW i \in 1 .. n - 1 PROVE b[i] # who /\ \E j \in 1 .. n : timers[j] = b[i]
    <3> DEFINE j == IF i < k THEN i ELSE i + 1
    <3>1. j \in 1 .. n /\ j # k /\ b[i] = timers[j]
      BY <1>1, <2>1, <2>7
    <3> HIDE DEF j
    <3>2. QED
      BY <2>1, <2>8, <3>1
  <2>11. QED
    BY <1>1, <2>2, <2>6, <2>9, <2>10
<1>3. CASE ~\E i \in DOMAIN timers : timers[i] = who
  BY <1>3 DEF TimersBut, TimersInv
<1>4. QED
  BY <1>2, <1>3

\* Who asks has no timer yet, and gets the last one.
LEMMA TimerAppended ==
  ASSUME NEW q \in Seq({"solver", "reader"}), NEW who \in {"solver", "reader"},
         \A i, j \in DOMAIN q : q[i] = q[j] => i = j,
         \A i \in DOMAIN q : q[i] # who
  PROVE  /\ Append(q, who) \in Seq({"solver", "reader"})
         /\ \A i, j \in DOMAIN Append(q, who) : Append(q, who)[i] = Append(q, who)[j] => i = j
         /\ \A i \in DOMAIN Append(q, who) :
              Append(q, who)[i] = who \/ \E j \in DOMAIN q : q[j] = Append(q, who)[i]
<1>1. /\ Append(q, who) \in Seq({"solver", "reader"}) /\ Len(q) \in Nat
      /\ DOMAIN q = 1 .. Len(q) /\ DOMAIN Append(q, who) = 1 .. Len(q) + 1
      /\ \A i \in 1 .. Len(q) : Append(q, who)[i] = q[i]
      /\ Append(q, who)[Len(q) + 1] = who
  OBVIOUS
<1>2. \A i \in 1 .. Len(q) + 1 : i \in 1 .. Len(q) \/ i = Len(q) + 1
  BY <1>1
<1>3. QED
  BY <1>1, <1>2

\* Two tasks cannot have three timers.
LEMMA TwoTimers == TimersInv => Len(timers) <= 2
<1> SUFFICES ASSUME TimersInv, ~(Len(timers) <= 2) PROVE FALSE
  OBVIOUS
<1>1. Len(timers) \in Nat /\ DOMAIN timers = 1 .. Len(timers) /\ {1, 2, 3} \subseteq 1 .. Len(timers)
  BY DEF TimersInv
<1>2. \A i \in {1, 2, 3} : timers[i] \in {"solver", "reader"}
  BY <1>1 DEF TimersInv
<1>3. timers[1] # timers[2] /\ timers[1] # timers[3] /\ timers[2] # timers[3]
  BY <1>1 DEF TimersInv
<1>4. QED
  BY <1>2, <1>3

LEMMA TimersStay ==
  ASSUME SessionInv, Typed, TimersInv, SessionNext
  PROVE  TimersInv'
<1> USE DEF Typed
<1>1. \A who \in {"solver", "reader"} :
        /\ TimersBut(who) \in Seq({"solver", "reader"})
        /\ \A i, j \in DOMAIN TimersBut(who) : TimersBut(who)[i] = TimersBut(who)[j] => i = j
        /\ \A i \in DOMAIN TimersBut(who) :
             TimersBut(who)[i] # who /\ \E j \in DOMAIN timers : timers[j] = TimersBut(who)[i]
  BY TimersButFacts
<1>2. CASE SessionStarts
  <2>1. timers' = <<"solver">> /\ rpc' # Nothing
    BY <1>2, Bounds DEF SessionStarts, Initialize, Nothing
  <2>2. timers' \in Seq({"solver", "reader"}) /\ DOMAIN timers' = {1} /\ timers'[1] = "solver"
    BY <2>1
  <2>3. QED
    BY <2>1, <2>2 DEF TimersInv
<1>3. CASE timers' = TimersBut("solver") /\ reader' = reader
  BY <1>1, <1>3 DEF TimersInv
<1>4. CASE timers' = TimersBut("reader") /\ rpc' = rpc
  BY <1>1, <1>4 DEF TimersInv
<1>5. CASE timers' = timers /\ rpc' = rpc /\ (reader = "compacting" => reader' = "compacting")
  BY <1>5 DEF TimersInv
<1>6. CASE timers' = Append(TimersBut("solver"), "solver") /\ rpc' # Nothing /\ reader' = reader
  <2> DEFINE q == TimersBut("solver")
  <2>1. /\ q \in Seq({"solver", "reader"}) /\ \A i, j \in DOMAIN q : q[i] = q[j] => i = j
        /\ \A i \in DOMAIN q : q[i] # "solver" /\ \E j \in DOMAIN timers : timers[j] = q[i]
    BY <1>1
  <2> HIDE DEF q
  <2>2. /\ Append(q, "solver") \in Seq({"solver", "reader"})
        /\ \A i, j \in DOMAIN Append(q, "solver") : Append(q, "solver")[i] = Append(q, "solver")[j] => i = j
        /\ \A i \in DOMAIN Append(q, "solver") :
             Append(q, "solver")[i] = "solver" \/ \E j \in DOMAIN q : q[j] = Append(q, "solver")[i]
    BY <2>1, TimerAppended
  <2>3. timers' = Append(q, "solver")
    BY <1>6 DEF q
  <2>4. QED
    <3>1. \A i \in DOMAIN timers' : timers'[i] = "reader" => \E j \in DOMAIN timers : timers[j] = "reader"
      BY <2>1, <2>2, <2>3
    <3>2. \A i \in DOMAIN timers' : timers'[i] = "reader" => reader' = "compacting"
      BY <1>6, <3>1 DEF TimersInv
    <3>3. QED
      BY <1>6, <2>2, <2>3, <3>2 DEF TimersInv
<1>7. CASE timers' = Append(timers, "solver") /\ rpc = Nothing /\ rpc' # Nothing /\ reader' = reader
  <2>1. \A i \in DOMAIN timers : timers[i] # "solver"
    BY <1>7 DEF TimersInv
  <2>2. /\ timers' \in Seq({"solver", "reader"})
        /\ \A i, j \in DOMAIN timers' : timers'[i] = timers'[j] => i = j
        /\ \A i \in DOMAIN timers' : timers'[i] = "solver" \/ \E j \in DOMAIN timers : timers[j] = timers'[i]
    BY <1>7, <2>1, TimerAppended DEF TimersInv
  <2>3. QED
    BY <1>7, <2>2 DEF TimersInv
<1>8. CASE timers' = Append(timers, "reader") /\ rpc' = rpc /\ reader # "compacting" /\ reader' = "compacting"
  <2>1. \A i \in DOMAIN timers : timers[i] # "reader"
    BY <1>8 DEF TimersInv
  <2>2. /\ timers' \in Seq({"solver", "reader"})
        /\ \A i, j \in DOMAIN timers' : timers'[i] = timers'[j] => i = j
        /\ \A i \in DOMAIN timers' : timers'[i] = "reader" \/ \E j \in DOMAIN timers : timers[j] = timers'[i]
    BY <1>8, <2>1, TimerAppended DEF TimersInv
  <2>3. QED
    BY <1>8, <2>2 DEF TimersInv
<1>9. CASE \/ Initialized \/ ThreadStarted \/ HandshakeFails \/ BeginTurn
           \/ TurnAccepted \/ TurnRefused \/ SolverTimesOut \/ CancelSession
  <2>1. Thread # Nothing /\ turn + 1 # Nothing
    BY Bounds DEF Thread, Nothing, SessionInv, TurnInv, DataInv
  <2>2. CASE BeginTurn
    <3>1. rpc = Nothing
      BY <2>2 DEF BeginTurn, SolverTypes
    <3>2. QED
      BY <1>5, <1>7, <2>1, <2>2, <3>1 DEF BeginTurn, SolverAsks, Request, readerVars
  <2>3. CASE Initialized
    BY <1>3, <1>6, <2>1, <2>3 DEF Initialized, SolverAsksNext, SolverAsked, Drop, readerVars
  <2>4. CASE ThreadStarted \/ HandshakeFails \/ TurnAccepted \/ TurnRefused \/ SolverTimesOut \/ CancelSession
    BY <1>3, <2>4 DEF ThreadStarted, HandshakeFails, TurnAccepted, TurnRefused, SolverTimesOut,
                      CancelSession, SolverAsked, Drop, readerVars
  <2>5. QED
    BY <1>9, <2>2, <2>3, <2>4
<1>10. CASE ReaderStopped \/ CompactionFails
  BY <1>4, <1>10 DEF ReaderStopped, CompactionFails, Drop, solverVars
<1>11. CASE ReadUsage
  BY <1>5, <1>8, <1>11 DEF ReadUsage, Reads, Request, solverVars
<1>12. CASE ReadAnswer \/ ReadOutput \/ ReadCompleted \/ ReadTool \/ ReadEnd \/ ToolReturns \/ ToolRaises
  BY <1>5, <1>12 DEF ReadAnswer, ReadOutput, ReadCompleted, ReadTool, ReadEnd, Reads, ToolReturns,
                     ToolRaises, solverVars
<1>13. CASE \/ StartSession \/ SessionStartFails \/ TurnReturns \/ StopSession
            \/ ProcessStopped \/ SandboxStopped \/ StopCut \/ ProcessExits
            \/ \E id \in Requests, ok \in BOOLEAN : AnswerRequest(id, ok)
            \/ \E t \in Turns : CallTool(t) \/ Report(t) \/ CompleteTurn(t)
  <2>1. UNCHANGED <<timers, rpc, reader>>
    BY <1>13 DEF StartSession, SessionStartFails, TurnReturns, StopSession, ProcessStopped, SandboxStopped,
         StopCut, ProcessExits, AnswerRequest, CallTool, Report, CompleteTurn, Write, solverVars, readerVars
  <2>2. QED
    BY <1>5, <2>1
<1>14. QED
  BY <1>2, <1>9, <1>10, <1>11, <1>12, <1>13
     DEF SessionNext, StartStep, TurnStep, StopStep, ReadStep, ToolStep

-----------------------------------------------------------------------------
(* Theorems *)

LEMMA SessionStepInv == SessionInv /\ [SessionNext]_sessionVars => SessionInv'
<1> SUFFICES ASSUME SessionInv, [SessionNext]_sessionVars PROVE SessionInv'
  OBVIOUS
<1>1. CASE UNCHANGED sessionVars
  <2>1. Quiet
    BY <1>1 DEF sessionVars, solverVars, readerVars, processVars, Quiet, Asked, SessionInv, TurnInv, DataInv
  <2>2. StopInv'
    BY <1>1 DEF sessionVars, solverVars, readerVars, processVars, SessionInv, StopInv
  <2>3. QED
    BY <2>1, <2>2, QuietKeepsInv DEF SessionInv
<1>2. CASE SessionNext
  <2>1. StopInv'
    BY <1>2, StopStays
  <2>2. CASE \/ StartSession \/ SessionStartFails \/ Initialized \/ ThreadStarted \/ HandshakeFails
             \/ TurnStep \/ StopSession \/ CancelSession
             \/ ReaderStopped \/ SandboxStopped \/ StopCut \/ CompactionFails \/ ToolStep
    BY <2>1, <2>2, QuietSteps, QuietKeepsInv DEF SessionInv
  <2>3. CASE ReadAnswer \/ ReadOutput \/ ReadCompleted \/ ReadTool \/ ReadUsage
    <3>1. PICK m : MessageRead(m)
      BY <2>3, ReadSteps
    <3>2. QED
      BY <2>1, <3>1, ReadKeepsInv DEF SessionInv
  <2>4. CASE \/ \E id \in Requests, ok \in BOOLEAN : AnswerRequest(id, ok)
             \/ \E t \in Turns : CallTool(t) \/ Report(t) \/ CompleteTurn(t)
    <3>1. PICK m : MessageWritten(m)
      BY <2>4, WriteSteps
    <3>2. QED
      BY <2>1, <3>1, WriteKeepsInv DEF SessionInv
  <2>5. CASE SessionStarts
    BY <2>1, <2>5, StartKeepsInv DEF SessionInv
  <2>6. CASE BeginTurn
    BY <2>1, <2>6, BeginKeepsInv DEF SessionInv
  <2>7. CASE ProcessExits \/ ProcessStopped \/ ReadEnd
    BY <2>1, <2>7, EndKeepsInv DEF SessionInv
  <2>8. QED
    BY <1>2, <2>2, <2>3, <2>4, <2>5, <2>6, <2>7 DEF SessionNext, StartStep, StopStep, ReadStep
<1>3. QED
  BY <1>1, <1>2

\* The inductive invariant: what is open in the process is the current turn or one that the
\* solver has left, and stop() takes down reader, process and sandbox one after the other.
THEOREM SessionInvariance == SessionSpec => []SessionInv
<1>1. SessionInit => SessionInv
  BY SessionInitInv
<1>2. SessionInv /\ [SessionNext]_sessionVars => SessionInv'
  BY SessionStepInv
<1>3. QED
  BY <1>1, <1>2, PTL DEF SessionSpec

\* Although no turn number is looked at, a turn returns with its own completion and output,
\* or with those of a turn that the solver had left while the process went on with it.
THEOREM ResultOfItsTurn == SessionSpec => []ResultIsOfItsTurn
<1>1. SessionInv => ResultIsOfItsTurn
  BY DEF SessionInv, TurnInv, ResultInv, ResultIsOfItsTurn
<1>2. QED
  BY <1>1, SessionInvariance, PTL

\* Whatever a session had come to, stop() leaves no reader, and without a second
\* cancellation neither process nor container.
THEOREM StopLeavesNothingBehind == SessionSpec => []StopLeavesNothing
<1>1. SessionInv => StopLeavesNothing
  BY DEF SessionInv, StopInv, StopLeavesNothing
<1>2. QED
  BY <1>1, SessionInvariance, PTL

\* Every variable of a session keeps its type, the timers too: no wait leaves one behind.
THEOREM SessionTypes == SessionSpec => []SessionTypeOK
<1> DEFINE TypeInv == SessionInv /\ Typed /\ TimersInv
<1>1. SessionInit => TypeInv
  <2> SUFFICES ASSUME SessionInit PROVE TypeInv
    OBVIOUS
  <2>1. SolverTypes /\ TurnTypes
    <3>1. cutShort \in BOOLEAN /\ turnDone \in BOOLEAN
      BY DEF SessionInit
    <3>2. QED
      BY <3>1, Bounds DEF SessionInit, SolverTypes, TurnTypes, Nothing
  <2>2. ReaderTypes
    <3>1. compacted \in BOOLEAN
      BY DEF SessionInit
    <3>2. QED
      BY <3>1 DEF SessionInit, ReaderTypes
  <2>3. ProcessTypes
    BY BoundsAssumption DEF SessionInit, ProcessTypes, Nothing
  <2>4. TimersInv
    BY DEF SessionInit, TimersInv
  <2>5. QED
    BY <2>1, <2>2, <2>3, <2>4, SessionInitInv DEF Typed
<1>2. TypeInv /\ [SessionNext]_sessionVars => TypeInv'
  <2> SUFFICES ASSUME TypeInv, [SessionNext]_sessionVars PROVE TypeInv'
    OBVIOUS
  <2>1. SessionInv'
    BY SessionStepInv
  <2>2. CASE SessionNext
    BY <2>1, <2>2, SolverTypesStay, TurnTypesStay, ReaderTypesStay, ProcessTypesStay, TimersStay DEF Typed
  <2>3. CASE UNCHANGED sessionVars
    BY <2>1, <2>3 DEF sessionVars, solverVars, readerVars, processVars, Typed, SolverTypes, TurnTypes,
                      ReaderTypes, ProcessTypes, TimersInv
  <2>4. QED
    BY <2>2, <2>3
<1>3. TypeInv => SessionTypeOK
  <2> SUFFICES ASSUME TypeInv PROVE SessionTypeOK
    OBVIOUS
  <2>1. turn \in 0 .. MaxTurns /\ abandoned \subseteq Turns /\ running \subseteq Turns
        /\ output \in Seq(Messages)
    BY Bounds DEF SessionInv, TurnInv, DataInv, Turns
  <2>2. timers \in Seq({"solver", "reader"}) /\ Len(timers) <= 2
    BY TwoTimers DEF TimersInv
  <2>3. QED
    BY <2>1, <2>2 DEF Typed, SolverTypes, TurnTypes, ReaderTypes, ProcessTypes, SessionTypeOK
<1>4. QED
  BY <1>1, <1>2, <1>3, PTL DEF SessionSpec
=============================================================================
