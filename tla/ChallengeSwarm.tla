--------------------------- MODULE ChallengeSwarm ---------------------------
(***************************************************************************)
(* backend/agents/swarm.py: the solvers racing on one challenge.           *)
(*                                                                         *)
(* Every model runs in an asyncio task of its own (_run_solver) and shares *)
(* with the others the cancel event, the flag lock and the submission      *)
(* record.  The tasks interleave only where the code awaits, so one action *)
(* is the code between two awaits.  run() is the task that waits for them; *)
(* the coordinator cancels it when the tier's timeout expires.             *)
(***************************************************************************)
EXTENDS Naturals, FiniteSets

CONSTANTS Models,          \* model_specs: one solver task for each
          Flags,           \* the strings solvers may submit, after strip()
          Correct,         \* those the platform accepts
          FallbackModels,  \* models with a quota fallback (opt-in setting)
          MaxErrors,       \* failed turns in a row that end a solver (3 in the code)
          NoFlag,          \* Python's None
          NoModel          \* nobody holds the flag lock

ASSUME ModelsAssumption == NoModel \notin Models /\ FallbackModels \subseteq Models
ASSUME FlagsAssumption == NoFlag \notin Flags /\ Correct \subseteq Flags
ASSUME MaxErrorsAssumption == MaxErrors \in Nat \ {0}

VARIABLES
  pc,             \* the await a solver task is at
  flag,           \* solver._flag: the last flag the solver believes in
  confirmed,      \* deps.confirmed_flag / _confirmed: what it was told is right
  req,            \* the argument of its submit_flag call
  errors,         \* consecutive_errors
  swapped,        \* the quota fallback replaced the solver
  box,            \* its sandbox container: none, up, or left by a removal that failed
  ret,            \* what its task will return
  cooling,        \* its submission cooldown has not elapsed
  cancelReq,      \* Task.cancel() was called and not delivered yet
  cancelEvent,    \* cancel_event.is_set()
  winner,         \* self.winner
  lock,           \* who holds _flag_lock
  submitted,      \* _submitted_flags
  confirmedFlag,  \* self.confirmed_flag
  run,            \* where run() is
  pending,        \* the tasks run() still waits for
  runResult,      \* what run() returns
  noSubmit,       \* the --no-submit dry run: fixed when the swarm is created
  solved,         \* platform: the team has solved the challenge
  inflight,       \* platform: requests on their way
  answer          \* platform: the answer to the request of the lock's holder

solverVars == <<flag, confirmed, errors, swapped, ret>>
raceVars == <<cancelEvent, winner>>
submitVars == <<lock, submitted, confirmedFlag, cooling, req>>
runVars == <<run, pending, runResult, cancelReq>>
envVars == <<noSubmit, solved, inflight, answer>>
vars == <<pc, box, solverVars, raceVars, submitVars, runVars, envVars>>

\* NoResult stands for None and for every result that does not end the race
\* (given up, cancelled, failed, out of quota): run() treats them alike.
NoResult == [status |-> "none", flag |-> NoFlag]
Results == [status : {"none", "flag_found", "flag_candidate"}, flag : Flags \union {NoFlag}]
Accepting == {"correct", "already_solved"}

InTurn(m) == pc[m] \in {"running", "lockWait", "submitting"}
Finished == run \in {"returned", "raised"}

TypeOK ==
  /\ pc \in [Models -> {"starting", "running", "lockWait", "submitting", "cooldown",
                        "swapping", "stopping", "stoppingOld", "done"}]
  /\ flag \in [Models -> Flags \union {NoFlag}]
  /\ confirmed \in [Models -> Flags \union {NoFlag}]
  /\ req \in [Models -> Flags \union {NoFlag}]
  /\ errors \in [Models -> 0 .. MaxErrors - 1]
  /\ swapped \in [Models -> BOOLEAN]
  /\ box \in [Models -> {"none", "up", "left"}]
  /\ ret \in [Models -> Results]
  /\ cooling \in [Models -> BOOLEAN]
  /\ cancelReq \in [Models -> BOOLEAN]
  /\ cancelEvent \in BOOLEAN
  /\ winner \in Results
  /\ lock \in Models \union {NoModel}
  /\ submitted \in SUBSET Flags
  /\ confirmedFlag \in Flags \union {NoFlag}
  /\ run \in {"waiting", "gathering", "aborting", "returned", "raised"}
  /\ pending \in SUBSET Models
  /\ runResult \in Results
  /\ noSubmit \in BOOLEAN
  /\ solved \in BOOLEAN
  /\ inflight \in SUBSET Flags
  /\ answer \in {"none", "correct", "already_solved", "incorrect"}

Init ==
  /\ pc = [m \in Models |-> "starting"]
  /\ flag = [m \in Models |-> NoFlag]
  /\ confirmed = [m \in Models |-> NoFlag]
  /\ req = [m \in Models |-> NoFlag]
  /\ errors = [m \in Models |-> 0]
  /\ swapped = [m \in Models |-> FALSE]
  /\ box = [m \in Models |-> "none"]
  /\ ret = [m \in Models |-> NoResult]
  /\ cooling = [m \in Models |-> FALSE]
  /\ cancelReq = [m \in Models |-> FALSE]
  /\ cancelEvent = FALSE
  /\ winner = NoResult
  /\ lock = NoModel
  /\ submitted = {}
  /\ confirmedFlag = NoFlag
  /\ run = "waiting"
  /\ pending = Models
  /\ runResult = NoResult
  /\ noSubmit \in BOOLEAN
  /\ solved = FALSE
  /\ inflight = {}
  /\ answer = "none"

-----------------------------------------------------------------------------
(* Leaving the loop.  When it returns, the finally clause of _run_solver   *)
(* stops the solver the loop ended with; when it raises, the local variable *)
(* still names the solver the task began with, which the quota fallback may *)
(* have replaced and stripped of its sandbox.                               *)

Leave(m) == pc' = [pc EXCEPT ![m] = "stopping"]
Raise(m) == pc' = [pc EXCEPT ![m] = IF swapped[m] THEN "stoppingOld" ELSE "stopping"]

\* The loop's condition: another turn, unless the race is over.
Continue(m) == pc' = [pc EXCEPT ![m] = IF cancelEvent THEN "stopping" ELSE "running"]

-----------------------------------------------------------------------------
(* A solver's start and its turns *)

StartSucceeds(m) ==
  /\ pc[m] = "starting"
  /\ box' = [box EXCEPT ![m] = "up"]
  /\ Continue(m)
  /\ UNCHANGED <<solverVars, raceVars, submitVars, runVars, envVars>>

\* A start that fails or is cancelled: before the container was created, in the sandbox's
\* own start, whose cleanup may leave the container, or with the sandbox already up.
StartCutShort(m) == \E b \in {"none", "up", "left"} : box' = [box EXCEPT ![m] = b]

StartFails(m) ==
  /\ pc[m] = "starting"
  /\ StartCutShort(m)
  /\ Raise(m)
  /\ UNCHANGED <<solverVars, raceVars, submitVars, runVars, envVars>>

\* A turn that does not end the race.  Without steps and without cost the solver is
\* broken and leaves; otherwise it pauses, to be bumped with its siblings' insights.
PauseOrLeave(m) == Leave(m) \/ pc' = [pc EXCEPT ![m] = "cooldown"]

\* A solver that was told its flag is right has found it; any other flag is a
\* candidate, which ends the race in a dry run only.
EndsRaceWithAnyFlag(m, f) == f # NoFlag   \* mutant: no difference between the two
EndsRace(m, f) == f # NoFlag /\ (confirmed[m] # NoFlag \/ noSubmit)

\* The model ends its turn; its structured output names a flag (out), or none.
TurnEnds(m, out) ==
  LET f == IF out # NoFlag THEN out ELSE flag[m]
      r == [status |-> IF confirmed[m] # NoFlag THEN "flag_found" ELSE "flag_candidate",
            flag |-> f]
  IN /\ pc[m] = "running"
     /\ flag' = [flag EXCEPT ![m] = f]
     /\ errors' = [errors EXCEPT ![m] = 0]
     /\ \/ /\ EndsRace(m, f)
           /\ cancelEvent' = TRUE
           /\ winner' = r
           /\ ret' = [ret EXCEPT ![m] = r]
           /\ Leave(m)
        \/ /\ ~EndsRace(m, f)
           /\ PauseOrLeave(m)
           /\ UNCHANGED <<ret, raceVars>>
     /\ UNCHANGED <<confirmed, swapped, box, submitVars, runVars, envVars>>

LastErrorOffByOne(m) == errors[m] = MaxErrors   \* mutant: one failure too many
LastError(m) == errors[m] + 1 = MaxErrors

\* The provider fails: MaxErrors such turns in a row end the solver.
TurnFails(m) ==
  /\ pc[m] = "running"
  /\ IF LastError(m)
     THEN Leave(m) /\ UNCHANGED errors
     ELSE PauseOrLeave(m) /\ errors' = [errors EXCEPT ![m] = @ + 1]
  /\ UNCHANGED <<flag, confirmed, swapped, ret, box, raceVars, submitVars, runVars, envVars>>

\* The provider's quota is exhausted: swap the solver for a paid one, if allowed.
TurnOutOfQuota(m) ==
  /\ pc[m] = "running"
  /\ IF m \in FallbackModels
     THEN /\ pc' = [pc EXCEPT ![m] = "swapping"]
          /\ swapped' = [swapped EXCEPT ![m] = TRUE]
     ELSE Leave(m) /\ UNCHANGED swapped
  /\ UNCHANGED <<flag, confirmed, errors, ret, box, raceVars, submitVars, runVars, envVars>>

\* The old solver stopped without its sandbox, and the fallback one took it over.
SwapSucceeds(m) ==
  /\ pc[m] = "swapping"
  /\ flag' = [flag EXCEPT ![m] = NoFlag]
  /\ confirmed' = [confirmed EXCEPT ![m] = NoFlag]
  /\ Continue(m)
  /\ UNCHANGED <<errors, swapped, ret, box, raceVars, submitVars, runVars, envVars>>

SwapFails(m) ==
  /\ pc[m] = "swapping"
  /\ Raise(m)
  /\ UNCHANGED <<box, solverVars, raceVars, submitVars, runVars, envVars>>

\* The pause between bumps ends with its timer, or at once when the race is over.
CooldownEnds(m) ==
  /\ pc[m] = "cooldown"
  /\ Continue(m)
  /\ UNCHANGED <<box, solverVars, raceVars, submitVars, runVars, envVars>>

\* The removal of the container is asked for; whether it works is not looked at: the
\* local sandbox swallows the error and the remote one ignores the result.
TakenDown(m) == \E b \in {"none", "left"} :
                  box' = [box EXCEPT ![m] = IF @ = "up" THEN b ELSE @]

\* Mutant: a solver that ends after the race was decided is not stopped.
StopDoneOnlyInRace(m) ==
  /\ pc[m] \in {"stopping", "stoppingOld"}
  /\ IF pc[m] = "stopping" /\ ~cancelEvent THEN TakenDown(m) ELSE UNCHANGED box
  /\ pc' = [pc EXCEPT ![m] = "done"]
  /\ UNCHANGED <<solverVars, raceVars, submitVars, runVars, envVars>>

\* _run_solver's finally: solver.stop() takes the sandbox of the solver it stops.
StopDone(m) ==
  /\ pc[m] \in {"stopping", "stoppingOld"}
  /\ IF pc[m] = "stopping" THEN TakenDown(m) ELSE UNCHANGED box
  /\ pc' = [pc EXCEPT ![m] = "done"]
  /\ UNCHANGED <<solverVars, raceVars, submitVars, runVars, envVars>>

\* stop() raises (a remote sandbox whose ssh cannot be started, or which fails to clean up):
\* the exception takes the place of the task's result, and run() drops the task.
StopRaises(m) ==
  /\ pc[m] = "stopping"
  /\ TakenDown(m)
  /\ pc' = [pc EXCEPT ![m] = "done"]
  /\ ret' = [ret EXCEPT ![m] = NoResult]
  /\ UNCHANGED <<flag, confirmed, errors, swapped, raceVars, submitVars, runVars, envVars>>

-----------------------------------------------------------------------------
(* try_submit_flag, the submit_flag tool of a turn.  The flag lock is held  *)
(* across the platform's answer; a solver told that its flag is right keeps *)
(* the flag it asked about.                                                 *)

CallSubmit(m, f) ==
  /\ pc[m] = "running"
  /\ ~noSubmit
  /\ pc' = [pc EXCEPT ![m] = "lockWait"]
  /\ req' = [req EXCEPT ![m] = f]
  /\ UNCHANGED <<box, solverVars, raceVars, lock, submitted, confirmedFlag, cooling,
                 runVars, envVars>>

EntersUnlocked(m) == pc[m] = "lockWait"   \* mutant: no flag lock
Enters(m) == pc[m] = "lockWait" /\ lock = NoModel

\* The call returns to the turn.
Return(m) == /\ pc' = [pc EXCEPT ![m] = "running"]
             /\ req' = [req EXCEPT ![m] = NoFlag]

Believes(m, f) == /\ confirmed' = [confirmed EXCEPT ![m] = f]
                  /\ flag' = [flag EXCEPT ![m] = f]

\* Mutant: a duplicate is answered like an accepted flag.
SubmitAlreadySolvedOrTried(m) ==
  /\ Enters(m)
  /\ confirmedFlag # NoFlag \/ req[m] \in submitted
  /\ Believes(m, req[m])
  /\ Return(m)
  /\ UNCHANGED <<errors, swapped, ret, box, raceVars, lock, submitted, confirmedFlag, cooling,
                 runVars, envVars>>

\* "ALREADY SOLVED": the answer is True whatever flag was asked about.
SubmitAlreadySolved(m) ==
  /\ Enters(m)
  /\ confirmedFlag # NoFlag
  /\ Believes(m, req[m])
  /\ Return(m)
  /\ UNCHANGED <<errors, swapped, ret, box, raceVars, lock, submitted, confirmedFlag, cooling,
                 runVars, envVars>>

\* A flag tried before, by any model, or a model whose cooldown has not elapsed.
SubmitRefused(m) ==
  /\ Enters(m)
  /\ confirmedFlag = NoFlag
  /\ req[m] \in submitted \/ cooling[m]
  /\ Return(m)
  /\ UNCHANGED <<solverVars, box, raceVars, lock, submitted, confirmedFlag, cooling, runVars,
                 envVars>>

SubmitSends(m) ==
  /\ Enters(m)
  /\ confirmedFlag = NoFlag
  /\ req[m] \notin submitted
  /\ ~cooling[m]
  /\ lock' = m
  /\ submitted' = submitted \union {req[m]}
  /\ inflight' = inflight \union {req[m]}
  /\ answer' = "none"
  /\ pc' = [pc EXCEPT ![m] = "submitting"]
  /\ UNCHANGED <<solverVars, box, raceVars, confirmedFlag, cooling, req, runVars, noSubmit,
                 solved>>

KeepLock == UNCHANGED lock /\ answer' = "none"   \* mutant: the lock is not released
Unlock == lock' = NoModel /\ answer' = "none"

SubmitConfirmed(m) ==
  /\ pc[m] = "submitting"
  /\ answer \in Accepting
  /\ confirmedFlag' = req[m]
  /\ Believes(m, req[m])
  /\ Return(m)
  /\ Unlock
  /\ UNCHANGED <<errors, swapped, ret, box, raceVars, submitted, cooling, runVars, noSubmit,
                 solved, inflight>>

\* The platform rejected the flag, or the call raised (a timeout, a lost answer, an
\* HTTP error): either counts as a wrong submission.
SubmitNotConfirmed(m) ==
  /\ pc[m] = "submitting"
  /\ answer \notin Accepting
  /\ cooling' = [cooling EXCEPT ![m] = TRUE]
  /\ Return(m)
  /\ Unlock
  /\ UNCHANGED <<solverVars, box, raceVars, submitted, confirmedFlag, runVars, noSubmit,
                 solved, inflight>>

\* SUBMISSION_COOLDOWNS seconds pass.
CooldownElapses(m) ==
  /\ cooling[m]
  /\ cooling' = [cooling EXCEPT ![m] = FALSE]
  /\ UNCHANGED <<pc, box, solverVars, raceVars, lock, submitted, confirmedFlag, req,
                 runVars, envVars>>

-----------------------------------------------------------------------------
(* The platform: a request is judged once, if it arrives; an accepted flag,  *)
(* or a teammate's, solves the challenge, and any later one is answered      *)
(* "already_solved".  The answer reaches the holder of the lock if it still  *)
(* waits for this request.                                                  *)

PlatformJudges(f) ==
  /\ f \in inflight
  /\ inflight' = inflight \ {f}
  /\ solved' = (solved \/ f \in Correct)
  /\ answer' = IF lock # NoModel /\ req[lock] = f
               THEN IF solved THEN "already_solved"
                    ELSE IF f \in Correct THEN "correct" ELSE "incorrect"
               ELSE answer
  /\ UNCHANGED <<pc, box, solverVars, raceVars, submitVars, runVars, noSubmit>>

TeammateSolves ==
  /\ ~solved
  /\ solved' = TRUE
  /\ UNCHANGED <<pc, box, solverVars, raceVars, submitVars, runVars, noSubmit, inflight, answer>>

-----------------------------------------------------------------------------
(* Cancellation, delivered at the await the task is at.  A turn swallows it  *)
(* and returns a CANCELLED result; everywhere else it leaves the loop as an  *)
(* exception; in stop() it cuts the cleanup short.                          *)

CancelTurn(m) ==
  /\ cancelReq[m]
  /\ InTurn(m)
  /\ cancelReq' = [cancelReq EXCEPT ![m] = FALSE]
  /\ Leave(m)
  /\ req' = [req EXCEPT ![m] = NoFlag]
  /\ IF lock = m THEN Unlock ELSE UNCHANGED <<lock, answer>>
  /\ UNCHANGED <<solverVars, box, raceVars, submitted, confirmedFlag, cooling, run, pending,
                 runResult, noSubmit, solved, inflight>>

CancelLoop(m) ==
  /\ cancelReq[m]
  /\ pc[m] \in {"starting", "cooldown", "swapping"}
  /\ cancelReq' = [cancelReq EXCEPT ![m] = FALSE]
  /\ IF pc[m] = "starting" THEN StartCutShort(m) ELSE UNCHANGED box
  /\ Raise(m)
  /\ UNCHANGED <<solverVars, raceVars, submitVars, run, pending, runResult, envVars>>

CancelStop(m) ==
  /\ cancelReq[m]
  /\ pc[m] \in {"stopping", "stoppingOld"}
  /\ cancelReq' = [cancelReq EXCEPT ![m] = FALSE]
  /\ pc' = [pc EXCEPT ![m] = "done"]
  /\ ret' = [ret EXCEPT ![m] = NoResult]
  /\ \/ pc[m] = "stopping" /\ TakenDown(m)
     \/ UNCHANGED box
  /\ UNCHANGED <<flag, confirmed, errors, swapped, raceVars, submitVars, run, pending,
                 runResult, envVars>>

-----------------------------------------------------------------------------
(* run(): asyncio.wait for the first completed task(s); a terminal result    *)
(* cancels the others and is returned once they ended.                      *)

DoneTasks == {m \in pending : pc[m] = "done"}
Unfinished(tasks) == {m \in tasks : pc[m] # "done"}
CancelNobody(tasks) == UNCHANGED cancelReq   \* mutant: the losers run on
CancelAll(tasks) == cancelReq' = [m \in Models |-> cancelReq[m] \/ m \in Unfinished(tasks)]

RunTakesResult ==
  /\ run = "waiting"
  /\ \E m \in DoneTasks :
       /\ ret[m] # NoResult
       /\ runResult' = ret[m]
  /\ cancelEvent' = TRUE
  /\ pending' = pending \ DoneTasks
  /\ CancelAll(pending)
  /\ run' = "gathering"
  /\ UNCHANGED <<pc, box, solverVars, winner, submitVars, envVars>>

\* Mutant: only confirmed flags count, and self.winner is forgotten.
RunDropsCandidates ==
  /\ run = "waiting"
  /\ DoneTasks # {}
  /\ \A m \in DoneTasks : ret[m].status # "flag_found"
  /\ pending' = pending \ DoneTasks
  /\ IF pending' = {}
     THEN /\ cancelEvent' = TRUE
          /\ runResult' = NoResult
          /\ run' = "returned"
     ELSE UNCHANGED <<cancelEvent, runResult, run>>
  /\ UNCHANGED <<pc, box, solverVars, winner, cancelReq, submitVars, envVars>>

RunDropsDone ==
  /\ run = "waiting"
  /\ DoneTasks # {}
  /\ \A m \in DoneTasks : ret[m] = NoResult
  /\ pending' = pending \ DoneTasks
  /\ IF pending' = {}
     THEN /\ cancelEvent' = TRUE
          /\ runResult' = winner
          /\ run' = "returned"
     ELSE UNCHANGED <<cancelEvent, runResult, run>>
  /\ UNCHANGED <<pc, box, solverVars, winner, cancelReq, submitVars, envVars>>

\* Mutant: the cancelled tasks are not waited for.
RunDoesNotGather ==
  /\ run \in {"gathering", "aborting"}
  /\ run' = IF run = "gathering" THEN "returned" ELSE "raised"
  /\ UNCHANGED <<pc, box, solverVars, raceVars, submitVars, pending, runResult, cancelReq,
                 envVars>>

RunGathered ==
  /\ run \in {"gathering", "aborting"}
  /\ Unfinished(pending) = {}
  /\ run' = IF run = "gathering" THEN "returned" ELSE "raised"
  /\ UNCHANGED <<pc, box, solverVars, raceVars, submitVars, pending, runResult, cancelReq,
                 envVars>>

-----------------------------------------------------------------------------
(* The coordinator: the tier's timeout (or a shutdown) cancels the task of   *)
(* run(); kill() only sets the event.                                       *)

TierTimeout ==
  /\ run \in {"waiting", "gathering"}
  /\ run' = "aborting"
  /\ runResult' = NoResult
  /\ cancelEvent' = TRUE
  /\ CancelAll(pending)
  /\ UNCHANGED <<pc, box, solverVars, winner, pending, submitVars, envVars>>

Kill ==
  /\ ~Finished
  /\ ~cancelEvent
  /\ cancelEvent' = TRUE
  /\ UNCHANGED <<pc, box, solverVars, winner, submitVars, runVars, envVars>>

-----------------------------------------------------------------------------
TurnStep(m) == \/ \E out \in Flags \union {NoFlag} : TurnEnds(m, out)
               \/ TurnFails(m)
               \/ TurnOutOfQuota(m)
               \/ \E f \in Flags : CallSubmit(m, f)
EnterStep(m) == SubmitAlreadySolved(m) \/ SubmitRefused(m) \/ SubmitSends(m)
AnswerStep(m) == SubmitConfirmed(m) \/ SubmitNotConfirmed(m)
LoopStep(m) == \/ StartSucceeds(m) \/ StartFails(m)
               \/ SwapSucceeds(m) \/ SwapFails(m)
               \/ CooldownEnds(m) \/ StopDone(m) \/ StopRaises(m)
CancelStep(m) == CancelTurn(m) \/ CancelLoop(m) \/ CancelStop(m)
RunStep == RunTakesResult \/ RunDropsDone \/ RunGathered

Next ==
  \/ \E m \in Models : \/ TurnStep(m) \/ EnterStep(m) \/ AnswerStep(m)
                       \/ LoopStep(m) \/ CancelStep(m) \/ CooldownElapses(m)
  \/ \E f \in Flags : PlatformJudges(f)
  \/ TeammateSolves
  \/ RunStep
  \/ TierTimeout
  \/ Kill

Spec == Init /\ [][Next]_vars

(* The event loop runs every task that is ready: starting and stopping end,  *)
(* an HTTP call is answered or times out, the pause's timer expires, a       *)
(* cancellation is delivered, and asyncio.Lock serves its waiters in FIFO    *)
(* order.  Nothing makes a model end its turn, a timeout expire, or the      *)
(* platform judge.                                                          *)
Fairness ==
  /\ \A m \in Models : /\ WF_vars(LoopStep(m))
                       /\ SF_vars(EnterStep(m))
                       /\ WF_vars(AnswerStep(m))
                       /\ WF_vars(CancelStep(m))
  /\ WF_vars(RunStep)

FairSpec == Spec /\ Fairness

-----------------------------------------------------------------------------
(* Properties *)

\* The submission discipline of try_submit_flag, seen from the platform.
Ledger == INSTANCE SubmissionLedger
            WITH tried <- submitted,
                 outstanding <- IF lock = NoModel THEN NoFlag ELSE req[lock],
                 accepted <- confirmedFlag

\* However the solvers interleave, fail and are cancelled while a request is out, the
\* challenge sends every flag at most once, one request at a time, and nothing after
\* the platform accepted a flag.
LedgerSpec == Ledger!Spec

\* What the coordinator sees of the race.
Reported == CASE run = "raised" -> "no_result"
              [] run = "returned" -> IF runResult = NoResult THEN "no_result"
                                     ELSE runResult.status
              [] OTHER -> "running"

Verdict == INSTANCE SwarmVerdict
             WITH confirmed <- confirmedFlag # NoFlag, verdict <- Reported

\* Whichever solvers end together, are cancelled, or are answered late: the coordinator is
\* told of a found flag only after the platform confirmed one, of a candidate only in a
\* dry run, and once it is told nothing about the submissions changes any more.
VerdictSpec == Verdict!Spec

\* Whoever claims the race with a confirmed flag, the platform has acknowledged that
\* the challenge is solved: a sibling that is only told "ALREADY SOLVED", a fallback
\* solver that lost its own confirmation and an answer after a teammate's solve included.
WinnerWasAccepted ==
  winner.status = "flag_found" => solved /\ confirmedFlag # NoFlag

\* When run() returns normally, a race somebody won is not reported as "no result",
\* whichever tasks completed together, were cancelled, or overwrote self.winner.
WinnerIsReturned ==
  run = "returned" /\ winner # NoResult => runResult # NoResult

\* When run() has returned or raised, no solver task is left behind and nobody holds
\* the flag lock: the coordinator may finalize the challenge and start the next tier.
QuietWhenOver ==
  Finished => /\ \A m \in Models : pc[m] = "done"
              /\ lock = NoModel

\* A solver is cancelled only because a sibling's result ended the race or run()
\* itself was cancelled: in submit mode an unconfirmed candidate never stops the others.
CancelledForAReason ==
  (\E m \in Models : cancelReq[m]) =>
     \/ run \in {"aborting", "raised"}
     \/ runResult.status = "flag_found"
     \/ runResult.status = "flag_candidate" /\ noSubmit

\* While run() still waits, every solver that ended had the removal of its container asked
\* for, unless the quota fallback replaced it: a container may survive its removal, but
\* nobody forgets one.
NoForgottenSandbox ==
  run = "waiting" => \A m \in Models : pc[m] = "done" /\ box[m] = "up" => swapped[m]

\* A race that somebody won comes to an end with every solver stopped, although nothing
\* bounds the turn of a model, unless the stop() of each winner raised: its result is lost
\* with its task then, and run() waits for the siblings to end by themselves.  Once run()
\* has taken a result, or was cancelled, it always ends.
RaceEnds ==
  /\ (winner # NoResult) ~> (Finished \/ \A m \in Models : ret[m] = NoResult)
  /\ (run \in {"gathering", "aborting"}) ~> Finished

\* A submission is answered, or its solver stopped, however often the siblings submit.
SubmissionAnswered ==
  \A m \in Models : (pc[m] = "lockWait") ~> (pc[m] \notin {"lockWait", "submitting"})

\* The flag the swarm reports as found is the one the platform confirmed.
ReportsConfirmedFlag ==
  run = "returned" /\ runResult.status = "flag_found" => runResult.flag = confirmedFlag
=============================================================================
