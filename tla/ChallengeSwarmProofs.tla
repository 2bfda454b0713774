------------------------ MODULE ChallengeSwarmProofs ------------------------
(***************************************************************************)
(* The theorems of ChallengeSwarm, for any number of models and flags.     *)
(*                                                                         *)
(* SwarmInv is inductive: SubmitInv relates the flag lock to the calls of   *)
(* submit_flag and to what the platform has said, and RaceInv relates the   *)
(* tasks to what run() has seen of them.  Each invariant the runs check     *)
(* follows from it, and so does every step of the submission ledger.        *)
(***************************************************************************)
EXTENDS ChallengeSwarm, TLAPS

-----------------------------------------------------------------------------
(* The inductive invariant, by the part of the swarm it is about. *)

\* The flag lock is held exactly while its holder waits for the platform.
LockHeldWhileSubmitting == \A m \in Models : (pc[m] = "submitting") <=> (lock = m)

\* A call of submit_flag has an argument until it returns.
CallHasFlag == \A m \in Models : (pc[m] \in {"lockWait", "submitting"}) <=> (req[m] # NoFlag)

\* The outstanding flag is recorded, and nothing was accepted before it was sent.
OutstandingRecorded == lock # NoModel => req[lock] \in submitted /\ confirmedFlag = NoFlag

\* An accepting answer, and so a confirmed flag, means that the challenge is solved.
AcceptedMeansSolved == /\ answer \in Accepting => solved
                       /\ confirmedFlag # NoFlag => solved

\* A solver believes in a flag only after the platform accepted one.
BeliefIsBacked == \A m \in Models : confirmed[m] # NoFlag => confirmedFlag # NoFlag

SubmitInv == /\ LockHeldWhileSubmitting
             /\ CallHasFlag
             /\ OutstandingRecorded
             /\ AcceptedMeansSolved
             /\ BeliefIsBacked
             /\ WinnerWasAccepted

\* run() has seen the end of every task it no longer waits for, and ends only then.
DroppedAreDone == /\ \A m \in Models \ pending : pc[m] = "done"
                  /\ Finished => \A m \in Models : pc[m] = "done"

\* A terminal result is known to self.winner; in submit mode it is a confirmed flag.
ResultIsTerminal(r) == r.status = "flag_found" \/ (r.status = "flag_candidate" /\ noSubmit)
ResultsAreTerminal == /\ \A m \in Models : ret[m] # NoResult => ResultIsTerminal(ret[m])
                      /\ runResult # NoResult => ResultIsTerminal(runResult)
                      /\ winner # NoResult => ResultIsTerminal(winner)

\* Nobody is cancelled before run() stops waiting, and it stops for a result of some task,
\* or because all have ended: then the winner's result, if any, is what it returns.
RunTellsWhatItKnows ==
  /\ run = "waiting" => \A m \in Models : ~cancelReq[m]
  /\ run = "gathering" => runResult # NoResult
  /\ run = "returned" /\ runResult = NoResult => winner = NoResult
  /\ run = "returned" /\ runResult = NoResult => \A m \in Models : ~cancelReq[m]

RaceInv == DroppedAreDone /\ ResultsAreTerminal /\ RunTellsWhatItKnows

\* consecutive_errors stays below the bound that ends the solver.
LEMMA OneMoreError ==
  ASSUME NEW e \in 0 .. MaxErrors - 1, e + 1 # MaxErrors
  PROVE  e + 1 \in 0 .. MaxErrors - 1
BY MaxErrorsAssumption

\* Every step keeps the types; a flag that is sent is one, because the call has it.
LEMMA TypeStep == TypeOK /\ CallHasFlag /\ [Next]_vars => TypeOK'
<1> SUFFICES ASSUME TypeOK, CallHasFlag, [Next]_vars PROVE TypeOK'
  OBVIOUS
<1>0. NoResult \in Results
  BY DEF NoResult, Results
<1> USE <1>0, ModelsAssumption, FlagsAssumption
    DEF TypeOK, solverVars, raceVars, submitVars, runVars, envVars
<1>1. ASSUME NEW m \in Models, StartSucceeds(m) PROVE TypeOK'
  BY <1>1 DEF StartSucceeds, Continue
<1>2. ASSUME NEW m \in Models, StartFails(m) PROVE TypeOK'
  BY <1>2 DEF StartFails, StartCutShort, Raise
<1>3. ASSUME NEW m \in Models, NEW out \in Flags \union {NoFlag}, TurnEnds(m, out) PROVE TypeOK'
  <2> DEFINE f == IF out # NoFlag THEN out ELSE flag[m]
             r == [status |-> IF confirmed[m] # NoFlag THEN "flag_found" ELSE "flag_candidate",
                   flag |-> f]
  <2>1. f \in Flags \union {NoFlag} /\ r \in Results
    BY DEF Results
  <2>2. errors' \in [Models -> 0 .. MaxErrors - 1]
    BY <1>3, MaxErrorsAssumption DEF TurnEnds
  <2>3. flag' \in [Models -> Flags \union {NoFlag}]
    BY <1>3, <2>1 DEF TurnEnds
  <2>4. winner' \in Results /\ ret' \in [Models -> Results] /\ cancelEvent' \in BOOLEAN
    <3> HIDE DEF f, r
    <3>1. \/ cancelEvent' = TRUE /\ winner' = r /\ ret' = [ret EXCEPT ![m] = r]
          \/ UNCHANGED <<ret, raceVars>>
      BY <1>3 DEF TurnEnds, f, r
    <3>2. CASE UNCHANGED <<ret, raceVars>>
      BY <3>2
    <3>3. CASE cancelEvent' = TRUE /\ winner' = r /\ ret' = [ret EXCEPT ![m] = r]
      BY ONLY TypeOK, <2>1, <3>3, Zenon DEF TypeOK
    <3>4. QED
      BY <3>1, <3>2, <3>3
  <2>5. pc' \in [Models -> {"starting", "running", "lockWait", "submitting", "cooldown",
                            "swapping", "stopping", "stoppingOld", "done"}]
    BY <1>3 DEF TurnEnds, Leave, PauseOrLeave
  <2>6. QED
    BY <1>3, <2>2, <2>3, <2>4, <2>5 DEF TurnEnds
<1>4. ASSUME NEW m \in Models, TurnFails(m) PROVE TypeOK'
  <2>1. CASE LastError(m)
    BY <1>4, <2>1 DEF TurnFails, Leave
  <2>2. CASE ~LastError(m)
    <3>1. errors[m] + 1 \in 0 .. MaxErrors - 1
      BY <2>2, OneMoreError DEF LastError
    <3>2. errors' \in [Models -> 0 .. MaxErrors - 1]
      BY <1>4, <2>2, <3>1 DEF TurnFails
    <3>3. pc' \in [Models -> {"starting", "running", "lockWait", "submitting", "cooldown",
                              "swapping", "stopping", "stoppingOld", "done"}]
      BY <1>4, <2>2 DEF TurnFails, Leave, PauseOrLeave
    <3>4. QED
      BY <1>4, <2>2, <3>2, <3>3 DEF TurnFails
  <2>3. QED
    BY <2>1, <2>2
<1>5. ASSUME NEW m \in Models, TurnOutOfQuota(m) PROVE TypeOK'
  BY <1>5 DEF TurnOutOfQuota, Leave
<1>6. ASSUME NEW m \in Models, NEW f \in Flags, CallSubmit(m, f) PROVE TypeOK'
  BY <1>6 DEF CallSubmit
<1>7. ASSUME NEW m \in Models, SubmitAlreadySolved(m) PROVE TypeOK'
  BY <1>7 DEF SubmitAlreadySolved, Enters, Believes, Return
<1>8. ASSUME NEW m \in Models, SubmitRefused(m) PROVE TypeOK'
  BY <1>8 DEF SubmitRefused, Enters, Return
<1>9. ASSUME NEW m \in Models, SubmitSends(m) PROVE TypeOK'
  <2>1. req[m] \in Flags
    BY <1>9 DEF CallHasFlag, SubmitSends, Enters
  <2>2. submitted' \in SUBSET Flags /\ inflight' \in SUBSET Flags
    BY <1>9, <2>1 DEF SubmitSends
  <2>3. QED
    BY <1>9, <2>2 DEF SubmitSends, Enters
<1>10. ASSUME NEW m \in Models, SubmitConfirmed(m) PROVE TypeOK'
  BY <1>10 DEF SubmitConfirmed, Believes, Return, Unlock, Accepting
<1>11. ASSUME NEW m \in Models, SubmitNotConfirmed(m) PROVE TypeOK'
  BY <1>11 DEF SubmitNotConfirmed, Return, Unlock, Accepting
<1>12. ASSUME NEW m \in Models, SwapSucceeds(m) PROVE TypeOK'
  BY <1>12 DEF SwapSucceeds, Continue
<1>13. ASSUME NEW m \in Models, SwapFails(m) PROVE TypeOK'
  BY <1>13 DEF SwapFails, Raise
<1>14. ASSUME NEW m \in Models, CooldownEnds(m) PROVE TypeOK'
  BY <1>14 DEF CooldownEnds, Continue
<1>15. ASSUME NEW m \in Models, StopDone(m) PROVE TypeOK'
  BY <1>15 DEF StopDone, TakenDown
<1>16. ASSUME NEW m \in Models, CancelTurn(m) PROVE TypeOK'
  BY <1>16 DEF CancelTurn, InTurn, Leave, Unlock
<1>17. ASSUME NEW m \in Models, CancelLoop(m) PROVE TypeOK'
  BY <1>17 DEF CancelLoop, StartCutShort, Raise
<1>18. ASSUME NEW m \in Models, CancelStop(m) PROVE TypeOK'
  BY <1>18 DEF CancelStop, TakenDown
<1>19. ASSUME NEW m \in Models, CooldownElapses(m) PROVE TypeOK'
  BY <1>19 DEF CooldownElapses
<1>20. ASSUME NEW f \in Flags, PlatformJudges(f) PROVE TypeOK'
  BY <1>20 DEF PlatformJudges
<1>21. ASSUME TeammateSolves PROVE TypeOK'
  BY <1>21 DEF TeammateSolves
<1>22. ASSUME RunTakesResult PROVE TypeOK'
  BY <1>22 DEF RunTakesResult, DoneTasks, Unfinished, CancelAll
<1>23. ASSUME RunDropsDone PROVE TypeOK'
  BY <1>23 DEF RunDropsDone, DoneTasks
<1>24. ASSUME RunGathered PROVE TypeOK'
  BY <1>24 DEF RunGathered, Unfinished
<1>25. ASSUME TierTimeout PROVE TypeOK'
  BY <1>25 DEF TierTimeout, Unfinished, CancelAll
<1>26. ASSUME Kill PROVE TypeOK'
  BY <1>26 DEF Kill, Finished
<1>27. ASSUME NEW m \in Models, StopRaises(m) PROVE TypeOK'
  BY <1>27 DEF StopRaises, TakenDown
<1>28. CASE UNCHANGED vars
  BY <1>28 DEF vars
<1>29. QED
  BY <1>1, <1>2, <1>3, <1>4, <1>5, <1>6, <1>7, <1>8, <1>9, <1>10, <1>11, <1>12, <1>13, <1>14, <1>15, <1>16, <1>17, <1>18, <1>19, <1>20, <1>21, <1>22, <1>23, <1>24, <1>25, <1>26, <1>27, <1>28
     DEF Next, TurnStep, EnterStep, AnswerStep, LoopStep, CancelStep, RunStep

\* Every step keeps what submit_flag and the platform's answers guarantee.
LEMMA SubmitStep == TypeOK /\ SubmitInv /\ [Next]_vars => SubmitInv'
<1> SUFFICES ASSUME TypeOK, SubmitInv, [Next]_vars PROVE SubmitInv'
  OBVIOUS
<1> USE ModelsAssumption, FlagsAssumption
    DEF TypeOK, SubmitInv, LockHeldWhileSubmitting, CallHasFlag, OutstandingRecorded,
        AcceptedMeansSolved, BeliefIsBacked, WinnerWasAccepted, NoResult, Results,
        Accepting, solverVars, raceVars, submitVars, runVars, envVars
<1>1. ASSUME NEW m \in Models, StartSucceeds(m) PROVE SubmitInv'
  BY <1>1 DEF StartSucceeds, Continue
<1>2. ASSUME NEW m \in Models, StartFails(m) PROVE SubmitInv'
  BY <1>2 DEF StartFails, Raise
<1>3. ASSUME NEW m \in Models, NEW out \in Flags \union {NoFlag}, TurnEnds(m, out) PROVE SubmitInv'
  <2>2. CASE EndsRace(m, IF out # NoFlag THEN out ELSE flag[m])
    BY SMTT(30), <1>3, <2>2 DEF TurnEnds, EndsRace, Leave
  <2>3. CASE ~EndsRace(m, IF out # NoFlag THEN out ELSE flag[m])
    BY <1>3, <2>3 DEF TurnEnds, Leave, PauseOrLeave
  <2>4. QED
    BY <2>2, <2>3
<1>4. ASSUME NEW m \in Models, TurnFails(m) PROVE SubmitInv'
  BY <1>4 DEF TurnFails, LastError, Leave, PauseOrLeave
<1>5. ASSUME NEW m \in Models, TurnOutOfQuota(m) PROVE SubmitInv'
  BY <1>5 DEF TurnOutOfQuota, Leave
<1>6. ASSUME NEW m \in Models, NEW f \in Flags, CallSubmit(m, f) PROVE SubmitInv'
  BY <1>6 DEF CallSubmit
<1>7. ASSUME NEW m \in Models, SubmitAlreadySolved(m) PROVE SubmitInv'
  BY <1>7 DEF SubmitAlreadySolved, Enters, Believes, Return
<1>8. ASSUME NEW m \in Models, SubmitRefused(m) PROVE SubmitInv'
  BY <1>8 DEF SubmitRefused, Enters, Return
<1>9. ASSUME NEW m \in Models, SubmitSends(m) PROVE SubmitInv'
  BY <1>9 DEF SubmitSends, Enters
<1>10. ASSUME NEW m \in Models, SubmitConfirmed(m) PROVE SubmitInv'
  BY <1>10 DEF SubmitConfirmed, Believes, Return, Unlock, Accepting
<1>11. ASSUME NEW m \in Models, SubmitNotConfirmed(m) PROVE SubmitInv'
  BY <1>11 DEF SubmitNotConfirmed, Return, Unlock, Accepting
<1>12. ASSUME NEW m \in Models, SwapSucceeds(m) PROVE SubmitInv'
  BY <1>12 DEF SwapSucceeds, Continue
<1>13. ASSUME NEW m \in Models, SwapFails(m) PROVE SubmitInv'
  BY <1>13 DEF SwapFails, Raise
<1>14. ASSUME NEW m \in Models, CooldownEnds(m) PROVE SubmitInv'
  BY <1>14 DEF CooldownEnds, Continue
<1>15. ASSUME NEW m \in Models, StopDone(m) PROVE SubmitInv'
  BY <1>15 DEF StopDone
<1>16. ASSUME NEW m \in Models, CancelTurn(m) PROVE SubmitInv'
  BY <1>16 DEF CancelTurn, InTurn, Leave, Unlock
<1>17. ASSUME NEW m \in Models, CancelLoop(m) PROVE SubmitInv'
  BY <1>17 DEF CancelLoop, Raise
<1>18. ASSUME NEW m \in Models, CancelStop(m) PROVE SubmitInv'
  BY <1>18 DEF CancelStop
<1>19. ASSUME NEW m \in Models, CooldownElapses(m) PROVE SubmitInv'
  BY <1>19 DEF CooldownElapses
<1>20. ASSUME NEW f \in Flags, PlatformJudges(f) PROVE SubmitInv'
  BY <1>20 DEF PlatformJudges
<1>21. ASSUME TeammateSolves PROVE SubmitInv'
  BY <1>21 DEF TeammateSolves
<1>22. ASSUME RunTakesResult PROVE SubmitInv'
  BY <1>22 DEF RunTakesResult, DoneTasks, Unfinished, CancelAll
<1>23. ASSUME RunDropsDone PROVE SubmitInv'
  BY <1>23 DEF RunDropsDone, DoneTasks
<1>24. ASSUME RunGathered PROVE SubmitInv'
  BY <1>24 DEF RunGathered, Unfinished
<1>25. ASSUME TierTimeout PROVE SubmitInv'
  BY <1>25 DEF TierTimeout, Unfinished, CancelAll
<1>26. ASSUME Kill PROVE SubmitInv'
  BY <1>26 DEF Kill, Finished
<1>27. ASSUME NEW m \in Models, StopRaises(m) PROVE SubmitInv'
  BY <1>27 DEF StopRaises
<1>28. CASE UNCHANGED vars
  BY <1>28 DEF vars
<1>29. QED
  BY <1>1, <1>2, <1>3, <1>4, <1>5, <1>6, <1>7, <1>8, <1>9, <1>10, <1>11, <1>12, <1>13, <1>14, <1>15, <1>16, <1>17, <1>18, <1>19, <1>20, <1>21, <1>22, <1>23, <1>24, <1>25, <1>26, <1>27, <1>28
     DEF Next, TurnStep, EnterStep, AnswerStep, LoopStep, CancelStep, RunStep

\* Every step keeps what run() knows of the tasks it waits for.
LEMMA RaceStep == TypeOK /\ SubmitInv /\ RaceInv /\ [Next]_vars => RaceInv'
<1> SUFFICES ASSUME TypeOK, SubmitInv, RaceInv, [Next]_vars PROVE RaceInv'
  OBVIOUS
<1> USE ModelsAssumption, FlagsAssumption
    DEF TypeOK, RaceInv, DroppedAreDone, Finished, ResultIsTerminal, ResultsAreTerminal,
        RunTellsWhatItKnows, NoResult, Results, solverVars, raceVars, submitVars, runVars, envVars
<1>1. ASSUME NEW m \in Models, StartSucceeds(m) PROVE RaceInv'
  BY <1>1 DEF StartSucceeds, Continue
<1>2. ASSUME NEW m \in Models, StartFails(m) PROVE RaceInv'
  BY <1>2 DEF StartFails, Raise
<1>3. ASSUME NEW m \in Models, NEW out \in Flags \union {NoFlag}, TurnEnds(m, out) PROVE RaceInv'
  <2>2. CASE EndsRace(m, IF out # NoFlag THEN out ELSE flag[m])
    BY <1>3, <2>2 DEF TurnEnds, EndsRace, Leave
  <2>3. CASE ~EndsRace(m, IF out # NoFlag THEN out ELSE flag[m])
    BY <1>3, <2>3 DEF TurnEnds, Leave, PauseOrLeave
  <2>4. QED
    BY <2>2, <2>3
<1>4. ASSUME NEW m \in Models, TurnFails(m) PROVE RaceInv'
  BY <1>4 DEF TurnFails, LastError, Leave, PauseOrLeave
<1>5. ASSUME NEW m \in Models, TurnOutOfQuota(m) PROVE RaceInv'
  BY <1>5 DEF TurnOutOfQuota, Leave
<1>6. ASSUME NEW m \in Models, NEW f \in Flags, CallSubmit(m, f) PROVE RaceInv'
  BY <1>6 DEF CallSubmit
<1>7. ASSUME NEW m \in Models, SubmitAlreadySolved(m) PROVE RaceInv'
  BY <1>7 DEF SubmitAlreadySolved, Enters, Believes, Return
<1>8. ASSUME NEW m \in Models, SubmitRefused(m) PROVE RaceInv'
  BY <1>8 DEF SubmitRefused, Enters, Return
<1>9. ASSUME NEW m \in Models, SubmitSends(m) PROVE RaceInv'
  BY <1>9 DEF SubmitSends, Enters
<1>10. ASSUME NEW m \in Models, SubmitConfirmed(m) PROVE RaceInv'
  BY <1>10 DEF SubmitConfirmed, Believes, Return, Unlock, Accepting
<1>11. ASSUME NEW m \in Models, SubmitNotConfirmed(m) PROVE RaceInv'
  BY <1>11 DEF SubmitNotConfirmed, Return, Unlock, Accepting
<1>12. ASSUME NEW m \in Models, SwapSucceeds(m) PROVE RaceInv'
  BY <1>12 DEF SwapSucceeds, Continue
<1>13. ASSUME NEW m \in Models, SwapFails(m) PROVE RaceInv'
  BY <1>13 DEF SwapFails, Raise
<1>14. ASSUME NEW m \in Models, CooldownEnds(m) PROVE RaceInv'
  BY <1>14 DEF CooldownEnds, Continue
<1>15. ASSUME NEW m \in Models, StopDone(m) PROVE RaceInv'
  BY <1>15 DEF StopDone
<1>16. ASSUME NEW m \in Models, CancelTurn(m) PROVE RaceInv'
  BY <1>16 DEF CancelTurn, InTurn, Leave, Unlock
<1>17. ASSUME NEW m \in Models, CancelLoop(m) PROVE RaceInv'
  BY <1>17 DEF CancelLoop, Raise
<1>18. ASSUME NEW m \in Models, CancelStop(m) PROVE RaceInv'
  BY <1>18 DEF CancelStop
<1>19. ASSUME NEW m \in Models, CooldownElapses(m) PROVE RaceInv'
  BY <1>19 DEF CooldownElapses
<1>20. ASSUME NEW f \in Flags, PlatformJudges(f) PROVE RaceInv'
  BY <1>20 DEF PlatformJudges
<1>21. ASSUME TeammateSolves PROVE RaceInv'
  BY <1>21 DEF TeammateSolves
<1>22. ASSUME RunTakesResult PROVE RaceInv'
  BY <1>22 DEF RunTakesResult, DoneTasks, Unfinished, CancelAll
<1>23. ASSUME RunDropsDone PROVE RaceInv'
  BY <1>23 DEF RunDropsDone, DoneTasks
<1>24. ASSUME RunGathered PROVE RaceInv'
  BY <1>24 DEF RunGathered, Unfinished
<1>25. ASSUME TierTimeout PROVE RaceInv'
  BY <1>25 DEF TierTimeout, Unfinished, CancelAll
<1>26. ASSUME Kill PROVE RaceInv'
  BY <1>26 DEF Kill, Finished
<1>27. ASSUME NEW m \in Models, StopRaises(m) PROVE RaceInv'
  BY <1>27 DEF StopRaises
<1>28. CASE UNCHANGED vars
  BY <1>28 DEF vars
<1>29. QED
  BY <1>1, <1>2, <1>3, <1>4, <1>5, <1>6, <1>7, <1>8, <1>9, <1>10, <1>11, <1>12, <1>13, <1>14, <1>15, <1>16, <1>17, <1>18, <1>19, <1>20, <1>21, <1>22, <1>23, <1>24, <1>25, <1>26, <1>27, <1>28
     DEF Next, TurnStep, EnterStep, AnswerStep, LoopStep, CancelStep, RunStep

-----------------------------------------------------------------------------
(* The inductive invariant holds of every reachable state. *)

SwarmInv == TypeOK /\ SubmitInv /\ RaceInv

\* A swarm starts with no call, no answer and no result.
LEMMA InitInv == Init => SwarmInv
<1> SUFFICES ASSUME Init PROVE SwarmInv
  OBVIOUS
<1>1. TypeOK
  <2>1. NoResult \in Results
    BY DEF NoResult, Results
  <2>2. 0 \in 0 .. MaxErrors - 1
    BY MaxErrorsAssumption
  <2>3. QED
    BY <2>1, <2>2 DEF Init, TypeOK
<1>2. SubmitInv
  BY ModelsAssumption
     DEF Init, SubmitInv, LockHeldWhileSubmitting, CallHasFlag, OutstandingRecorded,
         AcceptedMeansSolved, BeliefIsBacked, WinnerWasAccepted, NoResult, Accepting
<1>3. RaceInv
  BY DEF Init, RaceInv, DroppedAreDone, ResultsAreTerminal, RunTellsWhatItKnows, Finished
<1>4. QED
  BY <1>1, <1>2, <1>3 DEF SwarmInv

\* The inductive invariant, and with it each of its parts, holds throughout a race.
THEOREM Invariance == Spec => []SwarmInv
<1>1. SwarmInv /\ [Next]_vars => SwarmInv'
  BY TypeStep, SubmitStep, RaceStep DEF SwarmInv, SubmitInv
<1>2. QED
  BY InitInv, <1>1, PTL DEF Spec

\* Every variable keeps its type, the flags sent to the platform included: a call of
\* submit_flag never reaches it without an argument.
THEOREM TypeCorrect == Spec => []TypeOK
<1>1. SwarmInv => TypeOK
  BY DEF SwarmInv
<1>2. QED
  BY <1>1, Invariance, PTL

\* A solver that claims the race with a confirmed flag (_run_solver_loop sets winner)
\* does so after the platform acknowledged the challenge as solved.
THEOREM WinnersWereAccepted == Spec => []WinnerWasAccepted
<1>1. SwarmInv => WinnerWasAccepted
  BY DEF SwarmInv, SubmitInv
<1>2. QED
  BY <1>1, Invariance, PTL

\* A normal return of run() never loses the result of a race that was won.
THEOREM WinnersAreReturned == Spec => []WinnerIsReturned
<1>1. SwarmInv => WinnerIsReturned
  BY DEF SwarmInv, RaceInv, RunTellsWhatItKnows, WinnerIsReturned
<1>2. QED
  BY <1>1, Invariance, PTL

\* When run() is over every solver task has ended and the flag lock is free.
THEOREM QuietAtTheEnd == Spec => []QuietWhenOver
<1>1. SwarmInv => QuietWhenOver
  BY DEF SwarmInv, TypeOK, SubmitInv, RaceInv, DroppedAreDone, LockHeldWhileSubmitting,
         QuietWhenOver
<1>2. QED
  BY <1>1, Invariance, PTL

\* In submit mode only a confirmed flag, or the cancellation of run(), stops a solver.
THEOREM CancelledWithReason == Spec => []CancelledForAReason
<1>1. SwarmInv => CancelledForAReason
  <2> SUFFICES ASSUME SwarmInv, NEW m \in Models, cancelReq[m]
               PROVE  \/ run \in {"aborting", "raised"}
                      \/ runResult.status = "flag_found"
                      \/ runResult.status = "flag_candidate" /\ noSubmit
    BY DEF CancelledForAReason
  <2>1. run \in {"waiting", "gathering", "aborting", "returned", "raised"} /\ run # "waiting"
    BY DEF SwarmInv, TypeOK, RaceInv, RunTellsWhatItKnows
  <2>2. run \in {"gathering", "returned"} => runResult # NoResult
    BY DEF SwarmInv, RaceInv, RunTellsWhatItKnows
  <2>3. runResult # NoResult => ResultIsTerminal(runResult)
    BY DEF SwarmInv, RaceInv, ResultsAreTerminal
  <2>4. QED
    BY <2>1, <2>2, <2>3 DEF ResultIsTerminal
<1>2. QED
  BY <1>1, Invariance, PTL

-----------------------------------------------------------------------------
(* Only the container that a quota fallback left behind is forgotten. *)

\* Only a solver that was replaced is stopped without its sandbox.
ReplacedLeavesSandbox == \A m \in Models : pc[m] = "stoppingOld" => swapped[m]

SandboxInv == ReplacedLeavesSandbox /\ NoForgottenSandbox

\* Only a cancellation can cut a cleanup short, and none is asked for while run() waits;
\* every other end of a task asks for the container's removal or finds the solver replaced.
LEMMA SandboxStep == SwarmInv /\ SandboxInv /\ [Next]_vars => SandboxInv'
<1> SUFFICES ASSUME SwarmInv, SandboxInv, [Next]_vars PROVE SandboxInv'
  OBVIOUS
<1>0. /\ run = "waiting" => \A m \in Models : ~cancelReq[m]
      /\ TypeOK
  BY DEF SwarmInv, RaceInv, RunTellsWhatItKnows
<1> DEFINE Moves(m, state) == pc' = [pc EXCEPT ![m] = state]
           Keeps == UNCHANGED <<swapped, box, run>>
<1>1. ASSUME NEW m \in Models, NEW state, Moves(m, state), Keeps,
             state \notin {"done", "stoppingOld"} \/ (state = "stoppingOld" /\ swapped[m])
      PROVE  SandboxInv'
  BY <1>0, <1>1 DEF SandboxInv, ReplacedLeavesSandbox, NoForgottenSandbox, TypeOK
<1>2. ASSUME UNCHANGED <<pc, swapped, box>>, run' = "waiting" => run = "waiting"
      PROVE  SandboxInv'
  BY <1>2 DEF SandboxInv, ReplacedLeavesSandbox, NoForgottenSandbox
<1>3. ASSUME NEW m \in Models, TurnStep(m) PROVE SandboxInv'
  <2>1. ASSUME TurnOutOfQuota(m) PROVE SandboxInv'
    BY <1>0, <2>1 DEF TurnOutOfQuota, Leave, SandboxInv, ReplacedLeavesSandbox,
                      NoForgottenSandbox, TypeOK, runVars
  <2>2. ASSUME \/ \E out \in Flags \union {NoFlag} : TurnEnds(m, out)
               \/ TurnFails(m) \/ \E f \in Flags : CallSubmit(m, f)
        PROVE  Keeps /\ \E state \in {"stopping", "cooldown", "lockWait"} : Moves(m, state)
    BY <2>2 DEF TurnEnds, TurnFails, CallSubmit, Leave, PauseOrLeave, solverVars, runVars
  <2>3. QED
    BY <1>1, <1>3, <2>1, <2>2 DEF TurnStep
<1>4. ASSUME NEW m \in Models, EnterStep(m) \/ AnswerStep(m) PROVE SandboxInv'
  <2>1. Keeps /\ \E state \in {"running", "submitting"} : Moves(m, state)
    BY <1>4 DEF EnterStep, AnswerStep, SubmitAlreadySolved, SubmitRefused, SubmitSends,
                SubmitConfirmed, SubmitNotConfirmed, Return, solverVars, runVars
  <2>2. QED
    BY <1>1, <2>1
<1>5. ASSUME NEW m \in Models, SwapSucceeds(m) \/ CooldownEnds(m) PROVE SandboxInv'
  <2>1. Keeps /\ \E state \in {"running", "stopping"} : Moves(m, state)
    BY <1>5 DEF SwapSucceeds, CooldownEnds, Continue, solverVars, runVars
  <2>2. QED
    BY <1>1, <2>1
<1>6. ASSUME NEW m \in Models, StartFails(m) \/ SwapFails(m) \/ CancelLoop(m)
      PROVE  SandboxInv'
  <2>1. /\ pc[m] # "done"
        /\ pc' = [pc EXCEPT ![m] = IF swapped[m] THEN "stoppingOld" ELSE "stopping"]
        /\ UNCHANGED <<swapped, run>>
        /\ \A n \in Models : n # m => box'[n] = box[n]
    BY <1>0, <1>6 DEF StartFails, SwapFails, CancelLoop, StartCutShort, Raise, TypeOK,
                      solverVars, runVars
  <2>2. QED
    BY <1>0, <2>1 DEF SandboxInv, ReplacedLeavesSandbox, NoForgottenSandbox, TypeOK
<1>7. ASSUME NEW m \in Models, StartSucceeds(m) PROVE SandboxInv'
  BY <1>0, <1>7 DEF StartSucceeds, Continue, SandboxInv, ReplacedLeavesSandbox,
                    NoForgottenSandbox, TypeOK, solverVars, runVars
<1>8. ASSUME NEW m \in Models, StopDone(m) \/ StopRaises(m) PROVE SandboxInv'
  <2>1. /\ pc' = [pc EXCEPT ![m] = "done"]
        /\ UNCHANGED <<swapped, run>>
        /\ \A n \in Models : n # m => box'[n] = box[n]
    BY <1>0, <1>8 DEF StopDone, StopRaises, TakenDown, TypeOK, solverVars, runVars
  <2>2. box'[m] # "up" \/ pc[m] = "stoppingOld"
    BY <1>0, <1>8 DEF StopDone, StopRaises, TakenDown, TypeOK
  <2>3. QED
    BY <1>0, <2>1, <2>2 DEF SandboxInv, ReplacedLeavesSandbox, NoForgottenSandbox, TypeOK
<1>9. ASSUME NEW m \in Models, CancelTurn(m) PROVE SandboxInv'
  <2>1. Keeps /\ Moves(m, "stopping")
    BY <1>9 DEF CancelTurn, Leave, solverVars
  <2>2. QED
    BY <1>1, <2>1
<1>10. ASSUME NEW m \in Models, CancelStop(m) PROVE SandboxInv'
  <2>1. run' # "waiting"
    BY <1>0, <1>10 DEF CancelStop
  <2>2. ReplacedLeavesSandbox'
    BY <1>0, <1>10 DEF CancelStop, SandboxInv, ReplacedLeavesSandbox, TypeOK
  <2>3. QED
    BY <2>1, <2>2 DEF SandboxInv, NoForgottenSandbox
<1>11. ASSUME \/ \E m \in Models : CooldownElapses(m)
              \/ \E f \in Flags : PlatformJudges(f)
              \/ TeammateSolves \/ RunStep \/ TierTimeout \/ Kill \/ UNCHANGED vars
       PROVE  SandboxInv'
  <2>1. UNCHANGED <<pc, swapped, box>> /\ (run' = "waiting" => run = "waiting")
    BY <1>11 DEF CooldownElapses, PlatformJudges, TeammateSolves, RunStep, RunTakesResult,
                 RunDropsDone, RunGathered, TierTimeout, Kill, vars, solverVars, runVars
  <2>2. QED
    BY <1>2, <2>1
<1>12. QED
  <2> HIDE DEF Moves, Keeps
  <2> QED
    BY <1>3, <1>4, <1>5, <1>6, <1>7, <1>8, <1>9, <1>10, <1>11
       DEF Next, LoopStep, CancelStep

\* While run() waits, a container whose removal nobody has asked for belongs to a solver
\* that still runs or to one that the quota fallback replaced: the finally of _run_solver
\* is reached on every path out of a start, a turn, a pause or a swap, and if the removal
\* does not work, or stop() raises, it has been tried.
THEOREM SandboxesAreStopped == Spec => []NoForgottenSandbox
<1>1. Init => SandboxInv
  BY DEF Init, SandboxInv, ReplacedLeavesSandbox, NoForgottenSandbox
<1>2. SwarmInv /\ SandboxInv /\ [Next]_vars => SandboxInv'
  BY SandboxStep
<1>3. SandboxInv => NoForgottenSandbox
  BY DEF SandboxInv
<1>4. QED
  BY <1>1, <1>2, <1>3, Invariance, PTL DEF Spec

-----------------------------------------------------------------------------
(* The swarm implements the submission ledger. *)

\* Whatever leaves the lock, the record and the holder's argument alone is a stutter.
LEMMA LedgerStutters ==
  ASSUME UNCHANGED <<lock, submitted, confirmedFlag>>, lock # NoModel => req'[lock] = req[lock]
  PROVE  UNCHANGED Ledger!vars
BY DEF Ledger!vars

\* Each step of the swarm sends, accepts or drops the outstanding flag, or stutters.
LEMMA LedgerStep == SwarmInv /\ [Next]_vars => [Ledger!Next]_(Ledger!vars)
<1> SUFFICES ASSUME SwarmInv, [Next]_vars PROVE [Ledger!Next]_(Ledger!vars)
  OBVIOUS
<1> DEFINE Stutter == /\ UNCHANGED <<lock, submitted, confirmedFlag>>
                      /\ lock # NoModel => req'[lock] = req[lock]
<1>1. ASSUME NEW m \in Models, SubmitSends(m) PROVE Ledger!Next
  <2>1. req[m] \in Flags /\ lock = NoModel
    BY <1>1 DEF SwarmInv, TypeOK, SubmitInv, CallHasFlag, SubmitSends, Enters
  <2>2. Ledger!Send(req[m])
    BY <1>1, <2>1, ModelsAssumption DEF SubmitSends, Enters, Ledger!Send
  <2>3. QED
    BY <2>1, <2>2 DEF Ledger!Next
<1>2. ASSUME NEW m \in Models, SubmitConfirmed(m) PROVE Ledger!Next
  <2>1. lock = m /\ req[m] # NoFlag /\ m # NoModel
    BY <1>2, ModelsAssumption
       DEF SwarmInv, SubmitInv, LockHeldWhileSubmitting, CallHasFlag, SubmitConfirmed
  <2>2. Ledger!Accept
    BY <1>2, <2>1 DEF SubmitConfirmed, Unlock, Ledger!Accept
  <2>3. QED
    BY <2>2 DEF Ledger!Next
<1>3. ASSUME NEW m \in Models, SubmitNotConfirmed(m) PROVE Ledger!Next
  <2>1. lock = m /\ req[m] # NoFlag /\ m # NoModel
    BY <1>3, ModelsAssumption
       DEF SwarmInv, SubmitInv, LockHeldWhileSubmitting, CallHasFlag, SubmitNotConfirmed
  <2>2. Ledger!Drop
    BY <1>3, <2>1 DEF SubmitNotConfirmed, Unlock, Ledger!Drop
  <2>3. QED
    BY <2>2 DEF Ledger!Next
<1>4. ASSUME NEW m \in Models, CancelTurn(m) PROVE Ledger!Next \/ Stutter
  <2>1. CASE lock = m
    <3>1. req[m] # NoFlag /\ m # NoModel
      BY <2>1, ModelsAssumption
         DEF SwarmInv, SubmitInv, LockHeldWhileSubmitting, CallHasFlag
    <3>2. Ledger!Drop
      BY <1>4, <2>1, <3>1 DEF CancelTurn, Unlock, Ledger!Drop
    <3>3. QED
      BY <3>2 DEF Ledger!Next
  <2>2. CASE lock # m
    BY <1>4, <2>2 DEF SwarmInv, TypeOK, CancelTurn
  <2>3. QED
    BY <2>1, <2>2
<1>5. ASSUME NEW m \in Models, SubmitAlreadySolved(m) \/ SubmitRefused(m) PROVE Stutter
  BY <1>5 DEF SubmitAlreadySolved, SubmitRefused, Enters, Return
<1>6. ASSUME NEW m \in Models, NEW f \in Flags, CallSubmit(m, f) PROVE Stutter
  <2>1. lock # m
    BY <1>6 DEF SwarmInv, SubmitInv, LockHeldWhileSubmitting, CallSubmit
  <2>2. QED
    BY <1>6, <2>1 DEF SwarmInv, TypeOK, CallSubmit
<1>7. ASSUME NEW m \in Models,
             \/ \E out \in Flags \union {NoFlag} : TurnEnds(m, out)
             \/ TurnFails(m) \/ TurnOutOfQuota(m)
             \/ LoopStep(m) \/ CancelLoop(m) \/ CancelStop(m) \/ CooldownElapses(m)
      PROVE  Stutter
  BY <1>7 DEF TurnEnds, TurnFails, TurnOutOfQuota, LoopStep, StartSucceeds, StartFails,
              SwapSucceeds, SwapFails, CooldownEnds, StopDone, StopRaises, CancelLoop,
              CancelStop, CooldownElapses, submitVars
<1>8. ASSUME \/ \E f \in Flags : PlatformJudges(f)
             \/ TeammateSolves \/ RunStep \/ TierTimeout \/ Kill \/ UNCHANGED vars
      PROVE  Stutter
  BY <1>8 DEF PlatformJudges, TeammateSolves, RunStep, RunTakesResult, RunDropsDone,
              RunGathered, TierTimeout, Kill, vars, submitVars
<1>9. Stutter => UNCHANGED Ledger!vars
  BY LedgerStutters
<1>10. QED
  <2> HIDE DEF Stutter
  <2> QED
    BY <1>1, <1>2, <1>3, <1>4, <1>5, <1>6, <1>7, <1>8, <1>9
       DEF Next, TurnStep, EnterStep, AnswerStep, CancelStep

\* However the solvers interleave, fail and are cancelled, try_submit_flag keeps the
\* discipline of the ledger: every flag at most once, one at a time, none after success.
THEOREM SwarmKeepsTheLedger == Spec => LedgerSpec
<1>1. Init => Ledger!Init
  BY DEF Init, Ledger!Init
<1>2. QED
  BY <1>1, LedgerStep, Invariance, PTL DEF Spec, LedgerSpec, Ledger!Spec

-----------------------------------------------------------------------------
(* The swarm keeps the promise the coordinator is built on. *)

\* try_submit_flag is never entered in a dry run, so that nothing is ever confirmed.
DryRunNeverSubmits == noSubmit => /\ \A m \in Models : pc[m] \notin {"lockWait", "submitting"}
                                  /\ confirmedFlag = NoFlag

\* A found flag that a task returns, or run() takes, has been confirmed by then.
FoundIsBacked == /\ \A m \in Models : ret[m].status = "flag_found" => confirmedFlag # NoFlag
                 /\ runResult.status = "flag_found" => confirmedFlag # NoFlag

VerdictInv == DryRunNeverSubmits /\ FoundIsBacked

\* A result is only made by the end of a turn, from the solver's own confirmation, and
\* only passed on by run(); only a call of submit_flag leads to a confirmation.
LEMMA VerdictInvStep == SwarmInv /\ VerdictInv /\ [Next]_vars => VerdictInv'
<1> SUFFICES ASSUME SwarmInv, VerdictInv, [Next]_vars PROVE VerdictInv'
  OBVIOUS
<1>0. TypeOK /\ SubmitInv
  BY DEF SwarmInv
<1> USE DEF VerdictInv, DryRunNeverSubmits, FoundIsBacked
<1> DEFINE Moves(m, state) == pc' = [pc EXCEPT ![m] = state]
           Keeps == UNCHANGED <<ret, confirmedFlag, runResult, noSubmit>>
<1>1. ASSUME NEW m \in Models, NEW state, Moves(m, state), Keeps,
             state \in {"lockWait", "submitting"} => ~noSubmit
      PROVE  VerdictInv'
  BY <1>0, <1>1 DEF TypeOK
<1>2. ASSUME UNCHANGED <<pc, ret, confirmedFlag, noSubmit>>,
             runResult'.status = "flag_found" => confirmedFlag # NoFlag
      PROVE  VerdictInv'
  BY <1>2
<1>3. ASSUME NEW m \in Models, NEW out \in Flags \union {NoFlag}, TurnEnds(m, out)
      PROVE  VerdictInv'
  <2> DEFINE f == IF out # NoFlag THEN out ELSE flag[m]
             r == [status |-> IF confirmed[m] # NoFlag THEN "flag_found" ELSE "flag_candidate",
                   flag |-> f]
  <2>1. UNCHANGED <<confirmedFlag, runResult, noSubmit>>
    BY <1>3 DEF TurnEnds, submitVars, runVars, envVars
  <2>2. CASE EndsRace(m, f)
    <3>1. Moves(m, "stopping") /\ ret' = [ret EXCEPT ![m] = r]
      BY <1>3, <2>2 DEF TurnEnds, Leave
    <3>2. r.status = "flag_found" => confirmedFlag # NoFlag
      BY <1>0 DEF SubmitInv, BeliefIsBacked
    <3>3. DryRunNeverSubmits'
      BY <1>0, <2>1, <3>1 DEF TypeOK
    <3>4. FoundIsBacked'
      <4> HIDE DEF f, r
      <4> QED
        BY <1>0, <2>1, <3>1, <3>2 DEF TypeOK
    <3>5. QED
      BY <3>3, <3>4
  <2>3. CASE ~EndsRace(m, f)
    <3>1. Keeps /\ \E state \in {"stopping", "cooldown"} : Moves(m, state)
      BY <1>3, <2>1, <2>3 DEF TurnEnds, Leave, PauseOrLeave
    <3>2. QED
      BY <1>1, <3>1
  <2>4. QED
    BY <2>2, <2>3
<1>4. ASSUME NEW m \in Models, TurnFails(m) \/ TurnOutOfQuota(m) PROVE VerdictInv'
  <2>1. Keeps /\ \E state \in {"stopping", "cooldown", "swapping"} : Moves(m, state)
    BY <1>4 DEF TurnFails, TurnOutOfQuota, Leave, PauseOrLeave, submitVars, runVars, envVars
  <2>2. QED
    BY <1>1, <2>1
<1>5. ASSUME NEW m \in Models, NEW f \in Flags, CallSubmit(m, f) PROVE VerdictInv'
  <2>1. Keeps /\ ~noSubmit /\ Moves(m, "lockWait")
    BY <1>5 DEF CallSubmit, solverVars, runVars, envVars
  <2>2. QED
    BY <1>1, <2>1
<1>6. ASSUME NEW m \in Models, EnterStep(m) \/ SubmitNotConfirmed(m) PROVE VerdictInv'
  <2>1. ~noSubmit
    BY <1>6 DEF EnterStep, SubmitAlreadySolved, SubmitRefused, SubmitSends, Enters,
                SubmitNotConfirmed
  <2>2. Keeps /\ \E state \in {"running", "submitting"} : Moves(m, state)
    BY <1>6 DEF EnterStep, SubmitAlreadySolved, SubmitRefused, SubmitSends,
                SubmitNotConfirmed, Return, solverVars, runVars, envVars
  <2>3. QED
    BY <1>1, <2>1, <2>2
<1>7. ASSUME NEW m \in Models, SubmitConfirmed(m) PROVE VerdictInv'
  <2>1. ~noSubmit /\ confirmedFlag' # NoFlag
    BY <1>0, <1>7 DEF SubmitConfirmed, SubmitInv, CallHasFlag
  <2>2. UNCHANGED noSubmit
    BY <1>7 DEF SubmitConfirmed
  <2>3. QED
    BY <2>1, <2>2
<1>8. ASSUME NEW m \in Models,
             (LoopStep(m) /\ ~StopRaises(m)) \/ CancelTurn(m) \/ CancelLoop(m)
      PROVE  VerdictInv'
  <2>1. Keeps /\ \E state \in {"running", "stopping", "stoppingOld", "done"} : Moves(m, state)
    BY <1>8 DEF LoopStep, StartSucceeds, StartFails, SwapSucceeds, SwapFails, CooldownEnds,
                StopDone, CancelTurn, CancelLoop, Continue, Raise, Leave, solverVars,
                submitVars, runVars, envVars
  <2>2. QED
    BY <1>1, <2>1
<1>9. ASSUME NEW m \in Models, CancelStop(m) \/ StopRaises(m) PROVE VerdictInv'
  <2>1. /\ Moves(m, "done")
        /\ ret' = [ret EXCEPT ![m] = NoResult]
        /\ UNCHANGED <<confirmedFlag, runResult, noSubmit>>
    BY <1>9 DEF CancelStop, StopRaises, submitVars, runVars, envVars
  <2>2. QED
    BY <1>0, <2>1 DEF NoResult, TypeOK
<1>10. ASSUME RunStep \/ TierTimeout PROVE VerdictInv'
  <2>1. UNCHANGED <<pc, ret, confirmedFlag, noSubmit>>
    BY <1>10 DEF RunStep, RunTakesResult, RunDropsDone, RunGathered, TierTimeout,
                 solverVars, submitVars, envVars
  <2>2. \/ runResult' \in {runResult, winner, NoResult}
        \/ \E m \in Models : runResult' = ret[m]
    BY <1>0, <1>10 DEF RunStep, RunTakesResult, RunDropsDone, RunGathered, TierTimeout,
                       DoneTasks, TypeOK
  <2>3. runResult'.status = "flag_found" => confirmedFlag # NoFlag
    BY <1>0, <2>2 DEF SubmitInv, WinnerWasAccepted, NoResult
  <2>4. QED
    BY <1>2, <2>1, <2>3
<1>11. ASSUME \/ \E m \in Models : CooldownElapses(m)
              \/ \E f \in Flags : PlatformJudges(f)
              \/ TeammateSolves \/ Kill \/ UNCHANGED vars
       PROVE  VerdictInv'
  <2>1. UNCHANGED <<pc, ret, confirmedFlag, noSubmit, runResult>>
    BY <1>11 DEF CooldownElapses, PlatformJudges, TeammateSolves, Kill, vars, solverVars,
                 submitVars, runVars, envVars
  <2>2. QED
    BY <1>2, <2>1
<1>12. QED
  <2> HIDE DEF Moves, Keeps, VerdictInv
  <2> QED
    BY <1>3, <1>4, <1>5, <1>6, <1>7, <1>8, <1>9, <1>10, <1>11
       DEF Next, TurnStep, AnswerStep, CancelStep

\* What run() has taken ends the race: in a dry run a candidate, else a confirmed flag.
LEMMA TakenIsTerminal ==
  ASSUME SwarmInv, runResult # NoResult
  PROVE  runResult.status = "flag_found" \/ (runResult.status = "flag_candidate" /\ noSubmit)
BY DEF SwarmInv, RaceInv, ResultsAreTerminal, ResultIsTerminal

\* Each step of the swarm is one that the coordinator expects of it, or is not seen.
LEMMA VerdictStep ==
  SwarmInv /\ VerdictInv /\ [Next]_vars => [Verdict!Next]_(Verdict!vars)
<1> SUFFICES ASSUME SwarmInv, VerdictInv, [Next]_vars PROVE [Verdict!Next]_(Verdict!vars)
  OBVIOUS
<1>0. TypeOK /\ SubmitInv /\ RaceInv
  BY DEF SwarmInv
<1> DEFINE Unseen == UNCHANGED <<noSubmit, solved, confirmedFlag, Reported>>
<1>1. Unseen => UNCHANGED Verdict!vars
  BY DEF Verdict!vars
<1>2. ASSUME UNCHANGED <<noSubmit, solved, confirmedFlag, run, runResult>> PROVE Unseen
  BY <1>2 DEF Reported
<1>3. ASSUME NEW m \in Models, SubmitConfirmed(m) PROVE Verdict!Next
  <2>1. pc[m] = "submitting" /\ answer \in Accepting /\ confirmedFlag' = req[m]
        /\ UNCHANGED <<noSubmit, solved, run, runResult>>
    BY <1>3 DEF SubmitConfirmed, runVars
  <2>2. solved /\ req[m] # NoFlag
    BY <1>0, <2>1 DEF SubmitInv, AcceptedMeansSolved, CallHasFlag
  <2>3. ~noSubmit
    BY <2>1 DEF VerdictInv, DryRunNeverSubmits
  <2>4. ~Finished
    BY <1>0, <2>1 DEF RaceInv, DroppedAreDone
  <2>5. Reported = "running" /\ UNCHANGED Reported
    BY <2>1, <2>4 DEF Reported, Finished
  <2>6. Verdict!Confirm
    BY <2>1, <2>2, <2>3, <2>5, <1>0 DEF Verdict!Confirm, TypeOK
  <2>7. QED
    BY <2>6 DEF Verdict!Next
<1>4. ASSUME NEW f \in Flags, PlatformJudges(f) PROVE Verdict!Next \/ Unseen
  <2>1. UNCHANGED <<noSubmit, confirmedFlag, run, runResult>> /\ solved' = (solved \/ f \in Correct)
    BY <1>4 DEF PlatformJudges, submitVars, runVars
  <2>2. UNCHANGED Reported
    BY <2>1 DEF Reported
  <2>3. CASE solved' = TRUE
    BY <2>1, <2>2, <2>3 DEF Verdict!Next, Verdict!Solve
  <2>4. CASE UNCHANGED solved
    BY <2>1, <2>2, <2>4
  <2>5. QED
    BY <1>0, <2>1, <2>3, <2>4 DEF TypeOK
<1>5. ASSUME TeammateSolves PROVE Verdict!Next
  <2>1. UNCHANGED <<noSubmit, confirmedFlag, run, runResult>> /\ solved' = TRUE
    BY <1>5 DEF TeammateSolves, submitVars, runVars
  <2>2. QED
    BY <2>1 DEF Verdict!Next, Verdict!Solve, Reported
<1>6. ASSUME NEW v \in Verdict!Verdicts, Reported = "running", Reported' = v,
             v = "flag_found" => confirmedFlag # NoFlag,
             v = "flag_candidate" => noSubmit /\ confirmedFlag = NoFlag,
             UNCHANGED <<noSubmit, solved, confirmedFlag>>
      PROVE  Verdict!Next
  <2>1. Verdict!Report(v)
    BY <1>6 DEF Verdict!Report
  <2>2. QED
    BY <2>1 DEF Verdict!Next
<1>7. ASSUME RunTakesResult \/ TierTimeout PROVE Unseen
  BY <1>7 DEF RunTakesResult, TierTimeout, Reported, submitVars, envVars
<1>8. ASSUME RunDropsDone PROVE Verdict!Next \/ Unseen
  <2>1. run = "waiting" /\ UNCHANGED <<noSubmit, solved, confirmedFlag>>
    BY <1>8 DEF RunDropsDone, submitVars, envVars
  <2>2. CASE pending' = {}
    <3>1. run' = "returned" /\ runResult' = winner
      BY <1>8, <2>2 DEF RunDropsDone
    <3>2. /\ Reported = "running"
          /\ Reported' = IF winner = NoResult THEN "no_result" ELSE winner.status
      BY <2>1, <3>1 DEF Reported
    <3>3. CASE winner = NoResult
      BY <1>6, <2>1, <3>2, <3>3 DEF Verdict!Verdicts
    <3>4. CASE winner # NoResult
      <4>1. ResultIsTerminal(winner)
        BY <1>0, <3>4 DEF RaceInv, ResultsAreTerminal
      <4>2. winner.status = "flag_found" => confirmedFlag # NoFlag
        BY <1>0 DEF SubmitInv, WinnerWasAccepted
      <4>3. QED
        BY <1>6, <2>1, <3>2, <3>4, <4>1, <4>2
           DEF ResultIsTerminal, Verdict!Verdicts, VerdictInv, DryRunNeverSubmits
    <3>5. QED
      BY <3>3, <3>4
  <2>3. CASE pending' # {}
    <3>1. UNCHANGED <<run, runResult>>
      BY <1>8, <2>3 DEF RunDropsDone
    <3>2. QED
      BY <1>2, <2>1, <3>1
  <2>4. QED
    BY <2>2, <2>3
<1>9. ASSUME RunGathered PROVE Verdict!Next
  <2>1. UNCHANGED <<noSubmit, solved, confirmedFlag, runResult>>
    BY <1>9 DEF RunGathered, submitVars, envVars
  <2>2. CASE run = "gathering"
    <3>1. runResult # NoResult
      BY <1>0, <2>2 DEF RaceInv, RunTellsWhatItKnows
    <3>2. Reported = "running" /\ Reported' = runResult.status
      BY <1>9, <2>1, <2>2, <3>1 DEF RunGathered, Reported, NoResult
    <3>3. QED
      BY <1>6, <2>1, <3>1, <3>2, TakenIsTerminal
         DEF Verdict!Verdicts, VerdictInv, FoundIsBacked, DryRunNeverSubmits
  <2>3. CASE run = "aborting"
    <3>1. Reported = "running" /\ Reported' = "no_result"
      BY <1>9, <2>3 DEF RunGathered, Reported
    <3>2. QED
      BY <1>6, <2>1, <3>1 DEF Verdict!Verdicts
  <2>4. QED
    BY <1>9, <2>2, <2>3 DEF RunGathered
<1>10. ASSUME NEW m \in Models,
              \/ TurnStep(m) \/ EnterStep(m) \/ SubmitNotConfirmed(m)
              \/ LoopStep(m) \/ CancelStep(m) \/ CooldownElapses(m)
       PROVE  Unseen
  <2>1. UNCHANGED <<noSubmit, solved, confirmedFlag, run, runResult>>
    BY <1>10 DEF TurnStep, TurnEnds, TurnFails, TurnOutOfQuota, CallSubmit, EnterStep,
                 SubmitAlreadySolved, SubmitRefused, SubmitSends, SubmitNotConfirmed,
                 LoopStep, StartSucceeds, StartFails, SwapSucceeds, SwapFails, CooldownEnds,
                 StopDone, StopRaises, CancelStep, CancelTurn, CancelLoop, CancelStop, CooldownElapses,
                 submitVars, runVars, envVars
  <2>2. QED
    BY <1>2, <2>1
<1>11. ASSUME Kill \/ UNCHANGED vars PROVE Unseen
  BY <1>2, <1>11 DEF Kill, vars, submitVars, runVars, envVars
<1>12. QED
  <2> HIDE DEF Unseen
  <2> QED
    BY <1>1, <1>3, <1>4, <1>5, <1>7, <1>8, <1>9, <1>10, <1>11
       DEF Next, AnswerStep, RunStep

\* Whichever solvers end together, are cancelled or are answered late, the coordinator is
\* told of a found flag only when one is confirmed, of a candidate only in a dry run, and
\* finds the submissions of a swarm that has reported as they were then.
THEOREM SwarmKeepsItsVerdict == Spec => VerdictSpec
<1>1. Init => VerdictInv
  BY DEF Init, VerdictInv, DryRunNeverSubmits, FoundIsBacked, NoResult
<1>2. SwarmInv /\ VerdictInv /\ [Next]_vars => VerdictInv'
  BY VerdictInvStep
<1>3. Init => Verdict!Init
  BY DEF Init, Verdict!Init, Reported
<1>4. QED
  BY <1>1, <1>2, <1>3, VerdictStep, Invariance, PTL DEF Spec, VerdictSpec, Verdict!Spec

\* The promise alone gives finalize_swarm_result what it goes by: a swarm that reports a
\* found flag has a confirmation, and the platform counts the challenge as solved.
THEOREM VerdictIsBacked ==
  VerdictSpec => [](Reported = "flag_found" => confirmedFlag # NoFlag /\ solved)
<1> DEFINE Backed == /\ Reported = "flag_found" => confirmedFlag # NoFlag
                     /\ confirmedFlag # NoFlag => solved
<1>1. Verdict!Init => Backed
  BY DEF Verdict!Init
<1>2. Backed /\ [Verdict!Next]_(Verdict!vars) => Backed'
  BY DEF Verdict!Next, Verdict!vars, Verdict!Solve, Verdict!Confirm, Verdict!Report,
         Verdict!Retire, Verdict!Start, Verdict!Crash, Verdict!Verdicts
<1>3. QED
  BY <1>1, <1>2, PTL DEF VerdictSpec, Verdict!Spec
=============================================================================
