---------------------------- MODULE SwarmVerdict ----------------------------
(***************************************************************************)
(* What the coordinator relies on when it waits for the swarm of one        *)
(* challenge (run() in agents/swarm.py, _run_and_cleanup in                 *)
(* agents/coordinator_core.py): the verdict and what the swarm has of the   *)
(* platform fit together, and neither changes until the swarm is retired.   *)
(* ChallengeSwarm gives this promise, Coordinator is built on it.           *)
(***************************************************************************)
VARIABLES noSubmit,    \* the dry run
          solved,      \* platform: the team has solved the challenge
          confirmed,   \* confirmed_submit_status is "correct" or "already_solved"
          verdict      \* "none" without a swarm, "running", or what it ended with

vars == <<noSubmit, solved, confirmed, verdict>>

Verdicts == {"flag_found", "flag_candidate", "no_result"}

Init == /\ noSubmit \in BOOLEAN
        /\ solved \in BOOLEAN
        /\ confirmed = FALSE
        /\ verdict \in {"none", "running"}

\* By a flag of the swarm, whose answer may be lost, or by a teammate's.
Solve == solved' = TRUE /\ UNCHANGED <<noSubmit, confirmed, verdict>>

\* The swarm is told that a flag of its own is right, or that the challenge is solved.
Confirm == /\ verdict = "running"
           /\ ~noSubmit
           /\ solved' = TRUE
           /\ confirmed' = TRUE
           /\ UNCHANGED <<noSubmit, verdict>>

\* A timeout may come after the confirmation, so that "no_result" is always possible.
Report(v) == /\ verdict = "running"
             /\ v = "flag_found" => confirmed
             /\ v = "flag_candidate" => noSubmit /\ ~confirmed
             /\ verdict' = v
             /\ UNCHANGED <<noSubmit, solved, confirmed>>

\* The record of the result stays; the swarm is forgotten.
Retire == /\ verdict \in Verdicts
          /\ verdict' = "none"
          /\ UNCHANGED <<noSubmit, solved, confirmed>>

\* The next swarm of the challenge knows nothing of what the last one was told.
Start == /\ verdict # "running"
         /\ verdict' = "running"
         /\ confirmed' = FALSE
         /\ UNCHANGED <<noSubmit, solved>>

\* The process of the coordinator ends.
Crash == /\ verdict' = "none"
         /\ confirmed' = FALSE
         /\ UNCHANGED <<noSubmit, solved>>

Next == Solve \/ Confirm \/ (\E v \in Verdicts : Report(v)) \/ Retire \/ Start \/ Crash

Spec == Init /\ [][Next]_vars
=============================================================================
