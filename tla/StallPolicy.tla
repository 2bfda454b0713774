----------------------------- MODULE StallPolicy -----------------------------
(***************************************************************************)
(* Guidance for a challenge's first swarm that has come to a halt (a second  *)
(* one counts as finished and is never guided): the snapshot that notices   *)
(* progress (control/state.py), the strategy reducer, the policy's bumps     *)
(* and the advisor's (policy_engine.py), and the event loop that runs them   *)
(* one after the other.  Times are ages, counted up to the threshold they    *)
(* are compared with; the clock goes on between any two readings of it.     *)
(***************************************************************************)
EXTENDS Naturals, Sequences

CONSTANTS Models,        \* the swarm's models
          First,         \* the first of them in alphabetical order
          StallAfter,    \* stall_seconds
          Cooldown,      \* bump_cooldown_seconds
          MaxAdvice      \* bound: bumps in one answer of the advisor

ASSUME StallAssumption == /\ First \in Models
                          /\ StallAfter \in Nat \ {0} /\ Cooldown \in Nat \ {0} /\ MaxAdvice \in Nat

VARIABLES
  ended,        \* models whose solver has ended
  stepped,      \* a solver made a step since the last snapshot
  said,         \* what the traces say since they were last read
  watched,      \* last_progress_at is set
  progressAge,  \* how long ago, at most StallAfter
  bumpAge,      \* how long ago the last bump was, at most Cooldown; Cooldown if none was
  bumps,        \* bump_count, up to 3
  believed,     \* the swarm's working memory
  strategy,     \* stage and active hypothesis
  step,         \* where the event loop is
  todo,         \* bumps still to be executed: the models they name
  quietBumps,   \* history: bumps of the policy since progress was last noticed, up to 4
  guided,       \* history: running solvers that were bumped since then
  doubled       \* history: the advice under way has already bumped

clockVars == <<progressAge, bumpAge>>
solverView == <<ended, stepped, said>>
stateVars == <<watched, believed, strategy>>
bumpVars == <<bumps, quietBumps, guided, doubled>>
stallVars == <<solverView, clockVars, stateVars, bumpVars, step, todo>>

Evidence == {"hypothesis", "verified"}
Saturated(n, most) == IF n < most THEN n + 1 ELSE most

StallTypeOK ==
  /\ ended \subseteq Models /\ stepped \in BOOLEAN /\ watched \in BOOLEAN /\ doubled \in BOOLEAN
  /\ said \subseteq Evidence /\ believed \subseteq Evidence
  /\ progressAge \in 0 .. StallAfter /\ bumpAge \in 0 .. Cooldown
  /\ bumps \in 0 .. 3 /\ quietBumps \in 0 .. 4 /\ guided \subseteq Models
  /\ strategy \in [stage : {"recon", "exploit", "blocked"}, active : BOOLEAN]
  /\ step \in {"events", "read", "policy", "advisor", "asked", "advice"}
  /\ todo \in Seq(Models \union {"unknown"})

StallInit ==
  /\ ended = {} /\ stepped = FALSE /\ said = {}
  /\ watched = FALSE /\ progressAge = 0 /\ bumpAge = Cooldown
  /\ bumps = 0 /\ believed = {} /\ strategy = [stage |-> "recon", active |-> FALSE]
  /\ step = "events" /\ todo = <<>>
  /\ quietBumps = 0 /\ guided = {} /\ doubled = FALSE

Running == ended # Models

-----------------------------------------------------------------------------
(* The clock and the solvers *)

Elapse ==
  /\ progressAge < StallAfter \/ bumpAge < Cooldown
  /\ progressAge' = Saturated(progressAge, StallAfter)
  /\ bumpAge' = Saturated(bumpAge, Cooldown)
  /\ UNCHANGED <<solverView, stateVars, bumpVars, step, todo>>

SolverSteps ==
  /\ Running
  /\ stepped' = TRUE
  /\ \E e \in SUBSET Evidence : said' = said \union e
  /\ UNCHANGED <<ended, clockVars, stateVars, bumpVars, step, todo>>

SolverEnds(m) ==
  /\ m \notin ended
  /\ ended' = ended \union {m}
  /\ UNCHANGED <<stepped, said, clockVars, stateVars, bumpVars, step, todo>>

-----------------------------------------------------------------------------
(* Snapshot, working memory, strategy *)

Stalled == watched /\ progressAge >= StallAfter
Cooled == bumpAge >= Cooldown

EverySnapshotIsProgress == progressAge' = 0   \* mutant: the steps are not compared
NoticeProgress == progressAge' = IF watched /\ ~stepped THEN progressAge ELSE 0

\* build_runtime_state_snapshot of a running swarm: more steps, or the first sight of it.
NoteProgress ==
  IF Running
  THEN /\ watched' = TRUE
       /\ stepped' = FALSE
       /\ NoticeProgress
       /\ quietBumps' = IF stepped THEN 0 ELSE quietBumps
       /\ guided' = IF stepped THEN {} ELSE guided
  ELSE UNCHANGED <<watched, stepped, progressAge, quietBumps, guided>>

\* reduce_strategy_state, with what the memory holds now; three bumps in vain block it.
ReducedUnblocked(memory, stalled) ==   \* mutant
  [stage |-> IF "hypothesis" \in memory THEN "exploit" ELSE "recon", active |-> "hypothesis" \in memory]
Reduced(memory, stalled) ==
  [stage |-> CASE stalled /\ bumps >= 3 /\ "verified" \notin memory -> "blocked"
               [] OTHER -> IF "hypothesis" \in memory THEN "exploit" ELSE "recon",
   active |-> "hypothesis" \in memory]

StalledAfterSnapshot == Running /\ watched' /\ progressAge' >= StallAfter

\* apply_trace_events with what was traced since the last read.
Believe == believed' = believed \union said /\ said' = {}

ReadTick ==
  /\ step = "events"
  /\ NoteProgress
  /\ Believe
  /\ strategy' = Reduced(believed', StalledAfterSnapshot)
  /\ step' = "read"
  /\ UNCHANGED <<ended, bumpAge, bumps, doubled, todo>>

\* The same after actions were executed: the traces are not read again.
RefreshStrategy ==
  /\ NoteProgress
  /\ strategy' = Reduced(believed, StalledAfterSnapshot)
  /\ UNCHANGED <<ended, said, bumpAge, believed, bumps>>

-----------------------------------------------------------------------------
(* Policy and advisor *)

NotCooled == Stalled   \* mutant: the cooldown is forgotten
ShouldBump == Stalled /\ Cooled

\* plan_tick: an active hypothesis of a strategy that is not blocked, for the first model
\* by name, ended or not.  The clock is read anew.
PlanTick ==
  /\ step = "read"
  /\ todo' = IF Running /\ ShouldBump /\ strategy.active /\ strategy.stage # "blocked"
             THEN <<First>> ELSE <<>>
  /\ step' = "policy"
  /\ UNCHANGED <<solverView, clockVars, stateVars, bumpVars>>

\* do_bump_agent: counted whether or not the solver is still there to read it.  The trace
\* notes the guidance of the advisor as a hypothesis, that of the policy is recognised.
DoBump(m, counted) ==
  /\ bumpAge' = 0
  /\ bumps' = Saturated(bumps, 3)
  /\ quietBumps' = IF counted THEN Saturated(quietBumps, 4) ELSE quietBumps
  /\ guided' = guided \union ({m} \ ended)
  /\ IF counted \/ m \in ended THEN UNCHANGED said
                               ELSE said' \in {said, said \union {"hypothesis"}}

\* A model the swarm does not have, and a swarm that has been retired, are not bumped.
ExecuteBump ==
  /\ todo # <<>> /\ step \in {"policy", "advice"}
  /\ todo' = Tail(todo)
  /\ \/ /\ Head(todo) \in Models
        /\ DoBump(Head(todo), step = "policy")
        /\ doubled' = (step = "advice")
     \/ /\ Head(todo) \notin Models \/ ~Running
        /\ UNCHANGED <<said, bumpAge, bumpVars>>
  /\ UNCHANGED <<ended, stepped, progressAge, stateVars, step>>

PolicyTickEnds ==
  /\ step = "policy" /\ todo = <<>>
  /\ step' = "advisor"
  /\ \/ RefreshStrategy
     \/ UNCHANGED <<solverView, clockVars, stateVars, bumps, quietBumps, guided>>
  /\ doubled' = FALSE
  /\ UNCHANGED todo

\* _execute_advisor_tick: who should be bumped is decided with the time before the first
\* question; the answers are suggestions of their own, not compared with each other or
\* with the strategy.
AskAdvisor ==
  /\ step = "advisor"
  /\ step' \in IF Running /\ ShouldBump THEN {"asked", "events"} ELSE {"events"}
  /\ UNCHANGED <<solverView, clockVars, stateVars, bumpVars, todo>>

\* What can be read out of an answer: bumps of any model, or of one that does not exist.
Suggestions == UNION {[1 .. n -> Models \union {"unknown"}] : n \in 0 .. MaxAdvice}

AdvisorAnswers ==
  /\ step = "asked"
  /\ todo' \in Suggestions
  /\ step' = "advice"
  /\ UNCHANGED <<solverView, clockVars, stateVars, bumpVars>>

AdvisorTickEnds ==
  /\ step = "advice" /\ todo = <<>>
  /\ step' = "events"
  /\ \/ RefreshStrategy
     \/ UNCHANGED <<solverView, clockVars, stateVars, bumps, quietBumps, guided>>
  /\ doubled' = FALSE
  /\ UNCHANGED todo

-----------------------------------------------------------------------------
StallGoesOn == \/ ReadTick \/ PlanTick \/ ExecuteBump \/ PolicyTickEnds
               \/ AskAdvisor \/ AdvisorTickEnds
StallNext == \/ Elapse \/ SolverSteps \/ StallGoesOn \/ AdvisorAnswers
             \/ \E m \in Models : SolverEnds(m)

(* The loop waits for events five seconds at most, and time passes.  Nothing bounds   *)
(* the time an advisor takes to answer, and the loop waits for it.                     *)
StallFairness == WF_stallVars(StallGoesOn) /\ WF_stallVars(Elapse)

StallSpec == StallInit /\ [][StallNext]_stallVars
FairStallSpec == StallSpec /\ StallFairness

-----------------------------------------------------------------------------
(* Properties *)

\* As long as nothing is verified, the policy bumps a swarm that makes no progress three
\* times at most, whatever the advisor does meanwhile and wherever between snapshot and
\* plan the swarm comes to count as stalled.
BumpsEnd == "verified" \notin believed => quietBumps <= 3

\* Policy and advisor share one cooldown, although one plans with the state the other has
\* just changed and the advisor answers late: only the second suggestion of one answer may
\* follow the first at once.
GuidanceIsSpaced ==
  [][bumps' # bumps \/ bumpAge' < bumpAge => bumpAge = Cooldown \/ doubled]_stallVars

\* A swarm does not stand still with an open hypothesis for ever: it is bumped, or makes a
\* step, before its three bumps are used up; if the first model's solver has ended, nobody
\* gets the bump, and none is given while the loop waits for an advisor who never answers.
StalledIsBumped ==
  <>[](step = "asked") \/
  []<>(\/ ~watched \/ "hypothesis" \notin believed
       \/ stepped \/ First \in guided \/ First \in ended \/ bumps = 3)
=============================================================================
