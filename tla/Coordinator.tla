---------------------------- MODULE Coordinator ----------------------------
(***************************************************************************)
(* The competition coordinator: run_event_loop and the swarm tasks it        *)
(* starts (agents/coordinator_loop.py, agents/coordinator_core.py), the      *)
(* poller that feeds it (poller.py), what it records of every challenge      *)
(* (challenge_manager.py, persistence.py) and how a finished swarm is        *)
(* wound up (solve_lifecycle.py).  A swarm is seen from outside: it may be   *)
(* told that the platform accepted its flag, and it ends with a confirmed    *)
(* flag, with a candidate, or with nothing (ChallengeSwarm has the inside).  *)
(***************************************************************************)
EXTENDS Naturals, FiniteSets

CONSTANTS Challenges,      \* naturals, in the order of the sorted names
          MayBeUnsupported,   \* those whose metadata may turn out to be unsupported
          NeedsEnv,        \* meta.requires_env_start
          MaxConcurrent,   \* max_concurrent_challenges
          MaxAttempts,     \* max_attempts_per_challenge
          MaxHides,        \* bound: lists from which a known challenge is missing
          MaxRestarts      \* bound: restarts of the process

ASSUME ChallengesAssumption == /\ Challenges \subseteq Nat /\ IsFiniteSet(Challenges)
                               /\ MayBeUnsupported \subseteq Challenges
                               /\ NeedsEnv \subseteq Challenges
ASSUME SettingsAssumption == /\ MaxConcurrent \in Nat \ {0} /\ MaxAttempts \in Nat \ {0}
                             /\ MaxHides \in Nat /\ MaxRestarts \in Nat

VARIABLES
  noSubmit,     \* deps.no_submit: the dry run, fixed at the start
  platSolved,   \* platform: challenges the team has solved
  hides,        \* platform: incomplete lists so far
  known, knownSolved,   \* the poller's view of the platform
  news, solves,         \* its queued new_challenge and challenge_solved events
  phase,        \* where the event loop is
  todo,         \* new challenges the loop has still to auto-spawn
  tracked,      \* names in the last snapshot, or with a local directory
  swarms,       \* deps.swarms: challenges whose swarm is registered
  task,         \* of the last swarm of a challenge: its asyncio task
  cancelled,    \* challenges whose swarm's cancel_event was set by kill()
  accepted,     \* challenges whose swarm was told that the flag is right
  results,      \* deps.results[...]["solve_status"]
  cleanup,      \* deps.results[...]["env_cleanup_status"]
  released,     \* deps.released_envs
  releases,     \* history: environments this process has released, by challenge
  entry,        \* ChallengeManager.challenges
  disk,         \* the state file
  restarts      \* restarts so far

platformVars == <<platSolved, hides>>
pollVars == <<known, knownSolved, news, solves>>
loopVars == <<phase, todo, tracked>>
swarmVars == <<swarms, task, cancelled, accepted>>
resultVars == <<results, cleanup, released, releases>>
managerVars == <<entry, disk>>
vars == <<noSubmit, platformVars, pollVars, loopVars, swarmVars, resultVars, managerVars, restarts>>

Tiers == {"fast", "expert", "racing"}
Entries == [status : {"unknown", "triaged", "solving", "solved", "confirmed", "failed"},
            attempts : Nat, tier : Tiers]
Unknown == [status |-> "unknown", attempts |-> 0, tier |-> "fast"]

Live == {c \in Challenges : task[c] \in {"running", "releasing"}}
Registered == swarms \intersect Live   \* the swarm_tasks that are not done

TypeOK ==
  /\ noSubmit \in BOOLEAN
  /\ platSolved \subseteq Challenges /\ hides \in 0 .. MaxHides
  /\ known \subseteq Challenges /\ knownSolved \subseteq Challenges
  /\ news \subseteq Challenges /\ solves \subseteq Challenges
  /\ phase \in {"boot", "bootPlanning", "bootSpawning", "waiting", "spawning", "planning",
                "checking", "stopped"}
  /\ todo \subseteq Challenges /\ tracked \subseteq Challenges
  /\ swarms \subseteq Challenges
  /\ task \in [Challenges -> {"none", "running", "releasing", "done"}]
  /\ cancelled \subseteq Challenges /\ accepted \subseteq Challenges
  /\ results \in [Challenges -> {"none", "no_result", "skipped", "flag_found", "flag_candidate"}]
  /\ cleanup \in [Challenges -> {"skipped", "released", "failed"}]
  /\ released \subseteq Challenges
  /\ releases \in [Challenges -> Nat]
  /\ entry \in [Challenges -> Entries]
  /\ disk \in [Challenges -> Entries]
  /\ restarts \in 0 .. MaxRestarts

Init ==
  /\ noSubmit \in BOOLEAN
  /\ platSolved = {} /\ hides = 0
  /\ known = {} /\ knownSolved = {} /\ news = {} /\ solves = {}
  /\ phase = "boot" /\ todo = {} /\ tracked = {}
  /\ swarms = {} /\ task = [c \in Challenges |-> "none"]
  /\ cancelled = {} /\ accepted = {}
  /\ results = [c \in Challenges |-> "none"]
  /\ cleanup = [c \in Challenges |-> "skipped"]
  /\ released = {} /\ releases = [c \in Challenges |-> 0]
  /\ entry = [c \in Challenges |-> Unknown]
  /\ disk = [c \in Challenges |-> Unknown]
  /\ restarts = 0

-----------------------------------------------------------------------------
(* ChallengeManager: every record_... method changes the entry and saves the *)
(* whole state, which replaces the file atomically.                          *)

SetEntry(c, e) == entry' = [entry EXCEPT ![c] = e] /\ disk' = entry'
SetUnsaved(c, e) == entry' = [entry EXCEPT ![c] = e] /\ UNCHANGED disk   \* mutant: no save_state

\* What the heuristic triage may suggest for a new challenge.
TriageTiers == {"fast", "expert"}

\* register_challenge, the triage of a new entry, and record_solving: an entry keeps its
\* tier and attempts, whatever its status.
RecordSolving(c) ==
  \E tier \in IF entry[c].status = "unknown" THEN TriageTiers ELSE {entry[c].tier} :
    SetEntry(c, [entry[c] EXCEPT !.status = "solving", !.tier = tier])

UpgradeToNoTier(tier) == IF tier = "fast" THEN "expert" ELSE "tier 3"   \* mutant: one too many
Upgrade(tier) == IF tier = "fast" THEN "expert" ELSE "racing"

Failed(e) ==
  LET n == e.attempts + 1
  IN IF n >= MaxAttempts
     THEN [e EXCEPT !.attempts = n, !.status = "failed"]
     ELSE [e EXCEPT !.attempts = n, !.status = "triaged", !.tier = Upgrade(@)]

FailureUnsaved(c) == SetUnsaved(c, Failed(entry[c]))
RecordFailure(c) == SetEntry(c, Failed(entry[c]))
RecordCandidate(c) == SetEntry(c, [entry[c] EXCEPT !.status = "solved"])
RecordConfirmed(c) == SetEntry(c, [entry[c] EXCEPT !.status = "confirmed"])

\* _load_persisted_state: a challenge being solved when the process died is ready again.
Restored(e) == IF e.status = "solving" THEN [e EXCEPT !.status = "triaged"] ELSE e

-----------------------------------------------------------------------------
(* do_spawn_swarm *)

\* retire_finished_swarms takes those whose task is done (mutants: or cancelled; none).
RetireCancelled == {c \in swarms : c \notin Live \/ c \in cancelled}
RetireNobody == {}
Retired == swarms \ Live

\* A swarm is created for c; rest are the swarms that stay registered.
Launch(c, rest) ==
  /\ swarms' = rest \union {c}
  /\ task' = [task EXCEPT ![c] = "running"]
  /\ cancelled' = cancelled \ {c}
  /\ accepted' = accepted \ {c}
  /\ RecordSolving(c)
  /\ UNCHANGED resultVars

NoLaunch(rest) == swarms' = rest /\ UNCHANGED <<task, cancelled, accepted, managerVars>>

Skip(c, rest) == /\ NoLaunch(rest)
                 /\ results' = [results EXCEPT ![c] = "skipped"]
                 /\ cleanup' = [cleanup EXCEPT ![c] = "skipped"]
                 /\ UNCHANGED <<released, releases>>

Admits(c, rest) == Cardinality(rest) < MaxConcurrent /\ c \notin rest

\* At capacity or running already; a supported challenge whose files cannot be pulled or
\* whose environment cannot be prepared; an unsupported one; a swarm.
DoSpawn(c) ==
  LET rest == swarms \ Retired IN
  \/ ~Admits(c, rest) /\ NoLaunch(rest) /\ UNCHANGED resultVars
  \/ Admits(c, rest) /\ NoLaunch(rest) /\ UNCHANGED resultVars
  \/ Admits(c, rest) /\ c \in MayBeUnsupported /\ Skip(c, rest)
  \/ Admits(c, rest) /\ Launch(c, rest)

-----------------------------------------------------------------------------
(* The poller: its two requests and what it makes of the answers.  The list  *)
(* of solved challenges may come back empty.                                 *)

Poll(names, solvedNames) ==
  /\ phase \notin {"boot", "stopped"}
  /\ known = {} \/ Cardinality(names) >= Cardinality(known) \div 2
  /\ knownSolved = {} \/ solvedNames # {}
  /\ hides' = IF known \subseteq names THEN hides ELSE hides + 1
  /\ hides' <= MaxHides
  /\ news' = news \union (names \ known)
  /\ solves' = solves \union (solvedNames \ knownSolved)
  /\ known' = names
  /\ knownSolved' = solvedNames
  /\ UNCHANGED <<noSubmit, platSolved, loopVars, swarmVars, resultVars, managerVars, restarts>>

-----------------------------------------------------------------------------
(* The event loop *)

\* poller.start(): the first poll, which may fail at either request, raises no events.
Seed(names, solvedNames) ==
  /\ phase = "boot"
  /\ known' = names
  /\ knownSolved' = solvedNames
  /\ phase' = "bootPlanning"
  /\ UNCHANGED <<noSubmit, platformVars, news, solves, todo, tracked, swarmVars, resultVars,
                 managerVars, restarts>>

\* _effective_solved_names
Handled == knownSolved \union {c \in Challenges : \/ results[c] = "skipped"
                                                  \/ noSubmit /\ results[c] \in {"flag_found", "flag_candidate"}}

\* The policy tick sees the snapshot taken just before: a swarm counts as active until
\* its result is known, and a challenge that has a result, or a registered swarm, is in
\* competition.swarms and never a target.
Active == {c \in swarms : results[c] = "none" /\ task[c] # "done"}
Candidates == {c \in tracked \union known :
                 c \notin knownSolved /\ c \notin swarms /\ results[c] = "none"}
IsTarget(c) == /\ Cardinality(Active) < MaxConcurrent
               /\ c \in Candidates
               /\ \A d \in Candidates : c <= d

AfterPlanning ==
  /\ tracked' = tracked \union known
  /\ IF phase = "bootPlanning"
     THEN phase' = "bootSpawning" /\ todo' = known \ Handled
     ELSE phase' = "checking" /\ UNCHANGED todo
  /\ UNCHANGED <<noSubmit, platformVars, pollVars, restarts>>

PlanSpawns(c) ==
  /\ phase \in {"bootPlanning", "planning"}
  /\ IsTarget(c)
  /\ DoSpawn(c)
  /\ AfterPlanning

PlanIdles ==
  /\ phase \in {"bootPlanning", "planning"}
  /\ \A c \in Challenges : ~IsTarget(c)
  /\ NoLaunch(swarms \ Retired)
  /\ UNCHANGED resultVars
  /\ AfterPlanning

\* get_event and drain_events: all that is queued, or nothing after a while.
DrainEvents == news' = {} /\ solves' = {}

\* Kill the swarms of solved challenges, then spawn for the new ones.
HandleEvents ==
  /\ phase = "waiting"
  /\ cancelled' = cancelled \union (solves \intersect swarms)
  /\ todo' = news
  /\ DrainEvents
  /\ phase' = "spawning"
  /\ UNCHANGED <<noSubmit, platformVars, known, knownSolved, tracked, swarms, task, accepted,
                 resultVars, managerVars, restarts>>

\* _auto_spawn_one
AutoSpawn(c) ==
  /\ phase \in {"bootSpawning", "spawning"}
  /\ c \in todo
  /\ todo' = todo \ {c}
  /\ IF c \in swarms \/ Cardinality(Registered) >= MaxConcurrent
     THEN UNCHANGED <<swarmVars, resultVars, managerVars>>
     ELSE DoSpawn(c)
  /\ UNCHANGED <<noSubmit, platformVars, pollVars, phase, tracked, restarts>>

AutoSpawned ==
  /\ phase \in {"bootSpawning", "spawning"}
  /\ todo = {}
  /\ phase' = IF phase = "bootSpawning" THEN "waiting" ELSE "planning"
  /\ UNCHANGED <<noSubmit, platformVars, pollVars, todo, tracked, swarmVars, resultVars,
                 managerVars, restarts>>

\* _evaluate_all_solved_policy (mutant: a swarm that is still running does not count)
AllHandledIgnoringSwarms == known # {} /\ known \subseteq Handled
AllHandled == known # {} /\ known \subseteq Handled /\ Registered = {}

\* The policy "exit" stops the loop at once, "idle" after a while, "wait" never.
CheckExit ==
  /\ phase = "checking"
  /\ phase' \in IF AllHandled THEN {"waiting", "stopped"} ELSE {"waiting"}
  /\ UNCHANGED <<noSubmit, platformVars, pollVars, todo, tracked, swarmVars, resultVars,
                 managerVars, restarts>>

-----------------------------------------------------------------------------
(* A swarm's task: run(), under the tier's timeout, then                     *)
(* finalize_swarm_result.                                                    *)

Record(c, status, env) == /\ results' = [results EXCEPT ![c] = status]
                          /\ cleanup' = [cleanup EXCEPT ![c] = env]
                          /\ task' = [task EXCEPT ![c] = "done"]

Running(c) == phase # "stopped" /\ task[c] = "running"

PlatformAccepts(c) ==
  /\ Running(c)
  /\ ~noSubmit
  /\ c \notin accepted
  /\ platSolved' = platSolved \union {c}
  /\ accepted' = accepted \union {c}
  /\ UNCHANGED <<noSubmit, hides, pollVars, loopVars, swarms, task, cancelled, resultVars, managerVars,
                 restarts>>

\* No result: every solver left, or the timeout expired; the challenge counts as failed.
SwarmFindsNothing(c) ==
  /\ Running(c)
  /\ Record(c, "no_result", "skipped")
  /\ RecordFailure(c)
  /\ UNCHANGED <<noSubmit, platformVars, pollVars, loopVars, swarms, cancelled, accepted, released,
                 releases, restarts>>

CandidateConfirmed(c) == RecordConfirmed(c)   \* mutant: a candidate is as good
CandidateRecorded(c) == RecordCandidate(c)

\* In a dry run a candidate ends the race.
SwarmFindsCandidate(c) ==
  /\ Running(c)
  /\ noSubmit
  /\ Record(c, "flag_candidate", "skipped")
  /\ CandidateRecorded(c)
  /\ UNCHANGED <<noSubmit, platformVars, pollVars, loopVars, swarms, cancelled, accepted, released,
                 releases, restarts>>

ReleasesAgain(c) == c \in NeedsEnv   \* mutant: released_envs is not consulted
MustRelease(c) == c \in NeedsEnv /\ c \notin released

SwarmFindsFlag(c) ==
  /\ Running(c)
  /\ c \in accepted
  /\ IF MustRelease(c)
     THEN task' = [task EXCEPT ![c] = "releasing"] /\ UNCHANGED <<results, cleanup, managerVars>>
     ELSE Record(c, "flag_found", "skipped") /\ RecordConfirmed(c)
  /\ UNCHANGED <<noSubmit, platformVars, pollVars, loopVars, swarms, cancelled, accepted, released,
                 releases, restarts>>

EnvReleased(c) ==
  /\ phase # "stopped"
  /\ task[c] = "releasing"
  /\ released' = released \union {c}
  /\ releases' = [releases EXCEPT ![c] = @ + 1]
  /\ Record(c, "flag_found", "released")
  /\ RecordConfirmed(c)
  /\ UNCHANGED <<noSubmit, platformVars, pollVars, loopVars, swarms, cancelled, accepted, restarts>>

EnvReleaseFails(c) ==
  /\ phase # "stopped"
  /\ task[c] = "releasing"
  /\ Record(c, "flag_found", "failed")
  /\ RecordConfirmed(c)
  /\ UNCHANGED <<noSubmit, platformVars, pollVars, loopVars, swarms, cancelled, accepted, released,
                 releases, restarts>>

-----------------------------------------------------------------------------
TeammateSolves(c) ==
  /\ platSolved' = platSolved \union {c}
  /\ c \notin platSolved
  /\ UNCHANGED <<noSubmit, hides, pollVars, loopVars, swarmVars, resultVars, managerVars, restarts>>

\* The process ends, by its own exit, a signal or a crash at any point, and is started
\* again with empty deps and what the state file has.  It finds the challenges that have
\* a directory, those with an entry included.
Restart ==
  /\ restarts < MaxRestarts
  /\ restarts' = restarts + 1
  /\ known' = {} /\ knownSolved' = {} /\ news' = {} /\ solves' = {}
  /\ phase' = "boot" /\ todo' = {}
  /\ swarms' = {} /\ task' = [c \in Challenges |-> "none"]
  /\ cancelled' = {} /\ accepted' = {}
  /\ results' = [c \in Challenges |-> "none"]
  /\ cleanup' = [c \in Challenges |-> "skipped"]
  /\ released' = {} /\ releases' = [c \in Challenges |-> 0]
  /\ tracked' \in {s \in SUBSET tracked : \A c \in tracked : disk[c] # Unknown => c \in s}
  /\ entry' = [c \in Challenges |-> Restored(disk[c])]
  /\ UNCHANGED <<noSubmit, platformVars, disk>>

-----------------------------------------------------------------------------
SeedStep == \E names \in SUBSET Challenges, s \in {{}, platSolved} :
              (names = {} => s = {}) /\ Seed(names, s)
PollStep == \E names \in SUBSET Challenges, s \in {{}, platSolved} : Poll(names, s)
PlanStep == PlanIdles \/ \E c \in Challenges : PlanSpawns(c)
SpawnStep == AutoSpawned \/ \E c \in Challenges : AutoSpawn(c)
LoopStep == SeedStep \/ PlanStep \/ SpawnStep \/ HandleEvents \/ CheckExit
SwarmEnds(c) == SwarmFindsNothing(c) \/ SwarmFindsCandidate(c) \/ SwarmFindsFlag(c)
ReleaseEnds(c) == EnvReleased(c) \/ EnvReleaseFails(c)

Next ==
  \/ LoopStep
  \/ PollStep
  \/ \E c \in Challenges : \/ PlatformAccepts(c) \/ SwarmEnds(c) \/ ReleaseEnds(c)
                           \/ TeammateSolves(c)
  \/ Restart

Spec == Init /\ [][Next]_vars

(* The loop goes round every five seconds, as long as its advisor, if it has   *)
(* one, answers; the tier's timeout ends a swarm and the HTTP timeout a        *)
(* release; a challenge that is tried again and again is in the end pulled and *)
(* prepared.                                                                   *)
Spawned(c) == PlanSpawns(c) /\ (task'[c] = "running" \/ results'[c] = "skipped")
Fairness ==
  /\ WF_vars(LoopStep)
  /\ \A c \in Challenges : /\ WF_vars(SwarmEnds(c))
                           /\ WF_vars(ReleaseEnds(c))
                           /\ SF_vars(Spawned(c))
FairSpec == Spec /\ Fairness

-----------------------------------------------------------------------------
(* Properties *)

\* However swarms are killed, time out and finish while others are spawned, every swarm
\* that runs is registered, so that it is killed, counted and never started twice, and
\* there are at most MaxConcurrent of them.
SwarmsAreOwned == Live \subseteq swarms /\ Cardinality(Live) <= MaxConcurrent

\* A challenge solved twice, after it was hidden and listed again, gives its environment
\* back once, and nobody's environment goes before the platform accepted the flag.
ReleasedOnceSolved ==
  \A c \in Challenges : releases[c] <= 1 /\ (releases[c] > 0 => c \in platSolved)

\* "confirmed" in the state file, across restarts and in dry runs, means solved on the
\* platform.
ConfirmedIsSolved == \A c \in Challenges : disk[c].status = "confirmed" => c \in platSolved

\* The loop's own exit abandons no running swarm, no release under way and no challenge
\* that is neither solved nor skipped nor, in a dry run, has a flag.
ExitsWhenHandled ==
  phase = "stopped" =>
    /\ Live = {}
    /\ \A c \in known : \/ c \in platSolved \/ results[c] = "skipped"
                        \/ noSubmit /\ results[c] \in {"flag_found", "flag_candidate"}

\* The attempts and the tier of a challenge never go back, across crashes and restarts.
Rank(tier) == CASE tier = "fast" -> 0 [] tier = "expert" -> 1 [] tier = "racing" -> 2
EffortIsKept ==
  [][\A c \in Challenges : /\ entry'[c].attempts >= entry[c].attempts
                           /\ Rank(entry'[c].tier) >= Rank(entry[c].tier)]_vars

\* The swarm of c, as the coordinator sees it.
Reported(c) == CASE task[c] = "running" -> "running"
                 [] task[c] = "releasing" -> "flag_found"
                 [] OTHER -> IF c \in swarms THEN results[c] ELSE "none"

Swarm(c) == INSTANCE SwarmVerdict
              WITH solved <- c \in platSolved, confirmed <- c \in accepted,
                   verdict <- Reported(c)

\* However swarms are killed, retired and started again, each keeps the promise that
\* ChallengeSwarm gives: its verdict stands until it is retired, what it was told of a
\* flag is not forgotten while it runs, and its successor starts with neither.
SwarmsKeepVerdicts ==
  /\ \A c \in Challenges : Swarm(c)!Init
  /\ [][\A c \in Challenges : [Swarm(c)!Next]_(Swarm(c)!vars)]_vars

\* A challenge the coordinator knows is tried, skipped or solved in the end, also when
\* others compete for the capacity and fail, unless the process stops or is restarted
\* and forgets it.
EveryChallengeIsTried ==
  \A c \in Challenges :
    (c \in tracked) ~> \/ task[c] # "none" \/ results[c] # "none" \/ c \in platSolved
                       \/ phase = "stopped" \/ c \notin tracked

\* Where the platform accepted the flag of a swarm that has ended, its environment was
\* released, or the release failed.
ConfirmedEnvReleased ==
  \A c \in NeedsEnv : task[c] = "done" /\ c \in accepted =>
                        c \in released \/ cleanup[c] = "failed"

\* Once the loop has handled its events, a swarm of a challenge the poller knows to be
\* solved has been killed.
SolvedSwarmsAreKilled ==
  phase = "waiting" =>
    \A c \in knownSolved \ solves : task[c] = "running" => c \in cancelled

\* A failed challenge that was upgraded to the next tier is dispatched again.
EscalationIsDispatched ==
  \A c \in Challenges :
    (entry[c].status = "triaged" /\ entry[c].attempts > 0)
      ~> (entry[c].status # "triaged" \/ c \in platSolved \/ phase = "stopped")
=============================================================================
