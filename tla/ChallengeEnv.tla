---------------------------- MODULE ChallengeEnv ----------------------------
(***************************************************************************)
(* A Lingxu challenge whose environment has to be started on the platform    *)
(* (platforms/lingxu_event_ctf.py): how do_spawn_swarm pulls and prepares it  *)
(* (coordinator_core.py), what metadata.yml keeps of that across swarms and   *)
(* restarts, and how finalize_swarm_result gives the environment back         *)
(* (solve_lifecycle.py).  The single-challenge command (cli.py), which runs   *)
(* the same swarms in stages, prepares nothing.                               *)
(*                                                                           *)
(* An address is the number of the environment it leads to; 0 is no address. *)
(***************************************************************************)
EXTENDS Naturals

CONSTANTS Commands,     \* the commands somebody may run: "coordinator", "single"
          Stages,       \* stages of the single-challenge command
          Awkward,      \* environments with a private address, or several ones
          MaxEnvs,      \* bound: environments the platform starts
          MaxSwarms,    \* bound: swarms
          MaxCrashes    \* bound: restarts of the process

ASSUME EnvAssumption ==
  /\ Commands \subseteq {"coordinator", "single"} /\ Stages \in 1 .. 2
  /\ MaxEnvs \in Nat \ {0} /\ Awkward \subseteq 1 .. MaxEnvs
  /\ MaxSwarms \in Nat \ {0} /\ MaxCrashes \in Nat

VARIABLES
  command,    \* the command that runs
  env,        \* platform: the environment that runs, or 0
  envs,       \* platform: environments started so far
  onDisk,     \* metadata.yml
  meta,       \* deps.challenge_metas
  preparing,  \* the request do_spawn_swarm waits for, or "idle"
  swarm,      \* the challenge's swarm
  target,     \* the address its solvers were given
  owes,       \* requires_env_start, as this swarm was told
  flagged,    \* its confirmed_submit_status
  stage,      \* stages of the single-challenge command so far
  envCleanup, \* env_cleanup_status of the last result
  releasedKey,   \* the challenge is in released_envs
  started,    \* swarms so far
  crashes,
  torn,       \* history: a write of metadata.yml was cut short
  lost        \* history: a timeout or a crash came between an accepted flag and its result

envVars == <<env, envs>>
metaVars == <<onDisk, meta, torn>>
envSwarmVars == <<swarm, target, owes, flagged, stage, started>>
cleanupVars == <<envCleanup, releasedKey, lost>>
challengeVars == <<command, envVars, metaVars, preparing, envSwarmVars, cleanupVars, crashes>>

Metadata == [exists : BOOLEAN, needsEnv : BOOLEAN, connection : 0 .. MaxEnvs]
Absent == [exists |-> FALSE, needsEnv |-> FALSE, connection |-> 0]
WithAddress(n) == [exists |-> TRUE, needsEnv |-> TRUE, connection |-> n]

EnvTypeOK ==
  /\ command \in Commands
  /\ env \in 0 .. MaxEnvs /\ envs \in 0 .. MaxEnvs
  /\ onDisk \in Metadata /\ meta \in Metadata
  /\ preparing \in {"idle", "detail", "begin", "run", "addr"}
  /\ swarm \in {"none", "running", "releasing", "done"}
  /\ target \in 0 .. MaxEnvs /\ owes \in BOOLEAN /\ flagged \in BOOLEAN
  /\ stage \in 0 .. Stages /\ started \in 0 .. MaxSwarms /\ crashes \in 0 .. MaxCrashes
  /\ envCleanup \in {"skipped", "released", "failed"} /\ releasedKey \in BOOLEAN
  /\ torn \in BOOLEAN /\ lost \in BOOLEAN

\* The challenge is new, pulled, or prepared by an earlier process, whose environment may
\* have gone.
EnvInit ==
  /\ command \in Commands
  /\ \/ onDisk \in {Absent, WithAddress(0)} /\ env = 0 /\ envs = 0
     \/ onDisk = WithAddress(1) /\ env \in {0, 1} /\ envs = 1
  /\ meta = onDisk
  /\ preparing = "idle" /\ swarm = "none" /\ target = 0 /\ owes = FALSE /\ flagged = FALSE
  /\ stage = 0 /\ envCleanup = "skipped" /\ releasedKey = FALSE
  /\ started = 0 /\ crashes = 0 /\ torn = FALSE /\ lost = FALSE

-----------------------------------------------------------------------------
(* metadata.yml, which write_text truncates first.  What is left of a write   *)
(* that fails is nothing, or the first lines: requires_env_start is not one.  *)

Cut(m) == {Absent, [m EXCEPT !.needsEnv = FALSE, !.connection = 0], [m EXCEPT !.needsEnv = FALSE]}

\* from_yaml of a path that is known; an empty file is a challenge without requirements.
FromYaml == [onDisk EXCEPT !.exists = TRUE]

-----------------------------------------------------------------------------
(* do_spawn_swarm *)

\* A swarm with metadata m.
SwarmStarts(m) ==
  /\ meta' = m
  /\ swarm' = "running" /\ started' = started + 1
  /\ target' = m.connection /\ owes' = m.needsEnv /\ flagged' = FALSE
  /\ preparing' = "idle"

\* Also when the challenge was solved: one that was hidden and is listed again counts as new.
MaySpawn == /\ command = "coordinator" /\ preparing = "idle"
            /\ swarm \in {"none", "done"} /\ started < MaxSwarms

\* An address that is private, or more than one.
Unusable(n) == n \in Awkward
NeedsPrepare(m) == m.needsEnv /\ (m.connection = 0 \/ Unusable(m.connection))

SpawnUnprepared ==
  /\ MaySpawn /\ meta.exists /\ ~NeedsPrepare(meta)
  /\ SwarmStarts(meta)
  /\ UNCHANGED <<command, envVars, onDisk, torn, stage, cleanupVars, crashes>>

SpawnPulls ==
  /\ MaySpawn /\ ~meta.exists
  /\ preparing' = "detail"
  /\ UNCHANGED <<command, envVars, metaVars, envSwarmVars, cleanupVars, crashes>>

\* pull_challenge; the preparation follows, with the file as it is.
DetailAnswered ==
  /\ preparing = "detail"
  /\ onDisk' = WithAddress(0) /\ meta' = WithAddress(0)
  /\ preparing' = "begin"
  /\ UNCHANGED <<command, envVars, torn, envSwarmVars, cleanupVars, crashes>>

\* prepare_challenge looks at the file again.  Mutant: it starts an environment whenever
\* the address is one that _needs_prepare complains about.
FileUsable == ~NeedsPrepare(onDisk)
NothingToPrepare == onDisk.needsEnv => onDisk.connection # 0

SpawnPrepares ==
  /\ MaySpawn /\ meta.exists /\ NeedsPrepare(meta)
  /\ ~NothingToPrepare
  /\ preparing' = "begin"
  /\ UNCHANGED <<command, envVars, metaVars, envSwarmVars, cleanupVars, crashes>>

SpawnPrepared ==
  /\ MaySpawn /\ meta.exists /\ NeedsPrepare(meta)
  /\ NothingToPrepare
  /\ SwarmStarts(FromYaml)
  /\ UNCHANGED <<command, envVars, onDisk, torn, stage, cleanupVars, crashes>>

\* begin/ may say that it was begun before.
BeginAnswered ==
  /\ preparing = "begin"
  /\ preparing' = "run"
  /\ UNCHANGED <<command, envVars, metaVars, envSwarmVars, cleanupVars, crashes>>

\* The platform starts an environment, if none runs.
PlatformStarts == /\ env = 0 /\ envs < MaxEnvs
                  /\ envs' = envs + 1 /\ env' = envs + 1

RunAnswered ==
  /\ preparing = "run"
  /\ preparing' = "addr"
  /\ PlatformStarts \/ (env # 0 /\ UNCHANGED envVars)
  /\ UNCHANGED <<command, metaVars, envSwarmVars, cleanupVars, crashes>>

\* Any request fails, is refused, or has its effect and no answer.
PreparationFails ==
  /\ preparing # "idle"
  /\ preparing' = "idle"
  /\ (preparing = "run" /\ PlatformStarts) \/ UNCHANGED envVars
  /\ UNCHANGED <<command, metaVars, envSwarmVars, cleanupVars, crashes>>

UsableAddress == env # 0

\* addr/, and without another await the file and the swarm.
AddrAnswered ==
  /\ preparing = "addr" /\ UsableAddress
  /\ onDisk' = [onDisk EXCEPT !.connection = env]
  /\ SwarmStarts([FromYaml EXCEPT !.connection = env])
  /\ UNCHANGED <<command, envVars, torn, stage, cleanupVars, crashes>>

MetadataWriteFails ==
  /\ preparing = "addr" /\ env # 0
  /\ onDisk' \in Cut(WithAddress(env)) /\ torn' = TRUE
  /\ preparing' = "idle"
  /\ UNCHANGED <<command, envVars, meta, envSwarmVars, cleanupVars, crashes>>

-----------------------------------------------------------------------------
(* The single-challenge command: one stage after the other, with the metadata *)
(* it read at its start.                                                      *)

StageStarts ==
  /\ command = "single" /\ meta.exists /\ swarm = "none"
  /\ stage < Stages /\ started < MaxSwarms
  /\ stage' = stage + 1
  /\ SwarmStarts(meta)
  /\ UNCHANGED <<command, envVars, onDisk, torn, cleanupVars, crashes>>

-----------------------------------------------------------------------------
(* The swarm and finalize_swarm_result *)

SwarmAccepted ==
  /\ swarm = "running" /\ ~flagged
  /\ flagged' = TRUE
  /\ UNCHANGED <<command, envVars, metaVars, preparing, swarm, target, owes, stage, started,
                 cleanupVars, crashes>>

\* Mutant: only a swarm that was given an address releases the environment.
OwesIfAddressed == owes /\ ~releasedKey /\ target # 0
OwesRelease == owes /\ ~releasedKey

SwarmConfirms ==
  /\ swarm = "running" /\ flagged
  /\ swarm' = IF OwesRelease THEN "releasing" ELSE "done"
  /\ envCleanup' = "skipped"
  /\ UNCHANGED <<command, envVars, metaVars, preparing, target, owes, flagged, stage, started,
                 releasedKey, lost, crashes>>

\* The solvers give up or the timeout expires; then the platform's verdict is forgotten.
SwarmFindsNoFlag ==
  /\ swarm = "running"
  /\ swarm' = IF command = "single" /\ stage < Stages THEN "none" ELSE "done"
  /\ lost' = (lost \/ flagged)
  /\ envCleanup' = "skipped" /\ flagged' = FALSE
  /\ UNCHANGED <<command, envVars, metaVars, preparing, target, owes, stage, started, releasedKey,
                 crashes>>

\* "No environment is running" and "it is being released" count as success.
ReleaseAnswered ==
  /\ swarm = "releasing"
  /\ env' = 0
  /\ swarm' = "done" /\ envCleanup' = "released" /\ releasedKey' = TRUE
  /\ UNCHANGED <<command, envs, metaVars, preparing, target, owes, flagged, stage, started, lost,
                 crashes>>

ReleaseFails ==
  /\ swarm = "releasing"
  /\ env' \in {env, 0}
  /\ swarm' = "done" /\ envCleanup' = "failed"
  /\ UNCHANGED <<command, envs, metaVars, preparing, target, owes, flagged, stage, started,
                 releasedKey, lost, crashes>>

-----------------------------------------------------------------------------
EnvExpires ==
  /\ env # 0
  /\ env' = 0
  /\ UNCHANGED <<command, envs, metaVars, preparing, envSwarmVars, cleanupVars, crashes>>

\* A crash, in the write of metadata.yml perhaps, and a new start.  An empty file is
\* preloaded as a challenge of another name.
EnvRestart ==
  /\ crashes < MaxCrashes
  /\ crashes' = crashes + 1
  /\ command' \in Commands
  /\ \/ UNCHANGED <<onDisk, torn>>
     \/ preparing = "addr" /\ env # 0 /\ onDisk' \in Cut(WithAddress(env)) /\ torn' = TRUE
  /\ meta' = onDisk'
  /\ preparing' = "idle" /\ swarm' = "none" /\ stage' = 0 /\ flagged' = FALSE
  /\ envCleanup' = "skipped" /\ releasedKey' = FALSE
  /\ lost' = (lost \/ flagged)
  /\ UNCHANGED <<envVars, target, owes, started>>

-----------------------------------------------------------------------------
SpawnAgain == SpawnUnprepared \/ SpawnPulls \/ SpawnPrepares \/ SpawnPrepared \/ StageStarts
Prepares == DetailAnswered \/ BeginAnswered \/ RunAnswered \/ AddrAnswered
            \/ MetadataWriteFails \/ PreparationFails
EnvSwarmEnds == SwarmConfirms \/ SwarmFindsNoFlag
ReleaseReturns == ReleaseAnswered \/ ReleaseFails
EnvNext == SpawnAgain \/ Prepares \/ SwarmAccepted \/ EnvSwarmEnds \/ ReleaseReturns
           \/ EnvExpires \/ EnvRestart

EnvSpec == EnvInit /\ [][EnvNext]_challengeVars

-----------------------------------------------------------------------------
(* Properties *)

\* An environment that this process has released stays released, although the challenge
\* may be spawned again and is released once only: the old address in metadata.yml, dead as
\* it is, keeps the coordinator from starting a second one.
ReleasedStaysReleased == releasedKey /\ ~torn => env = 0

\* When a swarm with an accepted flag is over, its environment is released, also one that
\* an earlier process has started and this one knows no address of, unless the release has
\* failed, a timeout or a crash came between, or metadata.yml was cut short.
AcceptedIsReleased ==
  swarm = "done" /\ flagged => env = 0 \/ envCleanup = "failed" \/ lost \/ torn
=============================================================================
