-------------------------- MODULE ComponentsProofs --------------------------
(***************************************************************************)
(* The theorems of ChallengeEnv, for any environments, swarms and crashes,  *)
(* and of MCComponents, which puts six components around the race into     *)
(* one specification.                                                       *)
(*                                                                         *)
(* EnvInv is inductive.  It follows the one thing that decides whether a    *)
(* preparation is started, the address in metadata.yml, through the copy    *)
(* that the coordinator keeps, the swarm that was started with it and the   *)
(* release: as long as no write of the file was cut short, an address that  *)
(* was once there stays there.                                              *)
(***************************************************************************)
EXTENDS MCComponents, SandboxPoolProofs, ProviderGovernorProofs, CodexSessionProofs,
        MessageBusProofs, ControlProofs

-----------------------------------------------------------------------------
(* The inductive invariant *)

\* A challenge that was pulled has a file, in which it needs its environment; an address
\* that the coordinator knows is in the file.
MetadataInv ==
  ~torn =>
    /\ onDisk.exists => onDisk.needsEnv
    /\ meta.exists => meta.needsEnv /\ onDisk.exists
    /\ meta.connection # 0 => onDisk.connection # 0
    /\ preparing \in {"begin", "run", "addr"} => onDisk.exists

\* Only the coordinator prepares, and never while a swarm runs; a swarm of the coordinator
\* has an address, and so has its file.
SpawnInv ==
  /\ preparing # "idle" => /\ command = "coordinator" /\ swarm \in {"none", "done"}
                           /\ started < MaxSwarms
  /\ swarm \in {"running", "releasing"} /\ ~torn =>
       /\ owes /\ meta.exists
       /\ command = "coordinator" => target # 0 /\ onDisk.connection # 0

\* After a release nothing is prepared any more, since the file has an address.
ReleasedInv ==
  releasedKey /\ ~torn =>
    /\ env = 0 /\ preparing = "idle" /\ meta.exists
    /\ command = "coordinator" => onDisk.connection # 0

DoneInv == swarm = "done" /\ flagged => releasedKey \/ envCleanup = "failed" \/ lost \/ torn

EnvInv == EnvTypeOK /\ MetadataInv /\ SpawnInv /\ ReleasedInv /\ DoneInv

LEMMA EnvInitInv == EnvInit => EnvInv
<1> SUFFICES ASSUME EnvInit PROVE EnvInv
  OBVIOUS
<1>1. MaxEnvs \in Nat \ {0} /\ MaxSwarms \in Nat /\ MaxCrashes \in Nat /\ Stages \in Nat
  BY EnvAssumption
<1>2. /\ Absent \in Metadata /\ WithAddress(0) \in Metadata /\ WithAddress(1) \in Metadata
      /\ ~Absent.exists /\ Absent.connection = 0
      /\ \A n : /\ WithAddress(n).exists /\ WithAddress(n).needsEnv
                /\ WithAddress(n).connection = n
  BY <1>1 DEF Absent, WithAddress, Metadata
<1>3. /\ onDisk \in {Absent, WithAddress(0), WithAddress(1)} /\ meta = onDisk
      /\ env \in {0, 1} /\ envs \in {0, 1}
      /\ preparing = "idle" /\ swarm = "none" /\ ~releasedKey /\ ~flagged
  BY DEF EnvInit
<1>4. EnvTypeOK
  <2>1. onDisk \in Metadata /\ meta \in Metadata /\ env \in 0 .. MaxEnvs /\ envs \in 0 .. MaxEnvs
    BY <1>1, <1>2, <1>3
  <2>2. stage \in 0 .. Stages /\ started \in 0 .. MaxSwarms /\ crashes \in 0 .. MaxCrashes
        /\ target \in 0 .. MaxEnvs
    BY <1>1 DEF EnvInit
  <2>3. QED
    BY <2>1, <2>2 DEF EnvInit, EnvTypeOK
<1>5. MetadataInv /\ SpawnInv /\ ReleasedInv /\ DoneInv
  BY <1>2, <1>3 DEF MetadataInv, SpawnInv, ReleasedInv, DoneInv
<1>6. QED
  BY <1>4, <1>5 DEF EnvInv

-----------------------------------------------------------------------------
(* The metadata *)

LEMMA MetadataFacts ==
  ASSUME EnvTypeOK
  PROVE  /\ \A n \in 0 .. MaxEnvs :
              /\ WithAddress(n) \in Metadata /\ WithAddress(n).exists
              /\ WithAddress(n).needsEnv /\ WithAddress(n).connection = n
              /\ Cut(WithAddress(n)) \subseteq Metadata
         /\ FromYaml \in Metadata /\ FromYaml.exists
         /\ FromYaml.needsEnv = onDisk.needsEnv /\ FromYaml.connection = onDisk.connection
<1>1. MaxEnvs \in Nat /\ onDisk \in Metadata
  BY EnvAssumption DEF EnvTypeOK
<1>2. ASSUME NEW n \in 0 .. MaxEnvs
      PROVE  /\ WithAddress(n) \in Metadata /\ WithAddress(n).exists
             /\ WithAddress(n).needsEnv /\ WithAddress(n).connection = n
             /\ Cut(WithAddress(n)) \subseteq Metadata
  <2>1. /\ WithAddress(n) \in Metadata /\ WithAddress(n).exists
        /\ WithAddress(n).needsEnv /\ WithAddress(n).connection = n
    BY DEF WithAddress, Metadata
  <2>2. Absent \in Metadata
    BY <1>1 DEF Absent, Metadata
  <2>3. [WithAddress(n) EXCEPT !.needsEnv = FALSE] \in Metadata
    BY <2>1 DEF Metadata
  <2>4. [WithAddress(n) EXCEPT !.needsEnv = FALSE, !.connection = 0] \in Metadata
    <3> DEFINE m == [WithAddress(n) EXCEPT !.needsEnv = FALSE]
    <3>1. m \in Metadata
      BY <2>3
    <3>2. [WithAddress(n) EXCEPT !.needsEnv = FALSE, !.connection = 0] = [m EXCEPT !.connection = 0]
      OBVIOUS
    <3> HIDE DEF m
    <3>3. [m EXCEPT !.connection = 0] \in Metadata
      BY <1>1, <3>1 DEF Metadata
    <3>4. QED
      BY <3>2, <3>3
  <2>5. QED
    BY <2>1, <2>2, <2>3, <2>4 DEF Cut
<1>3. /\ FromYaml \in Metadata /\ FromYaml.exists
      /\ FromYaml.needsEnv = onDisk.needsEnv /\ FromYaml.connection = onDisk.connection
  BY <1>1 DEF FromYaml, Metadata
<1>4. QED
  BY <1>2, <1>3

-----------------------------------------------------------------------------
(* A swarm starts *)

\* A coordinator's swarm starts with an address, once the file has one.
LEMMA SwarmStartsInv ==
  ASSUME EnvInv, NEW m \in Metadata, SwarmStarts(m), started < MaxSwarms,
         UNCHANGED <<command, envs, env, torn, envCleanup, releasedKey, lost, crashes>>,
         onDisk' \in Metadata, stage' \in 0 .. Stages,
         command = "single" => preparing = "idle" /\ onDisk' = onDisk,
         releasedKey /\ ~torn => onDisk' = onDisk,
         ~torn => /\ m.exists /\ m.needsEnv /\ onDisk'.exists /\ onDisk'.needsEnv
                  /\ m.connection # 0 => onDisk'.connection # 0
                  /\ command = "coordinator" => m.connection # 0
  PROVE  EnvInv'
<1>1. /\ meta' = m /\ swarm' = "running" /\ started' = started + 1
      /\ target' = m.connection /\ owes' = m.needsEnv /\ flagged' = FALSE
      /\ preparing' = "idle"
  BY DEF SwarmStarts
<1>2. EnvTypeOK'
  <2>1. started' \in 0 .. MaxSwarms
    BY <1>1, EnvAssumption DEF EnvInv, EnvTypeOK
  <2>2. m.connection \in 0 .. MaxEnvs /\ m.needsEnv \in BOOLEAN
    BY DEF Metadata
  <2>3. QED
    BY <1>1, <2>1, <2>2 DEF EnvInv, EnvTypeOK, Metadata
<1>3. MetadataInv' /\ SpawnInv' /\ DoneInv'
  BY <1>1 DEF EnvInv, MetadataInv, SpawnInv, DoneInv
<1>4. ReleasedInv'
  BY <1>1 DEF EnvInv, ReleasedInv
<1>5. QED
  BY <1>2, <1>3, <1>4 DEF EnvInv

LEMMA SpawnsKeepInv ==
  ASSUME EnvInv, SpawnUnprepared \/ SpawnPrepared \/ AddrAnswered \/ StageStarts
  PROVE  EnvInv'
<1>1. /\ FromYaml \in Metadata /\ FromYaml.exists
      /\ FromYaml.needsEnv = onDisk.needsEnv /\ FromYaml.connection = onDisk.connection
      /\ onDisk \in Metadata /\ meta \in Metadata /\ env \in 0 .. MaxEnvs /\ stage \in 0 .. Stages
      /\ started \in 0 .. MaxSwarms /\ Stages \in Nat
  BY MetadataFacts, EnvAssumption DEF EnvInv, EnvTypeOK
<1>2. CASE SpawnUnprepared
  <2>1. /\ SwarmStarts(meta) /\ started < MaxSwarms /\ command = "coordinator"
        /\ UNCHANGED <<command, envs, env, torn, envCleanup, releasedKey, lost, crashes, onDisk, stage>>
    BY <1>2 DEF SpawnUnprepared, MaySpawn, envVars, cleanupVars
  <2>2. meta.exists /\ (meta.needsEnv => meta.connection # 0)
    BY <1>2 DEF SpawnUnprepared, NeedsPrepare
  <2>3. QED
    BY <1>1, <2>1, <2>2, SwarmStartsInv DEF EnvInv, MetadataInv
<1>3. CASE SpawnPrepared
  <2>1. /\ SwarmStarts(FromYaml) /\ started < MaxSwarms /\ command = "coordinator" /\ meta.exists
        /\ UNCHANGED <<command, envs, env, torn, envCleanup, releasedKey, lost, crashes, onDisk, stage>>
        /\ onDisk.needsEnv => onDisk.connection # 0
    BY <1>3 DEF SpawnPrepared, MaySpawn, NothingToPrepare, envVars, cleanupVars
  <2>2. QED
    BY <1>1, <2>1, SwarmStartsInv DEF EnvInv, MetadataInv
<1>4. CASE AddrAnswered
  <2> DEFINE m == [FromYaml EXCEPT !.connection = env]
  <2>1. /\ SwarmStarts(m) /\ preparing = "addr" /\ env # 0
        /\ UNCHANGED <<command, envs, env, torn, envCleanup, releasedKey, lost, crashes, stage>>
        /\ onDisk' = [onDisk EXCEPT !.connection = env]
    BY <1>4 DEF AddrAnswered, UsableAddress, envVars, cleanupVars
  <2>2. m \in Metadata /\ m.exists /\ m.needsEnv = onDisk.needsEnv /\ m.connection = env
    BY <1>1 DEF Metadata
  <2>3. /\ onDisk' \in Metadata /\ onDisk'.exists = onDisk.exists
        /\ onDisk'.needsEnv = onDisk.needsEnv /\ onDisk'.connection = env
    BY <1>1, <2>1 DEF Metadata
  <2>4. command # "single"
    BY <2>1 DEF EnvInv, SpawnInv
  <2>5. ~torn => ~releasedKey /\ onDisk.exists /\ onDisk.needsEnv
    BY <2>1 DEF EnvInv, ReleasedInv, MetadataInv
  <2>6. started < MaxSwarms
    BY <2>1 DEF EnvInv, SpawnInv
  <2> HIDE DEF m
  <2>7. QED
    BY <1>1, <2>1, <2>2, <2>3, <2>4, <2>5, <2>6, SwarmStartsInv
<1>5. CASE StageStarts
  <2>1. /\ SwarmStarts(meta) /\ started < MaxSwarms /\ command = "single" /\ meta.exists
        /\ UNCHANGED <<command, envs, env, torn, envCleanup, releasedKey, lost, crashes, onDisk>>
        /\ stage' = stage + 1 /\ stage < Stages
    BY <1>5 DEF StageStarts, envVars, cleanupVars
  <2>2. preparing = "idle"
    BY <2>1 DEF EnvInv, SpawnInv
  <2>3. stage' \in 0 .. Stages
    BY <1>1, <2>1
  <2>4. QED
    BY <1>1, <2>1, <2>2, <2>3, SwarmStartsInv DEF EnvInv, MetadataInv
<1>6. QED
  BY <1>2, <1>3, <1>4, <1>5

-----------------------------------------------------------------------------
(* The preparation *)

LEMMA PlatformStartsTyped ==
  ASSUME EnvInv, PlatformStarts
  PROVE  env' \in 0 .. MaxEnvs /\ envs' \in 0 .. MaxEnvs
BY EnvAssumption DEF PlatformStarts, EnvInv, EnvTypeOK

LEMMA PreparationKeepsInv ==
  ASSUME EnvInv,
         \/ SpawnPulls \/ SpawnPrepares
         \/ DetailAnswered \/ BeginAnswered \/ RunAnswered \/ MetadataWriteFails \/ PreparationFails
  PROVE  EnvInv'
<1>1. CASE SpawnPulls \/ SpawnPrepares
  <2>1. /\ preparing' \in {"detail", "begin"} /\ preparing = "idle"
        /\ command = "coordinator" /\ swarm \in {"none", "done"} /\ started < MaxSwarms
        /\ UNCHANGED <<command, envVars, metaVars, envSwarmVars, cleanupVars, crashes>>
    BY <1>1 DEF SpawnPulls, SpawnPrepares, MaySpawn
  <2>2. preparing' = "detail" => ~meta.exists
    BY <1>1 DEF SpawnPulls, SpawnPrepares
  <2>3. preparing' = "begin" => meta.exists /\ onDisk.connection = 0
    BY <1>1 DEF SpawnPulls, SpawnPrepares, NothingToPrepare
  <2>4. EnvTypeOK'
    BY <2>1 DEF EnvInv, EnvTypeOK, Metadata, envVars, metaVars, envSwarmVars, cleanupVars
  <2>5. MetadataInv' /\ SpawnInv' /\ ReleasedInv' /\ DoneInv'
    BY <2>1, <2>2, <2>3 DEF EnvInv, MetadataInv, SpawnInv, ReleasedInv, DoneInv, envVars, metaVars,
       envSwarmVars, cleanupVars
  <2>6. QED
    BY <2>4, <2>5 DEF EnvInv
<1>2. CASE DetailAnswered
  <2>1. /\ preparing = "detail" /\ preparing' = "begin"
        /\ onDisk' = WithAddress(0) /\ meta' = WithAddress(0)
        /\ UNCHANGED <<command, envVars, torn, envSwarmVars, cleanupVars, crashes>>
    BY <1>2 DEF DetailAnswered
  <2>2. /\ WithAddress(0) \in Metadata /\ WithAddress(0).exists
        /\ WithAddress(0).needsEnv /\ WithAddress(0).connection = 0
    BY MetadataFacts, EnvAssumption DEF EnvInv
  <2>3. EnvTypeOK'
    BY <2>1, <2>2 DEF EnvInv, EnvTypeOK, Metadata, envVars, envSwarmVars, cleanupVars
  <2>4. MetadataInv' /\ SpawnInv' /\ ReleasedInv' /\ DoneInv'
    BY <2>1, <2>2 DEF EnvInv, MetadataInv, SpawnInv, ReleasedInv, DoneInv, envVars, envSwarmVars,
       cleanupVars
  <2>5. QED
    BY <2>3, <2>4 DEF EnvInv
<1>3. CASE BeginAnswered \/ RunAnswered \/ PreparationFails
  <2>1. /\ preparing # "idle" /\ preparing' \in {"idle", "run", "addr"}
        /\ preparing' # "idle" => preparing \in {"begin", "run"}
        /\ PlatformStarts \/ UNCHANGED envVars
        /\ UNCHANGED <<command, metaVars, envSwarmVars, cleanupVars, crashes>>
    BY <1>3 DEF BeginAnswered, RunAnswered, PreparationFails
  <2>2. env' \in 0 .. MaxEnvs /\ envs' \in 0 .. MaxEnvs
    BY <2>1, PlatformStartsTyped DEF envVars, EnvInv, EnvTypeOK
  <2>3. EnvTypeOK'
    BY <2>1, <2>2 DEF EnvInv, EnvTypeOK, Metadata, metaVars, envSwarmVars, cleanupVars
  <2>4. MetadataInv' /\ SpawnInv' /\ ReleasedInv' /\ DoneInv'
    BY <2>1 DEF EnvInv, MetadataInv, SpawnInv, ReleasedInv, DoneInv, metaVars, envSwarmVars,
       cleanupVars
  <2>5. QED
    BY <2>3, <2>4 DEF EnvInv
<1>4. CASE MetadataWriteFails
  <2>1. /\ preparing = "addr" /\ preparing' = "idle"
        /\ onDisk' \in Cut(WithAddress(env)) /\ torn' = TRUE
        /\ UNCHANGED <<command, envVars, meta, envSwarmVars, cleanupVars, crashes>>
    BY <1>4 DEF MetadataWriteFails
  <2>2. onDisk' \in Metadata
    BY <2>1, MetadataFacts DEF EnvInv, EnvTypeOK
  <2>3. EnvTypeOK'
    BY <2>1, <2>2 DEF EnvInv, EnvTypeOK, Metadata, envVars, envSwarmVars, cleanupVars
  <2>4. MetadataInv' /\ SpawnInv' /\ ReleasedInv' /\ DoneInv'
    BY <2>1 DEF EnvInv, MetadataInv, SpawnInv, ReleasedInv, DoneInv, envSwarmVars
  <2>5. QED
    BY <2>3, <2>4 DEF EnvInv
<1>5. QED
  BY <1>1, <1>2, <1>3, <1>4

-----------------------------------------------------------------------------
(* The end of a swarm, the release, and what happens around them *)

LEMMA SwarmEndsKeepInv ==
  ASSUME EnvInv, SwarmAccepted \/ EnvSwarmEnds \/ ReleaseReturns
  PROVE  EnvInv'
<1>1. CASE SwarmAccepted
  <2>1. /\ swarm = "running" /\ flagged' = TRUE
        /\ UNCHANGED <<command, envVars, metaVars, preparing, swarm, target, owes, stage, started,
                       cleanupVars, crashes>>
    BY <1>1 DEF SwarmAccepted
  <2>2. EnvTypeOK'
    BY <2>1 DEF EnvInv, EnvTypeOK, Metadata, envVars, metaVars, cleanupVars
  <2>3. MetadataInv' /\ SpawnInv' /\ ReleasedInv' /\ DoneInv'
    BY <2>1 DEF EnvInv, MetadataInv, SpawnInv, ReleasedInv, DoneInv, envVars, metaVars, cleanupVars
  <2>4. QED
    BY <2>2, <2>3 DEF EnvInv
<1>2. CASE SwarmConfirms
  <2>1. /\ swarm = "running" /\ swarm' = IF owes /\ ~releasedKey THEN "releasing" ELSE "done"
        /\ envCleanup' = "skipped"
        /\ UNCHANGED <<command, envVars, metaVars, preparing, target, owes, flagged, stage, started,
                       releasedKey, lost, crashes>>
    BY <1>2 DEF SwarmConfirms, OwesRelease
  <2>2. EnvTypeOK'
    BY <2>1 DEF EnvInv, EnvTypeOK, Metadata, envVars, metaVars
  <2>3. MetadataInv' /\ SpawnInv' /\ ReleasedInv' /\ DoneInv'
    BY <2>1 DEF EnvInv, MetadataInv, SpawnInv, ReleasedInv, DoneInv, envVars, metaVars
  <2>4. QED
    BY <2>2, <2>3 DEF EnvInv
<1>3. CASE SwarmFindsNoFlag
  <2>1. /\ swarm = "running" /\ swarm' \in {"none", "done"} /\ lost' = (lost \/ flagged)
        /\ envCleanup' = "skipped" /\ flagged' = FALSE
        /\ UNCHANGED <<command, envVars, metaVars, preparing, target, owes, stage, started,
                       releasedKey, crashes>>
    BY <1>3 DEF SwarmFindsNoFlag
  <2>2. EnvTypeOK'
    <3>1. lost' \in BOOLEAN
      BY <2>1 DEF EnvInv, EnvTypeOK
    <3>2. QED
      BY <2>1, <3>1 DEF EnvInv, EnvTypeOK, Metadata, envVars, metaVars
  <2>3. MetadataInv' /\ SpawnInv' /\ ReleasedInv' /\ DoneInv'
    BY <2>1 DEF EnvInv, MetadataInv, SpawnInv, ReleasedInv, DoneInv, envVars, metaVars
  <2>4. QED
    BY <2>2, <2>3 DEF EnvInv
<1>4. CASE ReleaseAnswered
  <2>1. /\ swarm = "releasing" /\ env' = 0 /\ swarm' = "done" /\ envCleanup' = "released"
        /\ releasedKey' = TRUE
        /\ UNCHANGED <<command, envs, metaVars, preparing, target, owes, flagged, stage, started,
                       lost, crashes>>
    BY <1>4 DEF ReleaseAnswered
  <2>2. EnvTypeOK'
    BY <2>1, EnvAssumption DEF EnvInv, EnvTypeOK, Metadata, metaVars
  <2>3. preparing = "idle"
    BY <2>1 DEF EnvInv, SpawnInv
  <2>4. MetadataInv' /\ SpawnInv' /\ ReleasedInv' /\ DoneInv'
    BY <2>1, <2>3 DEF EnvInv, MetadataInv, SpawnInv, ReleasedInv, DoneInv, metaVars
  <2>5. QED
    BY <2>2, <2>4 DEF EnvInv
<1>5. CASE ReleaseFails
  <2>1. /\ swarm = "releasing" /\ env' \in {env, 0} /\ swarm' = "done" /\ envCleanup' = "failed"
        /\ UNCHANGED <<command, envs, metaVars, preparing, target, owes, flagged, stage, started,
                       releasedKey, lost, crashes>>
    BY <1>5 DEF ReleaseFails
  <2>2. EnvTypeOK'
    BY <2>1, EnvAssumption DEF EnvInv, EnvTypeOK, Metadata, metaVars
  <2>3. MetadataInv' /\ SpawnInv' /\ ReleasedInv' /\ DoneInv'
    BY <2>1 DEF EnvInv, MetadataInv, SpawnInv, ReleasedInv, DoneInv, metaVars
  <2>4. QED
    BY <2>2, <2>3 DEF EnvInv
<1>6. QED
  BY <1>1, <1>2, <1>3, <1>4, <1>5 DEF EnvSwarmEnds, ReleaseReturns

LEMMA ExpiryKeepsInv ==
  ASSUME EnvInv, EnvExpires
  PROVE  EnvInv'
<1>1. /\ env' = 0
      /\ UNCHANGED <<command, envs, metaVars, preparing, envSwarmVars, cleanupVars, crashes>>
  BY DEF EnvExpires
<1>2. EnvTypeOK'
  BY <1>1, EnvAssumption DEF EnvInv, EnvTypeOK, Metadata, metaVars, envSwarmVars, cleanupVars
<1>3. MetadataInv' /\ SpawnInv' /\ ReleasedInv' /\ DoneInv'
  BY <1>1 DEF EnvInv, MetadataInv, SpawnInv, ReleasedInv, DoneInv, metaVars, envSwarmVars,
     cleanupVars
<1>4. QED
  BY <1>2, <1>3 DEF EnvInv

\* A restart forgets what was released, and takes its metadata from the file.
LEMMA RestartKeepsInv ==
  ASSUME EnvInv, EnvRestart
  PROVE  EnvInv'
<1>1. /\ crashes < MaxCrashes /\ crashes' = crashes + 1 /\ command' \in Commands
      /\ meta' = onDisk' /\ preparing' = "idle" /\ swarm' = "none" /\ stage' = 0
      /\ flagged' = FALSE /\ envCleanup' = "skipped" /\ releasedKey' = FALSE
      /\ lost' = (lost \/ flagged)
      /\ UNCHANGED <<envVars, target, owes, started>>
      /\ \/ UNCHANGED <<onDisk, torn>>
         \/ onDisk' \in Cut(WithAddress(env)) /\ torn' = TRUE
  BY DEF EnvRestart
<1>2. onDisk' \in Metadata /\ torn' \in BOOLEAN
  BY <1>1, MetadataFacts DEF EnvInv, EnvTypeOK
<1>3. lost' \in BOOLEAN
  BY <1>1 DEF EnvInv, EnvTypeOK
<1>4. crashes' \in 0 .. MaxCrashes /\ stage' \in 0 .. Stages
  BY <1>1, EnvAssumption DEF EnvInv, EnvTypeOK
<1>5. EnvTypeOK'
  BY <1>1, <1>2, <1>3, <1>4 DEF EnvInv, EnvTypeOK, Metadata, envVars
<1>6. MetadataInv' /\ SpawnInv' /\ ReleasedInv' /\ DoneInv'
  BY <1>1 DEF EnvInv, MetadataInv, SpawnInv, ReleasedInv, DoneInv
<1>7. QED
  BY <1>5, <1>6 DEF EnvInv

-----------------------------------------------------------------------------
(* Theorems *)

LEMMA EnvStepInv == EnvInv /\ [EnvNext]_challengeVars => EnvInv'
<1> SUFFICES ASSUME EnvInv, [EnvNext]_challengeVars PROVE EnvInv'
  OBVIOUS
<1>1. CASE UNCHANGED challengeVars
  BY <1>1 DEF challengeVars, envVars, metaVars, envSwarmVars, cleanupVars, EnvInv, EnvTypeOK, Metadata,
     MetadataInv, SpawnInv, ReleasedInv, DoneInv
<1>2. CASE EnvNext
  BY <1>2, SpawnsKeepInv, PreparationKeepsInv, SwarmEndsKeepInv, ExpiryKeepsInv, RestartKeepsInv
     DEF EnvNext, SpawnAgain, Prepares
<1>3. QED
  BY <1>1, <1>2

\* The inductive invariant: an address that metadata.yml once had stays there, and decides
\* what is prepared, started and released.
THEOREM EnvInvariance == EnvSpec => []EnvInv
<1>1. EnvInit => EnvInv
  BY EnvInitInv
<1>2. EnvInv /\ [EnvNext]_challengeVars => EnvInv'
  BY EnvStepInv
<1>3. QED
  BY <1>1, <1>2, PTL DEF EnvSpec

\* After a release no second environment is started for the challenge by the same process,
\* although it may be spawned again: the dead address in metadata.yml prevents it.
THEOREM StaysReleased == EnvSpec => []ReleasedStaysReleased
<1>1. EnvInv => ReleasedStaysReleased
  BY DEF EnvInv, ReleasedInv, ReleasedStaysReleased
<1>2. QED
  BY <1>1, EnvInvariance, PTL

\* A swarm with an accepted flag leaves no environment running behind it, whoever started
\* it, unless its release failed, a timeout or crash came between, or the file was cut.
THEOREM AcceptedReleases == EnvSpec => []AcceptedIsReleased
<1>1. EnvInv => AcceptedIsReleased
  BY DEF EnvInv, ReleasedInv, DoneInv, AcceptedIsReleased
<1>2. QED
  BY <1>1, EnvInvariance, PTL

-----------------------------------------------------------------------------
(* The components side by side *)

\* A step of MCComponents is a step of one component, and the others do not notice.
LEMMA StepOfOne ==
  ASSUME [ComponentsNext]_vars
  PROVE  /\ [PoolNext]_poolVars /\ [GovernorNext]_governorVars
         /\ [SessionNext]_sessionVars /\ [BusNext]_busVars
         /\ [StallNext]_stallVars /\ [EnvNext]_challengeVars
<1>1. CASE UNCHANGED vars
  BY <1>1 DEF vars
<1>2. CASE ComponentsNext
  BY <1>2 DEF ComponentsNext, PoolOnly, GovernorOnly, SessionOnly, BusOnly, StallOnly, EnvOnly
<1>3. QED
  BY <1>1, <1>2

\* The runs' choice of one component adds nothing to any of them: what is proved of a
\* component's own specification holds of the one that is model-checked.
THEOREM ComponentsRefineEach ==
  ComponentsSpec => PoolSpec /\ GovernorSpec /\ SessionSpec /\ BusSpec /\ StallSpec /\ EnvSpec
<1>1. ComponentsInit => /\ PoolInit /\ GovernorInit /\ SessionInit /\ BusInit /\ StallInit
                        /\ EnvInit
  BY DEF ComponentsInit
<1>2. QED
  BY <1>1, StepOfOne, PTL
     DEF ComponentsSpec, PoolSpec, GovernorSpec, SessionSpec, BusSpec, StallSpec, EnvSpec

\* The variables of the pool, the governor, the Codex session, the bus, the stall policy
\* and the environment keep their types, whichever of them runs.
THEOREM ComponentsTypes == ComponentsSpec => []ComponentsTypeOK
<1>1. EnvSpec => []EnvTypeOK
  <2>1. EnvInv => EnvTypeOK
    BY DEF EnvInv
  <2>2. QED
    BY <2>1, EnvInvariance, PTL
<1>2. ComponentsSpec => /\ []PoolTypeOK /\ []GovernorTypeOK /\ []SessionTypeOK
                        /\ []BusTypeOK /\ []StallTypeOK /\ []EnvTypeOK
  <2>1. BusSpec => []BusTypeOK
    <3>1. BusInv => BusTypeOK
      BY DEF BusInv
    <3>2. QED
      BY <3>1, BusInvariance, PTL
  <2>2. QED
    BY <1>1, <2>1, ComponentsRefineEach, PoolTypes, GovernorTypes, SessionTypes, StallTypes, PTL
<1>3. QED
  BY <1>2, PTL DEF ComponentsTypeOK
=============================================================================
