------------------------- MODULE CoordinatorProofs -------------------------
(***************************************************************************)
(* The theorems of Coordinator, for any challenges, capacity and attempts.  *)
(*                                                                         *)
(* CoordinatorInv is inductive.  Its parts say what the state file has of   *)
(* the entries in memory (FileInv), what the platform has confirmed         *)
(* (SolvedInv), what a release under way and the releases so far have in    *)
(* common (ReleaseInv) and what the loop has left behind when it stops      *)
(* (StoppedInv).  Every swarm being registered (SwarmsAreOwned) makes the   *)
(* count that do_spawn_swarm looks at the count of the running swarms.      *)
(***************************************************************************)
EXTENDS Coordinator, TLAPS, FiniteSetTheorems

-----------------------------------------------------------------------------
(* The inductive invariant *)

\* What the platform confirmed of a challenge is true of the platform.
SolvedInv ==
  /\ knownSolved \union accepted \union released \subseteq platSolved
  /\ \A c \in Challenges :
       entry[c].status = "confirmed" \/ disk[c].status = "confirmed" => c \in platSolved

\* The effort in memory is the effort in the state file; nothing was spent on an unknown one.
FileInv ==
  \A c \in Challenges :
    /\ entry[c].attempts = disk[c].attempts /\ entry[c].tier = disk[c].tier
    /\ entry[c].status = "unknown" => entry[c].tier = "fast"
    /\ disk[c].status = "unknown" => disk[c].tier = "fast"

\* An environment is released once, and a swarm that releases has the platform's word.
ReleaseInv ==
  \A c \in Challenges :
    /\ releases[c] = IF c \in released THEN 1 ELSE 0
    /\ task[c] = "releasing" => c \in accepted /\ c \notin released

StoppedInv == phase = "stopped" => Live = {} /\ known \subseteq Handled

CoordinatorInv == TypeOK /\ SwarmsAreOwned /\ SolvedInv /\ FileInv /\ ReleaseInv /\ StoppedInv

-----------------------------------------------------------------------------
(* The entries of the challenge manager *)

\* What a step may write for c: an entry that keeps the effort spent so far, and that is
\* confirmed only if the platform accepted the swarm's flag.
Writes(c, e) ==
  /\ e \in Entries
  /\ e.attempts >= entry[c].attempts /\ Rank(e.tier) >= Rank(entry[c].tier)
  /\ e.status # "unknown"
  /\ e.status = "confirmed" => c \in accepted

LEMMA SolvingIsWritten ==
  ASSUME TypeOK, FileInv, NEW c \in Challenges, RecordSolving(c)
  PROVE  \E e : Writes(c, e) /\ SetEntry(c, e)
<1>1. entry[c] \in Entries
  BY DEF TypeOK
<1>2. PICK tier \in (IF entry[c].status = "unknown" THEN TriageTiers ELSE {entry[c].tier}) :
        SetEntry(c, [entry[c] EXCEPT !.status = "solving", !.tier = tier])
  BY DEF RecordSolving
<1>3. tier \in Tiers /\ Rank(tier) >= Rank(entry[c].tier)
  BY <1>1, <1>2 DEF FileInv, TriageTiers, Tiers, Entries, Rank
<1> DEFINE e == [entry[c] EXCEPT !.status = "solving", !.tier = tier]
<1>4. e \in Entries
  BY <1>1, <1>3 DEF Entries
<1>5. e.status = "solving" /\ e.attempts >= entry[c].attempts /\ e.tier = tier
  BY <1>1 DEF Entries
<1>6. Writes(c, e)
  BY <1>3, <1>4, <1>5 DEF Writes
<1>7. QED
  BY <1>2, <1>6

\* A failure costs an attempt and may raise the tier.
LEMMA FailureIsWritten ==
  ASSUME TypeOK, NEW c \in Challenges
  PROVE  Writes(c, Failed(entry[c]))
<1>1. entry[c] \in Entries
  BY DEF TypeOK
<1>2. Upgrade(entry[c].tier) \in Tiers /\ Rank(Upgrade(entry[c].tier)) >= Rank(entry[c].tier)
  BY <1>1 DEF Entries, Tiers, Upgrade, Rank
<1> DEFINE n == entry[c].attempts + 1
<1>3. n \in Nat /\ n >= entry[c].attempts
  BY <1>1 DEF Entries
<1>4. CASE n >= MaxAttempts
  <2>1. Failed(entry[c]) = [status |-> "failed", attempts |-> n, tier |-> entry[c].tier]
    BY <1>1, <1>4 DEF Failed, Entries
  <2>2. entry[c].tier \in Tiers /\ Rank(entry[c].tier) >= Rank(entry[c].tier)
    BY <1>1 DEF Entries, Tiers, Rank
  <2>3. QED
    BY <1>3, <2>1, <2>2 DEF Writes, Entries
<1>5. CASE ~(n >= MaxAttempts)
  <2>1. Failed(entry[c]) = [status |-> "triaged", attempts |-> n, tier |-> Upgrade(entry[c].tier)]
    BY <1>1, <1>5 DEF Failed, Entries
  <2>2. QED
    BY <1>2, <1>3, <2>1 DEF Writes, Entries
<1>6. QED
  BY <1>4, <1>5

LEMMA StatusIsWritten ==
  ASSUME TypeOK, NEW c \in Challenges, NEW status \in {"solved", "confirmed"},
         status = "confirmed" => c \in accepted
  PROVE  Writes(c, [entry[c] EXCEPT !.status = status])
BY DEF TypeOK, Writes, Entries, Tiers, Rank

\* A step leaves the entries alone, writes one, or starts with what the file has.
ManagerSteps == \/ UNCHANGED managerVars
                \/ \E c \in Challenges : \E e : Writes(c, e) /\ SetEntry(c, e)
                \/ Restart

LEMMA SpawnManager ==
  ASSUME TypeOK, FileInv, NEW c \in Challenges, DoSpawn(c)
  PROVE  ManagerSteps
BY SolvingIsWritten DEF DoSpawn, NoLaunch, Skip, Launch, ManagerSteps

LEMMA ManagerStep == CoordinatorInv /\ [Next]_vars => ManagerSteps
<1> SUFFICES ASSUME TypeOK, FileInv, ReleaseInv, [Next]_vars PROVE ManagerSteps
  BY DEF CoordinatorInv
<1>1. CASE UNCHANGED vars \/ SeedStep \/ PollStep \/ HandleEvents \/ CheckExit
  BY <1>1 DEF vars, SeedStep, Seed, PollStep, Poll, HandleEvents, CheckExit, ManagerSteps
<1>2. CASE PlanStep
  BY <1>2, SpawnManager DEF PlanStep, PlanIdles, PlanSpawns, NoLaunch, ManagerSteps
<1>3. CASE SpawnStep
  BY <1>3, SpawnManager DEF SpawnStep, AutoSpawned, AutoSpawn, ManagerSteps
<1>4. ASSUME NEW c \in Challenges, PlatformAccepts(c) \/ TeammateSolves(c) PROVE ManagerSteps
  BY <1>4 DEF PlatformAccepts, TeammateSolves, ManagerSteps
<1>5. ASSUME NEW c \in Challenges, SwarmFindsNothing(c) PROVE ManagerSteps
  BY <1>5, FailureIsWritten DEF SwarmFindsNothing, RecordFailure, ManagerSteps
<1>6. ASSUME NEW c \in Challenges, SwarmFindsCandidate(c) PROVE ManagerSteps
  BY <1>6, StatusIsWritten
     DEF SwarmFindsCandidate, CandidateRecorded, RecordCandidate, ManagerSteps
<1>7. ASSUME NEW c \in Challenges, SwarmFindsFlag(c) \/ EnvReleased(c) \/ EnvReleaseFails(c)
      PROVE  ManagerSteps
  <2>1. c \in accepted
    BY <1>7 DEF SwarmFindsFlag, EnvReleased, EnvReleaseFails, ReleaseInv
  <2>2. RecordConfirmed(c) \/ UNCHANGED managerVars
    BY <1>7 DEF SwarmFindsFlag, EnvReleased, EnvReleaseFails
  <2>3. QED
    BY <2>1, <2>2, StatusIsWritten DEF RecordConfirmed, ManagerSteps
<1>8. CASE Restart
  BY <1>8 DEF ManagerSteps
<1>9. QED
  BY <1>1, <1>2, <1>3, <1>4, <1>5, <1>6, <1>7, <1>8
     DEF Next, LoopStep, SwarmEnds, ReleaseEnds

\* The process comes back with the effort that was spent.
LEMMA RestoredEntry ==
  ASSUME NEW e \in Entries
  PROVE  /\ Restored(e) \in Entries
         /\ Restored(e).attempts = e.attempts /\ Restored(e).tier = e.tier
         /\ Restored(e).status = "unknown" => e.status = "unknown"
         /\ Restored(e).status = "confirmed" => e.status = "confirmed"
BY DEF Restored, Entries, Tiers

-----------------------------------------------------------------------------
(* Types, and what the entries say *)

LEMMA WrittenEntries ==
  ASSUME TypeOK, ManagerSteps
  PROVE  entry' \in [Challenges -> Entries] /\ disk' \in [Challenges -> Entries]
<1>1. ASSUME NEW c \in Challenges, NEW e, Writes(c, e), SetEntry(c, e)
      PROVE  entry' \in [Challenges -> Entries] /\ disk' \in [Challenges -> Entries]
  BY <1>1 DEF TypeOK, Writes, SetEntry
<1>2. CASE Restart
  BY <1>2, RestoredEntry DEF TypeOK, Restart
<1>3. CASE UNCHANGED managerVars
  BY <1>3 DEF TypeOK, managerVars
<1>4. QED
  BY <1>1, <1>2, <1>3 DEF ManagerSteps

LEMMA FileStep ==
  ASSUME TypeOK, FileInv, ManagerSteps
  PROVE  FileInv'
<1>1. ASSUME NEW c \in Challenges, NEW e, Writes(c, e), SetEntry(c, e)
      PROVE  FileInv'
  BY <1>1 DEF TypeOK, FileInv, Writes, SetEntry
<1>2. CASE Restart
  BY <1>2, RestoredEntry DEF TypeOK, FileInv, Restart
<1>3. CASE UNCHANGED managerVars
  BY <1>3 DEF FileInv, managerVars
<1>4. QED
  BY <1>1, <1>2, <1>3 DEF ManagerSteps

\* No step gives effort back.
LEMMA EffortStep ==
  ASSUME TypeOK, FileInv, ManagerSteps
  PROVE  \A c \in Challenges : /\ entry'[c].attempts >= entry[c].attempts
                               /\ Rank(entry'[c].tier) >= Rank(entry[c].tier)
<1>1. \A c \in Challenges : /\ entry[c] \in Entries /\ entry[c].attempts \in Nat
                            /\ entry[c].attempts >= entry[c].attempts
                            /\ Rank(entry[c].tier) >= Rank(entry[c].tier)
  BY DEF TypeOK, Entries, Tiers, Rank
<1>2. ASSUME NEW c \in Challenges, NEW e, Writes(c, e), SetEntry(c, e), NEW d \in Challenges
      PROVE  /\ entry'[d].attempts >= entry[d].attempts
             /\ Rank(entry'[d].tier) >= Rank(entry[d].tier)
  BY <1>1, <1>2 DEF TypeOK, Writes, SetEntry
<1>3. CASE Restart
  BY <1>1, <1>3, RestoredEntry DEF TypeOK, FileInv, Restart
<1>4. CASE UNCHANGED managerVars
  BY <1>1, <1>4 DEF managerVars
<1>5. QED
  BY <1>2, <1>3, <1>4 DEF ManagerSteps

-----------------------------------------------------------------------------
(* Typing of everything else *)

LEMMA SpawnTypes ==
  ASSUME TypeOK, NEW c \in Challenges, DoSpawn(c)
  PROVE  /\ swarms' \subseteq Challenges
         /\ task' \in [Challenges -> {"none", "running", "releasing", "done"}]
         /\ cancelled' \subseteq Challenges /\ accepted' \subseteq Challenges
         /\ results' \in [Challenges -> {"none", "no_result", "skipped", "flag_found", "flag_candidate"}]
         /\ cleanup' \in [Challenges -> {"skipped", "released", "failed"}]
         /\ released' \subseteq Challenges
         /\ releases' \in [Challenges -> Nat]
BY DEF TypeOK, DoSpawn, NoLaunch, Skip, Launch, resultVars

LEMMA InitInv == Init => CoordinatorInv
<1> SUFFICES ASSUME Init PROVE CoordinatorInv
  OBVIOUS
<1>1. TypeOK
  BY SettingsAssumption DEF Init, TypeOK, Unknown, Entries, Tiers
<1>2. SwarmsAreOwned
  <2>1. Live = {}
    BY DEF Init, Live
  <2>2. QED
    BY <2>1, FS_EmptySet, SettingsAssumption DEF SwarmsAreOwned
<1>3. SolvedInv /\ FileInv /\ ReleaseInv /\ StoppedInv
  BY DEF Init, SolvedInv, FileInv, ReleaseInv, StoppedInv, Unknown
<1>4. QED
  BY <1>1, <1>2, <1>3 DEF CoordinatorInv

LEMMA TypeStep == CoordinatorInv /\ [Next]_vars => TypeOK'
<1> SUFFICES ASSUME CoordinatorInv, TypeOK, [Next]_vars PROVE TypeOK'
  BY DEF CoordinatorInv
<1>1. entry' \in [Challenges -> Entries] /\ disk' \in [Challenges -> Entries]
  BY ManagerStep, WrittenEntries
<1>2. CASE UNCHANGED vars
  BY <1>1, <1>2
     DEF TypeOK, vars, platformVars, pollVars, loopVars, swarmVars, resultVars
<1>3. CASE SeedStep
  BY <1>1, <1>3 DEF TypeOK, SeedStep, Seed, platformVars, swarmVars, resultVars
<1>4. CASE PollStep
  BY <1>1, <1>4, SettingsAssumption
     DEF TypeOK, PollStep, Poll, loopVars, swarmVars, resultVars
<1>5. CASE PlanStep
  <2>1. AfterPlanning /\ ((\E c \in Challenges : DoSpawn(c)) \/ (NoLaunch(swarms \ Retired) /\ UNCHANGED resultVars))
    BY <1>5 DEF PlanStep, PlanIdles, PlanSpawns
  <2>2. /\ noSubmit' \in BOOLEAN /\ platSolved' \subseteq Challenges /\ hides' \in 0 .. MaxHides
        /\ known' \subseteq Challenges /\ knownSolved' \subseteq Challenges
        /\ news' \subseteq Challenges /\ solves' \subseteq Challenges
        /\ phase' \in {"bootSpawning", "checking"}
        /\ todo' \subseteq Challenges /\ tracked' \subseteq Challenges
        /\ restarts' \in 0 .. MaxRestarts
    BY <2>1 DEF TypeOK, AfterPlanning, platformVars, pollVars
  <2>3. CASE \E c \in Challenges : DoSpawn(c)
    BY <1>1, <2>2, <2>3, SpawnTypes DEF TypeOK
  <2>4. CASE NoLaunch(swarms \ Retired) /\ UNCHANGED resultVars
    BY <1>1, <2>2, <2>4 DEF TypeOK, NoLaunch, resultVars
  <2>5. QED
    BY <2>1, <2>3, <2>4
<1>6. CASE SpawnStep
  <2>1. CASE AutoSpawned
    BY <1>1, <2>1 DEF TypeOK, AutoSpawned, platformVars, pollVars, swarmVars, resultVars
  <2>2. ASSUME NEW c \in Challenges, AutoSpawn(c) PROVE TypeOK'
    <3>1. /\ noSubmit' \in BOOLEAN /\ platSolved' \subseteq Challenges /\ hides' \in 0 .. MaxHides
          /\ known' \subseteq Challenges /\ knownSolved' \subseteq Challenges
          /\ news' \subseteq Challenges /\ solves' \subseteq Challenges
          /\ phase' = phase /\ todo' \subseteq Challenges /\ tracked' \subseteq Challenges
          /\ restarts' \in 0 .. MaxRestarts
      BY <2>2 DEF TypeOK, AutoSpawn, platformVars, pollVars
    <3>2. DoSpawn(c) \/ UNCHANGED <<swarmVars, resultVars>>
      BY <2>2 DEF AutoSpawn
    <3>3. CASE DoSpawn(c)
      BY <1>1, <3>1, <3>3, SpawnTypes DEF TypeOK
    <3>4. CASE UNCHANGED <<swarmVars, resultVars>>
      BY <1>1, <3>1, <3>4 DEF TypeOK, swarmVars, resultVars
    <3>5. QED
      BY <3>2, <3>3, <3>4
  <2>3. QED
    BY <1>6, <2>1, <2>2 DEF SpawnStep
<1>7. CASE HandleEvents
  BY <1>1, <1>7 DEF TypeOK, HandleEvents, DrainEvents, platformVars, resultVars
<1>8. CASE CheckExit
  BY <1>1, <1>8 DEF TypeOK, CheckExit, platformVars, pollVars, swarmVars, resultVars
<1>9. ASSUME NEW c \in Challenges, PlatformAccepts(c) \/ TeammateSolves(c) PROVE TypeOK'
  BY <1>1, <1>9 DEF TypeOK, PlatformAccepts, TeammateSolves, pollVars, loopVars, swarmVars, resultVars
<1>10. ASSUME NEW c \in Challenges, SwarmEnds(c) PROVE TypeOK'
  BY <1>1, <1>10
     DEF TypeOK, SwarmEnds, SwarmFindsNothing, SwarmFindsCandidate, SwarmFindsFlag, Record,
         platformVars, pollVars, loopVars
<1>11. ASSUME NEW c \in Challenges, ReleaseEnds(c) PROVE TypeOK'
  BY <1>1, <1>11
     DEF TypeOK, ReleaseEnds, EnvReleased, EnvReleaseFails, Record, platformVars, pollVars, loopVars
<1>12. CASE Restart
  BY <1>1, <1>12, SettingsAssumption DEF TypeOK, Restart, platformVars
<1>13. QED
  BY <1>2, <1>3, <1>4, <1>5, <1>6, <1>7, <1>8, <1>9, <1>10, <1>11, <1>12 DEF Next, LoopStep

-----------------------------------------------------------------------------
(* The swarms *)

LEMMA LiveIsFinite == IsFiniteSet(Live) /\ Live \subseteq Challenges
BY ChallengesAssumption, FS_Subset DEF Live

\* While every running swarm is registered, those that stay registered are the running ones.
LEMMA RestIsLive == Live \subseteq swarms => swarms \ Retired = Live
BY DEF Retired

\* do_spawn_swarm compares the capacity with the running swarms, and adds one at most.
LEMMA SpawnOwns ==
  ASSUME TypeOK, SwarmsAreOwned, NEW c \in Challenges, DoSpawn(c)
  PROVE  SwarmsAreOwned'
<1>1. swarms \ Retired = Live
  BY RestIsLive DEF SwarmsAreOwned
<1>2. CASE Admits(c, Live) /\ Launch(c, Live)
  <2>1. Live' = Live \union {c} /\ swarms' = Live \union {c}
    BY <1>2 DEF TypeOK, Launch, Live
  <2>2. Cardinality(Live') = Cardinality(Live) + 1
    BY <1>2, <2>1, LiveIsFinite, FS_AddElement DEF Admits
  <2>3. Cardinality(Live) \in Nat /\ Cardinality(Live) < MaxConcurrent /\ MaxConcurrent \in Nat
    BY <1>2, LiveIsFinite, FS_CardinalityType, SettingsAssumption DEF Admits
  <2>4. QED
    BY <2>1, <2>2, <2>3 DEF SwarmsAreOwned
<1>3. CASE NoLaunch(Live)
  <2>1. Live' = Live /\ swarms' = Live
    BY <1>3 DEF NoLaunch, Live
  <2>2. QED
    BY <2>1 DEF SwarmsAreOwned
<1>4. QED
  BY <1>1, <1>2, <1>3 DEF DoSpawn, Skip

\* A step that starts no swarm and retires none.
LEMMA NoStartOwns ==
  ASSUME SwarmsAreOwned, swarms' = swarms, Live' \subseteq Live
  PROVE  SwarmsAreOwned'
<1>1. /\ Cardinality(Live') <= Cardinality(Live)
      /\ Cardinality(Live') \in Nat /\ Cardinality(Live) \in Nat
  BY LiveIsFinite, FS_Subset, FS_CardinalityType
<1>2. QED
  BY <1>1, SettingsAssumption DEF SwarmsAreOwned

LEMMA OwnedStep == CoordinatorInv /\ [Next]_vars => SwarmsAreOwned'
<1> SUFFICES ASSUME TypeOK, SwarmsAreOwned, [Next]_vars PROVE SwarmsAreOwned'
  BY DEF CoordinatorInv
<1>1. CASE UNCHANGED <<swarms, task>>
  BY <1>1, NoStartOwns DEF Live
<1>2. ASSUME PlanIdles PROVE SwarmsAreOwned'
  <2>1. swarms' = Live /\ Live' = Live
    BY <1>2, RestIsLive DEF PlanIdles, NoLaunch, SwarmsAreOwned, Live
  <2>2. QED
    BY <2>1 DEF SwarmsAreOwned
<1>3. ASSUME NEW c \in Challenges, PlanSpawns(c) \/ AutoSpawn(c) PROVE SwarmsAreOwned'
  BY <1>1, <1>3, SpawnOwns DEF PlanSpawns, AutoSpawn, swarmVars
<1>4. ASSUME NEW c \in Challenges, SwarmEnds(c) \/ ReleaseEnds(c) PROVE SwarmsAreOwned'
  <2>1. swarms' = swarms /\ Live' \subseteq Live
    BY <1>4
       DEF TypeOK, SwarmEnds, SwarmFindsNothing, SwarmFindsCandidate, SwarmFindsFlag, ReleaseEnds,
           EnvReleased, EnvReleaseFails, Record, Running, Live
  <2>2. QED
    BY <2>1, NoStartOwns
<1>5. CASE Restart
  <2>1. Live' = {}
    BY <1>5 DEF Restart, Live
  <2>2. QED
    BY <2>1, FS_EmptySet, SettingsAssumption DEF SwarmsAreOwned
<1>6. CASE UNCHANGED vars \/ SeedStep \/ PollStep \/ AutoSpawned \/ HandleEvents \/ CheckExit
  BY <1>1, <1>6
     DEF vars, SeedStep, Seed, PollStep, Poll, AutoSpawned, HandleEvents, CheckExit, swarmVars
<1>7. ASSUME NEW c \in Challenges, PlatformAccepts(c) \/ TeammateSolves(c) PROVE SwarmsAreOwned'
  BY <1>1, <1>7 DEF PlatformAccepts, TeammateSolves, swarmVars
<1>8. QED
  BY <1>2, <1>3, <1>4, <1>5, <1>6, <1>7 DEF Next, LoopStep, PlanStep, SpawnStep

-----------------------------------------------------------------------------
(* What the platform confirmed *)

LEMMA PlatformOnlyGrows == [Next]_vars => platSolved \subseteq platSolved'
<1> SUFFICES ASSUME [Next]_vars PROVE platSolved \subseteq platSolved'
  OBVIOUS
<1>1. CASE UNCHANGED vars \/ LoopStep \/ PollStep \/ Restart
  BY <1>1
     DEF vars, LoopStep, SeedStep, Seed, PollStep, Poll, PlanStep, PlanIdles, PlanSpawns,
         AfterPlanning, SpawnStep, AutoSpawned, AutoSpawn, HandleEvents, CheckExit, Restart,
         platformVars
<1>2. ASSUME NEW c \in Challenges,
             PlatformAccepts(c) \/ TeammateSolves(c) \/ SwarmEnds(c) \/ ReleaseEnds(c)
      PROVE  platSolved \subseteq platSolved'
  BY <1>2
     DEF PlatformAccepts, TeammateSolves, SwarmEnds, SwarmFindsNothing, SwarmFindsCandidate,
         SwarmFindsFlag, ReleaseEnds, EnvReleased, EnvReleaseFails, platformVars
<1>3. QED
  BY <1>1, <1>2 DEF Next

LEMMA SolvedStep == CoordinatorInv /\ [Next]_vars => SolvedInv'
<1> SUFFICES ASSUME TypeOK, SolvedInv, ReleaseInv, ManagerSteps, [Next]_vars,
                    platSolved \subseteq platSolved'
             PROVE  SolvedInv'
  BY ManagerStep, PlatformOnlyGrows DEF CoordinatorInv
<1> DEFINE Told == knownSolved \union accepted \union released
<1>1. Told' \subseteq platSolved'
  <2>1. CASE knownSolved' = knownSolved /\ accepted' \subseteq accepted /\ released' \subseteq released
    BY <2>1 DEF SolvedInv
  <2>2. CASE SeedStep \/ PollStep
    BY <2>2
       DEF SolvedInv, SeedStep, Seed, PollStep, Poll, platformVars, swarmVars, resultVars
  <2>3. ASSUME NEW c \in Challenges, DoSpawn(c)
        PROVE  accepted' \subseteq accepted /\ released' \subseteq released
    BY <2>3 DEF DoSpawn, NoLaunch, Skip, Launch, resultVars
  <2>4. CASE PlanStep \/ SpawnStep
    BY <2>1, <2>3, <2>4
       DEF PlanStep, PlanIdles, PlanSpawns, AfterPlanning, NoLaunch, SpawnStep, AutoSpawned,
           AutoSpawn, pollVars, swarmVars, resultVars
  <2>5. CASE UNCHANGED vars \/ HandleEvents \/ CheckExit \/ Restart
    BY <2>1, <2>5 DEF vars, HandleEvents, CheckExit, Restart, pollVars, swarmVars, resultVars
  <2>6. ASSUME NEW c \in Challenges, TeammateSolves(c) \/ SwarmEnds(c) \/ EnvReleaseFails(c)
        PROVE  Told' \subseteq platSolved'
    BY <2>1, <2>6
       DEF TeammateSolves, SwarmEnds, SwarmFindsNothing, SwarmFindsCandidate, SwarmFindsFlag,
           EnvReleaseFails, pollVars, swarmVars, resultVars
  <2>7. ASSUME NEW c \in Challenges, PlatformAccepts(c) PROVE Told' \subseteq platSolved'
    BY <2>7 DEF PlatformAccepts, SolvedInv, pollVars, resultVars
  <2>8. ASSUME NEW c \in Challenges, EnvReleased(c) PROVE Told' \subseteq platSolved'
    BY <2>8 DEF EnvReleased, SolvedInv, ReleaseInv, platformVars, pollVars
  <2>9. QED
    BY <2>2, <2>4, <2>5, <2>6, <2>7, <2>8 DEF Next, LoopStep, ReleaseEnds
<1>2. ASSUME NEW c \in Challenges,
             entry'[c].status = "confirmed" \/ disk'[c].status = "confirmed"
      PROVE  c \in platSolved'
  <2>1. ASSUME NEW d \in Challenges, NEW e, Writes(d, e), SetEntry(d, e)
        PROVE  c \in platSolved'
    BY <1>2, <2>1 DEF TypeOK, SolvedInv, Writes, SetEntry
  <2>2. CASE Restart
    BY <1>2, <2>2, RestoredEntry DEF TypeOK, SolvedInv, Restart
  <2>3. CASE UNCHANGED managerVars
    BY <1>2, <2>3 DEF SolvedInv, managerVars
  <2>4. QED
    BY <2>1, <2>2, <2>3 DEF ManagerSteps
<1>3. QED
  BY <1>1, <1>2 DEF SolvedInv

-----------------------------------------------------------------------------
(* Releases *)

LEMMA ReleaseStep == CoordinatorInv /\ [Next]_vars => ReleaseInv'
<1> SUFFICES ASSUME TypeOK, SwarmsAreOwned, ReleaseInv, [Next]_vars PROVE ReleaseInv'
  BY DEF CoordinatorInv
<1>1. CASE UNCHANGED <<task, accepted, released, releases>>
  BY <1>1 DEF ReleaseInv
<1>2. ASSUME NEW c \in Challenges, DoSpawn(c) PROVE ReleaseInv'
  <2>1. UNCHANGED <<released, releases>>
    BY <1>2 DEF DoSpawn, NoLaunch, Skip, Launch, resultVars
  <2>2. \/ UNCHANGED <<task, accepted>>
        \/ task' = [task EXCEPT ![c] = "running"] /\ accepted' = accepted \ {c}
    BY <1>2 DEF DoSpawn, NoLaunch, Skip, Launch
  <2>3. QED
    BY <2>1, <2>2 DEF TypeOK, ReleaseInv
<1>3. CASE PlanStep \/ SpawnStep
  BY <1>1, <1>2, <1>3
     DEF PlanStep, PlanIdles, PlanSpawns, NoLaunch, SpawnStep, AutoSpawned, AutoSpawn, swarmVars,
         resultVars
<1>4. CASE UNCHANGED vars \/ SeedStep \/ PollStep \/ HandleEvents \/ CheckExit
  BY <1>1, <1>4
     DEF vars, SeedStep, Seed, PollStep, Poll, HandleEvents, CheckExit, swarmVars, resultVars
<1>5. ASSUME NEW c \in Challenges, PlatformAccepts(c) \/ TeammateSolves(c) PROVE ReleaseInv'
  BY <1>1, <1>5 DEF PlatformAccepts, TeammateSolves, ReleaseInv, swarmVars, resultVars
\* Only the swarm's own task starts a release, and only of what was not released before.
<1>6. ASSUME NEW c \in Challenges, SwarmEnds(c) PROVE ReleaseInv'
  BY <1>6
     DEF TypeOK, ReleaseInv, SwarmEnds, SwarmFindsNothing, SwarmFindsCandidate, SwarmFindsFlag,
         MustRelease, Record
<1>7. ASSUME NEW c \in Challenges, ReleaseEnds(c) PROVE ReleaseInv'
  BY <1>7 DEF TypeOK, ReleaseInv, ReleaseEnds, EnvReleased, EnvReleaseFails, Record
<1>8. CASE Restart
  BY <1>8 DEF ReleaseInv, Restart
<1>9. QED
  BY <1>3, <1>4, <1>5, <1>6, <1>7, <1>8 DEF Next, LoopStep

-----------------------------------------------------------------------------
(* The exit *)

LEMMA StoppedStep == CoordinatorInv /\ [Next]_vars => StoppedInv'
<1> SUFFICES ASSUME SwarmsAreOwned, StoppedInv, [Next]_vars, phase' = "stopped"
             PROVE  (Live = {} /\ known \subseteq Handled)'
  BY DEF CoordinatorInv, StoppedInv
<1>1. CASE phase = "stopped"
  <2>1. UNCHANGED <<noSubmit, known, knownSolved, task, results>>
    BY <1>1
       DEF vars, Next, LoopStep, SeedStep, Seed, PollStep, Poll, PlanStep, PlanIdles, PlanSpawns,
           SpawnStep, AutoSpawned, AutoSpawn, HandleEvents, CheckExit, PlatformAccepts, SwarmEnds,
           SwarmFindsNothing, SwarmFindsCandidate, SwarmFindsFlag, Running, ReleaseEnds,
           EnvReleased, EnvReleaseFails, TeammateSolves, Restart, pollVars, swarmVars, resultVars
  <2>2. QED
    BY <1>1, <2>1 DEF StoppedInv, Live, Handled
<1>2. CASE phase # "stopped"
  \* Only the check at the end of a round stops the loop.
  <2>1. CheckExit /\ AllHandled
    BY <1>2
       DEF vars, Next, LoopStep, SeedStep, Seed, PollStep, Poll, PlanStep, PlanIdles, PlanSpawns,
           AfterPlanning, SpawnStep, AutoSpawned, AutoSpawn, HandleEvents, CheckExit,
           PlatformAccepts, SwarmEnds, SwarmFindsNothing, SwarmFindsCandidate, SwarmFindsFlag,
           ReleaseEnds, EnvReleased, EnvReleaseFails, TeammateSolves, Restart, loopVars
  <2>2. Live = {} /\ known \subseteq Handled
    BY <2>1 DEF AllHandled, Registered, SwarmsAreOwned
  <2>3. QED
    BY <2>1, <2>2 DEF CheckExit, Live, Handled, pollVars, swarmVars, resultVars
<1>3. QED
  BY <1>1, <1>2

-----------------------------------------------------------------------------
(* The theorems *)

LEMMA CoordinatorStep == CoordinatorInv /\ [Next]_vars => CoordinatorInv'
<1> SUFFICES ASSUME CoordinatorInv, [Next]_vars PROVE CoordinatorInv'
  OBVIOUS
<1>1. FileInv'
  BY ManagerStep, FileStep DEF CoordinatorInv
<1>2. QED
  BY <1>1, TypeStep, OwnedStep, SolvedStep, ReleaseStep, StoppedStep DEF CoordinatorInv

\* run_event_loop, the poller and the swarms' tasks never leave CoordinatorInv.
THEOREM CoordinatorInvariance == Spec => []CoordinatorInv
BY InitInv, CoordinatorStep, PTL DEF Spec

\* Every variable of the coordinator, the poller and the challenge manager keeps its type.
THEOREM TypeCorrect == Spec => []TypeOK
<1>1. CoordinatorInv => TypeOK
  BY DEF CoordinatorInv
<1>2. QED
  BY <1>1, CoordinatorInvariance, PTL

\* do_spawn_swarm and retire_finished_swarms: every swarm that runs is registered, and
\* there are at most max_concurrent_challenges of them, whatever ends or is killed meanwhile.
THEOREM SwarmsOwned == Spec => []SwarmsAreOwned
<1>1. CoordinatorInv => SwarmsAreOwned
  BY DEF CoordinatorInv
<1>2. QED
  BY <1>1, CoordinatorInvariance, PTL

\* finalize_swarm_result releases the environment of a challenge once, after the platform
\* has accepted its flag.
THEOREM ReleasedOnce == Spec => []ReleasedOnceSolved
<1>1. CoordinatorInv => ReleasedOnceSolved
  BY DEF CoordinatorInv, SolvedInv, ReleaseInv, ReleasedOnceSolved
<1>2. QED
  BY <1>1, CoordinatorInvariance, PTL

\* What the state file calls confirmed is solved on the platform, through any number of
\* crashes and restarts.
THEOREM ConfirmedSolved == Spec => []ConfirmedIsSolved
<1>1. CoordinatorInv => ConfirmedIsSolved
  BY DEF CoordinatorInv, SolvedInv, ConfirmedIsSolved
<1>2. QED
  BY <1>1, CoordinatorInvariance, PTL

\* _evaluate_all_solved_policy stops the loop only when nothing runs and every challenge
\* it knows is handled.
THEOREM ExitHandled == Spec => []ExitsWhenHandled
<1>1. CoordinatorInv => ExitsWhenHandled
  BY DEF CoordinatorInv, SolvedInv, StoppedInv, Handled, ExitsWhenHandled
<1>2. QED
  BY <1>1, CoordinatorInvariance, PTL

\* No step of the coordinator, a restart from the state file included, takes back an
\* attempt or a tier.
THEOREM EffortKept == Spec => EffortIsKept
<1> DEFINE Kept == \A c \in Challenges : /\ entry'[c].attempts >= entry[c].attempts
                                         /\ Rank(entry'[c].tier) >= Rank(entry[c].tier)
<1>1. CoordinatorInv /\ [Next]_vars => [Kept]_vars
  BY ManagerStep, EffortStep DEF CoordinatorInv
<1>2. QED
  BY <1>1, CoordinatorInvariance, PTL DEF Spec, EffortIsKept

-----------------------------------------------------------------------------
(* The swarms as the coordinator sees them *)

\* A registered swarm was started, and when its task is done its result is on record; in a
\* dry run nobody is told that a flag is right.
RecordInv ==
  /\ \A c \in swarms : /\ task[c] # "none"
                       /\ task[c] = "done" => results[c] \in {"flag_found", "flag_candidate", "no_result"}
  /\ noSubmit => accepted = {}

LEMMA SpawnRecord ==
  ASSUME TypeOK, SwarmsAreOwned, RecordInv, NEW c \in Challenges, DoSpawn(c), UNCHANGED noSubmit
  PROVE  RecordInv'
<1>1. swarms \ Retired = Live
  BY RestIsLive DEF SwarmsAreOwned
<1>2. accepted' \subseteq accepted
  BY DEF DoSpawn, NoLaunch, Skip, Launch
<1>3. \A d \in swarms' : task'[d] \in {"running", "releasing"}
  <2>1. CASE Launch(c, Live)
    BY <2>1 DEF TypeOK, Launch, Live
  <2>2. CASE NoLaunch(Live)
    BY <2>2 DEF NoLaunch, Live
  <2>3. QED
    BY <1>1, <2>1, <2>2 DEF DoSpawn, Skip
<1>4. QED
  BY <1>2, <1>3 DEF RecordInv

LEMMA RecordStep == CoordinatorInv /\ RecordInv /\ [Next]_vars => RecordInv'
<1> SUFFICES ASSUME TypeOK, SwarmsAreOwned, RecordInv, [Next]_vars PROVE RecordInv'
  BY DEF CoordinatorInv
<1>1. CASE UNCHANGED <<noSubmit, swarms, task, accepted, results>>
  BY <1>1 DEF RecordInv
<1>2. ASSUME NEW c \in Challenges, DoSpawn(c), UNCHANGED noSubmit PROVE RecordInv'
  BY <1>2, SpawnRecord
<1>3. CASE PlanIdles
  BY <1>3, RestIsLive
     DEF PlanIdles, NoLaunch, AfterPlanning, SwarmsAreOwned, Live, RecordInv, resultVars
<1>4. ASSUME NEW c \in Challenges, PlanSpawns(c) \/ AutoSpawn(c) PROVE RecordInv'
  BY <1>1, <1>2, <1>4 DEF PlanSpawns, AfterPlanning, AutoSpawn, swarmVars, resultVars
<1>5. CASE UNCHANGED vars \/ SeedStep \/ PollStep \/ AutoSpawned \/ HandleEvents \/ CheckExit
  BY <1>1, <1>5
     DEF vars, SeedStep, Seed, PollStep, Poll, AutoSpawned, HandleEvents, CheckExit, swarmVars,
         resultVars
<1>6. ASSUME NEW c \in Challenges, PlatformAccepts(c) \/ TeammateSolves(c) PROVE RecordInv'
  BY <1>1, <1>6 DEF PlatformAccepts, TeammateSolves, RecordInv, swarmVars, resultVars
<1>7. ASSUME NEW c \in Challenges, SwarmEnds(c) \/ ReleaseEnds(c) PROVE RecordInv'
  BY <1>7
     DEF TypeOK, RecordInv, SwarmEnds, SwarmFindsNothing, SwarmFindsCandidate, SwarmFindsFlag,
         ReleaseEnds, EnvReleased, EnvReleaseFails, Record
<1>8. CASE Restart
  BY <1>8 DEF Restart, RecordInv
<1>9. QED
  BY <1>3, <1>4, <1>5, <1>6, <1>7, <1>8 DEF Next, LoopStep, PlanStep, SpawnStep

\* What the coordinator sees of c stays as it is.
Unseen(c) == /\ UNCHANGED <<noSubmit, Reported(c)>>
             /\ (c \in platSolved') <=> (c \in platSolved)
             /\ (c \in accepted') <=> (c \in accepted)

LEMMA UnseenStutters ==
  ASSUME NEW c \in Challenges, Unseen(c)
  PROVE  UNCHANGED Swarm(c)!vars
BY DEF Unseen, Swarm!vars

\* A step of one challenge does not touch the swarm of another.
LEMMA OthersUnseen ==
  ASSUME TypeOK, NEW c \in Challenges, NEW d \in Challenges \ {c},
         PlatformAccepts(d) \/ SwarmEnds(d) \/ ReleaseEnds(d) \/ TeammateSolves(d)
  PROVE  Unseen(c)
BY DEF TypeOK, PlatformAccepts, SwarmEnds, SwarmFindsNothing, SwarmFindsCandidate, SwarmFindsFlag,
       ReleaseEnds, EnvReleased, EnvReleaseFails, TeammateSolves, Record, Unseen, Reported,
       platformVars, swarmVars, resultVars

\* Where no swarm of c is started, do_spawn_swarm retires it or leaves it alone.
LEMMA RetireStep ==
  ASSUME TypeOK, SwarmsAreOwned, RecordInv, NEW c \in Challenges,
         task'[c] = task[c], c \in swarms' <=> c \in Live,
         (c \in accepted') <=> (c \in accepted), UNCHANGED <<noSubmit, platSolved>>
  PROVE  Swarm(c)!Next \/ Unseen(c)
<1>1. CASE c \in Live
  BY <1>1 DEF Live, Unseen, Reported
<1>2. CASE c \notin Live /\ c \in swarms
  <2>1. task[c] = "done" /\ results[c] \in {"flag_found", "flag_candidate", "no_result"}
    BY <1>2 DEF TypeOK, RecordInv, Live
  <2>2. Reported(c) = results[c] /\ Reported(c)' = "none"
    BY <1>2, <2>1 DEF Reported
  <2>3. Swarm(c)!Retire
    BY <2>1, <2>2 DEF Swarm!Retire, Swarm!Verdicts
  <2>4. QED
    BY <2>3 DEF Swarm!Next
<1>3. CASE c \notin Live /\ c \notin swarms
  BY <1>3 DEF Live, Unseen, Reported
<1>4. QED
  BY <1>1, <1>2, <1>3

LEMMA SpawnSeen ==
  ASSUME TypeOK, SwarmsAreOwned, RecordInv, NEW c \in Challenges,
         NEW d \in Challenges, DoSpawn(d), UNCHANGED <<noSubmit, platSolved>>
  PROVE  Swarm(c)!Next \/ Unseen(c)
<1>1. swarms \ Retired = Live
  BY RestIsLive DEF SwarmsAreOwned
<1>2. CASE NoLaunch(Live)
  BY <1>2, RetireStep DEF NoLaunch
<1>3. CASE Launch(d, Live) /\ c # d
  BY <1>3, RetireStep DEF TypeOK, Launch
<1>4. CASE Launch(d, Live) /\ Admits(d, Live) /\ c = d
  <2>1. Reported(c) # "running"
    BY <1>4 DEF TypeOK, Admits, Live, RecordInv, Reported
  <2>2. Reported(c)' = "running" /\ c \notin accepted'
    BY <1>4 DEF TypeOK, Launch, Reported
  <2>3. Swarm(c)!Start
    BY <2>1, <2>2 DEF Swarm!Start
  <2>4. QED
    BY <2>3 DEF Swarm!Next
<1>5. QED
  BY <1>1, <1>2, <1>3, <1>4 DEF DoSpawn, Skip

\* A swarm that runs is registered, so that its result is seen.
LEMMA EndSeen ==
  ASSUME CoordinatorInv, RecordInv, NEW c \in Challenges, SwarmEnds(c)
  PROVE  Swarm(c)!Next
<1> USE DEF Swarm!Report, Swarm!Verdicts, Swarm!Next
<1>1. c \in swarms /\ Reported(c) = "running"
  BY DEF CoordinatorInv, SwarmsAreOwned, Live, SwarmEnds, SwarmFindsNothing, SwarmFindsCandidate,
         SwarmFindsFlag, Running, Reported
<1>2. task \in [Challenges -> {"none", "running", "releasing", "done"}]
      /\ results \in [Challenges -> {"none", "no_result", "skipped", "flag_found", "flag_candidate"}]
  BY DEF CoordinatorInv, TypeOK
<1>3. UNCHANGED <<noSubmit, platSolved, accepted, swarms>>
  BY DEF SwarmEnds, SwarmFindsNothing, SwarmFindsCandidate, SwarmFindsFlag, platformVars
<1>4. CASE SwarmFindsNothing(c)
  <2>1. Reported(c)' = "no_result"
    BY <1>1, <1>2, <1>3, <1>4 DEF SwarmFindsNothing, Record, Reported
  <2>2. QED
    BY <1>1, <1>3, <2>1
<1>5. CASE SwarmFindsCandidate(c)
  <2>1. Reported(c)' = "flag_candidate" /\ noSubmit /\ c \notin accepted
    BY <1>1, <1>2, <1>3, <1>5 DEF SwarmFindsCandidate, Record, Reported, RecordInv
  <2>2. QED
    BY <1>1, <1>3, <2>1
<1>6. CASE SwarmFindsFlag(c)
  <2>1. Reported(c)' = "flag_found" /\ c \in accepted
    BY <1>1, <1>2, <1>3, <1>6 DEF SwarmFindsFlag, Record, Reported
  <2>2. QED
    BY <1>1, <1>3, <2>1
<1>7. QED
  BY <1>4, <1>5, <1>6 DEF SwarmEnds

\* Each step of the coordinator is a step of the swarm of c, or does not touch it.
LEMMA VerdictStep ==
  ASSUME CoordinatorInv, RecordInv, [Next]_vars, NEW c \in Challenges
  PROVE  [Swarm(c)!Next]_(Swarm(c)!vars)
<1>0. TypeOK /\ SwarmsAreOwned
  BY DEF CoordinatorInv
<1>1. CASE PlanIdles
  <2>1. swarms' = Live /\ UNCHANGED <<noSubmit, platSolved, task, accepted>>
    BY <1>0, <1>1, RestIsLive
       DEF PlanIdles, NoLaunch, AfterPlanning, SwarmsAreOwned, platformVars
  <2>2. Swarm(c)!Next \/ Unseen(c)
    BY <1>0, <2>1, RetireStep
  <2>3. QED
    BY <2>2, UnseenStutters
<1>2. ASSUME NEW d \in Challenges, PlanSpawns(d) \/ AutoSpawn(d)
      PROVE  Swarm(c)!Next \/ Unseen(c)
  <2>1. UNCHANGED <<noSubmit, platSolved>> /\ (DoSpawn(d) \/ UNCHANGED <<swarmVars, resultVars>>)
    BY <1>2 DEF PlanSpawns, AfterPlanning, AutoSpawn, platformVars
  <2>2. CASE DoSpawn(d)
    BY <1>0, <2>1, <2>2, SpawnSeen
  <2>3. CASE UNCHANGED <<swarmVars, resultVars>>
    BY <2>1, <2>3 DEF Unseen, Reported, swarmVars, resultVars
  <2>4. QED
    BY <2>1, <2>2, <2>3
<1>3. CASE UNCHANGED vars \/ SeedStep \/ PollStep \/ AutoSpawned \/ HandleEvents \/ CheckExit
  <2>1. UNCHANGED <<noSubmit, platSolved, swarms, task, accepted, results>>
    BY <1>3
       DEF vars, SeedStep, Seed, PollStep, Poll, AutoSpawned, HandleEvents, CheckExit,
           platformVars, swarmVars, resultVars
  <2>2. Unseen(c)
    BY <2>1 DEF Unseen, Reported
  <2>3. QED
    BY <2>2, UnseenStutters
<1>4. CASE PlatformAccepts(c)
  <2>1. Reported(c) = "running" /\ Reported(c)' = "running"
    BY <1>4 DEF PlatformAccepts, Running, Reported
  <2>2. Swarm(c)!Confirm
    BY <1>4, <2>1 DEF PlatformAccepts, Swarm!Confirm
  <2>3. QED
    BY <2>2 DEF Swarm!Next
<1>5. CASE TeammateSolves(c)
  <2>1. UNCHANGED Reported(c)
    BY <1>5 DEF TeammateSolves, Reported, swarmVars, resultVars
  <2>2. Swarm(c)!Solve
    BY <1>5, <2>1 DEF TeammateSolves, Swarm!Solve, swarmVars
  <2>3. QED
    BY <2>2 DEF Swarm!Next
<1>6. CASE SwarmEnds(c)
  BY <1>6, EndSeen
<1>7. CASE ReleaseEnds(c)
  <2>1. c \in swarms /\ task[c] = "releasing"
    BY <1>0, <1>7 DEF SwarmsAreOwned, Live, ReleaseEnds, EnvReleased, EnvReleaseFails
  <2>2. task'[c] = "done" /\ results'[c] = "flag_found"
        /\ UNCHANGED <<noSubmit, platSolved, swarms, accepted>>
    BY <1>0, <1>7
       DEF TypeOK, ReleaseEnds, EnvReleased, EnvReleaseFails, Record, platformVars
  <2>3. Unseen(c)
    BY <2>1, <2>2 DEF Unseen, Reported
  <2>4. QED
    BY <2>3, UnseenStutters
<1>8. CASE Restart
  <2>1. Reported(c)' = "none"
    BY <1>8 DEF Restart, Reported
  <2>2. Swarm(c)!Crash
    BY <1>8, <2>1 DEF Restart, Swarm!Crash, platformVars
  <2>3. QED
    BY <2>2 DEF Swarm!Next
<1>9. ASSUME NEW d \in Challenges \ {c},
              PlatformAccepts(d) \/ SwarmEnds(d) \/ ReleaseEnds(d) \/ TeammateSolves(d)
       PROVE  Unseen(c)
  BY <1>0, <1>9, OthersUnseen
<1>10. QED
  BY <1>1, <1>2, <1>3, <1>4, <1>5, <1>6, <1>7, <1>8, <1>9, UnseenStutters
     DEF Next, LoopStep, PlanStep, SpawnStep

\* The coordinator (do_spawn_swarm, retire_finished_swarms, _run_and_cleanup and
\* finalize_swarm_result) is built on the promise that SwarmKeepsItsVerdict proves of run():
\* the swarm of a challenge keeps its verdict until it is retired and what it was told of a
\* flag until it ends, and its successor starts with neither.
THEOREM VerdictsKept == Spec => SwarmsKeepVerdicts
<1> DEFINE Kept == \A c \in Challenges : [Swarm(c)!Next]_(Swarm(c)!vars)
<1>1. Init => RecordInv
  BY DEF Init, RecordInv
<1>2. CoordinatorInv /\ RecordInv /\ [Next]_vars => RecordInv'
  BY RecordStep
<1>3. Init => \A c \in Challenges : Swarm(c)!Init
  BY DEF Init, Swarm!Init, Reported
<1>4. CoordinatorInv /\ RecordInv /\ [Next]_vars => [Kept]_vars
  BY VerdictStep
<1>5. QED
  BY <1>1, <1>2, <1>3, <1>4, CoordinatorInvariance, PTL DEF Spec, SwarmsKeepVerdicts
=============================================================================
