---------------------------- MODULE ControlProofs ----------------------------
(***************************************************************************)
(* The theorems of KnowledgeFlow and StallPolicy, the two models of          *)
(* control/, for any challenges, texts, models and thresholds.               *)
(*                                                                         *)
(* A policy bump implies that the swarm counts as stalled, and it goes on    *)
(* counting as stalled until it makes progress (QuietInv): the next round's  *)
(* strategy therefore sees the bumps in vain (BlockedInv), although the      *)
(* clock is read anew for the plan.  What a plan was made on still holds     *)
(* when it is executed (PlannedInv).                                         *)
(*                                                                         *)
(* TailIsExact is inductive once every half-line is known to be its          *)
(* solver's (TraceInv), because a read that resumes at an open line finds    *)
(* what a read of the whole finds (ReadResumes).  ToldOnce needs that what  *)
(* was told is noted as applied, that nothing planned was, and that one id   *)
(* has one entry (ToldInv, EntriesInv).                                      *)
(***************************************************************************)
EXTENDS KnowledgeFlow, StallPolicy, SequenceTheorems, WellFoundedInduction, TLAPS

-----------------------------------------------------------------------------
(* StallPolicy: the inductive invariant *)

\* Once the policy has bumped, the swarm counts as stalled until it makes progress, and no
\* more of these bumps are remembered than of all bumps.
QuietInv ==
  /\ quietBumps > 0 => watched /\ progressAge = StallAfter
  /\ quietBumps <= bumps \/ bumps = 3

\* The strategy that was computed in this round knows of three bumps in vain.
BlockedInv ==
  step = "read" /\ Running /\ "verified" \notin believed /\ quietBumps >= 3 =>
    strategy.stage = "blocked"

\* What a bump that is still to be executed was planned on still holds.
PlannedInv ==
  /\ step = "policy" /\ todo # <<>> =>
       /\ Len(todo) = 1 /\ watched /\ progressAge = StallAfter /\ bumpAge = Cooldown
       /\ "verified" \in believed \/ quietBumps <= 2
  /\ step = "asked" => bumpAge = Cooldown
  /\ step = "advice" /\ todo # <<>> => bumpAge = Cooldown \/ doubled

StallInv == StallTypeOK /\ QuietInv /\ BlockedInv /\ PlannedInv /\ BumpsEnd

LEMMA StallInitInv == StallInit => StallInv
<1> SUFFICES ASSUME StallInit PROVE StallInv
  OBVIOUS
<1>1. todo \in Seq(Models \union {"unknown"}) /\ strategy \in
        [stage : {"recon", "exploit", "blocked"}, active : BOOLEAN]
  BY DEF StallInit
<1>2. stepped \in BOOLEAN /\ watched \in BOOLEAN /\ doubled \in BOOLEAN
  BY DEF StallInit
<1>3. progressAge \in 0 .. StallAfter /\ bumpAge \in 0 .. Cooldown
  BY StallAssumption DEF StallInit
<1>4. StallTypeOK
  BY <1>1, <1>2, <1>3 DEF StallInit, StallTypeOK
<1>5. QuietInv /\ BlockedInv /\ PlannedInv /\ BumpsEnd
  BY DEF StallInit, QuietInv, BlockedInv, PlannedInv, BumpsEnd
<1>6. QED
  BY <1>4, <1>5 DEF StallInv

\* A snapshot that starts the progress anew forgets the bumps as well.
LEMMA NoteStep ==
  ASSUME StallTypeOK, QuietInv, NoteProgress, UNCHANGED bumps
  PROVE  /\ watched' \in BOOLEAN /\ stepped' \in BOOLEAN
         /\ progressAge' \in 0 .. StallAfter
         /\ quietBumps' \in 0 .. 4 /\ quietBumps' <= quietBumps
         /\ guided' \subseteq Models
         /\ QuietInv'
<1>1. CASE Running
  <2>1. watched' /\ watched' \in BOOLEAN /\ stepped' \in BOOLEAN
    BY <1>1 DEF NoteProgress
  <2>2. CASE stepped \/ ~watched
    <3>1. progressAge' = 0 /\ (stepped => quietBumps' = 0 /\ guided' = {})
      BY <1>1, <2>2 DEF NoteProgress, NoticeProgress
    <3>2. ~stepped => quietBumps' = 0 /\ quietBumps = 0 /\ guided' = guided
      BY <1>1, <2>2 DEF NoteProgress, QuietInv, StallTypeOK
    <3>3. QED
      BY <2>1, <3>1, <3>2, StallAssumption DEF StallTypeOK, QuietInv
  <2>3. CASE ~stepped /\ watched
    <3>1. progressAge' = progressAge /\ quietBumps' = quietBumps /\ guided' = guided
      BY <1>1, <2>3 DEF NoteProgress, NoticeProgress
    <3>2. QED
      BY <2>1, <2>3, <3>1 DEF StallTypeOK, QuietInv
  <2>4. QED
    BY <2>2, <2>3
<1>2. CASE ~Running
  BY <1>2, StallAssumption DEF StallTypeOK, QuietInv, NoteProgress
<1>3. QED
  BY <1>1, <1>2

LEMMA ReducedType ==
  ASSUME NEW mem, NEW stalled
  PROVE  Reduced(mem, stalled) \in [stage : {"recon", "exploit", "blocked"}, active : BOOLEAN]
BY DEF Reduced

LEMMA ReadTickStep == ASSUME StallInv, ReadTick PROVE StallInv'
<1> USE DEF StallInv, ReadTick
<1>1. /\ watched' \in BOOLEAN /\ stepped' \in BOOLEAN /\ progressAge' \in 0 .. StallAfter
      /\ quietBumps' \in 0 .. 4 /\ quietBumps' <= quietBumps /\ guided' \subseteq Models
      /\ QuietInv'
  BY NoteStep
<1>2. believed' \subseteq Evidence /\ said' \subseteq Evidence /\ believed \subseteq believed'
  BY DEF StallTypeOK, Believe
<1>3. strategy' \in [stage : {"recon", "exploit", "blocked"}, active : BOOLEAN]
  BY ReducedType
<1>4. StallTypeOK'
  BY <1>1, <1>2, <1>3 DEF StallTypeOK
<1>5. BlockedInv'
  <2> SUFFICES ASSUME Running', "verified" \notin believed', quietBumps' >= 3
               PROVE  strategy'.stage = "blocked"
    BY DEF BlockedInv
  <2>1. Running
    BY DEF Running
  <2>2. watched' /\ progressAge' = StallAfter /\ bumps >= 3
    BY <1>1, StallAssumption DEF QuietInv, StallTypeOK
  <2>3. StalledAfterSnapshot
    BY <2>1, <2>2, StallAssumption DEF StalledAfterSnapshot
  <2>4. QED
    BY <2>2, <2>3 DEF Reduced
<1>6. PlannedInv'
  BY DEF PlannedInv
<1>7. BumpsEnd'
  BY <1>1, <1>2 DEF BumpsEnd, StallTypeOK
<1>8. QED
  BY <1>1, <1>4, <1>5, <1>6, <1>7

\* The refresh after executed actions, or none.
LEMMA RefreshStep ==
  ASSUME StallInv, todo = <<>>, UNCHANGED todo, doubled' = FALSE, step' \in {"advisor", "events"},
         \/ RefreshStrategy
         \/ UNCHANGED <<solverView, clockVars, stateVars, bumps, quietBumps, guided>>
  PROVE  StallInv'
<1> USE DEF StallInv
<1>1. CASE RefreshStrategy
  <2>1. /\ watched' \in BOOLEAN /\ stepped' \in BOOLEAN /\ progressAge' \in 0 .. StallAfter
        /\ quietBumps' \in 0 .. 4 /\ quietBumps' <= quietBumps /\ guided' \subseteq Models
        /\ QuietInv'
    BY <1>1, NoteStep DEF RefreshStrategy
  <2>2. strategy' \in [stage : {"recon", "exploit", "blocked"}, active : BOOLEAN]
    BY <1>1, ReducedType DEF RefreshStrategy
  <2>3. StallTypeOK'
    BY <1>1, <2>1, <2>2 DEF StallTypeOK, RefreshStrategy
  <2>4. QED
    BY <1>1, <2>1, <2>3 DEF StallTypeOK, BlockedInv, PlannedInv, BumpsEnd, RefreshStrategy
<1>2. CASE UNCHANGED <<solverView, clockVars, stateVars, bumps, quietBumps, guided>>
  BY <1>2 DEF solverView, clockVars, stateVars, StallTypeOK, QuietInv, BlockedInv, PlannedInv,
              BumpsEnd
<1>3. QED
  BY <1>1, <1>2

LEMMA BumpStep == ASSUME StallInv, ExecuteBump PROVE StallInv'
<1> USE DEF StallInv
<1>1. todo \in Seq(Models \union {"unknown"}) /\ todo # <<>>
  BY DEF StallTypeOK, ExecuteBump
<1>2. todo' = Tail(todo) /\ todo' \in Seq(Models \union {"unknown"}) /\ Len(todo') = Len(todo) - 1
  BY <1>1 DEF ExecuteBump
<1>3. Len(todo) = 1 => todo' = <<>>
  BY <1>2
<1>4. step' = step /\ step \in {"policy", "advice"}
  BY DEF ExecuteBump
<1>5. /\ said' \subseteq Evidence /\ bumpAge' \in 0 .. Cooldown /\ bumps' \in 0 .. 3
      /\ quietBumps' \in 0 .. 4 /\ guided' \subseteq Models /\ doubled' \in BOOLEAN
  <2>1. CASE Head(todo) \in Models /\ DoBump(Head(todo), step = "policy") /\ doubled' = (step = "advice")
    <3>1. doubled' \in BOOLEAN
      BY <2>1
    <3>2. said' \subseteq Evidence /\ guided' \subseteq Models
      BY <2>1 DEF StallTypeOK, DoBump, Evidence
    <3>3. bumpAge' = 0 /\ bumps' = Saturated(bumps, 3)
          /\ quietBumps' \in {quietBumps, Saturated(quietBumps, 4)}
      BY <2>1 DEF DoBump
    <3>4. QED
      BY <3>1, <3>2, <3>3, StallAssumption DEF StallTypeOK, Saturated
  <2>2. CASE UNCHANGED <<said, bumpAge, bumpVars>>
    BY <2>2 DEF StallTypeOK, bumpVars
  <2>3. QED
    BY <2>1, <2>2 DEF ExecuteBump
<1>6. StallTypeOK'
  BY <1>2, <1>4, <1>5 DEF StallTypeOK, ExecuteBump, stateVars
<1>7. CASE step = "policy"
  <2>1. /\ todo' = <<>> /\ watched /\ progressAge = StallAfter
        /\ "verified" \in believed \/ quietBumps <= 2
    BY <1>1, <1>3, <1>7 DEF PlannedInv
  <2>2. QuietInv' /\ BumpsEnd'
    <3>1. \/ quietBumps' = quietBumps /\ bumps' = bumps
          \/ quietBumps' = Saturated(quietBumps, 4) /\ bumps' = Saturated(bumps, 3)
      BY <1>7 DEF ExecuteBump, DoBump, bumpVars
    <3>2. watched' = watched /\ progressAge' = progressAge /\ believed' = believed
      BY DEF ExecuteBump, stateVars
    <3>3. QED
      BY <2>1, <3>1, <3>2 DEF QuietInv, BumpsEnd, Saturated, StallTypeOK
  <2>3. QED
    BY <1>4, <1>6, <1>7, <2>1, <2>2 DEF BlockedInv, PlannedInv
<1>8. CASE step = "advice"
  <2>1. quietBumps' = quietBumps /\ bumps' \in {bumps, Saturated(bumps, 3)}
    BY <1>8 DEF ExecuteBump, DoBump, bumpVars
  <2>2. watched' = watched /\ progressAge' = progressAge /\ believed' = believed
    BY DEF ExecuteBump, stateVars
  <2>3. QuietInv' /\ BumpsEnd'
    BY <2>1, <2>2 DEF QuietInv, BumpsEnd, Saturated, StallTypeOK
  <2>4. doubled' \/ (bumpAge' = bumpAge /\ doubled' = doubled)
    <3>1. CASE doubled' = (step = "advice")
      BY <1>8, <3>1, Zenon
    <3>2. CASE UNCHANGED <<said, bumpAge, bumpVars>>
      BY <3>2 DEF bumpVars
    <3>3. QED
      BY <3>1, <3>2 DEF ExecuteBump
  <2>5. bumpAge = Cooldown \/ doubled
    BY <1>1, <1>8 DEF PlannedInv
  <2>6. QED
    BY <1>4, <1>6, <1>8, <2>3, <2>4, <2>5 DEF BlockedInv, PlannedInv
<1>9. QED
  BY <1>4, <1>7, <1>8

LEMMA StallStep == ASSUME StallInv, [StallNext]_stallVars PROVE StallInv'
<1> USE DEF StallInv
<1>1. CASE Elapse
  BY <1>1, StallAssumption
     DEF Elapse, Saturated, StallTypeOK, QuietInv, BlockedInv, PlannedInv, BumpsEnd,
         Running, solverView, stateVars, bumpVars
<1>2. CASE SolverSteps
  BY <1>2 DEF SolverSteps, StallTypeOK, QuietInv, BlockedInv, PlannedInv, BumpsEnd,
              Running, clockVars, stateVars, bumpVars
<1>3. ASSUME NEW m \in Models, SolverEnds(m) PROVE StallInv'
  BY <1>3 DEF SolverEnds, StallTypeOK, QuietInv, BlockedInv, PlannedInv, BumpsEnd,
              Running, clockVars, stateVars, bumpVars
<1>4. CASE ReadTick
  BY <1>4, ReadTickStep
<1>5. CASE PlanTick
  <2>1. /\ UNCHANGED <<solverView, clockVars, stateVars, bumpVars>>
        /\ step = "read" /\ step' = "policy"
    BY <1>5 DEF PlanTick
  <2>2. QuietInv' /\ BlockedInv' /\ BumpsEnd'
    BY <2>1 DEF QuietInv, BlockedInv, BumpsEnd, clockVars, stateVars, bumpVars
  <2>3. CASE Running /\ ShouldBump /\ strategy.active /\ strategy.stage # "blocked"
    <3>1. todo' = <<First>> /\ Len(todo') = 1 /\ todo' \in Seq(Models \union {"unknown"})
      BY <1>5, <2>3, StallAssumption DEF PlanTick
    <3>2. watched /\ progressAge = StallAfter /\ bumpAge = Cooldown
      BY <2>3, StallAssumption DEF ShouldBump, Stalled, Cooled, StallTypeOK
    <3>3. "verified" \in believed \/ quietBumps <= 2
      BY <2>1, <2>3 DEF BlockedInv, StallTypeOK
    <3>4. PlannedInv'
      BY <2>1, <3>1, <3>2, <3>3 DEF PlannedInv, clockVars, stateVars, bumpVars
    <3>5. StallTypeOK'
      BY <2>1, <3>1 DEF StallTypeOK, solverView, clockVars, stateVars, bumpVars
    <3>6. QED
      BY <2>2, <3>4, <3>5
  <2>4. CASE todo' = <<>>
    <3>1. PlannedInv'
      BY <2>1, <2>4 DEF PlannedInv
    <3>2. StallTypeOK'
      BY <2>1, <2>4 DEF StallTypeOK, solverView, clockVars, stateVars, bumpVars
    <3>3. QED
      BY <2>2, <3>1, <3>2
  <2>5. QED
    BY <1>5, <2>3, <2>4 DEF PlanTick
<1>6. CASE ExecuteBump
  BY <1>6, BumpStep
<1>7. CASE PolicyTickEnds \/ AdvisorTickEnds
  BY <1>7, RefreshStep DEF PolicyTickEnds, AdvisorTickEnds
<1>8. CASE AskAdvisor
  <2>1. UNCHANGED <<solverView, clockVars, stateVars, bumpVars, todo>>
    BY <1>8 DEF AskAdvisor
  <2>2. step' \in {"asked", "events"} /\ (step' = "asked" => bumpAge = Cooldown)
    BY <1>8, StallAssumption DEF AskAdvisor, ShouldBump, Cooled, StallTypeOK
  <2>3. QED
    BY <2>1, <2>2 DEF StallTypeOK, QuietInv, BlockedInv, PlannedInv, BumpsEnd,
                      solverView, clockVars, stateVars, bumpVars
<1>9. CASE AdvisorAnswers
  <2>1. UNCHANGED <<solverView, clockVars, stateVars, bumpVars>> /\ step = "asked" /\ step' = "advice"
    BY <1>9 DEF AdvisorAnswers
  <2>2. todo' \in Seq(Models \union {"unknown"})
    <3>1. PICK n \in 0 .. MaxAdvice : todo' \in [1 .. n -> Models \union {"unknown"}]
      BY <1>9 DEF AdvisorAnswers, Suggestions
    <3>2. QED
      BY <3>1, StallAssumption, SeqDef
  <2>3. QED
    BY <2>1, <2>2 DEF StallTypeOK, QuietInv, BlockedInv, PlannedInv, BumpsEnd,
                      solverView, clockVars, stateVars, bumpVars
<1>10. CASE UNCHANGED stallVars
  BY <1>10 DEF StallTypeOK, QuietInv, BlockedInv, PlannedInv, BumpsEnd, Running, stallVars,
               solverView, clockVars, stateVars, bumpVars
<1>11. QED
  BY <1>1, <1>2, <1>3, <1>4, <1>5, <1>6, <1>7, <1>8, <1>9, <1>10 DEF StallNext, StallGoesOn

\* No step bumps a swarm, or starts the cooldown anew, unless the cooldown is over or the
\* step executes a second suggestion of one answer.
Spaced == bumps' # bumps \/ bumpAge' < bumpAge => bumpAge = Cooldown \/ doubled
LEMMA SpacedStep == ASSUME StallInv, [StallNext]_stallVars PROVE [Spaced]_stallVars
<1> USE DEF StallInv
<1> SUFFICES ASSUME StallNext, bumps' # bumps \/ bumpAge' < bumpAge
             PROVE  bumpAge = Cooldown \/ doubled
  BY DEF Spaced
<1>1. bumpAge \in 0 .. Cooldown
  BY DEF StallTypeOK
<1>2. ~Elapse
  BY <1>1, StallAssumption DEF Elapse, Saturated, bumpVars
<1>3. ~SolverSteps /\ \A m \in Models : ~SolverEnds(m)
  BY <1>1 DEF SolverSteps, SolverEnds, clockVars, bumpVars
<1>4. ~ReadTick /\ ~PlanTick /\ ~AskAdvisor /\ ~AdvisorAnswers
  BY <1>1 DEF ReadTick, PlanTick, AskAdvisor, AdvisorAnswers, clockVars, bumpVars
<1>5. ~PolicyTickEnds /\ ~AdvisorTickEnds
  BY <1>1 DEF PolicyTickEnds, AdvisorTickEnds, RefreshStrategy, clockVars
<1>6. ExecuteBump
  BY <1>2, <1>3, <1>4, <1>5 DEF StallNext, StallGoesOn
<1>7. QED
  BY <1>6 DEF ExecuteBump, PlannedInv

\* Every variable of the guidance keeps its type.
THEOREM StallTypes == StallSpec => []StallTypeOK
<1>1. StallInit => StallInv
  BY StallInitInv
<1>2. StallInv /\ [StallNext]_stallVars => StallInv'
  BY StallStep
<1>3. StallInv => StallTypeOK
  BY DEF StallInv
<1>4. QED
  BY <1>1, <1>2, <1>3, PTL DEF StallSpec

\* A swarm that makes no progress is bumped by the policy three times at most as long as
\* nothing is verified, whatever the thresholds and the advisor.
THEOREM BumpsAreBounded == StallSpec => []BumpsEnd
<1>1. StallInit => StallInv
  BY StallInitInv
<1>2. StallInv /\ [StallNext]_stallVars => StallInv'
  BY StallStep
<1>3. StallInv => BumpsEnd
  BY DEF StallInv
<1>4. QED
  BY <1>1, <1>2, <1>3, PTL DEF StallSpec

\* Policy and advisor keep the cooldown together, whatever it is; only a second suggestion
\* of one answer comes too early.
THEOREM BumpsAreSpaced == StallSpec => GuidanceIsSpaced
<1>1. StallInit => StallInv
  BY StallInitInv
<1>2. StallInv /\ [StallNext]_stallVars => StallInv'
  BY StallStep
<1>3. StallInv /\ [StallNext]_stallVars => [Spaced]_stallVars
  BY SpacedStep
<1>4. QED
  BY <1>1, <1>2, <1>3, PTL DEF StallSpec, GuidanceIsSpaced, Spaced

-----------------------------------------------------------------------------
(* KnowledgeFlow: the inductive invariant *)

\* Everything in the trace of a challenge, on its way there or kept between two reads, is
\* of its solver.
HalfOf(S) == [text : S, ends : BOOLEAN]
HalvesOf(c) == HalfOf(Writes[c])
TraceInv ==
  \A c \in Challenges :
    /\ file[c] \in Seq(HalvesOf(c)) /\ unsent[c] \in Seq(HalvesOf(c))
    /\ pending[c] \in Seq(HalvesOf(c)) /\ memory[c] \subseteq Writes[c]
    /\ c \notin truncated => offset[c] <= Len(file[c])

\* One entry for one id, whoever found it.
EntriesInv == \A e, f \in entries : e.id = f.id => e = f

\* What a challenge was told is noted as applied, and comes from another challenge, as does
\* what is planned for it and was not yet told.
FromOther(c, i) == \E e \in entries : e.id = i /\ e.source # c
ToldInv ==
  /\ \A c \in Challenges :
       /\ \A k \in DOMAIN received[c] : received[c][k] \in state[c].applied
       /\ \A i \in state[c].applied : FromOther(c, i)
       /\ \A k, l \in DOMAIN received[c] : received[c][k] = received[c][l] => k = l
  /\ \A a \in plan : a.id \notin state[a.challenge].applied /\ FromOther(a.challenge, a.id)

FlowInv == FlowTypeOK /\ TraceInv /\ EntriesInv /\ ToldInv /\ TailIsExact

-----------------------------------------------------------------------------
(* KnowledgeFlow: lines and parts of a trace *)

IsLine(b, j) == /\ j \in 2 .. Len(b) /\ b[j].ends /\ ~b[j - 1].ends /\ b[j].text = b[j - 1].text
                /\ j > 2 => b[j - 2].ends

\* After n no line of b ends, and at n one does.
EndsAt(b, n) == /\ n \in 0 .. Len(b) /\ (n > 0 => b[n].ends)
                /\ \A j \in n + 1 .. Len(b) : ~b[j].ends

LEMMA LinesAre == ASSUME NEW b PROVE LinesIn(b) = {b[j].text : j \in {i \in 2 .. Len(b) : IsLine(b, i)}}
BY DEF LinesIn, IsLine

LEMMA LinesText ==
  ASSUME NEW S, NEW b \in Seq(HalfOf(S))
  PROVE  LinesIn(b) \subseteq S
<1>1. \A j \in 2 .. Len(b) : b[j] \in HalfOf(S)
  BY ElementOfSeq, LenProperties
<1>2. QED
  BY <1>1, LinesAre DEF HalfOf

\* The end of the last whole line.
LEMMA EndExists ==
  ASSUME NEW S, NEW b \in Seq(HalfOf(S))
  PROVE  \E n \in 0 .. Len(b) : EndsAt(b, n)
<1> DEFINE rest == {n \in Nat : n <= Len(b) /\ (Len(b) - n > 0 => b[Len(b) - n].ends)}
<1>1. Len(b) \in Nat
  BY LenProperties
<1>2. Len(b) \in rest
  BY <1>1
<1>3. PICK x \in rest : \A y \in rest : ~(<<y, x>> \in OpToRel(<, Nat))
  BY <1>2, NatLessThanWellFounded, WFMin
<1>4. \A y \in rest : ~(y < x)
  BY <1>3 DEF OpToRel
<1>5. ASSUME NEW j \in Len(b) - x + 1 .. Len(b), b[j].ends PROVE FALSE
  <2>1. Len(b) - j \in Nat /\ Len(b) - (Len(b) - j) = j /\ Len(b) - j < x /\ Len(b) - j <= Len(b)
    BY <1>1
  <2>2. Len(b) - j \in rest
    BY <1>5, <2>1
  <2>3. QED
    BY <1>4, <2>1, <2>2
<1>6. EndsAt(b, Len(b) - x)
  BY <1>1, <1>5 DEF EndsAt
<1>7. Len(b) - x \in 0 .. Len(b)
  BY <1>1
<1>8. QED
  BY <1>6, <1>7

LEMMA PartFrom ==
  ASSUME NEW S, NEW b \in Seq(HalfOf(S)), NEW n, EndsAt(b, n)
  PROVE  LastPart(b) = SubSeq(b, n + 1, Len(b))
<1> DEFINE closed == {j \in DOMAIN b : b[j].ends}
           last == CHOOSE j \in closed \union {0} : \A k \in closed : k <= j
<1>1. DOMAIN b = 1 .. Len(b) /\ Len(b) \in Nat
  BY LenProperties
<1>2. n \in closed \union {0} /\ \A k \in closed : k <= n
  BY <1>1 DEF EndsAt
<1>3. last \in closed \union {0} /\ \A k \in closed : k <= last
  BY <1>2
<1>4. closed \subseteq Nat
  BY <1>1
<1> HIDE DEF last, closed
<1>5. last = n
  <2>1. n \in Nat /\ last \in Nat
    BY <1>1, <1>3, <1>4 DEF EndsAt
  <2>2. n # 0 => n <= last
    BY <1>2, <1>3
  <2>3. last # 0 => last <= n
    BY <1>2, <1>3
  <2>4. QED
    BY <2>1, <2>2, <2>3
<1>6. QED
  BY <1>5 DEF LastPart, last, closed

LEMMA PartType ==
  ASSUME NEW S, NEW b \in Seq(HalfOf(S))
  PROVE  LastPart(b) \in Seq(HalfOf(S))
<1>1. PICK n \in 0 .. Len(b) : EndsAt(b, n)
  BY EndExists
<1>2. LastPart(b) = SubSeq(b, n + 1, Len(b)) /\ Len(b) \in Nat
  BY <1>1, PartFrom, LenProperties
<1>3. \A i \in n + 1 .. Len(b) : b[i] \in HalfOf(S)
  BY <1>2, ElementOfSeq
<1>4. QED
  BY <1>2, <1>3, SubSeqProperties

\* Reading on from the open line finds the lines, and the open line, of the whole.
LEMMA ReadResumes ==
  ASSUME NEW S, NEW r \in Seq(HalfOf(S)), NEW x \in Seq(HalfOf(S))
  PROVE  /\ LinesIn(r \o x) = LinesIn(r) \union LinesIn(LastPart(r) \o x)
         /\ LastPart(r \o x) = LastPart(LastPart(r) \o x)
<1>1. PICK n \in 0 .. Len(r) : EndsAt(r, n)
  BY EndExists
<1> DEFINE w == r \o x
           p == SubSeq(r, n + 1, Len(r))
           b == p \o x
<1>2. Len(r) \in Nat /\ Len(x) \in Nat /\ n \in Nat /\ n <= Len(r)
  BY LenProperties
<1>3. LastPart(r) = p /\ p \in Seq(HalfOf(S))
  BY <1>1, PartFrom, PartType
<1>4. Len(p) = Len(r) - n /\ \A i \in 1 .. Len(p) : p[i] = r[n + i]
  <2>1. \A i \in n + 1 .. Len(r) : r[i] \in HalfOf(S)
    BY <1>2, ElementOfSeq
  <2>2. /\ Len(p) = IF n + 1 <= Len(r) THEN Len(r) - (n + 1) + 1 ELSE 0
        /\ \A i \in 1 .. Len(r) - (n + 1) + 1 : p[i] = r[n + 1 + i - 1]
    BY <1>2, <2>1, SubSeqProperties
  <2>3. QED
    BY <1>2, <2>2
<1>5. /\ w \in Seq(HalfOf(S)) /\ Len(w) = Len(r) + Len(x)
      /\ \A i \in 1 .. Len(w) : w[i] = IF i <= Len(r) THEN r[i] ELSE x[i - Len(r)]
  BY ConcatProperties
<1>6. /\ b \in Seq(HalfOf(S)) /\ Len(b) = Len(p) + Len(x)
      /\ \A i \in 1 .. Len(b) : b[i] = IF i <= Len(p) THEN p[i] ELSE x[i - Len(p)]
  BY <1>3, ConcatProperties
<1> HIDE DEF w, p, b
<1>7. /\ Len(b) = Len(w) - n /\ Len(b) \in Nat /\ Len(w) \in Nat
      /\ \A i \in 1 .. Len(b) : b[i] = w[n + i]
  <2>1. Len(b) = Len(w) - n /\ Len(b) \in Nat /\ Len(w) \in Nat
    BY <1>2, <1>4, <1>5, <1>6
  <2>2. ASSUME NEW i \in 1 .. Len(b) PROVE b[i] = w[n + i]
    <3>1. CASE i <= Len(p)
      BY <1>2, <1>4, <1>5, <1>6, <2>1, <3>1
    <3>2. CASE ~(i <= Len(p))
      <4>1. n + i \in 1 .. Len(w) /\ ~(n + i <= Len(r)) /\ (n + i) - Len(r) = i - Len(p)
        BY <1>2, <1>4, <2>1, <3>2
      <4>2. QED
        BY <1>5, <1>6, <3>2, <4>1
    <3>3. QED
      BY <3>1, <3>2
  <2>3. QED
    BY <2>1, <2>2
<1>8. \A i \in 1 .. Len(r) : w[i] = r[i]
  BY <1>2, <1>5
<1>9. (n > 0 => w[n].ends) /\ \A j \in n + 1 .. Len(r) : ~w[j].ends
  BY <1>1, <1>2, <1>8 DEF EndsAt
<1>10. LinesIn(w) = LinesIn(r) \union LinesIn(b)
  <2>1. \A j \in 2 .. Len(r) : IsLine(r, j) => IsLine(w, j) /\ j \in 2 .. Len(w) /\ w[j] = r[j]
    <3> SUFFICES ASSUME NEW j \in 2 .. Len(r), IsLine(r, j)
                 PROVE  IsLine(w, j) /\ j \in 2 .. Len(w) /\ w[j] = r[j]
      OBVIOUS
    <3>1. j \in 2 .. Len(w) /\ j \in 1 .. Len(r) /\ j - 1 \in 1 .. Len(r)
      BY <1>2, <1>5
    <3>2. w[j] = r[j] /\ w[j - 1] = r[j - 1]
      BY <1>8, <3>1
    <3>3. j > 2 => w[j - 2].ends
      <4>1. CASE j > 2
        <5>1. j - 2 \in 1 .. Len(r)
          BY <1>2, <4>1
        <5>2. QED
          BY <1>8, <4>1, <5>1 DEF IsLine
      <4>2. QED
        BY <4>1
    <3>4. QED
      BY <3>1, <3>2, <3>3 DEF IsLine
  <2>2. \A i \in 2 .. Len(b) : IsLine(b, i) => IsLine(w, n + i) /\ n + i \in 2 .. Len(w) /\ w[n + i] = b[i]
    <3> SUFFICES ASSUME NEW i \in 2 .. Len(b), IsLine(b, i)
                 PROVE  IsLine(w, n + i) /\ n + i \in 2 .. Len(w) /\ w[n + i] = b[i]
      OBVIOUS
    <3>1. n + i \in 2 .. Len(w) /\ w[n + i] = b[i] /\ w[(n + i) - 1] = b[i - 1]
      <4>1. i - 1 \in 1 .. Len(b) /\ n + (i - 1) = (n + i) - 1 /\ i \in 1 .. Len(b)
        BY <1>2, <1>7
      <4>2. QED
        BY <1>2, <1>7, <4>1
    <3>2. n + i > 2 => w[(n + i) - 2].ends
      <4>1. CASE i > 2
        <5>1. i - 2 \in 1 .. Len(b) /\ n + (i - 2) = (n + i) - 2
          BY <1>2, <1>7, <4>1
        <5>2. b[i - 2].ends
          BY <4>1 DEF IsLine
        <5>3. QED
          BY <1>7, <5>1, <5>2
      <4>2. CASE i = 2
        BY <1>2, <1>9, <4>2
      <4>3. QED
        BY <1>7, <4>1, <4>2
    <3>3. QED
      BY <3>1, <3>2 DEF IsLine
  <2>3. \A j \in 2 .. Len(w) : IsLine(w, j) =>
           \/ j \in 2 .. Len(r) /\ IsLine(r, j) /\ r[j] = w[j]
           \/ j - n \in 2 .. Len(b) /\ IsLine(b, j - n) /\ b[j - n] = w[j]
    <3> SUFFICES ASSUME NEW j \in 2 .. Len(w), IsLine(w, j)
                 PROVE  \/ j \in 2 .. Len(r) /\ IsLine(r, j) /\ r[j] = w[j]
                        \/ j - n \in 2 .. Len(b) /\ IsLine(b, j - n) /\ b[j - n] = w[j]
      OBVIOUS
    <3>1. CASE j <= n
      <4>1. j \in 2 .. Len(r) /\ r[j] = w[j] /\ r[j - 1] = w[j - 1] /\ (j > 2 => r[j - 2] = w[j - 2])
        BY <1>2, <1>8, <3>1
      <4>2. QED
        BY <4>1 DEF IsLine
    <3>2. CASE j > n
      <4>1. j - n # 1
        BY <1>2, <1>9, <3>2 DEF IsLine
      <4>2. j - n \in 2 .. Len(b)
        BY <1>2, <1>7, <3>2, <4>1
      <4>3. b[j - n] = w[j] /\ b[(j - n) - 1] = w[j - 1] /\ (j - n > 2 => b[(j - n) - 2] = w[j - 2])
        <5>1. \A i \in 1 .. Len(b) : b[i] = w[n + i]
          BY <1>7
        <5>2. n + (j - n) = j /\ n + ((j - n) - 1) = j - 1 /\ n + ((j - n) - 2) = j - 2
          BY <1>2
        <5>3. j - n \in 1 .. Len(b) /\ (j - n) - 1 \in 1 .. Len(b) /\ (j - n > 2 => (j - n) - 2 \in 1 .. Len(b))
          BY <1>2, <1>7, <4>2
        <5>4. QED
          BY <5>1, <5>2, <5>3
      <4>4. j - n > 2 => j > 2
        BY <1>2
      <4>5. QED
        BY <4>2, <4>3, <4>4 DEF IsLine
    <3>3. QED
      BY <1>2, <1>7, <3>1, <3>2
  <2>4. LinesIn(r) \subseteq LinesIn(w)
    BY <2>1, LinesAre
  <2>5. LinesIn(b) \subseteq LinesIn(w)
    BY <2>2, LinesAre
  <2>6. ASSUME NEW t \in LinesIn(w) PROVE t \in LinesIn(r) \union LinesIn(b)
    <3>1. PICK j \in {i \in 2 .. Len(w) : IsLine(w, i)} : t = w[j].text
      BY LinesAre
    <3>2. CASE j \in 2 .. Len(r) /\ IsLine(r, j) /\ r[j] = w[j]
      BY <3>1, <3>2, LinesAre
    <3>3. CASE j - n \in 2 .. Len(b) /\ IsLine(b, j - n) /\ b[j - n] = w[j]
      BY <3>1, <3>3, LinesAre
    <3>4. QED
      BY <2>3, <3>2, <3>3
  <2>7. QED
    BY <2>4, <2>5, <2>6
<1>11. LastPart(w) = LastPart(b)
  <2>1. PICK k \in 0 .. Len(b) : EndsAt(b, k)
    BY <1>6, EndExists
  <2>2. EndsAt(w, n + k)
    <3>1. n + k \in 0 .. Len(w)
      BY <1>2, <1>7
    <3>2. n + k > 0 => w[n + k].ends
      <4>1. CASE k = 0
        BY <1>2, <1>9, <4>1
      <4>2. CASE k > 0
        <5>1. b[k].ends /\ k \in 1 .. Len(b)
          BY <1>7, <2>1, <4>2 DEF EndsAt
        <5>2. QED
          BY <1>7, <5>1
      <4>3. QED
        BY <1>7, <4>1, <4>2
    <3>3. ASSUME NEW j \in (n + k) + 1 .. Len(w) PROVE ~w[j].ends
      <4>1. j - n \in k + 1 .. Len(b) /\ j - n \in 1 .. Len(b) /\ n + (j - n) = j
        BY <1>2, <1>7
      <4>2. QED
        BY <1>7, <2>1, <4>1 DEF EndsAt
    <3>4. QED
      BY <3>1, <3>2, <3>3 DEF EndsAt
  <2>3. LastPart(w) = SubSeq(w, (n + k) + 1, Len(w)) /\ LastPart(b) = SubSeq(b, k + 1, Len(b))
    BY <1>5, <1>6, <2>1, <2>2, PartFrom
  <2>4. \A i \in (n + k) + 1 .. Len(w) : w[i] \in HalfOf(S)
    BY <1>2, <1>5, <1>7, ElementOfSeq
  <2>5. \A i \in k + 1 .. Len(b) : b[i] \in HalfOf(S)
    BY <1>6, <1>7, ElementOfSeq
  <2>6. /\ SubSeq(w, (n + k) + 1, Len(w)) \in Seq(HalfOf(S))
        /\ Len(SubSeq(w, (n + k) + 1, Len(w))) = Len(b) - k
        /\ \A i \in 1 .. Len(b) - k : SubSeq(w, (n + k) + 1, Len(w))[i] = w[n + (k + i)]
    <3>1. /\ SubSeq(w, (n + k) + 1, Len(w)) \in Seq(HalfOf(S))
          /\ Len(SubSeq(w, (n + k) + 1, Len(w))) =
               IF (n + k) + 1 <= Len(w) THEN Len(w) - ((n + k) + 1) + 1 ELSE 0
          /\ \A i \in 1 .. Len(w) - ((n + k) + 1) + 1 :
               SubSeq(w, (n + k) + 1, Len(w))[i] = w[(n + k) + 1 + i - 1]
      BY <1>2, <1>7, <2>4, SubSeqProperties
    <3>2. Len(w) - ((n + k) + 1) + 1 = Len(b) - k /\ Len(b) - k \in Nat
          /\ \A i \in 1 .. Len(b) - k : (n + k) + 1 + i - 1 = n + (k + i)
      BY <1>2, <1>7
    <3>3. QED
      BY <1>2, <1>7, <3>1, <3>2
  <2>7. /\ SubSeq(b, k + 1, Len(b)) \in Seq(HalfOf(S))
        /\ Len(SubSeq(b, k + 1, Len(b))) = Len(b) - k
        /\ \A i \in 1 .. Len(b) - k : SubSeq(b, k + 1, Len(b))[i] = b[k + i]
    <3>1. /\ SubSeq(b, k + 1, Len(b)) \in Seq(HalfOf(S))
          /\ Len(SubSeq(b, k + 1, Len(b))) = IF k + 1 <= Len(b) THEN Len(b) - (k + 1) + 1 ELSE 0
          /\ \A i \in 1 .. Len(b) - (k + 1) + 1 : SubSeq(b, k + 1, Len(b))[i] = b[k + 1 + i - 1]
      BY <1>7, <2>5, SubSeqProperties
    <3>2. Len(b) - (k + 1) + 1 = Len(b) - k /\ Len(b) - k \in Nat
          /\ \A i \in 1 .. Len(b) - k : k + 1 + i - 1 = k + i
      BY <1>7
    <3>3. Len(SubSeq(b, k + 1, Len(b))) = Len(b) - k
      BY <1>7, <3>1
    <3>4. QED
      BY <3>1, <3>2, <3>3
  <2>8. \A i \in 1 .. Len(b) - k : b[k + i] = w[n + (k + i)]
    BY <1>7
  <2>9. QED
    BY <2>3, <2>6, <2>7, <2>8, SeqEqual
<1>12. QED
  BY <1>3, <1>10, <1>11 DEF w, b

-----------------------------------------------------------------------------
(* KnowledgeFlow: the steps *)

LEMMA HalvesTyped == ASSUME NEW c \in Challenges PROVE Seq(HalvesOf(c)) \subseteq Seq(Halves)
<1>1. HalvesOf(c) \subseteq Halves
  BY FlowAssumption DEF HalvesOf, HalfOf, Halves
<1>2. QED
  BY <1>1, SeqMonotonic

\* What the read part of a trace is does not change when the trace grows.
LEMMA ReadPart ==
  ASSUME NEW S, NEW s \in Seq(S), NEW x \in Seq(S), NEW n \in 0 .. Len(s)
  PROVE  SubSeq(s \o x, 1, n) = SubSeq(s, 1, n)
<1>1. CASE n = 0
  <2>1. SubSeq(s \o x, 1, 0) = <<>> /\ SubSeq(s, 1, 0) = <<>>
    BY SubSeqEmpty
  <2>2. QED
    BY <1>1, <2>1
<1>2. CASE n > 0
  <2>1. n \in 1 .. Len(s) /\ 1 \in 1 .. Len(s)
    BY <1>2, LenProperties
  <2>2. QED
    BY <2>1, SubSeqOfConcat1
<1>3. QED
  BY <1>1, <1>2, LenProperties

\* A trace that grows, by what its solver writes, keeps what the tail has read of it.
LEMMA GrowStep ==
  ASSUME FlowInv, NEW c \in Challenges, NEW x \in Seq(HalvesOf(c)), NEW u \in Seq(HalvesOf(c)),
         file' = [file EXCEPT ![c] = @ \o x], unsent' = [unsent EXCEPT ![c] = u],
         UNCHANGED <<offset, pending, earlier, truncated, memory>>
  PROVE  /\ TraceInv' /\ TailIsExact'
         /\ file' \in [Challenges -> Seq(Halves)] /\ unsent' \in [Challenges -> Seq(Halves)]
<1> USE DEF FlowInv
<1>1. file \in [Challenges -> Seq(Halves)] /\ unsent \in [Challenges -> Seq(Halves)]
  BY DEF FlowTypeOK
<1>2. file'[c] = file[c] \o x /\ unsent'[c] = u
  BY <1>1
<1>3. \A d \in Challenges \ {c} : file'[d] = file[d] /\ unsent'[d] = unsent[d]
  BY <1>1
<1>4. file[c] \in Seq(HalvesOf(c))
  BY DEF TraceInv
<1>5. file'[c] \in Seq(HalvesOf(c)) /\ Len(file'[c]) = Len(file[c]) + Len(x) /\ Len(x) \in Nat
      /\ Len(file[c]) \in Nat
  BY <1>2, <1>4, ConcatProperties, LenProperties
<1>6. file' \in [Challenges -> Seq(Halves)] /\ unsent' \in [Challenges -> Seq(Halves)]
  BY <1>1, <1>2, <1>5, HalvesTyped
<1>7. offset[c] \in Nat
  BY DEF FlowTypeOK
<1>8. TraceInv'
  <2> SUFFICES ASSUME NEW d \in Challenges
               PROVE  /\ file'[d] \in Seq(HalvesOf(d)) /\ unsent'[d] \in Seq(HalvesOf(d))
                      /\ pending[d] \in Seq(HalvesOf(d)) /\ memory[d] \subseteq Writes[d]
                      /\ d \notin truncated => offset[d] <= Len(file'[d])
    BY DEF TraceInv, HalvesOf
  <2>1. CASE d = c
    BY <1>2, <1>5, <1>7, <2>1 DEF TraceInv
  <2>2. CASE d # c
    BY <1>3, <2>2 DEF TraceInv
  <2>3. QED
    BY <2>1, <2>2
<1>9. TailIsExact'
  <2>1. \A d \in Challenges \ truncated : SubSeq(file'[d], 1, offset[d]) = SubSeq(file[d], 1, offset[d])
    <3> SUFFICES ASSUME NEW d \in Challenges \ truncated, d = c
                 PROVE  SubSeq(file'[d], 1, offset[d]) = SubSeq(file[d], 1, offset[d])
      BY <1>3
    <3>1. offset[c] \in 0 .. Len(file[c])
      BY <1>5, <1>7 DEF TraceInv
    <3>2. QED
      BY <1>2, <1>4, <3>1, ReadPart
  <2>2. QED
    BY <2>1 DEF TailIsExact
<1>10. QED
  BY <1>6, <1>8, <1>9

LEMMA TraceStep ==
  ASSUME FlowInv, NEW c \in Challenges, NEW t \in Writes[c], Trace(c, t)
  PROVE  FlowInv'
<1> USE DEF FlowInv
<1> DEFINE out == unsent[c] \o Line(t)
<1>1. Line(t) \in Seq(HalvesOf(c))
  BY DEF Line, HalvesOf, HalfOf
<1>2. out \in Seq(HalvesOf(c)) /\ Len(out) \in Nat
  BY <1>1, ConcatProperties, LenProperties DEF TraceInv
<1> HIDE DEF out
<1>3. PICK k \in 0 .. Len(out) :
        /\ file' = [file EXCEPT ![c] = @ \o SubSeq(out, 1, k)]
        /\ unsent' = [unsent EXCEPT ![c] = SubSeq(out, k + 1, Len(out))]
  BY DEF Trace, out
<1>4. SubSeq(out, 1, k) \in Seq(HalvesOf(c)) /\ SubSeq(out, k + 1, Len(out)) \in Seq(HalvesOf(c))
  <2>1. \A i \in 1 .. Len(out) : out[i] \in HalvesOf(c)
    BY <1>2, ElementOfSeq
  <2>2. (\A i \in 1 .. k : out[i] \in HalvesOf(c)) /\ (\A i \in k + 1 .. Len(out) : out[i] \in HalvesOf(c))
    BY <1>2, <2>1
  <2>3. QED
    BY <1>2, <2>2, SubSeqProperties
<1>5. UNCHANGED <<offset, pending, earlier, truncated, memory>>
  BY DEF Trace, knowledgeVars
<1>6. /\ TraceInv' /\ TailIsExact'
      /\ file' \in [Challenges -> Seq(Halves)] /\ unsent' \in [Challenges -> Seq(Halves)]
  BY <1>3, <1>4, <1>5, GrowStep
<1>7. written' \in [Challenges -> Nat] /\ \A d \in Challenges : written'[d] <= MaxLines[d]
  <2>1. written' = [written EXCEPT ![c] = written[c] + 1] /\ written[c] < MaxLines[c]
    BY DEF Trace
  <2>2. written \in [Challenges -> Nat] /\ \A d \in Challenges : written[d] <= MaxLines[d] /\ MaxLines[d] \in Nat
    BY FlowAssumption DEF FlowTypeOK
  <2>3. QED
    BY <2>1, <2>2
<1>8. FlowTypeOK'
  BY <1>6, <1>7 DEF FlowTypeOK, Trace, swarmVars, knowledgeVars, loopVars, historyVars
<1>9. EntriesInv' /\ ToldInv'
  BY DEF Trace, knowledgeVars, loopVars, historyVars, EntriesInv, ToldInv, FromOther
<1>10. QED
  BY <1>6, <1>8, <1>9

LEMMA EmptyStep ==
  ASSUME FlowInv, NEW c \in Challenges, EmptyFile(c)
  PROVE  FlowInv'
<1> USE DEF FlowInv
<1>1. file' = [file EXCEPT ![c] = <<>>] /\ truncated' = truncated \union {c} /\ c \in Emptied
      /\ UNCHANGED <<run, recorded, unsent, written, offset, pending, traces, earlier, memory, entries,
                     state, phase, plan, received, unread>>
  BY DEF EmptyFile, swarmVars, knowledgeVars, loopVars, historyVars
<1>2. file \in [Challenges -> Seq(Halves)]
  BY DEF FlowTypeOK
<1>3. file'[c] = <<>> /\ \A d \in Challenges \ {c} : file'[d] = file[d]
  BY <1>1, <1>2
<1>4. <<>> \in Seq(Halves) /\ <<>> \in Seq(HalvesOf(c))
  BY EmptySeq
<1>5. FlowTypeOK'
  <2>1. file' \in [Challenges -> Seq(Halves)] /\ truncated' \subseteq Emptied
    BY <1>1, <1>2, <1>4 DEF FlowTypeOK
  <2>2. QED
    BY <1>1, <2>1 DEF FlowTypeOK
<1>6. TraceInv'
  <2> SUFFICES ASSUME NEW d \in Challenges
               PROVE  /\ file'[d] \in Seq(HalvesOf(d)) /\ unsent[d] \in Seq(HalvesOf(d))
                      /\ pending[d] \in Seq(HalvesOf(d)) /\ memory[d] \subseteq Writes[d]
                      /\ d \notin truncated' => offset[d] <= Len(file'[d])
    BY <1>1 DEF TraceInv, HalvesOf
  <2>1. CASE d = c
    BY <1>1, <1>3, <1>4, <2>1 DEF TraceInv
  <2>2. CASE d # c
    BY <1>1, <1>3, <2>2 DEF TraceInv
  <2>3. QED
    BY <2>1, <2>2
<1>7. TailIsExact'
  <2> SUFFICES ASSUME NEW d \in Challenges
               PROVE  IF d \in truncated' THEN memory[d] \subseteq Writes[d]
                      ELSE /\ memory[d] = earlier[d] \union
                                            (LinesIn(SubSeq(file'[d], 1, offset[d])) \cap Findings)
                           /\ pending[d] = LastPart(SubSeq(file'[d], 1, offset[d]))
    BY <1>1 DEF TailIsExact
  <2>1. CASE d = c
    BY <1>1, <2>1 DEF TraceInv
  <2>2. CASE d # c
    BY <1>1, <1>3, <2>2 DEF TailIsExact
  <2>3. QED
    BY <2>1, <2>2
<1>8. EntriesInv' /\ ToldInv'
  BY <1>1 DEF EntriesInv, ToldInv, FromOther
<1>9. QED
  BY <1>5, <1>6, <1>7, <1>8

LEMMA EndsStep ==
  ASSUME FlowInv, NEW c \in Challenges, SwarmEnds(c)
  PROVE  FlowInv'
<1> USE DEF FlowInv
<1>1. /\ run' = [run EXCEPT ![c] = "done"] /\ unsent' = [unsent EXCEPT ![c] = <<>>]
      /\ recorded' = recorded \union {c}
      /\ UNCHANGED <<written, offset, pending, traces, earlier, truncated, memory, entries, state,
                     phase, plan, received, unread>>
  BY DEF SwarmEnds, knowledgeVars, loopVars, historyVars
<1>2. unsent[c] \in Seq(HalvesOf(c)) /\ <<>> \in Seq(HalvesOf(c))
  BY EmptySeq DEF TraceInv
<1>3. \E x \in Seq(HalvesOf(c)) : file' = [file EXCEPT ![c] = @ \o x]
  <2>1. CASE UNCHANGED file
    <3>1. file[c] \o <<>> = file[c]
      BY ConcatEmptySeq DEF TraceInv
    <3>2. file' = [file EXCEPT ![c] = file[c] \o <<>>]
      BY <2>1, <3>1 DEF FlowTypeOK
    <3>3. QED
      BY <1>2, <3>2
  <2>2. QED
    BY <1>2, <2>1 DEF SwarmEnds
<1>4. /\ TraceInv' /\ TailIsExact'
      /\ file' \in [Challenges -> Seq(Halves)] /\ unsent' \in [Challenges -> Seq(Halves)]
  BY <1>1, <1>2, <1>3, GrowStep
<1>5. run' \in [Challenges -> {"absent", "running", "done", "retired"}] /\ recorded' \subseteq Challenges
  BY <1>1 DEF FlowTypeOK
<1>6. FlowTypeOK'
  BY <1>1, <1>4, <1>5 DEF FlowTypeOK
<1>7. EntriesInv' /\ ToldInv'
  BY <1>1 DEF EntriesInv, ToldInv, FromOther
<1>8. QED
  BY <1>4, <1>6, <1>7

\* A step that leaves traces and knowledge alone leaves alone what is said of them.
LEMMA TailKept ==
  ASSUME FlowInv, UNCHANGED <<traceVars, knowledgeVars>>
  PROVE  TraceInv' /\ EntriesInv' /\ TailIsExact'
BY DEF FlowInv, TraceInv, EntriesInv, TailIsExact, HalvesOf, latestVars, traceVars, knowledgeVars

LEMMA EmptyRead ==
  /\ SubSeq(<<>>, 1, 0) = <<>> /\ LinesIn(<<>>) = {} /\ LastPart(<<>>) = <<>>
<1>1. SubSeq(<<>>, 1, 0) = <<>>
  BY SubSeqEmpty
<1>2. <<>> \in Seq(HalfOf({})) /\ Len(<<>>) = 0
  BY EmptySeq
<1>3. LinesIn(<<>>) = {}
  BY <1>2, LinesAre
<1>4. EndsAt(<<>>, 0)
  BY <1>2 DEF EndsAt
<1>5. LastPart(<<>>) = SubSeq(<<>>, 0 + 1, Len(<<>>))
  BY <1>2, <1>4, PartFrom
<1>6. QED
  BY <1>1, <1>2, <1>3, <1>5

\* Of a new trace nothing is read, and what the memory holds was there before it.
LEMMA NewTraceStep ==
  ASSUME FlowInv, NEW c \in Challenges, NewTrace(c), UNCHANGED memory
  PROVE  /\ TraceInv' /\ TailIsExact'
         /\ file' \in [Challenges -> Seq(Halves)] /\ unsent' \in [Challenges -> Seq(Halves)]
         /\ pending' \in [Challenges -> Seq(Halves)] /\ offset' \in [Challenges -> Nat]
         /\ traces' \in [Challenges -> Nat] /\ earlier' \in [Challenges -> SUBSET Findings]
<1> USE DEF FlowInv
<1>1. /\ file' = [file EXCEPT ![c] = <<>>] /\ unsent' = [unsent EXCEPT ![c] = <<>>]
      /\ pending' = [pending EXCEPT ![c] = <<>>] /\ offset' = [offset EXCEPT ![c] = 0]
      /\ traces' = [traces EXCEPT ![c] = traces[c] + 1]
      /\ earlier' = [earlier EXCEPT ![c] = memory[c]]
      /\ UNCHANGED <<truncated, memory>>
  BY DEF NewTrace
<1>2. \A S : <<>> \in Seq(S) /\ Len(<<>>) = 0
  BY EmptySeq
<1>3. /\ file' \in [Challenges -> Seq(Halves)] /\ unsent' \in [Challenges -> Seq(Halves)]
      /\ pending' \in [Challenges -> Seq(Halves)] /\ offset' \in [Challenges -> Nat]
      /\ traces' \in [Challenges -> Nat] /\ earlier' \in [Challenges -> SUBSET Findings]
  BY <1>1, <1>2 DEF FlowTypeOK
<1>4. /\ file'[c] = <<>> /\ unsent'[c] = <<>> /\ pending'[c] = <<>> /\ offset'[c] = 0
      /\ earlier'[c] = memory[c]
      /\ \A d \in Challenges \ {c} :
           /\ file'[d] = file[d] /\ unsent'[d] = unsent[d] /\ pending'[d] = pending[d]
           /\ offset'[d] = offset[d] /\ earlier'[d] = earlier[d]
  BY <1>1 DEF FlowTypeOK
<1>5. TraceInv'
  <2> SUFFICES ASSUME NEW d \in Challenges
               PROVE  /\ file'[d] \in Seq(HalvesOf(d)) /\ unsent'[d] \in Seq(HalvesOf(d))
                      /\ pending'[d] \in Seq(HalvesOf(d)) /\ memory[d] \subseteq Writes[d]
                      /\ d \notin truncated => offset'[d] <= Len(file'[d])
    BY <1>1 DEF TraceInv, HalvesOf
  <2>1. CASE d = c
    <3>1. <<>> \in Seq(HalvesOf(d)) /\ 0 <= Len(<<>>)
      BY <1>2
    <3>2. memory[d] \subseteq Writes[d]
      BY DEF TraceInv
    <3>3. QED
      BY <1>4, <2>1, <3>1, <3>2
  <2>2. CASE d # c
    BY <1>4, <2>2 DEF TraceInv
  <2>3. QED
    BY <2>1, <2>2
<1>6. TailIsExact'
  <2> SUFFICES ASSUME NEW d \in Challenges
               PROVE  IF d \in truncated THEN memory[d] \subseteq Writes[d]
                      ELSE /\ memory[d] = earlier'[d] \union
                                            (LinesIn(SubSeq(file'[d], 1, offset'[d])) \cap Findings)
                           /\ pending'[d] = LastPart(SubSeq(file'[d], 1, offset'[d]))
    BY <1>1 DEF TailIsExact
  <2>1. CASE d = c
    BY <1>4, <2>1, EmptyRead DEF TraceInv
  <2>2. CASE d # c
    BY <1>4, <2>2 DEF TailIsExact
  <2>3. QED
    BY <2>1, <2>2
<1>7. QED
  BY <1>3, <1>5, <1>6

LEMMA SpawnStep ==
  ASSUME FlowInv, NEW c \in Challenges, Spawn(c)
  PROVE  FlowInv'
<1> USE DEF FlowInv
<1>1. NewTrace(c) /\ UNCHANGED <<recorded, written, truncated, knowledgeVars, loopVars, received>>
  BY DEF Spawn, NewTrace
<1>2. run' \in [Challenges -> {"absent", "running", "done", "retired"}] /\ unread' \subseteq Challenges
  BY DEF Spawn, Retire, GiveUp, FlowTypeOK
<1>3. FlowTypeOK'
  BY <1>1, <1>2, NewTraceStep DEF FlowTypeOK, knowledgeVars, loopVars
<1>4. EntriesInv' /\ ToldInv'
  BY <1>1 DEF EntriesInv, ToldInv, FromOther, loopVars, knowledgeVars
<1>5. QED
  BY <1>1, <1>3, <1>4, NewTraceStep DEF knowledgeVars

LEMMA FallbackStep ==
  ASSUME FlowInv, NEW c \in Challenges, Fallback(c)
  PROVE  FlowInv'
<1> USE DEF FlowInv
<1>1. NewTrace(c) /\ UNCHANGED <<swarmVars, written, truncated, knowledgeVars, loopVars, received>>
  BY DEF Fallback, NewTrace
<1>2. unread' \subseteq Challenges
  BY DEF Fallback, GiveUp, FlowTypeOK
<1>3. FlowTypeOK'
  BY <1>1, <1>2, NewTraceStep DEF FlowTypeOK, swarmVars, knowledgeVars, loopVars
<1>4. EntriesInv' /\ ToldInv'
  BY <1>1 DEF EntriesInv, ToldInv, FromOther, loopVars, knowledgeVars
<1>5. QED
  BY <1>1, <1>3, <1>4, NewTraceStep DEF knowledgeVars

-----------------------------------------------------------------------------
(* KnowledgeFlow: the loop *)

States == [status : {"absent", "running", "finished"}, applied : SUBSET Ids]

LEMMA SnapshotType ==
  ASSUME FlowTypeOK, NEW c \in Challenges
  PROVE  Snapshot(c) \in States /\ Snapshot(c).applied = state[c].applied
<1> DEFINE s == CASE c \in recorded -> "finished"
                  [] run[c] = "running" -> "running"
                  [] OTHER -> "absent"
<1>1. s \in {"absent", "running", "finished"}
  OBVIOUS
<1>2. Snapshot(c) = [state[c] EXCEPT !.status = s]
  BY DEF Snapshot
<1> HIDE DEF s
<1>3. state[c] \in States
  BY DEF FlowTypeOK, States
<1>4. QED
  BY <1>1, <1>2, <1>3 DEF States

\* The state built again, and nothing else.
LEMMA DoneStep ==
  ASSUME FlowInv, PolicyDone \/ AdviceDone
  PROVE  FlowInv'
<1> USE DEF FlowInv
<1>1. /\ state' = [c \in Challenges |-> Snapshot(c)]
      /\ phase' \in {"advice", "events"}
      /\ UNCHANGED <<swarmVars, traceVars, knowledgeVars, plan, historyVars>>
  BY DEF PolicyDone, AdviceDone
<1>2. state' \in [Challenges -> States] /\ \A c \in Challenges : state'[c].applied = state[c].applied
  BY <1>1, SnapshotType
<1>3. FlowTypeOK'
  BY <1>1, <1>2 DEF FlowTypeOK, States, swarmVars, latestVars, traceVars, knowledgeVars, historyVars
<1>4. ToldInv'
  BY <1>1, <1>2 DEF ToldInv, FromOther, FlowTypeOK, Plans, knowledgeVars, historyVars
<1>5. QED
  BY <1>1, <1>3, <1>4, TailKept

LEMMA PolicySpawnStep ==
  ASSUME FlowInv, PolicySpawn
  PROVE  FlowInv'
<1> USE DEF FlowInv
<1>1. phase' = "policy" /\ UNCHANGED <<recorded, knowledgeVars, state, plan, historyVars>>
  BY DEF PolicySpawn
<1>2. ToldInv' /\ EntriesInv'
  BY <1>1 DEF ToldInv, EntriesInv, FromOther, knowledgeVars, historyVars
<1>3. ASSUME NEW c \in Challenges, NewTrace(c), run' = [run EXCEPT ![c] = "running"]
      PROVE  FlowInv'
  <2>1. UNCHANGED <<written, truncated, memory>>
    BY <1>1, <1>3 DEF NewTrace, knowledgeVars
  <2>2. run' \in [Challenges -> {"absent", "running", "done", "retired"}]
    BY <1>3 DEF FlowTypeOK
  <2>3. FlowTypeOK'
    BY <1>1, <1>3, <2>1, <2>2, NewTraceStep DEF FlowTypeOK, knowledgeVars, historyVars
  <2>4. QED
    BY <1>2, <1>3, <2>1, <2>3, NewTraceStep
<1>4. CASE UNCHANGED <<run, traceVars>>
  <2>1. FlowTypeOK'
    BY <1>1, <1>4 DEF FlowTypeOK, latestVars, traceVars, knowledgeVars, historyVars
  <2>2. QED
    BY <1>1, <1>2, <1>4, <2>1, TailKept
<1>5. QED
  BY <1>3, <1>4 DEF PolicySpawn

LEMMA AdviseStep ==
  ASSUME FlowInv, Advise
  PROVE  FlowInv'
<1> USE DEF FlowInv
<1>1. /\ plan' \in SUBSET {[challenge |-> c, id |-> i] : c \in Challenges, i \in Known}
      /\ \A h \in plan' : h.id \in SummaryOf(h.challenge)
      /\ phase' = "advised"
      /\ UNCHANGED <<swarmVars, traceVars, knowledgeVars, state, historyVars>>
  BY DEF Advise
<1>2. Known \subseteq Ids
  BY DEF Known, FlowTypeOK, Entries
<1>3. plan' \subseteq Plans
  BY <1>1, <1>2 DEF Plans
<1>4. FlowTypeOK'
  BY <1>1, <1>3 DEF FlowTypeOK, swarmVars, latestVars, traceVars, knowledgeVars, historyVars
<1>5. \A a \in plan' : a.id \notin state[a.challenge].applied /\ FromOther(a.challenge, a.id)
  BY <1>1 DEF SummaryOf, Matches, FromOther
<1>6. ToldInv'
  BY <1>1, <1>5 DEF ToldInv, FromOther, knowledgeVars, historyVars
<1>7. QED
  BY <1>1, <1>4, <1>6, TailKept

LEMMA ExecuteStep ==
  ASSUME FlowInv, NEW a \in plan, Execute(a)
  PROVE  FlowInv'
<1> USE DEF FlowInv
<1> DEFINE c == a.challenge
           id == a.id
<1>1. c \in Challenges /\ id \in Ids /\ a = [challenge |-> c, id |-> id]
  BY DEF FlowTypeOK, Plans
<1>2. id \notin state[c].applied /\ FromOther(c, id)
  BY DEF ToldInv
<1>3. plan' = plan \ {a} /\ UNCHANGED <<swarmVars, traceVars, knowledgeVars, phase, unread>>
  BY DEF Execute
<1>4. CASE UNCHANGED <<state, received>>
  <2>1. FlowTypeOK'
    BY <1>3, <1>4 DEF FlowTypeOK, swarmVars, latestVars, traceVars, knowledgeVars
  <2>2. ToldInv'
    BY <1>3, <1>4 DEF ToldInv, FromOther, knowledgeVars
  <2>3. QED
    BY <1>3, <2>1, <2>2, TailKept
<1>5. CASE DoBroadcast(c, id)
  <2>1. /\ received' = [received EXCEPT ![c] = Append(received[c], id)]
        /\ state' = [state EXCEPT ![c] = [state[c] EXCEPT !.applied = state[c].applied \union {id}]]
    BY <1>5 DEF DoBroadcast
  <2>2. /\ received \in [Challenges -> Seq(Ids)] /\ state \in [Challenges -> States]
        /\ \A d \in Challenges : DOMAIN received[d] = 1 .. Len(received[d]) /\ Len(received[d]) \in Nat
    BY LenProperties DEF FlowTypeOK, States
  <2>3. /\ received'[c] = Append(received[c], id) /\ received'[c] \in Seq(Ids)
        /\ Len(received'[c]) = Len(received[c]) + 1 /\ DOMAIN received'[c] = 1 .. Len(received[c]) + 1
        /\ \A k \in 1 .. Len(received[c]) : received'[c][k] = received[c][k]
        /\ received'[c][Len(received[c]) + 1] = id
    BY <1>1, <2>1, <2>2, AppendProperties, LenProperties
  <2>4. state'[c].applied = state[c].applied \union {id} /\ state'[c] \in States
    <3> DEFINE more == state[c].applied \union {id}
    <3>1. more \in SUBSET Ids
      BY <1>1, <2>2 DEF States
    <3>2. state'[c] = [state[c] EXCEPT !.applied = more]
      BY <1>1, <2>1, <2>2
    <3> HIDE DEF more
    <3>3. state'[c].applied = more /\ state'[c] \in States
      BY <1>1, <2>2, <3>1, <3>2 DEF States
    <3>4. QED
      BY <3>3 DEF more
  <2>5. \A d \in Challenges \ {c} : received'[d] = received[d] /\ state'[d] = state[d]
    BY <2>1, <2>2
  <2>6. received' \in [Challenges -> Seq(Ids)] /\ state' \in [Challenges -> States]
    BY <1>1, <2>1, <2>2, <2>3, <2>4
  <2>7. FlowTypeOK'
    BY <1>3, <2>6 DEF FlowTypeOK, States, swarmVars, latestVars, traceVars, knowledgeVars
  <2>8. ASSUME NEW d \in Challenges
        PROVE  /\ \A k \in DOMAIN received'[d] : received'[d][k] \in state'[d].applied
               /\ \A i \in state'[d].applied : FromOther(d, i)
               /\ \A k, l \in DOMAIN received'[d] : received'[d][k] = received'[d][l] => k = l
    <3>1. CASE d = c
      <4>1. \A k \in 1 .. Len(received[c]) : received[c][k] \in state[c].applied
        BY <1>1, <2>2 DEF ToldInv
      <4>2. \A k, l \in 1 .. Len(received[c]) : received[c][k] = received[c][l] => k = l
        BY <1>1, <2>2 DEF ToldInv
      <4>3. \A i \in state[c].applied : FromOther(c, i)
        BY <1>1 DEF ToldInv
      <4>4. \A k \in DOMAIN received'[c] : k \in 1 .. Len(received[c]) \/ k = Len(received[c]) + 1
        BY <1>1, <2>2, <2>3
      <4>5. \A k \in DOMAIN received'[c] : received'[c][k] \in state'[c].applied
        BY <2>3, <2>4, <4>1, <4>4
      <4>6. \A i \in state'[c].applied : FromOther(c, i)
        BY <1>2, <2>4, <4>3
      <4>7. \A k, l \in DOMAIN received'[c] : received'[c][k] = received'[c][l] => k = l
        BY <1>2, <2>3, <4>1, <4>2, <4>4
      <4>8. QED
        BY <3>1, <4>5, <4>6, <4>7
    <3>2. CASE d # c
      BY <2>5, <3>2 DEF ToldInv
    <3>3. QED
      BY <3>1, <3>2
  <2>9. ASSUME NEW h \in plan'
        PROVE  h.id \notin state'[h.challenge].applied /\ FromOther(h.challenge, h.id)
    <3>1. h \in plan /\ h # a /\ h = [challenge |-> h.challenge, id |-> h.id] /\ h.challenge \in Challenges
      BY <1>3 DEF FlowTypeOK, Plans
    <3>2. h.id \notin state[h.challenge].applied /\ FromOther(h.challenge, h.id)
      BY <3>1 DEF ToldInv
    <3>3. h.challenge = c => h.id # id
      BY <1>1, <3>1
    <3>4. QED
      BY <2>4, <2>5, <3>1, <3>2, <3>3
  <2>10. ToldInv'
    BY <1>3, <2>8, <2>9 DEF ToldInv, FromOther, knowledgeVars
  <2>11. QED
    BY <1>3, <2>7, <2>10, TailKept
<1>6. QED
  BY <1>4, <1>5 DEF Execute

\* Whatever is read is of the solver.
LEMMA BufferType ==
  ASSUME FlowInv, NEW c \in Challenges
  PROVE  /\ Buffer(c) \in Seq(HalvesOf(c))
         /\ LinesIn(Buffer(c)) \subseteq Writes[c]
         /\ LastPart(Buffer(c)) \in Seq(HalvesOf(c))
         /\ Len(file[c]) \in Nat
<1> USE DEF FlowInv
<1>1. file[c] \in Seq(HalvesOf(c)) /\ pending[c] \in Seq(HalvesOf(c)) /\ offset[c] \in Nat
  BY DEF TraceInv, FlowTypeOK
<1>2. From(c) \in Nat /\ Len(file[c]) \in Nat
  BY <1>1, LenProperties DEF From
<1>3. Chunk(c) \in Seq(HalvesOf(c))
  <2>1. \A i \in From(c) + 1 .. Len(file[c]) : file[c][i] \in HalvesOf(c)
    BY <1>1, <1>2, ElementOfSeq
  <2>2. QED
    BY <1>2, <2>1, SubSeqProperties DEF Chunk
<1>4. Before(c) \in Seq(HalvesOf(c))
  BY <1>1, EmptySeq DEF Before
<1>5. Buffer(c) \in Seq(HalvesOf(c))
  BY <1>3, <1>4, ConcatProperties DEF Buffer
<1>6. QED
  BY <1>2, <1>5, LinesText, PartType DEF HalvesOf

\* A read continues the tail to the end of the trace.
LEMMA ReadOn ==
  ASSUME FlowInv, NEW c \in Challenges, c \notin truncated
  PROVE  /\ memory[c] \union (LinesIn(Buffer(c)) \cap Findings)
              = earlier[c] \union (LinesIn(file[c]) \cap Findings)
         /\ LastPart(Buffer(c)) = LastPart(file[c])
<1> USE DEF FlowInv
<1> DEFINE n == offset[c]
           read == SubSeq(file[c], 1, n)
           chunk == SubSeq(file[c], n + 1, Len(file[c]))
<1>1. file[c] \in Seq(HalvesOf(c)) /\ n \in Nat /\ n <= Len(file[c]) /\ Len(file[c]) \in Nat
  BY LenProperties DEF TraceInv, FlowTypeOK
<1>2. Buffer(c) = pending[c] \o chunk
  <2>1. ~(offset[c] > Len(file[c]))
    BY <1>1
  <2>2. From(c) = offset[c] /\ Before(c) = pending[c]
    BY <2>1 DEF From, Before
  <2>3. QED
    BY <2>2 DEF Buffer, Chunk
<1>3. memory[c] = earlier[c] \union (LinesIn(read) \cap Findings) /\ pending[c] = LastPart(read)
  BY DEF TailIsExact
<1>4. read \in Seq(HalvesOf(c)) /\ chunk \in Seq(HalvesOf(c))
  <2>1. \A i \in 1 .. Len(file[c]) : file[c][i] \in HalvesOf(c)
    BY <1>1, ElementOfSeq
  <2>2. (\A i \in 1 .. n : file[c][i] \in HalvesOf(c))
        /\ (\A i \in n + 1 .. Len(file[c]) : file[c][i] \in HalvesOf(c))
    BY <1>1, <2>1
  <2>3. QED
    BY <1>1, <2>2, SubSeqProperties
<1>5. read \o chunk = file[c]
  <2>1. 1 \in 1 .. Len(file[c]) + 1 /\ n \in 1 - 1 .. Len(file[c]) /\ Len(file[c]) \in n .. Len(file[c])
    BY <1>1
  <2>2. read \o chunk = SubSeq(file[c], 1, Len(file[c]))
    BY <1>1, <2>1, ConcatAdjacentSubSeq
  <2>3. QED
    BY <1>1, <2>2, SubSeqFull
<1> HIDE DEF read, chunk
<1>6. /\ LinesIn(read \o chunk) = LinesIn(read) \union LinesIn(LastPart(read) \o chunk)
      /\ LastPart(read \o chunk) = LastPart(LastPart(read) \o chunk)
  BY <1>4, ReadResumes DEF HalvesOf
<1>7. QED
  BY <1>2, <1>3, <1>5, <1>6

LEMMA NewIdsTyped ==
  ASSUME FlowTypeOK, NEW c \in Challenges
  PROVE  Promotable(c) \subseteq Ids
<1>1. Remembered(c) \subseteq Findings
  BY DEF Remembered, FlowTypeOK
<1>2. \A f \in Findings : IdOf(c, f) \in Ids
  BY DEF IdOf, Ids, Scopes
<1>3. QED
  BY <1>1, <1>2 DEF Promotable

LEMMA TickStep ==
  ASSUME FlowInv, Tick
  PROVE  FlowInv'
<1> USE DEF FlowInv
<1> DEFINE open(c) == run[c] \in {"running", "done"}
<1>1. /\ memory' = [c \in Challenges |-> Remembered(c)]
      /\ offset' = [c \in Challenges |-> IF open(c) THEN Len(file[c]) ELSE offset[c]]
      /\ pending' = [c \in Challenges |-> IF open(c) THEN LastPart(Buffer(c)) ELSE pending[c]]
      /\ state' = [c \in Challenges |-> Snapshot(c)]
      /\ run' = Retire /\ plan' = Broadcasts(state', entries') /\ phase' = "spawning"
      /\ UNCHANGED <<recorded, file, unsent, written, traces, earlier, truncated, received, unread>>
  BY DEF Tick, ReadTraces, historyVars
<1>2. PICK source \in [NewIds -> Challenges] :
        entries' = entries \union {[id |-> i, source |-> source[i]] : i \in NewIds}
  BY DEF Tick, ReadTraces
<1>3. \A c \in Challenges :
        /\ memory'[c] = IF open(c) THEN memory[c] \union (LinesIn(Buffer(c)) \cap Findings) ELSE memory[c]
        /\ offset'[c] = IF open(c) THEN Len(file[c]) ELSE offset[c]
        /\ pending'[c] = IF open(c) THEN LastPart(Buffer(c)) ELSE pending[c]
  BY <1>1 DEF Remembered
<1>4. NewIds \subseteq Ids /\ NewIds \cap Known = {}
  <2>1. ASSUME NEW i \in NewIds PROVE i \notin Known /\ \E c \in Challenges : i \in Promotable(c)
    <3>1. i \in UNION {Promotable(c) : c \in Challenges} /\ i \notin Known
      BY DEF NewIds
    <3>2. PICK P \in {Promotable(c) : c \in Challenges} : i \in P
      BY <3>1
    <3>3. QED
      BY <3>1, <3>2
  <2>2. QED
    BY <2>1, NewIdsTyped
<1>5. /\ state' \in [Challenges -> States]
      /\ \A c \in Challenges : state'[c].applied = state[c].applied
  BY <1>1, SnapshotType
<1>6. entries' \subseteq Entries /\ entries \subseteq entries'
  BY <1>2, <1>4 DEF FlowTypeOK, Entries
<1>7. \A a \in plan' : /\ a \in Plans /\ a.id \notin state'[a.challenge].applied
                       /\ FromOther(a.challenge, a.id)'
  <2> SUFFICES ASSUME NEW a \in plan'
               PROVE  /\ a \in Plans /\ a.id \notin state'[a.challenge].applied
                      /\ \E e \in entries' : e.id = a.id /\ e.source # a.challenge
    BY DEF FromOther
  <2>1. PICK c \in Challenges :
          /\ Matches(entries', c, state'[c].applied, {}) # {}
          /\ a = [challenge |-> c, id |-> Best(Matches(entries', c, state'[c].applied, {})).id]
    BY <1>1 DEF Broadcasts
  <2>2. Best(Matches(entries', c, state'[c].applied, {})) \in Matches(entries', c, state'[c].applied, {})
    BY <2>1 DEF Best
  <2>3. PICK e \in entries' : e.id = a.id /\ e.id \notin state'[c].applied /\ e.source # c
    BY <2>1, <2>2 DEF Matches
  <2>4. a.id \in Ids
    BY <1>6, <2>3 DEF Entries
  <2>5. QED
    BY <2>1, <2>3, <2>4 DEF Plans
<1>8. FlowTypeOK'
  <2>1. run' \in [Challenges -> {"absent", "running", "done", "retired"}]
    BY <1>1 DEF Retire, FlowTypeOK
  <2>2. memory' \in [Challenges -> SUBSET Findings]
    BY <1>1 DEF FlowTypeOK, Remembered
  <2>3. offset' \in [Challenges -> Nat]
    BY <1>1, BufferType DEF FlowTypeOK
  <2>4. pending' \in [Challenges -> Seq(Halves)]
    BY <1>1, BufferType, HalvesTyped DEF FlowTypeOK
  <2>5. QED
    BY <1>1, <1>5, <1>6, <1>7, <2>1, <2>2, <2>3, <2>4 DEF FlowTypeOK, States
<1>9. TraceInv'
  <2> SUFFICES ASSUME NEW c \in Challenges
               PROVE  /\ file[c] \in Seq(HalvesOf(c)) /\ unsent[c] \in Seq(HalvesOf(c))
                      /\ pending'[c] \in Seq(HalvesOf(c)) /\ memory'[c] \subseteq Writes[c]
                      /\ c \notin truncated => offset'[c] <= Len(file[c])
    BY <1>1 DEF TraceInv, HalvesOf
  <2>1. file[c] \in Seq(HalvesOf(c)) /\ unsent[c] \in Seq(HalvesOf(c))
    BY DEF TraceInv
  <2>2. pending'[c] \in Seq(HalvesOf(c)) /\ memory'[c] \subseteq Writes[c]
    BY <1>3, BufferType DEF TraceInv
  <2>3. c \notin truncated => offset'[c] <= Len(file[c])
    <3>1. Len(file[c]) \in Nat
      BY BufferType
    <3>2. CASE open(c)
      <4>1. offset'[c] = Len(file[c])
        BY <1>3, <3>2
      <4>2. QED
        BY <3>1, <4>1
    <3>3. CASE ~open(c)
      BY <1>3, <3>3 DEF TraceInv
    <3>4. QED
      BY <3>2, <3>3
  <2>4. QED
    BY <2>1, <2>2, <2>3
<1>10. TailIsExact'
  <2> SUFFICES ASSUME NEW c \in Challenges
               PROVE  IF c \in truncated THEN memory'[c] \subseteq Writes[c]
                      ELSE /\ memory'[c] = earlier[c] \union
                                             (LinesIn(SubSeq(file[c], 1, offset'[c])) \cap Findings)
                           /\ pending'[c] = LastPart(SubSeq(file[c], 1, offset'[c]))
    BY <1>1 DEF TailIsExact
  <2>1. CASE c \in truncated
    BY <1>9, <2>1 DEF TraceInv
  <2>2. CASE c \notin truncated /\ ~open(c)
    BY <1>3, <2>2 DEF TailIsExact
  <2>3. CASE c \notin truncated /\ open(c)
    <3>1. SubSeq(file[c], 1, offset'[c]) = file[c]
      BY <1>3, <2>3, SubSeqFull DEF TraceInv
    <3>2. QED
      BY <1>3, <2>3, <3>1, ReadOn
  <2>4. QED
    BY <2>1, <2>2, <2>3
<1>11. EntriesInv'
  <2> SUFFICES ASSUME NEW e \in entries', NEW f \in entries', e.id = f.id
               PROVE  e = f
    BY DEF EntriesInv
  <2>1. \A g \in entries' : \/ g \in entries /\ g.id \notin NewIds
                            \/ g.id \in NewIds /\ g = [id |-> g.id, source |-> source[g.id]]
    BY <1>2, <1>4 DEF Known
  <2>2. QED
    BY <2>1 DEF EntriesInv
<1>12. ToldInv'
  <2>1. \A c \in Challenges, i \in Ids : FromOther(c, i) => FromOther(c, i)'
    BY <1>6 DEF FromOther
  <2>2. \A c \in Challenges : state[c].applied \subseteq Ids
    BY DEF FlowTypeOK
  <2>3. ASSUME NEW c \in Challenges
        PROVE  /\ \A k \in DOMAIN received[c] : received[c][k] \in state'[c].applied
               /\ \A i \in state'[c].applied : FromOther(c, i)'
               /\ \A k, l \in DOMAIN received[c] : received[c][k] = received[c][l] => k = l
    BY <1>5, <2>1, <2>2 DEF ToldInv
  <2>4. QED
    BY <1>1, <1>7, <2>3 DEF ToldInv, FromOther
<1>13. QED
  BY <1>8, <1>9, <1>10, <1>11, <1>12

LEMMA FlowInitInv == FlowInit => FlowInv
<1> SUFFICES ASSUME FlowInit PROVE FlowInv
  OBVIOUS
<1>1. \A c \in Challenges : /\ file[c] = <<>> /\ unsent[c] = <<>> /\ pending[c] = <<>>
                            /\ offset[c] = 0 /\ written[c] = 0
                            /\ memory[c] = {} /\ earlier[c] = {} /\ received[c] = <<>> /\ state[c] = Unseen
  BY DEF FlowInit
<1>2. \A S : <<>> \in Seq(S) /\ Len(<<>>) = 0
  BY EmptySeq
<1>3. FlowTypeOK
  <2>1. Unseen \in States
    BY DEF Unseen, States
  <2>2. file \in [Challenges -> Seq(Halves)] /\ pending \in [Challenges -> Seq(Halves)]
        /\ unsent \in [Challenges -> Seq(Halves)] /\ received \in [Challenges -> Seq(Ids)]
    BY <1>2 DEF FlowInit
  <2>3. written \in [Challenges -> Nat] /\ offset \in [Challenges -> Nat]
        /\ traces \in [Challenges -> Nat] /\ \A c \in Challenges : written[c] <= MaxLines[c]
    BY <1>1, FlowAssumption DEF FlowInit
  <2>4. state \in [Challenges -> States]
    BY <2>1 DEF FlowInit
  <2>5. QED
    BY <2>2, <2>3, <2>4 DEF FlowInit, FlowTypeOK, States
<1>4. TraceInv
  <2>1. \A c \in Challenges : <<>> \in Seq(HalvesOf(c)) /\ {} \subseteq Writes[c] /\ 0 <= Len(<<>>)
    BY <1>2
  <2>2. QED
    BY <1>1, <2>1 DEF TraceInv
<1>5. EntriesInv /\ ToldInv
  BY <1>1 DEF FlowInit, EntriesInv, ToldInv, Unseen
<1>6. TailIsExact
  <2>1. truncated = {}
    BY DEF FlowInit
  <2>2. QED
    BY <1>1, <2>1, EmptyRead DEF TailIsExact
<1>7. QED
  BY <1>3, <1>4, <1>5, <1>6 DEF FlowInv

LEMMA FlowStep == ASSUME FlowInv, [FlowNext]_flowVars PROVE FlowInv'
<1>1. CASE Tick
  BY <1>1, TickStep
<1>2. CASE ExecuteSome
  BY <1>2, ExecuteStep DEF ExecuteSome
<1>3. CASE PolicyDone \/ AdviceDone
  BY <1>3, DoneStep
<1>4. CASE Advise
  BY <1>4, AdviseStep
<1>5. ASSUME NEW c \in Challenges, Spawn(c) \/ SolverStep(c) \/ EmptyFile(c) PROVE FlowInv'
  BY <1>5, SpawnStep, TraceStep, FallbackStep, EndsStep, EmptyStep DEF SolverStep
<1>6. CASE UNCHANGED flowVars
  <2>1. TraceInv' /\ EntriesInv' /\ TailIsExact'
    BY <1>6, TailKept DEF flowVars
  <2>2. FlowTypeOK' /\ ToldInv'
    BY <1>6 DEF FlowInv, FlowTypeOK, ToldInv, FromOther, flowVars, swarmVars, latestVars, traceVars, knowledgeVars,
                loopVars, historyVars
  <2>3. QED
    BY <2>1, <2>2 DEF FlowInv
<1>7. CASE PolicySpawn
  BY <1>7, PolicySpawnStep
<1>8. QED
  BY <1>1, <1>2, <1>3, <1>4, <1>5, <1>6, <1>7 DEF FlowNext, FlowGoesOn

\* The inductive invariant: the tail is where it should be in every trace, and whoever was
\* told something has it from somebody else and has it noted.
THEOREM FlowInvariance == FlowSpec => []FlowInv
<1>1. FlowInit => FlowInv
  BY FlowInitInv
<1>2. FlowInv /\ [FlowNext]_flowVars => FlowInv'
  BY FlowStep
<1>3. QED
  BY <1>1, <1>2, PTL DEF FlowSpec

\* Every variable of the knowledge flow keeps its type.
THEOREM FlowTypes == FlowSpec => []FlowTypeOK
<1>1. FlowInv => FlowTypeOK
  BY DEF FlowInv
<1>2. QED
  BY <1>1, FlowInvariance, PTL

\* Every line of every trace is read once, wherever writes, failed writes and reads tear it.
THEOREM TailReadsExactly == FlowSpec => []TailIsExact
<1>1. FlowInv => TailIsExact
  BY DEF FlowInv
<1>2. QED
  BY <1>1, FlowInvariance, PTL

\* Policy and advisor tell no challenge anything twice, nor what it found itself.
THEOREM ToldOnlyOnce == FlowSpec => []ToldOnce
<1>1. FlowInv => ToldOnce
  <2> SUFFICES ASSUME FlowInv, NEW c \in Challenges
               PROVE  /\ \A i, j \in DOMAIN received[c] : received[c][i] = received[c][j] => i = j
                      /\ \A e \in entries : e.source = c => \A i \in DOMAIN received[c] : received[c][i] # e.id
    BY DEF ToldOnce
  <2>1. \A i \in DOMAIN received[c] : FromOther(c, received[c][i])
    BY DEF FlowInv, ToldInv
  <2>2. ASSUME NEW e \in entries, NEW i \in DOMAIN received[c], received[c][i] = e.id
        PROVE  e.source # c
    BY <2>1, <2>2 DEF FlowInv, EntriesInv, FromOther
  <2>3. QED
    BY <2>2 DEF FlowInv, ToldInv
<1>2. QED
  BY <1>1, FlowInvariance, PTL
=============================================================================
