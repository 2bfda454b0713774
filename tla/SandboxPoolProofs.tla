------------------------- MODULE SandboxPoolProofs -------------------------
(***************************************************************************)
(* The theorems of SandboxPool, for any workers, challenges and limits.     *)
(*                                                                         *)
(* PoolInv is inductive.  StageInv says which leases and which container    *)
(* belong to a sandbox at each of its awaits: the flags that _cleanup looks *)
(* at are then those of the leases that were really taken, so that what it  *)
(* gives back is counted once.                                             *)
(***************************************************************************)
EXTENDS SandboxPool, TLAPS, FiniteSetTheorems, WellFoundedInduction

-----------------------------------------------------------------------------
(* The worker of a sandbox *)

\* Every non-empty set of numbers has a least one.
LEMMA LeastNumber ==
  ASSUME NEW T, T \subseteq Nat, T # {}
  PROVE  \E x \in T : \A y \in T : x <= y
<1>1. PICK x \in T : \A y \in T : ~(<<y, x>> \in OpToRel(<, Nat))
  BY NatLessThanWellFounded, WFMin
<1>2. \A y \in T : ~(y < x)
  BY <1>1 DEF OpToRel
<1>3. \A y \in T : x <= y
  <2> TAKE y \in T
  <2>1. x \in Nat /\ y \in Nat /\ ~(y < x)
    BY <1>2
  <2>2. QED
    BY <2>1
<1>4. QED
  BY <1>3

\* select finds a worker for whom there is one that fits: the first of the highest rank.
LEMMA BestWorker ==
  ASSUME NEW s \in Sandboxes
  PROVE  \E i \in DOMAIN Registry : Selected(Requirement[s]) = Registry[i]
<1> DEFINE r == Requirement[s]
           rank(i) == WorkerRank(Registry[i], r)
           least == {7 - rank(i) : i \in Fitting(r)}
<1>1. DOMAIN Registry \subseteq Nat
  BY PlacementAssumption
<1>2. Fitting(r) # {} /\ Fitting(r) \subseteq DOMAIN Registry
  BY PlacementAssumption DEF Fitting
<1>3. \A i : rank(i) \in 0 .. 7
  BY DEF WorkerRank
<1>4. PICK m \in least : \A y \in least : m <= y
  <2>1. least # {}
    BY <1>2
  <2>2. least \subseteq Nat
    BY <1>3
  <2>3. QED
    BY <2>1, <2>2, LeastNumber
<1> DEFINE first == {i \in Fitting(r) : 7 - rank(i) = m}
<1>5. PICK i \in first : \A j \in first : i <= j
  <2>1. first # {}
    BY <1>4
  <2>2. first \subseteq Nat
    BY <1>1, <1>2
  <2>3. QED
    BY <2>1, <2>2, LeastNumber
<1>6. \A j \in Fitting(r) : rank(i) > rank(j) \/ (rank(i) = rank(j) /\ i <= j)
  <2> TAKE j \in Fitting(r)
  <2>1. m = 7 - rank(i) /\ m <= 7 - rank(j)
    BY <1>4, <1>5
  <2>2. rank(i) >= rank(j)
    BY <1>3, <2>1
  <2>3. CASE rank(j) = rank(i)
    <3>1. j \in first
      BY <2>1, <2>3
    <3>2. QED
      BY <1>5, <2>3, <3>1
  <2>4. CASE rank(j) # rank(i)
    BY <1>3, <2>2, <2>4
  <2>5. QED
    BY <2>3, <2>4
<1> DEFINE best == CHOOSE k \in Fitting(r) : \A j \in Fitting(r) :
                     \/ WorkerRank(Registry[k], r) > WorkerRank(Registry[j], r)
                     \/ WorkerRank(Registry[k], r) = WorkerRank(Registry[j], r) /\ k <= j
<1>7. best \in Fitting(r)
  BY <1>5, <1>6
<1>8. Selected(r) = Registry[best]
  BY DEF Selected
<1>9. QED
  BY <1>2, <1>7, <1>8

LEMMA PlaceOfSandbox ==
  ASSUME NEW s \in Sandboxes
  PROVE  /\ Remote[s] => Place[s] \in RemotePlaces
         /\ Remote[s] \in BOOLEAN
<1>1. PICK i \in DOMAIN Registry : Selected(Requirement[s]) = Registry[i]
  BY BestWorker
<1>2. Place[s] = Registry[i].name /\ Remote[s] = ~Registry[i].local
  BY <1>1 DEF Place, Remote
<1>3. QED
  BY <1>2 DEF RemotePlaces

-----------------------------------------------------------------------------
(* The inductive invariant *)

\* What a sandbox holds at each of its awaits.
StageInv ==
  \A s \in Sandboxes :
    /\ pc[s] \in {"new", "wantLease"} => s \notin lease \union wlease \union handle
    /\ pc[s] = "wantWorker" => Remote[s] /\ s \in lease /\ s \notin wlease \union handle
    /\ pc[s] = "preparing" => Remote[s]
    /\ pc[s] \in {"preparing", "creating", "starting", "up"} =>
         s \in lease /\ (Remote[s] => s \in wlease)
    /\ pc[s] \in {"preparing", "creating", "closing"} => s \notin handle

PoolInv == PoolTypeOK /\ LeasesConserved /\ StageInv /\ KnownHasLease /\ StoppedIsClean

LEMMA PoolInitInv == PoolInit => PoolInv
<1> SUFFICES ASSUME PoolInit PROVE PoolInv
  OBVIOUS
<1>1. PoolTypeOK
  BY SandboxesAssumption, PlacementAssumption DEF PoolInit, PoolTypeOK
<1>2. LeasesConserved
  <2>1. Cardinality({}) = 0
    BY FS_EmptySet
  <2>2. \A p \in RemotePlaces : {s \in wlease : Place[s] = p} = {}
    BY DEF PoolInit
  <2>3. \A p \in RemotePlaces : wfree[p] = WorkerLimit[p] /\ WorkerLimit[p] \in Nat
    BY PlacementAssumption DEF PoolInit
  <2>4. lease = {} /\ free = Limit /\ Limit \in Nat
    BY SandboxesAssumption DEF PoolInit
  <2>5. QED
    BY <2>1, <2>2, <2>3, <2>4 DEF LeasesConserved
<1>3. StageInv /\ KnownHasLease /\ StoppedIsClean
  BY DEF PoolInit, StageInv, KnownHasLease, StoppedIsClean
<1>4. QED
  BY <1>1, <1>2, <1>3 DEF PoolInv

-----------------------------------------------------------------------------
(* The queues *)

\* Whoever leaves a queue, the others stay in it.
LEMMA WithoutIsQueue ==
  ASSUME NEW q \in Seq(Sandboxes), NEW s
  PROVE  Without(q, s) \in Seq(Sandboxes)
<1>1. CASE \E i \in DOMAIN q : q[i] = s
  <2> DEFINE i == CHOOSE i \in DOMAIN q : q[i] = s
  <2>1. i \in 1 .. Len(q)
    BY <1>1
  <2> HIDE DEF i
  <2>2. SubSeq(q, 1, i - 1) \in Seq(Sandboxes) /\ SubSeq(q, i + 1, Len(q)) \in Seq(Sandboxes)
    BY <2>1
  <2>3. SubSeq(q, 1, i - 1) \o SubSeq(q, i + 1, Len(q)) \in Seq(Sandboxes)
    BY <2>2
  <2>4. QED
    BY <1>1, <2>3 DEF Without, i
<1>2. CASE ~\E i \in DOMAIN q : q[i] = s
  BY <1>2 DEF Without
<1>3. QED
  BY <1>1, <1>2

\* TailOfQueue: whoever is let in leaves the others in order.
LEMMA TailOfQueue ==
  ASSUME NEW q \in Seq(Sandboxes), q # <<>>
  PROVE  Tail(q) \in Seq(Sandboxes)
OBVIOUS

-----------------------------------------------------------------------------
(* What a step does to the leases *)

LeasesKept == UNCHANGED <<free, lease, wfree, wlease>>
LeaseTaken(s) == /\ s \notin lease /\ free > 0
                 /\ free' = free - 1 /\ lease' = lease \union {s}
                 /\ UNCHANGED <<wfree, wlease>>
WorkerTaken(s) == /\ Remote[s] /\ s \notin wlease /\ wfree[Place[s]] > 0
                  /\ wfree' = [wfree EXCEPT ![Place[s]] = @ - 1] /\ wlease' = wlease \union {s}
                  /\ UNCHANGED <<free, lease>>
LeaseStep(s) == LeasesKept \/ LeaseTaken(s) \/ WorkerTaken(s) \/ GiveBack(s)

LEMMA StepOfLeases ==
  ASSUME PoolInv, NEW s \in Sandboxes, PoolStep(s)
  PROVE  LeaseStep(s)
<1>1. CASE \/ Start(s) \/ StepEnds(s) \/ CancelWait(s) \/ OwnerEnds(s)
           \/ Deleted(s) \/ DeleteFails(s)
  BY <1>1 DEF LeaseStep, LeasesKept, Start, StepEnds, Prepared, Created, Started, StartFails,
              CancelWait, OwnerEnds, Stop, StopSkipped, Deleted, DeleteFails, leaseVars
<1>2. CASE GetLease(s) \/ LimitChanged(s)
  BY <1>2 DEF PoolInv, StageInv, GetLease, LimitChanged, TakeLease, LeaseStep, LeaseTaken
<1>3. CASE GetWorker(s)
  BY <1>3 DEF PoolInv, StageInv, GetWorker, LeaseStep, WorkerTaken
<1>4. CASE Closed(s) \/ CutCleanup(s)
  BY <1>4 DEF Closed, CutCleanup, LeaseStep, LeasesKept
<1>5. QED
  BY <1>1, <1>2, <1>3, <1>4 DEF PoolStep, Served, CleanupEnds

\* The leases are typed after a step, and none is lost or counted twice.
LEMMA LeasesStay ==
  ASSUME PoolInv, NEW s \in Sandboxes, LeaseStep(s)
  PROVE  /\ free' \in Nat /\ lease' \subseteq Sandboxes
         /\ wfree' \in [RemotePlaces -> Nat] /\ wlease' \subseteq {t \in Sandboxes : Remote[t]}
         /\ LeasesConserved'
<1> DEFINE at(p, w) == {t \in w : Place[t] = p}
<1>1. /\ free \in Nat /\ lease \subseteq Sandboxes /\ wfree \in [RemotePlaces -> Nat]
      /\ wlease \subseteq {t \in Sandboxes : Remote[t]}
      /\ Limit \in Nat /\ IsFiniteSet(Sandboxes)
  BY SandboxesAssumption DEF PoolInv, PoolTypeOK
<1>2. IsFiniteSet(lease) /\ IsFiniteSet(wlease) /\ \A p : IsFiniteSet(at(p, wlease))
  BY <1>1, FS_Subset
<1>3. free + Cardinality(lease) = Limit /\ Cardinality(lease) \in Nat
  BY <1>2, FS_CardinalityType DEF PoolInv, LeasesConserved
<1>4. \A p \in RemotePlaces : /\ wfree[p] + Cardinality(at(p, wlease)) = WorkerLimit[p]
                              /\ Cardinality(at(p, wlease)) \in Nat
  BY <1>2, FS_CardinalityType DEF PoolInv, LeasesConserved
<1> DEFINE Places2 == /\ wfree' \in [RemotePlaces -> Nat] /\ wlease' \subseteq {t \in Sandboxes : Remote[t]}
                      /\ \A p \in RemotePlaces : wfree'[p] + Cardinality(at(p, wlease')) = WorkerLimit[p]
           Permits2 == free' \in Nat /\ lease' \subseteq Sandboxes /\ free' + Cardinality(lease') = Limit
<1>5. UNCHANGED <<wfree, wlease>> => Places2
  BY <1>1, <1>4
<1>6. UNCHANGED <<free, lease>> => Permits2
  BY <1>1, <1>3
<1>7. CASE LeasesKept
  BY <1>5, <1>6, <1>7 DEF LeasesKept, LeasesConserved
<1>8. CASE LeaseTaken(s)
  <2>1. Cardinality(lease \union {s}) = Cardinality(lease) + 1
    BY <1>2, <1>8, FS_AddElement DEF LeaseTaken
  <2>2. Permits2
    BY <1>1, <1>3, <1>8, <2>1 DEF LeaseTaken
  <2>3. QED
    BY <1>5, <1>8, <2>2 DEF LeaseTaken, LeasesConserved
<1>9. CASE WorkerTaken(s)
  <2>1. Place[s] \in RemotePlaces /\ wfree[Place[s]] - 1 \in Nat
    BY <1>1, <1>9, PlaceOfSandbox DEF WorkerTaken
  <2>2. at(Place[s], wlease') = at(Place[s], wlease) \union {s}
    BY <1>9 DEF WorkerTaken
  <2>3. Cardinality(at(Place[s], wlease')) = Cardinality(at(Place[s], wlease)) + 1
    <3> DEFINE A == at(Place[s], wlease)
    <3>1. IsFiniteSet(A) /\ s \notin A
      BY <1>2, <1>9 DEF WorkerTaken
    <3> HIDE DEF A
    <3>2. Cardinality(A \union {s}) = Cardinality(A) + 1
      BY <3>1, FS_AddElement
    <3>3. QED
      BY <2>2, <3>2 DEF A
  <2>4. \A p \in RemotePlaces : p # Place[s] => at(p, wlease') = at(p, wlease)
    BY <1>9 DEF WorkerTaken
  <2>5. wfree' \in [RemotePlaces -> Nat] /\ wlease' \subseteq {t \in Sandboxes : Remote[t]}
    BY <1>1, <1>9, <2>1 DEF WorkerTaken
  <2>6. ASSUME NEW p \in RemotePlaces
        PROVE  wfree'[p] + Cardinality(at(p, wlease')) = WorkerLimit[p]
    <3>1. CASE p = Place[s]
      BY <1>1, <1>4, <1>9, <2>1, <2>3, <3>1 DEF WorkerTaken
    <3>2. CASE p # Place[s]
      BY <1>1, <1>4, <1>9, <2>4, <3>2 DEF WorkerTaken
    <3>3. QED
      BY <3>1, <3>2
  <2>7. QED
    BY <1>6, <1>9, <2>5, <2>6 DEF WorkerTaken, LeasesConserved
<1>10. CASE GiveBack(s)
  <2>1. Permits2
    <3>1. CASE s \in lease
      <4>1. Cardinality(lease \ {s}) = Cardinality(lease) - 1
        BY <1>2, <3>1, FS_RemoveElement
      <4>2. QED
        BY <1>1, <1>3, <1>10, <3>1, <4>1 DEF GiveBack
    <3>2. CASE s \notin lease
      <4>1. lease' = lease /\ free' = free
        BY <1>10, <3>2 DEF GiveBack
      <4>2. QED
        BY <1>6, <4>1
    <3>3. QED
      BY <3>1, <3>2
  <2>2. Places2
    <3>1. CASE s \in wlease
      <4>1. Place[s] \in RemotePlaces
        BY <1>1, <3>1, PlaceOfSandbox
      <4>2. at(Place[s], wlease') = at(Place[s], wlease) \ {s} /\ s \in at(Place[s], wlease)
        BY <1>10, <3>1 DEF GiveBack
      <4>3. Cardinality(at(Place[s], wlease')) = Cardinality(at(Place[s], wlease)) - 1
        <5> DEFINE A == at(Place[s], wlease)
        <5>1. IsFiniteSet(A) /\ s \in A
          BY <1>2, <4>2
        <5> HIDE DEF A
        <5>2. Cardinality(A \ {s}) = Cardinality(A) - 1
          BY <5>1, FS_RemoveElement
        <5>3. QED
          BY <4>2, <5>2 DEF A
      <4>4. \A p \in RemotePlaces : p # Place[s] => at(p, wlease') = at(p, wlease)
        BY <1>10 DEF GiveBack
      <4>5. wfree' = [wfree EXCEPT ![Place[s]] = @ + 1] /\ wlease' \subseteq wlease
        BY <1>10, <3>1 DEF GiveBack
      <4>6. wfree' \in [RemotePlaces -> Nat] /\ wlease' \subseteq {t \in Sandboxes : Remote[t]}
        BY <1>1, <4>1, <4>5
      <4>7. ASSUME NEW p \in RemotePlaces
            PROVE  wfree'[p] + Cardinality(at(p, wlease')) = WorkerLimit[p]
        <5>1. CASE p = Place[s]
          BY <1>1, <1>4, <4>1, <4>3, <4>5, <5>1
        <5>2. CASE p # Place[s]
          BY <1>1, <1>4, <4>4, <4>5, <5>2
        <5>3. QED
          BY <5>1, <5>2
      <4>8. QED
        BY <4>6, <4>7
    <3>2. CASE s \notin wlease
      <4>1. wlease' = wlease /\ wfree' = wfree
        BY <1>10, <3>2 DEF GiveBack
      <4>2. QED
        BY <1>5, <4>1
    <3>3. QED
      BY <3>1, <3>2
  <2>3. QED
    BY <2>1, <2>2 DEF LeasesConserved
<1>11. QED
  BY <1>7, <1>8, <1>9, <1>10 DEF LeaseStep

-----------------------------------------------------------------------------
(* What a step does to its own sandbox and to the others *)

OthersKept(s) ==
  \A t \in Sandboxes \ {s} :
    /\ pc'[t] = pc[t]
    /\ t \in lease' <=> t \in lease
    /\ t \in wlease' <=> t \in wlease
    /\ t \in handle' <=> t \in handle
    /\ t \in cut' <=> t \in cut

LEMMA StepIsItsOwn ==
  ASSUME PoolInv, NEW s \in Sandboxes, PoolStep(s)
  PROVE  OthersKept(s)
<1>1. pc \in [Sandboxes -> {"new", "up", "failed", "gone"} \union Starting \union Cleaning]
  BY DEF PoolInv, PoolTypeOK
<1>2. \A t \in Sandboxes \ {s} : /\ t \in lease' <=> t \in lease
                                 /\ t \in wlease' <=> t \in wlease
  BY StepOfLeases DEF LeaseStep, LeasesKept, LeaseTaken, WorkerTaken, GiveBack
<1>3. \A t \in Sandboxes \ {s} : /\ t \in handle' <=> t \in handle
                                 /\ t \in cut' <=> t \in cut
  <2>1. CASE UNCHANGED handle /\ (UNCHANGED cut \/ cut' = cut \union {s})
    BY <2>1
  <2>2. CASE Created(s) \/ Deleted(s) \/ DeleteFails(s) \/ CutCleanup(s)
    BY <2>2 DEF Created, Deleted, DeleteFails, CutCleanup
  <2>3. QED
    BY <2>1, <2>2 DEF PoolStep, Start, Served, GetLease, LimitChanged, GetWorker, StepEnds,
       Prepared, Started, StartFails, CancelWait, OwnerEnds, Stop, StopSkipped, CleanupEnds, Closed,
       containerVars
<1>4. \E where : Goto(s, where)
  BY DEF PoolStep, Start, Served, GetLease, LimitChanged, GetWorker, StepEnds, Prepared, Created,
     Started, StartFails, CancelWait, OwnerEnds, Stop, StopSkipped, CleanupEnds, Deleted,
     DeleteFails, Closed, CutCleanup, EnterCleanup, Return
<1>5. \A t \in Sandboxes \ {s} : pc'[t] = pc[t]
  BY <1>1, <1>4 DEF Goto
<1>6. QED
  BY <1>2, <1>3, <1>5 DEF OthersKept

\* What PoolInv says of a single sandbox.
SandboxInv(s) ==
  /\ pc[s] \in {"new", "wantLease"} => s \notin lease \union wlease \union handle
  /\ pc[s] = "wantWorker" => Remote[s] /\ s \in lease /\ s \notin wlease \union handle
  /\ pc[s] = "preparing" => Remote[s]
  /\ pc[s] \in {"preparing", "creating", "starting", "up"} =>
       s \in lease /\ (Remote[s] => s \in wlease)
  /\ pc[s] \in {"preparing", "creating", "closing"} => s \notin handle
  /\ s \in handle => \/ s \in lease /\ (Remote[s] => s \in wlease)
                     \/ Remote[s] /\ s \in cut
  /\ pc[s] = "gone" /\ s \notin cut => s \notin lease \union wlease \union handle

LEMMA InvOfSandboxes ==
  PoolInv <=> PoolTypeOK /\ LeasesConserved /\ \A s \in Sandboxes : SandboxInv(s)
<1>1. PoolTypeOK => handle \subseteq Sandboxes
  BY DEF PoolTypeOK
<1>2. QED
  BY <1>1 DEF PoolInv, StageInv, KnownHasLease, StoppedIsClean, SandboxInv

LEMMA SandboxStays ==
  ASSUME PoolInv, NEW s \in Sandboxes, PoolStep(s)
  PROVE  SandboxInv(s)'
<1>1. SandboxInv(s)
  BY InvOfSandboxes
<1>2. /\ pc \in [Sandboxes -> {"new", "up", "failed", "gone"} \union Starting \union Cleaning]
      /\ wlease \subseteq {t \in Sandboxes : Remote[t]}
  BY DEF PoolInv, PoolTypeOK
<1> DEFINE goes(where) == pc'[s] = where
<1>3. \A where : Goto(s, where) => goes(where)
  BY <1>2 DEF Goto
<1> HIDE DEF goes
<1>4. CASE Start(s)
  <2>1. pc'[s] = "wantLease"
    BY <1>3, <1>4 DEF Start, goes
  <2>2. QED
    BY <1>1, <1>4, <2>1 DEF Start, SandboxInv, containerVars
<1>5. CASE GetLease(s)
  <2>1. pc'[s] = IF Remote[s] THEN "wantWorker" ELSE "creating"
    BY <1>3, <1>5 DEF GetLease, goes
  <2>2. QED
    BY <1>1, <1>5, <2>1 DEF GetLease, TakeLease, SandboxInv, containerVars
<1>6. CASE LimitChanged(s)
  <2>1. pc'[s] = "failed"
    BY <1>3, <1>6 DEF LimitChanged, goes
  <2>2. QED
    BY <1>1, <1>6, <2>1 DEF LimitChanged, TakeLease, SandboxInv, containerVars
<1>7. CASE GetWorker(s)
  <2>1. pc'[s] = "preparing"
    BY <1>3, <1>7 DEF GetWorker, goes
  <2>2. QED
    BY <1>1, <1>7, <2>1 DEF GetWorker, SandboxInv, containerVars
<1>8. CASE Prepared(s)
  <2>1. pc'[s] = "creating"
    BY <1>3, <1>8 DEF Prepared, goes
  <2>2. QED
    BY <1>1, <1>8, <2>1 DEF Prepared, SandboxInv, containerVars, leaseVars
<1>9. CASE Created(s)
  <2>1. pc'[s] = "starting"
    BY <1>3, <1>9 DEF Created, goes
  <2>2. QED
    BY <1>1, <1>9, <2>1 DEF Created, SandboxInv, leaseVars
<1>10. CASE Started(s)
  <2>1. pc'[s] = "up"
    BY <1>3, <1>10 DEF Started, goes
  <2>2. QED
    BY <1>1, <1>10, <2>1 DEF Started, SandboxInv, containerVars, leaseVars
<1>11. CASE StartFails(s)
  <2>1. pc'[s] = IF s \in handle THEN "deleting" ELSE "closing"
    BY <1>3, <1>11 DEF StartFails, EnterCleanup, goes
  <2>2. QED
    BY <1>1, <1>11, <2>1 DEF StartFails, SandboxInv
<1>12. CASE CancelWait(s)
  <2>1. pc'[s] = "failed"
    BY <1>3, <1>12 DEF CancelWait, goes
  <2>2. QED
    BY <1>1, <1>12, <2>1 DEF CancelWait, SandboxInv, containerVars
<1>13. CASE Stop(s)
  <2>1. pc'[s] = IF s \in handle THEN "deleting" ELSE "closing"
    BY <1>3, <1>13 DEF Stop, EnterCleanup, goes
  <2>2. QED
    BY <1>1, <1>13, <2>1 DEF Stop, SandboxInv, containerVars, leaseVars
<1>14. CASE StopSkipped(s)
  <2>1. pc'[s] = "gone"
    BY <1>3, <1>14 DEF StopSkipped, goes
  <2>2. QED
    BY <1>1, <1>14, <2>1 DEF StopSkipped, SandboxInv, containerVars, leaseVars
<1>15. CASE Deleted(s) \/ DeleteFails(s)
  <2>1. pc'[s] = "closing"
    BY <1>3, <1>15 DEF Deleted, DeleteFails, goes
  <2>2. QED
    BY <1>1, <1>15, <2>1 DEF Deleted, DeleteFails, SandboxInv, leaseVars
<1>16. CASE Closed(s)
  <2>1. pc'[s] \in {"gone", "failed"}
    BY <1>3, <1>16 DEF Closed, Return, goes
  <2>2. s \notin handle' /\ s \notin lease' \union wlease'
    BY <1>1, <1>16 DEF Closed, GiveBack, SandboxInv, containerVars
  <2>3. QED
    BY <2>1, <2>2 DEF SandboxInv
<1>17. CASE CutCleanup(s)
  <2>1. pc'[s] \in {"gone", "failed"}
    BY <1>3, <1>17 DEF CutCleanup, Return, goes
  <2>2. s \in cut' /\ handle' = handle
    BY <1>17 DEF CutCleanup
  <2>3. CASE Remote[s]
    BY <1>1, <2>1, <2>2, <2>3 DEF SandboxInv
  <2>4. CASE ~Remote[s]
    <3>1. lease' = lease
      BY <1>17, <2>4 DEF CutCleanup
    <3>2. QED
      BY <1>1, <2>1, <2>2, <2>4, <3>1 DEF SandboxInv
  <2>5. QED
    BY <2>3, <2>4
<1>18. QED
  BY <1>4, <1>5, <1>6, <1>7, <1>8, <1>9, <1>10, <1>11, <1>12, <1>13, <1>14, <1>15, <1>16, <1>17
     DEF PoolStep, Served, StepEnds, OwnerEnds, CleanupEnds

-----------------------------------------------------------------------------
(* Types *)

LEMMA QueuesStay ==
  ASSUME PoolInv, NEW s \in Sandboxes, PoolStep(s)
  PROVE  queue' \in Seq(Sandboxes) /\ wqueue' \in [RemotePlaces -> Seq(Sandboxes)]
<1>1. queue \in Seq(Sandboxes) /\ wqueue \in [RemotePlaces -> Seq(Sandboxes)]
  BY DEF PoolInv, PoolTypeOK
<1>2. CASE Start(s)
  BY <1>1, <1>2 DEF Start
<1>3. CASE GetLease(s) \/ LimitChanged(s)
  <2>1. queue' \in Seq(Sandboxes)
    BY <1>1, <1>3, TailOfQueue DEF GetLease, LimitChanged, TakeLease
  <2>2. CASE wqueue' = wqueue
    BY <1>1, <2>1, <2>2
  <2>3. CASE Remote[s] /\ wqueue' = [wqueue EXCEPT ![Place[s]] = Append(@, s)]
    <3>1. Place[s] \in RemotePlaces
      BY <2>3, PlaceOfSandbox
    <3>2. Append(wqueue[Place[s]], s) \in Seq(Sandboxes)
      BY <1>1, <3>1
    <3>3. QED
      BY <1>1, <2>1, <2>3, <3>1, <3>2
  <2>4. QED
    BY <1>3, <2>2, <2>3 DEF GetLease, LimitChanged
<1>4. CASE GetWorker(s)
  <2>1. Place[s] \in RemotePlaces
    BY <1>4, PlaceOfSandbox DEF GetWorker, PoolInv, StageInv
  <2>2. Tail(wqueue[Place[s]]) \in Seq(Sandboxes)
    BY <1>1, <1>4, <2>1, TailOfQueue DEF GetWorker
  <2>3. QED
    BY <1>1, <1>4, <2>1, <2>2 DEF GetWorker
<1>5. CASE StartFails(s)
  BY <1>1, <1>5, WithoutIsQueue DEF StartFails
<1>6. CASE CancelWait(s)
  BY <1>1, <1>6, WithoutIsQueue DEF CancelWait
<1>7. CASE Prepared(s) \/ Created(s) \/ Started(s) \/ OwnerEnds(s) \/ CleanupEnds(s)
  BY <1>1, <1>7 DEF Prepared, Created, Started, OwnerEnds, Stop, StopSkipped, CleanupEnds, Deleted,
                    DeleteFails, Closed, CutCleanup, leaseVars
<1>8. QED
  BY <1>2, <1>3, <1>4, <1>5, <1>6, <1>7 DEF PoolStep, Served, StepEnds

LEMMA SetsStay ==
  ASSUME PoolInv, NEW s \in Sandboxes, PoolStep(s)
  PROVE  /\ pc' \in [Sandboxes -> {"new", "up", "failed", "gone"} \union Starting \union Cleaning]
         /\ stopping' \subseteq Sandboxes /\ cut' \subseteq Sandboxes
         /\ handle' \subseteq Sandboxes /\ alive' \subseteq Sandboxes
<1> DEFINE stages == {"new", "up", "failed", "gone"} \union Starting \union Cleaning
<1>1. /\ pc \in [Sandboxes -> stages] /\ stopping \subseteq Sandboxes
      /\ cut \subseteq Sandboxes /\ handle \subseteq Sandboxes /\ alive \subseteq Sandboxes
  BY DEF PoolInv, PoolTypeOK
<1>2. \E where \in stages : Goto(s, where)
  BY DEF PoolStep, Start, Served, GetLease, LimitChanged, GetWorker, StepEnds, Prepared, Created,
     Started, StartFails, CancelWait, OwnerEnds, Stop, StopSkipped, CleanupEnds, Deleted,
     DeleteFails, Closed, CutCleanup, EnterCleanup, Return, Starting, Cleaning
<1>3. stopping' = stopping \/ stopping' = stopping \union {s}
  BY DEF PoolStep, Start, Served, GetLease, LimitChanged, GetWorker, StepEnds, Prepared, Created,
     Started, StartFails, CancelWait, OwnerEnds, Stop, StopSkipped, CleanupEnds, Deleted,
     DeleteFails, Closed, CutCleanup
<1>4. cut' = cut \/ cut' = cut \union {s}
  BY DEF PoolStep, Start, Served, GetLease, LimitChanged, GetWorker, StepEnds, Prepared, Created,
     Started, StartFails, CancelWait, OwnerEnds, Stop, StopSkipped, CleanupEnds, Deleted,
     DeleteFails, Closed, CutCleanup
<1>5. handle' \in {handle, handle \union {s}, handle \ {s}}
  BY DEF PoolStep, Start, Served, GetLease, LimitChanged, GetWorker, StepEnds, Prepared, Created,
     Started, StartFails, CancelWait, OwnerEnds, Stop, StopSkipped, CleanupEnds, Deleted,
     DeleteFails, Closed, CutCleanup, containerVars
<1>6. alive' \in {alive, alive \union {s}, alive \ {s}}
  BY DEF PoolStep, Start, Served, GetLease, LimitChanged, GetWorker, StepEnds, Prepared, Created,
     Started, StartFails, CancelWait, OwnerEnds, Stop, StopSkipped, CleanupEnds, Deleted,
     DeleteFails, Closed, CutCleanup, containerVars
<1>7. pc' \in [Sandboxes -> stages]
  BY <1>1, <1>2 DEF Goto
<1>8. QED
  BY <1>1, <1>3, <1>4, <1>5, <1>6, <1>7

\* The permits left are no more than there were: a consequence of the conservation.
LEMMA PermitsAreBounded ==
  ASSUME LeasesConserved', lease' \subseteq Sandboxes, wlease' \subseteq Sandboxes,
         free' \in Nat, wfree' \in [RemotePlaces -> Nat]
  PROVE  free' \in 0 .. Limit /\ \A p \in RemotePlaces : wfree'[p] <= WorkerLimit[p]
<1>1. /\ IsFiniteSet(Sandboxes) /\ Limit \in Nat
      /\ \A p \in RemotePlaces : WorkerLimit[p] \in Nat
  BY SandboxesAssumption, PlacementAssumption
<1>2. \A S : S \subseteq Sandboxes => Cardinality(S) \in Nat
  BY <1>1, FS_Subset, FS_CardinalityType
<1>3. free' <= Limit
  BY <1>1, <1>2 DEF LeasesConserved
<1>4. ASSUME NEW p \in RemotePlaces PROVE wfree'[p] <= WorkerLimit[p]
  <2> DEFINE S == {t \in wlease' : Place[t] = p}
  <2>1. Cardinality(S) \in Nat
    BY <1>2
  <2>2. wfree'[p] + Cardinality(S) = WorkerLimit[p]
    BY DEF LeasesConserved
  <2> HIDE DEF S
  <2>3. QED
    BY <1>1, <2>1, <2>2
<1>5. QED
  BY <1>3, <1>4

-----------------------------------------------------------------------------
(* Theorems *)

LEMMA PoolStepInv == PoolInv /\ [PoolNext]_poolVars => PoolInv'
<1>1. ASSUME PoolInv, UNCHANGED poolVars PROVE PoolInv'
  BY <1>1 DEF poolVars, PoolInv, PoolTypeOK, LeasesConserved, StageInv,
              KnownHasLease, StoppedIsClean
<1>2. ASSUME PoolInv, NEW s \in Sandboxes, PoolStep(s) PROVE PoolInv'
  <2>1. /\ free' \in Nat /\ lease' \subseteq Sandboxes /\ LeasesConserved'
        /\ wfree' \in [RemotePlaces -> Nat] /\ wlease' \subseteq {t \in Sandboxes : Remote[t]}
    BY <1>2, StepOfLeases, LeasesStay
  <2>2. PoolTypeOK'
    <3>1. free' \in 0 .. Limit /\ \A p \in RemotePlaces : wfree'[p] <= WorkerLimit[p]
      BY <2>1, PermitsAreBounded
    <3>2. queue' \in Seq(Sandboxes) /\ wqueue' \in [RemotePlaces -> Seq(Sandboxes)]
      BY <1>2, QueuesStay
    <3>3. QED
      BY <1>2, <2>1, <3>1, <3>2, SetsStay DEF PoolTypeOK
  <2>3. ASSUME NEW t \in Sandboxes PROVE SandboxInv(t)'
    <3>1. CASE t = s
      BY <1>2, <3>1, SandboxStays
    <3>2. CASE t # s
      <4>1. SandboxInv(t)
        BY <1>2, InvOfSandboxes
      <4>2. /\ pc'[t] = pc[t]
            /\ t \in lease' <=> t \in lease
            /\ t \in wlease' <=> t \in wlease
            /\ t \in handle' <=> t \in handle
            /\ t \in cut' <=> t \in cut
        BY <1>2, <3>2, StepIsItsOwn DEF OthersKept
      <4>3. QED
        BY <4>1, <4>2 DEF SandboxInv
    <3>3. QED
      BY <3>1, <3>2
  <2>4. QED
    <3>1. handle' \subseteq Sandboxes
      BY <2>2 DEF PoolTypeOK
    <3>2. QED
      BY <2>1, <2>2, <2>3, <3>1 DEF PoolInv, StageInv, KnownHasLease, StoppedIsClean,
         SandboxInv
<1>3. QED
  BY <1>1, <1>2 DEF PoolNext

\* The inductive invariant: what a sandbox holds at each of its awaits is what it took.
THEOREM PoolInvariance == PoolSpec => []PoolInv
<1>1. PoolInit => PoolInv
  BY PoolInitInv
<1>2. PoolInv /\ [PoolNext]_poolVars => PoolInv'
  BY PoolStepInv
<1>3. QED
  BY <1>1, <1>2, PTL DEF PoolSpec

\* The permits of the process and of every worker stay between none and their limit, and
\* a worker's lease is only held by a sandbox that runs there.
THEOREM PoolTypes == PoolSpec => []PoolTypeOK
BY PoolInvariance, PTL DEF PoolInv

\* Start, failure, cancellation and cleanup in any order lose no lease of _cleanup and
\* give none back twice.
THEOREM LeasesAreConserved == PoolSpec => []LeasesConserved
BY PoolInvariance, PTL DEF PoolInv

\* No path through start, failure and cleanup gives a lease back before the removal of the
\* container was tried: a sandbox that knows its container holds a lease of the process,
\* and of its worker, unless a remote removal was cut short.
THEOREM ContainersAreCovered == PoolSpec => []KnownHasLease
BY PoolInvariance, PTL DEF PoolInv

\* An uncancelled stop() leaves neither a lease nor a container it knows of behind.
THEOREM StoppedSandboxes == PoolSpec => []StoppedIsClean
BY PoolInvariance, PTL DEF PoolInv

=============================================================================
