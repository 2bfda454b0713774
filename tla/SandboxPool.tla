---------------------------- MODULE SandboxPool ----------------------------
(***************************************************************************)
(* The solver containers of one process (sandbox.py, remote_sandbox.py,    *)
(* workers.py): every sandbox takes a lease of the global lifecycle         *)
(* semaphore, a remote one also a lease of its worker, creates a container *)
(* and gives everything back in its cleanup.  Docker and SSH calls fail,    *)
(* answer late or are cancelled, in start and in the cleanup alike.         *)
(* asyncio.Semaphore is first come, first served; the hand-over of a permit *)
(* to a cancelled waiter is modelled and proved in ProviderGovernor.        *)
(***************************************************************************)
EXTENDS Naturals, Sequences, FiniteSets

CONSTANTS Sandboxes,      \* one per solver, started and stopped once by its owner
          Registry,       \* the workers of the configuration, in order
          Tags,           \* [Sandboxes -> what tags and category say of its challenge]
          Limit,          \* max_concurrent_containers
          Edited          \* names of workers whose max_concurrency is edited meanwhile

VARIABLES
  pc,         \* [Sandboxes -> the await its owner is at]
  stopping,   \* sandboxes whose owner has called stop()
  free,       \* permits of the lifecycle semaphore
  queue,      \* sandboxes waiting for one, in order
  wfree, wqueue,   \* the same for every remote worker
  lease,      \* _lease_acquired or _global_lease
  wlease,     \* _worker_lease
  handle,     \* sandboxes that know their container
  alive,      \* sandboxes whose container exists, whether anybody knows it or not
  cut         \* history: sandboxes whose cleanup was cancelled, or never called

poolVars == <<pc, stopping, free, queue, wfree, wqueue, lease, wlease, handle, alive, cut>>

-----------------------------------------------------------------------------
(* WorkerRegistry.select: of the workers that fit, the first with the highest *)
(* rank: preferred architecture, then native image, then local transport.     *)
(* A tag of a challenge is its arch ("any" without an arch tag) and whether it   *)
(* is nested; its category is "binary", "forensics" or another.                *)

\* resolve_sandbox_profile with the setting "auto": the least the category can do with.
SecurityProfile(t) == CASE t.nested                  -> "nested"
                        [] t.category = "binary"     -> "debug"
                        [] t.category = "forensics"  -> "forensics"
                        [] OTHER                     -> "standard"

\* requirements_for_challenge: an arch tag is a requirement; a binary without one prefers
\* amd64.
Requirement == [s \in Sandboxes |->
  [profile |-> SecurityProfile(Tags[s]), arch |-> Tags[s].arch,
   prefers |-> IF Tags[s].arch = "any" /\ Tags[s].category = "binary" THEN "amd64" ELSE "none"]]

Fits(w, r) == /\ r.profile \in w.profiles
              /\ r.arch = "any" \/ w.arch = r.arch

WorkerRank(w, r) == (IF r.prefers = w.arch THEN 4 ELSE 0) + (IF w.native THEN 2 ELSE 0)
                                                          + (IF w.local THEN 1 ELSE 0)

Fitting(r) == {i \in DOMAIN Registry : Fits(Registry[i], r)}
Selected(r) ==
  Registry[CHOOSE i \in Fitting(r) : \A j \in Fitting(r) :
             \/ WorkerRank(Registry[i], r) > WorkerRank(Registry[j], r)
             \/ WorkerRank(Registry[i], r) = WorkerRank(Registry[j], r) /\ i <= j]

Place == [s \in Sandboxes |-> Selected(Requirement[s]).name]
Remote == [s \in Sandboxes |-> ~Selected(Requirement[s]).local]
RemotePlaces == {Registry[i].name : i \in {j \in DOMAIN Registry : ~Registry[j].local}}
WorkerLimit == [p \in RemotePlaces |->
                 (CHOOSE w \in {Registry[i] : i \in DOMAIN Registry} : w.name = p).limit]

ASSUME SandboxesAssumption == /\ IsFiniteSet(Sandboxes) /\ Limit \in Nat \ {0}
                              /\ Edited \subseteq RemotePlaces
ASSUME PlacementAssumption ==
  /\ Registry \in Seq({Registry[i] : i \in DOMAIN Registry})
  /\ \A i, j \in DOMAIN Registry : Registry[i].name = Registry[j].name => i = j
  /\ \A p \in RemotePlaces : WorkerLimit[p] \in Nat \ {0}
  /\ \A s \in Sandboxes : Fitting(Requirement[s]) # {}

-----------------------------------------------------------------------------
Starting == {"wantLease", "wantWorker", "preparing", "creating", "starting"}
Cleaning == {"deleting", "closing"}

PoolTypeOK ==
  /\ pc \in [Sandboxes -> {"new", "up", "failed", "gone"} \union Starting \union Cleaning]
  /\ stopping \subseteq Sandboxes
  /\ free \in 0 .. Limit /\ queue \in Seq(Sandboxes)
  /\ wfree \in [RemotePlaces -> Nat] /\ \A p \in RemotePlaces : wfree[p] <= WorkerLimit[p]
  /\ wqueue \in [RemotePlaces -> Seq(Sandboxes)]
  /\ lease \subseteq Sandboxes /\ wlease \subseteq {s \in Sandboxes : Remote[s]}
  /\ handle \subseteq Sandboxes /\ alive \subseteq Sandboxes /\ cut \subseteq Sandboxes

PoolInit ==
  /\ pc = [s \in Sandboxes |-> "new"] /\ stopping = {}
  /\ free = Limit /\ queue = <<>>
  /\ wfree = [p \in RemotePlaces |-> WorkerLimit[p]]
  /\ wqueue = [p \in RemotePlaces |-> <<>>]
  /\ lease = {} /\ wlease = {} /\ handle = {} /\ alive = {} /\ cut = {}

Goto(s, where) == pc' = [pc EXCEPT ![s] = where]
Without(q, s) ==
  IF \E i \in DOMAIN q : q[i] = s
  THEN LET i == CHOOSE i \in DOMAIN q : q[i] = s
       IN SubSeq(q, 1, i - 1) \o SubSeq(q, i + 1, Len(q))
  ELSE q

leaseVars == <<free, queue, wfree, wqueue, lease, wlease>>
containerVars == <<handle, alive>>

\* The end of a cleanup: back to start(), which raises, or to the owner of stop().
Return(s) == Goto(s, IF s \in stopping THEN "gone" ELSE "failed")

\* _cleanup begins with the container, if the sandbox knows one.  Mutant: it does not.
EnterCleanupAtTheEnd(s) == Goto(s, "closing")
EnterCleanup(s) == Goto(s, IF s \in handle THEN "deleting" ELSE "closing")

\* Mutants: the flag is not looked at; the worker is forgotten.
GiveBackAlways(s) ==
  /\ free' = free + 1
  /\ lease' = lease \ {s}
  /\ wfree' = IF s \in wlease THEN [wfree EXCEPT ![Place[s]] = @ + 1] ELSE wfree
  /\ wlease' = wlease \ {s}
GiveBackLeaseOnly(s) ==
  /\ free' = IF s \in lease THEN free + 1 ELSE free
  /\ lease' = lease \ {s}
  /\ UNCHANGED <<wfree, wlease>>
GiveBack(s) ==
  /\ free' = IF s \in lease THEN free + 1 ELSE free
  /\ lease' = lease \ {s}
  /\ wfree' = IF s \in wlease THEN [wfree EXCEPT ![Place[s]] = @ + 1] ELSE wfree
  /\ wlease' = wlease \ {s}

-----------------------------------------------------------------------------
(* start() *)

Start(s) ==
  /\ pc[s] = "new"
  /\ Goto(s, "wantLease")
  /\ queue' = Append(queue, s)
  /\ UNCHANGED <<stopping, free, wfree, wqueue, lease, wlease, containerVars, cut>>

TakeLease(s) ==
  /\ pc[s] = "wantLease" /\ free > 0 /\ queue # <<>> /\ Head(queue) = s
  /\ free' = free - 1
  /\ queue' = Tail(queue)
  /\ lease' = lease \union {s}

GetLease(s) ==
  /\ TakeLease(s)
  /\ IF Remote[s]
     THEN /\ Goto(s, "wantWorker")
          /\ wqueue' = [wqueue EXCEPT ![Place[s]] = Append(@, s)]
     ELSE Goto(s, "creating") /\ UNCHANGED wqueue
  /\ UNCHANGED <<stopping, wfree, wlease, containerVars, cut>>

\* _worker_semaphore raises, outside the try, when the worker's limit was edited: the
\* lease stays with the sandbox until its owner stops it.
LimitChanged(s) ==
  /\ Place[s] \in Edited
  /\ TakeLease(s)
  /\ Goto(s, "failed")
  /\ UNCHANGED <<stopping, wfree, wqueue, wlease, containerVars, cut>>

GetWorker(s) ==
  /\ pc[s] = "wantWorker" /\ wfree[Place[s]] > 0
  /\ wqueue[Place[s]] # <<>> /\ Head(wqueue[Place[s]]) = s
  /\ wfree' = [wfree EXCEPT ![Place[s]] = @ - 1]
  /\ wqueue' = [wqueue EXCEPT ![Place[s]] = Tail(@)]
  /\ wlease' = wlease \union {s}
  /\ Goto(s, "preparing")
  /\ UNCHANGED <<stopping, free, queue, lease, containerVars, cut>>

\* The image is inspected, the run directory made and the attachments copied.
Prepared(s) ==
  /\ pc[s] = "preparing"
  /\ Goto(s, "creating")
  /\ UNCHANGED <<stopping, leaseVars, containerVars, cut>>

Created(s) ==
  /\ pc[s] = "creating"
  /\ Goto(s, "starting")
  /\ handle' = handle \union {s}
  /\ alive' = alive \union {s}
  /\ UNCHANGED <<stopping, leaseVars, cut>>

Started(s) ==
  /\ pc[s] = "starting"
  /\ Goto(s, "up")
  /\ UNCHANGED <<stopping, leaseVars, containerVars, cut>>

\* A step fails, times out or is cancelled.  The container whose creation was under way
\* may exist all the same; nobody will ever know its name.
StartFails(s) ==
  /\ pc[s] \in {"wantWorker", "preparing", "creating", "starting"}
  /\ EnterCleanup(s)
  /\ wqueue' = [p \in RemotePlaces |-> Without(wqueue[p], s)]
  /\ \/ UNCHANGED alive
     \/ pc[s] = "creating" /\ alive' = alive \union {s}
  /\ UNCHANGED <<stopping, free, queue, wfree, lease, wlease, handle, cut>>

\* Cancelled in the queue for the lease, before there is anything to clean up.
CancelWait(s) ==
  /\ pc[s] = "wantLease"
  /\ Goto(s, "failed")
  /\ queue' = Without(queue, s)
  /\ UNCHANGED <<stopping, free, wfree, wqueue, lease, wlease, containerVars, cut>>

-----------------------------------------------------------------------------
(* stop() and _cleanup *)

Stop(s) ==
  /\ pc[s] \in {"new", "up", "failed"}
  /\ stopping' = stopping \union {s}
  /\ EnterCleanup(s)
  /\ UNCHANGED <<leaseVars, containerVars, cut>>

\* The owner is cancelled in its own stop() before it comes to the sandbox.
StopSkipped(s) ==
  /\ pc[s] \in {"up", "failed"}
  /\ Goto(s, "gone")
  /\ cut' = cut \union {s}
  /\ UNCHANGED <<stopping, leaseVars, containerVars>>

Deleted(s) ==
  /\ pc[s] = "deleting"
  /\ handle' = handle \ {s}
  /\ alive' = alive \ {s}
  /\ Goto(s, "closing")
  /\ UNCHANGED <<stopping, leaseVars, cut>>

\* An exception of delete is swallowed, the result of "docker rm" is not looked at: the
\* container stays, and its sandbox forgets it.
DeleteFails(s) ==
  /\ pc[s] = "deleting" /\ s \in alive
  /\ handle' = handle \ {s}
  /\ Goto(s, "closing")
  /\ UNCHANGED <<stopping, leaseVars, alive, cut>>

Closed(s) ==
  /\ pc[s] = "closing"
  /\ GiveBack(s)
  /\ Return(s)
  /\ UNCHANGED <<stopping, queue, wqueue, containerVars, cut>>

\* A cancellation in the cleanup, or an ssh that cannot be started: the request under way
\* may still be carried out.  The local sandbox keeps its lease, the remote one gives both
\* back in its finally clause.
CutCleanup(s) ==
  /\ pc[s] \in Cleaning
  /\ IF Remote[s] THEN GiveBack(s) ELSE UNCHANGED <<free, lease, wfree, wlease>>
  /\ alive' \in IF pc[s] = "deleting" THEN {alive, alive \ {s}} ELSE {alive}
  /\ Return(s)
  /\ cut' = cut \union {s}
  /\ UNCHANGED <<stopping, queue, wqueue, handle>>

-----------------------------------------------------------------------------
Served(s) == GetLease(s) \/ LimitChanged(s) \/ GetWorker(s)
StepEnds(s) == Prepared(s) \/ Created(s) \/ Started(s) \/ StartFails(s)
CleanupEnds(s) == Deleted(s) \/ DeleteFails(s) \/ Closed(s) \/ CutCleanup(s)
OwnerEnds(s) == Stop(s) \/ StopSkipped(s)

PoolStep(s) == \/ Start(s) \/ Served(s) \/ StepEnds(s) \/ CancelWait(s)
               \/ OwnerEnds(s) \/ CleanupEnds(s)
PoolNext == \E s \in Sandboxes : PoolStep(s)

(* Every Docker and SSH call ends, by its timeout at the latest, and the event  *)
(* loop resumes whom a semaphore has let in; the wait for a semaphore has no      *)
(* timeout.  An owner that was started is stopped: run() waits for its solvers or *)
(* cancels them.                                                                  *)
GoesOn(s) == \/ Served(s)
             \/ pc[s] # "wantWorker" /\ StepEnds(s)
             \/ CleanupEnds(s)
             \/ pc[s] # "new" /\ OwnerEnds(s)
PoolFairness == \A s \in Sandboxes : WF_poolVars(GoesOn(s))

PoolSpec == PoolInit /\ [][PoolNext]_poolVars
FairPoolSpec == PoolSpec /\ PoolFairness

-----------------------------------------------------------------------------
(* Properties *)

\* Through every failure and cancellation, a lease that is not free belongs to one
\* sandbox, for the process as for every worker: none is given back twice.
LeasesConserved ==
  /\ free + Cardinality(lease) = Limit
  /\ \A p \in RemotePlaces :
       wfree[p] + Cardinality({s \in wlease : Place[s] = p}) = WorkerLimit[p]

\* "A lease is held for the complete container lifetime, not only while Docker is creating
\* the container" (sandbox.py): whatever fails or is cancelled, a container that exists has
\* its lease, and a remote one its worker's too.
ContainerHasLease == \A s \in alive : s \in lease /\ (Remote[s] => s \in wlease)

\* What the code keeps of that promise: no cleanup gives a lease back before it has tried to
\* remove the container, so that a sandbox holds its leases while it knows its container.
\* Only a remote cleanup that is cut short in the removal gives them back first.
KnownHasLease ==
  \A s \in handle : \/ s \in lease /\ (Remote[s] => s \in wlease)
                    \/ Remote[s] /\ s \in cut

\* Whoever was stopped without a cancellation in the way has returned both leases and has
\* tried to remove its container, also when its start failed half-way or its worker's limit
\* was edited.
StoppedIsClean ==
  \A s \in Sandboxes : pc[s] = "gone" /\ s \notin cut => s \notin lease \union wlease \union handle

\* No sandbox waits for ever, and no two for each other, although a remote one waits for
\* its worker with a lease in its hands.  Only cleanups that were cut short can bring it to
\* that, once they have used up the leases or the places of a worker.
Lost(p) == {s \in wlease : pc[s] = "gone" /\ Place[s] = p}
=============================================================================
