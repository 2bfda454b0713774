----------------------------- MODULE MessageBus -----------------------------
(***************************************************************************)
(* The message bus of a challenge (message_bus.py) and the solvers that use *)
(* it: a list of findings with a cursor per model spec.  The bus outlives   *)
(* the swarm: a retried challenge goes on with the same list and the same   *)
(* cursors.  A finding is its author and its number; the order inside one   *)
(* answer is left out.                                                      *)
(***************************************************************************)
EXTENDS Naturals, Sequences, FiniteSets

CONSTANTS Seats,          \* the entries of the swarm's model list
          OwnSpec,        \* [Seats -> model spec]
          FallbackSpec,   \* [Seats -> the spec of its quota fallback, or NoSpec]
          NoSpec, CoordinatorName,
          MaxFindings,    \* MAX_FINDINGS
          MaxPosts        \* bound: findings posted in all

Specs == ({OwnSpec[x] : x \in Seats} \union {FallbackSpec[x] : x \in Seats}) \ {NoSpec}

ASSUME BusAssumption == /\ MaxFindings \in Nat \ {0} /\ MaxPosts \in Nat
                        /\ CoordinatorName \notin Specs
                        /\ \A x \in Seats : OwnSpec[x] # NoSpec

VARIABLES
  findings,   \* the list
  cursors,    \* [Specs -> how much of the list its last check covered]
  posted,     \* findings posted so far: the number of the newest
  told,       \* [Specs -> the answer to its last check]
  seat,       \* [Seats -> the solver that sits there]
  known,      \* [Seats -> numbers of the findings that this solver was given]
  robbed      \* history: seats whose cursor another solver has moved

busVars == <<findings, cursors, posted, told, seat, known, robbed>>

Finding == [by : Specs \union {CoordinatorName}, n : 1 .. posted]

BusTypeOK ==
  /\ posted \in 0 .. MaxPosts
  /\ findings \in Seq(Finding) /\ Len(findings) <= MaxFindings
  /\ cursors \in [Specs -> 0 .. Len(findings)]
  /\ told \in [Specs -> SUBSET Finding]
  /\ seat \in [Seats -> {"ended", "created", "own", "fallback"}]
  /\ known \in [Seats -> SUBSET (1 .. posted)]
  /\ robbed \subseteq Seats

\* A spec that never asked has no cursor, which check reads as 0.
BusInit ==
  /\ findings = <<>> /\ posted = 0
  /\ cursors = [p \in Specs |-> 0]
  /\ told = [p \in Specs |-> {}]
  /\ seat = [x \in Seats |-> "ended"]
  /\ known = [x \in Seats |-> {}] /\ robbed = {}

SpecOf(x) == IF seat[x] = "fallback" THEN FallbackSpec[x] ELSE OwnSpec[x]
Listed(S) == {findings[i] : i \in S}
Numbers(S) == {f.n : f \in S}
Unread(p) == {f \in Listed(cursors[p] + 1 .. Len(findings)) : f.by # p}

-----------------------------------------------------------------------------
(* message_bus.py *)

\* Mutants: the cursors stay where they are; they are moved back by one too many.
TrimList(longer) ==
  LET over == Len(longer) - MaxFindings IN
  IF over > 0
  THEN /\ findings' = SubSeq(longer, over + 1, Len(longer))
       /\ UNCHANGED cursors
  ELSE findings' = longer /\ UNCHANGED cursors
TrimTwice(longer) ==
  LET over == Len(longer) - MaxFindings IN
  IF over > 0
  THEN /\ findings' = SubSeq(longer, over + 1, Len(longer))
       /\ cursors' = [p \in Specs |-> IF cursors[p] > over + 1 THEN cursors[p] - over - 1 ELSE 0]
  ELSE findings' = longer /\ UNCHANGED cursors
Trim(longer) ==
  LET over == Len(longer) - MaxFindings IN
  IF over > 0
  THEN /\ findings' = SubSeq(longer, over + 1, Len(longer))
       /\ cursors' = [p \in Specs |-> IF cursors[p] > over THEN cursors[p] - over ELSE 0]
  ELSE findings' = longer /\ UNCHANGED cursors

PostFinding(author) ==
  /\ posted < MaxPosts
  /\ posted' = posted + 1
  /\ Trim(Append(findings, [by |-> author, n |-> posted + 1]))
  /\ UNCHANGED <<told, seat, known, robbed>>

\* check_findings, asked for by the model or every fifth step.
CheckFindings(x) ==
  LET p == SpecOf(x) IN
  /\ seat[x] \in {"own", "fallback"}
  /\ told' = [told EXCEPT ![p] = Unread(p)]
  /\ cursors' = [cursors EXCEPT ![p] = Len(findings)]
  /\ known' = [known EXCEPT ![x] = @ \union Numbers(Unread(p))]
  /\ robbed' = robbed \union {y \in Seats \ {x} : seat[y] \in {"own", "fallback"} /\ SpecOf(y) = p}
  /\ UNCHANGED <<findings, posted, seat>>

-----------------------------------------------------------------------------
(* The solvers of the swarms of one challenge, one swarm at a time *)

NewSwarm ==
  /\ \A x \in Seats : seat[x] = "ended"
  /\ seat' = [x \in Seats |-> "created"]
  /\ UNCHANGED <<findings, cursors, posted, told, known, robbed>>

\* Mutant: the solver starts without what was found before it.
NoSnapshot(x) == {}
PreviousFindings(x) == Numbers(Listed(DOMAIN findings))

BeginWithSnapshot(x) ==
  /\ seat[x] = "created"
  /\ seat' = [seat EXCEPT ![x] = "own"]
  /\ known' = [known EXCEPT ![x] = PreviousFindings(x)]
  /\ UNCHANGED <<findings, cursors, posted, told, robbed>>

\* A turn's findings, a notification, an observation of a chat solver.
SolverPosts(x) == seat[x] \in {"own", "fallback"} /\ PostFinding(SpecOf(x))

\* The quota fallback is another spec, and is given no snapshot.
FallBack(x) ==
  /\ seat[x] = "own" /\ FallbackSpec[x] # NoSpec
  /\ seat' = [seat EXCEPT ![x] = "fallback"]
  /\ known' = [known EXCEPT ![x] = {}]
  /\ robbed' = IF cursors[FallbackSpec[x]] > 0 THEN robbed \union {x} ELSE robbed \ {x}
  /\ UNCHANGED <<findings, cursors, posted, told>>

SeatEnds(x) ==
  /\ seat[x] # "ended"
  /\ seat' = [seat EXCEPT ![x] = "ended"]
  /\ known' = [known EXCEPT ![x] = {}]
  /\ robbed' = robbed \ {x}
  /\ UNCHANGED <<findings, cursors, posted, told>>

BusStep(x) == \/ BeginWithSnapshot(x) \/ SolverPosts(x) \/ CheckFindings(x)
              \/ FallBack(x) \/ SeatEnds(x)
BusNext == NewSwarm \/ PostFinding(CoordinatorName) \/ \E x \in Seats : BusStep(x)

BusSpec == BusInit /\ [][BusNext]_busVars

-----------------------------------------------------------------------------
(* Properties *)

\* The list with its cursors is a set of mailboxes: through every trim, a finding of
\* somebody else is handed to a model spec once, unless it has fallen out of the newest.
Mailboxes == INSTANCE FindingsDelivery WITH
  Readers <- Specs, Writers <- Specs \union {CoordinatorName}, Retained <- MaxFindings,
  count <- posted, inbox <- [p \in Specs |-> Unread(p)], handed <- told
DeliversFindings == Mailboxes!Spec

\* A solver has been given, or will be given by its next check, every finding of the
\* others that is still kept, whatever swarm it was found in.  Not so when another solver
\* has moved its cursor: a quota fallback gets no snapshot and continues the cursor of
\* its spec, which a listed model or the fallback of an earlier swarm may have used.
NothingMissed ==
  \A x \in Seats \ robbed :
    seat[x] \in {"own", "fallback"} =>
      \A f \in Listed(DOMAIN findings) :
        f.by = SpecOf(x) \/ f.n \in known[x] \/ f \in Unread(SpecOf(x))
=============================================================================
