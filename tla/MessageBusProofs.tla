-------------------------- MODULE MessageBusProofs --------------------------
(***************************************************************************)
(* The theorems of MessageBus, for any seats, specs and number of findings  *)
(* kept: nothing is missed, and the list with its cursors implements the    *)
(* mailboxes of FindingsDelivery.                                           *)
(*                                                                         *)
(* BusInv is inductive.  Its part NumbersInv says that the list holds the   *)
(* newest findings without a gap, in order: a trim then forgets exactly the *)
(* finding that is no longer among the newest, and moves every cursor by    *)
(* the one place that the list has moved.                                   *)
(***************************************************************************)
EXTENDS MessageBus, TLAPS

Authors == Specs \union {CoordinatorName}

-----------------------------------------------------------------------------
(* The inductive invariant *)

\* The list ends with the newest finding, and is as long as the limit allows.
NumbersInv ==
  /\ \A i \in 1 .. Len(findings) : findings[i].n = posted - Len(findings) + i
  /\ Len(findings) = IF posted < MaxFindings THEN posted ELSE MaxFindings

\* NothingMissed by places: what lies before the cursor of a solver that nobody has robbed
\* was written by its spec or given to it.
CoveredInv ==
  \A x \in Seats \ robbed :
    seat[x] \in {"own", "fallback"} =>
      \A i \in 1 .. Len(findings) :
        i <= cursors[SpecOf(x)] => findings[i].by = SpecOf(x) \/ findings[i].n \in known[x]

\* Only a seat with a fallback sits in it.
SeatsInv == \A x \in Seats : seat[x] = "fallback" => FallbackSpec[x] # NoSpec

BusInv == BusTypeOK /\ NumbersInv /\ CoveredInv /\ SeatsInv

LEMMA SpecOfSeat ==
  ASSUME SeatsInv, NEW x \in Seats
  PROVE  SpecOf(x) \in Specs
BY BusAssumption DEF SeatsInv, SpecOf, Specs

LEMMA BusInitInv == BusInit => BusInv
<1> SUFFICES ASSUME BusInit PROVE BusInv
  OBVIOUS
<1>1. MaxFindings \in Nat \ {0} /\ MaxPosts \in Nat
  BY BusAssumption
<1>2. findings = <<>> /\ Len(findings) = 0 /\ posted = 0
  BY DEF BusInit
<1>3. BusTypeOK
  BY <1>1, <1>2 DEF BusInit, BusTypeOK
<1>4. NumbersInv /\ CoveredInv /\ SeatsInv
  BY <1>1, <1>2 DEF BusInit, NumbersInv, CoveredInv, SeatsInv
<1>5. QED
  BY <1>3, <1>4 DEF BusInv

\* What the invariant says of the list and its cursors.
LEMMA ListFacts ==
  ASSUME BusTypeOK
  PROVE  /\ posted \in Nat /\ MaxFindings \in Nat /\ MaxFindings > 0
         /\ Len(findings) \in Nat /\ Len(findings) <= MaxFindings
         /\ findings \in Seq(Finding)
         /\ \A i \in 1 .. Len(findings) :
              findings[i].by \in Authors /\ findings[i].n \in 1 .. posted
         /\ cursors \in [Specs -> Nat]
         /\ \A p \in Specs : cursors[p] \in Nat /\ cursors[p] <= Len(findings)
<1>1. posted \in Nat /\ MaxFindings \in Nat /\ MaxFindings > 0
  BY BusAssumption DEF BusTypeOK
<1>2. Len(findings) \in Nat /\ Len(findings) <= MaxFindings /\ findings \in Seq(Finding)
  BY DEF BusTypeOK
<1>3. \A i \in 1 .. Len(findings) : findings[i] \in Finding
  BY <1>2
<1>4. cursors \in [Specs -> 0 .. Len(findings)]
  BY DEF BusTypeOK
<1>5. QED
  BY <1>1, <1>2, <1>3, <1>4 DEF Finding, Authors

-----------------------------------------------------------------------------
(* A finding is posted *)

\* Posted(f, d): f is the new last finding, and d, none or one, were trimmed before it.
Posted(f, d) ==
  /\ d \in {0, 1} /\ (d = 1 <=> Len(findings) = MaxFindings)
  /\ posted' = posted + 1 /\ posted' <= MaxPosts /\ f.n = posted'
  /\ findings' \in Seq(Finding')
  /\ Len(findings') = Len(findings) + 1 - d
  /\ \A i \in 1 .. Len(findings') :
       findings'[i] = IF i = Len(findings') THEN f ELSE findings[i + d]
  /\ cursors' \in [Specs -> Nat]
  /\ \A p \in Specs : cursors'[p] = IF cursors[p] > d THEN cursors[p] - d ELSE 0
  /\ UNCHANGED <<told, seat, known, robbed>>

LEMMA FindingIsPosted ==
  ASSUME BusInv, NEW author \in Authors, PostFinding(author)
  PROVE  \E d : Posted([by |-> author, n |-> posted + 1], d)
<1> DEFINE f == [by |-> author, n |-> posted + 1]
           longer == Append(findings, f)
           over == Len(longer) - MaxFindings
<1>1. /\ posted \in Nat /\ MaxFindings \in Nat /\ MaxFindings > 0
      /\ Len(findings) \in Nat /\ Len(findings) <= MaxFindings
      /\ findings \in Seq(Finding)
      /\ cursors \in [Specs -> Nat]
      /\ \A p \in Specs : cursors[p] \in Nat /\ cursors[p] <= Len(findings)
  BY ListFacts DEF BusInv
<1>2. posted' = posted + 1 /\ posted + 1 <= MaxPosts
  BY <1>1, BusAssumption DEF PostFinding
<1>3. f \in Finding' /\ f.n = posted' /\ Finding \subseteq Finding'
  BY <1>1, <1>2 DEF Finding, Authors
<1>4. findings \in Seq(Finding')
  BY <1>1, <1>3
<1> HIDE DEF f
<1>5. /\ longer \in Seq(Finding') /\ Len(longer) = Len(findings) + 1
      /\ \A i \in 1 .. Len(findings) : longer[i] = findings[i]
      /\ longer[Len(findings) + 1] = f
  BY <1>3, <1>4
<1>6. Trim(longer) /\ UNCHANGED <<told, seat, known, robbed>>
  BY DEF PostFinding, f
<1> HIDE DEF longer
<1>7. CASE over > 0
  <2>1. over = 1 /\ Len(findings) = MaxFindings
    BY <1>1, <1>5, <1>7
  <2>2. findings' = SubSeq(longer, 2, Len(longer))
    <3>1. findings' = SubSeq(longer, over + 1, Len(longer))
      BY <1>6, <1>7 DEF Trim
    <3>2. over + 1 = 2
      BY <2>1
    <3>3. QED
      BY <3>1, <3>2
  <2>3. /\ findings' \in Seq(Finding') /\ Len(findings') = Len(findings)
        /\ \A i \in 1 .. Len(findings') : findings'[i] = longer[i + 1]
    BY <1>1, <1>5, <2>2
  <2>4. \A i \in 1 .. Len(findings') :
          findings'[i] = IF i = Len(findings') THEN f ELSE findings[i + 1]
    BY <1>1, <1>5, <2>3
  <2>5. cursors' = [p \in Specs |-> IF cursors[p] > 1 THEN cursors[p] - 1 ELSE 0]
    BY <1>6, <1>7, <2>1 DEF Trim
  <2>6. /\ cursors' \in [Specs -> Nat]
        /\ \A p \in Specs : cursors'[p] = IF cursors[p] > 1 THEN cursors[p] - 1 ELSE 0
    BY <1>1, <2>5
  <2> HIDE DEF over
  <2>7. Len(findings') = Len(findings) + 1 - 1
    BY <1>1, <2>3
  <2>8. Posted(f, 1)
    BY <1>1, <1>2, <1>3, <1>6, <2>1, <2>3, <2>4, <2>6, <2>7 DEF Posted
  <2>9. QED
    BY <2>8 DEF f
<1>8. CASE ~(over > 0)
  <2>1. Len(findings) # MaxFindings
    BY <1>1, <1>5, <1>8
  <2>2. findings' = longer /\ cursors' = cursors
    BY <1>6, <1>8 DEF Trim
  <2>3. \A i \in 1 .. Len(findings') :
          findings'[i] = IF i = Len(findings') THEN f ELSE findings[i + 0]
    BY <1>1, <1>5, <2>2
  <2>4. /\ cursors' \in [Specs -> Nat]
        /\ \A p \in Specs : cursors'[p] = IF cursors[p] > 0 THEN cursors[p] - 0 ELSE 0
    BY <1>1, <2>2
  <2>5. findings' \in Seq(Finding') /\ Len(findings') = Len(findings) + 1 - 0
    BY <1>1, <1>5, <2>2
  <2>6. Posted(f, 0)
    BY <1>1, <1>2, <1>3, <1>6, <2>1, <2>3, <2>4, <2>5 DEF Posted
  <2>7. QED
    BY <2>6 DEF f
<1>9. QED
  BY <1>7, <1>8

LEMMA PostKeepsInv ==
  ASSUME BusInv, NEW author \in Authors, PostFinding(author)
  PROVE  BusInv'
<1> DEFINE f == [by |-> author, n |-> posted + 1]
<1>1. PICK d : Posted(f, d)
  BY FindingIsPosted
<1>2. /\ posted \in Nat /\ MaxFindings \in Nat /\ MaxFindings > 0
      /\ Len(findings) \in Nat /\ Len(findings) <= MaxFindings
      /\ findings \in Seq(Finding)
      /\ \A i \in 1 .. Len(findings) :
           findings[i].by \in Authors /\ findings[i].n \in 1 .. posted
      /\ \A p \in Specs : cursors[p] \in Nat /\ cursors[p] <= Len(findings)
  BY ListFacts DEF BusInv
<1>3. d \in {0, 1} /\ Len(findings') = Len(findings) + 1 - d /\ (d = 1 <=> Len(findings) = MaxFindings)
  BY <1>1 DEF Posted
<1>4. BusTypeOK'
  <2>1. posted' \in 0 .. MaxPosts /\ posted' = posted + 1 /\ Finding \subseteq Finding'
    BY <1>1, <1>2, BusAssumption DEF Posted, Finding
  <2>2. findings' \in Seq(Finding') /\ Len(findings') <= MaxFindings
    BY <1>1, <1>2, <1>3 DEF Posted
  <2>3. cursors' \in [Specs -> 0 .. Len(findings')]
    <3>1. cursors' \in [Specs -> Nat]
      BY <1>1 DEF Posted
    <3>2. ASSUME NEW p \in Specs PROVE cursors'[p] <= Len(findings')
      BY <1>1, <1>2, <1>3 DEF Posted
    <3>3. QED
      BY <1>2, <1>3, <3>1, <3>2
  <2>4. told' \in [Specs -> SUBSET Finding']
    BY <1>1, <2>1 DEF Posted, BusInv, BusTypeOK
  <2>5. known' \in [Seats -> SUBSET (1 .. posted')]
    <3>1. 1 .. posted \subseteq 1 .. posted'
      BY <1>2, <2>1
    <3>2. QED
      BY <1>1, <3>1 DEF Posted, BusInv, BusTypeOK
  <2>6. QED
    BY <1>1, <2>1, <2>2, <2>3, <2>4, <2>5 DEF Posted, BusInv, BusTypeOK
<1>5. NumbersInv'
  <2>1. ASSUME NEW i \in 1 .. Len(findings')
        PROVE  findings'[i].n = posted' - Len(findings') + i
    <3>1. CASE i = Len(findings')
      BY <1>1, <1>2, <1>3, <3>1 DEF Posted
    <3>2. CASE i # Len(findings')
      <4>1. i + d \in 1 .. Len(findings) /\ findings'[i] = findings[i + d]
        BY <1>1, <1>2, <1>3, <3>2 DEF Posted
      <4>2. findings[i + d].n = posted - Len(findings) + (i + d)
        BY <4>1 DEF BusInv, NumbersInv
      <4>3. posted' = posted + 1
        BY <1>1 DEF Posted
      <4>4. QED
        BY <1>2, <1>3, <4>1, <4>2, <4>3
    <3>3. QED
      BY <3>1, <3>2
  <2>2. Len(findings') = IF posted' < MaxFindings THEN posted' ELSE MaxFindings
    BY <1>1, <1>2, <1>3 DEF Posted, BusInv, NumbersInv
  <2>3. QED
    BY <2>1, <2>2 DEF NumbersInv
<1>6. SeatsInv'
  BY <1>1 DEF Posted, BusInv, SeatsInv
<1>7. CoveredInv'
  <2>1. UNCHANGED <<seat, known, robbed>>
    BY <1>1 DEF Posted
  <2> SUFFICES ASSUME NEW x \in Seats \ robbed, seat[x] \in {"own", "fallback"},
                      NEW i \in 1 .. Len(findings'), i <= cursors'[SpecOf(x)]
               PROVE  findings'[i].by = SpecOf(x) \/ findings'[i].n \in known[x]
    BY <2>1 DEF CoveredInv, SpecOf
  <2>2. SpecOf(x) \in Specs
    BY SpecOfSeat DEF BusInv
  <2>3. cursors'[SpecOf(x)] = IF cursors[SpecOf(x)] > d THEN cursors[SpecOf(x)] - d ELSE 0
    BY <1>1, <2>2 DEF Posted
  <2>4. i + d <= cursors[SpecOf(x)] /\ i + d \in 1 .. Len(findings) /\ i # Len(findings')
    BY <1>2, <1>3, <2>2, <2>3
  <2>5. findings'[i] = findings[i + d]
    BY <1>1, <2>4 DEF Posted
  <2>6. QED
    BY <2>4, <2>5 DEF BusInv, CoveredInv
<1>8. QED
  BY <1>4, <1>5, <1>6, <1>7 DEF BusInv

-----------------------------------------------------------------------------
(* The other steps *)

LEMMA CheckKeepsInv ==
  ASSUME BusInv, NEW x \in Seats, CheckFindings(x)
  PROVE  BusInv'
<1> DEFINE p == SpecOf(x)
<1>1. p \in Specs
  BY SpecOfSeat DEF BusInv
<1>2. /\ Len(findings) \in Nat /\ cursors \in [Specs -> 0 .. Len(findings)]
      /\ known \in [Seats -> SUBSET (1 .. posted)] /\ told \in [Specs -> SUBSET Finding]
      /\ \A q \in Specs : cursors[q] \in Nat
      /\ \A i \in 1 .. Len(findings) : findings[i] \in Finding /\ findings[i].n \in 1 .. posted
  <2>1. findings \in Seq(Finding)
    BY DEF BusInv, BusTypeOK
  <2>2. QED
    BY <2>1, ListFacts DEF BusInv, BusTypeOK
<1>3. Unread(p) \subseteq Finding /\ Numbers(Unread(p)) \subseteq 1 .. posted
  <2>1. \A i \in cursors[p] + 1 .. Len(findings) : i \in 1 .. Len(findings)
    BY <1>1, <1>2
  <2>2. QED
    BY <1>2, <2>1 DEF Unread, Listed, Numbers
<1>4. \A i \in 1 .. Len(findings) :
        i > cursors[p] => findings[i].by = p \/ findings[i].n \in Numbers(Unread(p))
  <2> SUFFICES ASSUME NEW i \in 1 .. Len(findings), i > cursors[p], findings[i].by # p
               PROVE  findings[i].n \in Numbers(Unread(p))
    OBVIOUS
  <2>1. i \in cursors[p] + 1 .. Len(findings)
    BY <1>1, <1>2
  <2>2. findings[i] \in Unread(p)
    BY <2>1 DEF Unread, Listed
  <2>3. QED
    BY <2>2 DEF Numbers
<1>5. /\ seat[x] \in {"own", "fallback"}
      /\ told' = [told EXCEPT ![p] = Unread(p)]
      /\ cursors' = [cursors EXCEPT ![p] = Len(findings)]
      /\ known' = [known EXCEPT ![x] = @ \union Numbers(Unread(p))]
      /\ robbed' = robbed \union {y \in Seats \ {x} : seat[y] \in {"own", "fallback"} /\ SpecOf(y) = p}
      /\ UNCHANGED <<findings, posted, seat>>
  BY DEF CheckFindings
<1>6. \A y : SpecOf(y)' = SpecOf(y)
  BY <1>5 DEF SpecOf
<1>7. \A q \in Specs : cursors'[q] = IF q = p THEN Len(findings) ELSE cursors[q]
  BY <1>1, <1>2, <1>5
<1>8. \A y \in Seats : known'[y] = IF y = x THEN known[x] \union Numbers(Unread(p)) ELSE known[y]
  BY <1>2, <1>5
<1> HIDE DEF p
<1>9. BusTypeOK'
  <2>1. Finding' = Finding
    BY <1>5 DEF Finding
  <2>2. told' \in [Specs -> SUBSET Finding] /\ cursors' \in [Specs -> 0 .. Len(findings)]
    BY <1>1, <1>2, <1>3, <1>5
  <2>3. known' \in [Seats -> SUBSET (1 .. posted)]
    BY <1>2, <1>3, <1>5
  <2>4. robbed' \subseteq Seats
    BY <1>5 DEF BusInv, BusTypeOK
  <2>5. QED
    BY <1>5, <2>1, <2>2, <2>3, <2>4 DEF BusInv, BusTypeOK
<1>10. CoveredInv'
  <2> SUFFICES ASSUME NEW y \in Seats \ robbed', seat[y] \in {"own", "fallback"},
                      NEW i \in 1 .. Len(findings), i <= cursors'[SpecOf(y)]
               PROVE  findings[i].by = SpecOf(y) \/ findings[i].n \in known'[y]
    BY <1>5, <1>6 DEF CoveredInv
  <2>1. y \notin robbed
    BY <1>5
  <2>2. SpecOf(y) \in Specs
    BY SpecOfSeat DEF BusInv
  <2>3. i <= cursors[SpecOf(y)] => findings[i].by = SpecOf(y) \/ findings[i].n \in known[y]
    BY <2>1 DEF BusInv, CoveredInv
  <2>4. CASE y = x
    <3>1. SpecOf(y) = p
      BY <2>4 DEF p
    <3>2. CASE i <= cursors[p]
      BY <1>8, <2>3, <2>4, <3>1, <3>2
    <3>3. CASE ~(i <= cursors[p])
      <4>1. i > cursors[p]
        BY <1>1, <1>2, <3>3
      <4>2. QED
        BY <1>4, <1>8, <2>4, <3>1, <4>1
    <3>4. QED
      BY <3>2, <3>3
  <2>5. CASE y # x
    <3>1. SpecOf(y) # p
      BY <1>5, <2>5
    <3>2. QED
      BY <1>7, <1>8, <2>2, <2>3, <2>5, <3>1
  <2>6. QED
    BY <2>4, <2>5
<1>11. NumbersInv' /\ SeatsInv'
  BY <1>5 DEF BusInv, NumbersInv, SeatsInv
<1>12. QED
  BY <1>9, <1>10, <1>11 DEF BusInv

\* A seat that is taken, given up or handed to the fallback leaves the list alone.
LEMMA SeatsKeepInv ==
  ASSUME BusInv,
         \/ NewSwarm
         \/ \E x \in Seats : BeginWithSnapshot(x) \/ FallBack(x) \/ SeatEnds(x)
  PROVE  BusInv'
<1>1. /\ seat \in [Seats -> {"ended", "created", "own", "fallback"}]
      /\ known \in [Seats -> SUBSET (1 .. posted)] /\ robbed \subseteq Seats
      /\ \A i \in 1 .. Len(findings) : findings[i].n \in 1 .. posted
  BY ListFacts DEF BusInv, BusTypeOK
<1>2. UNCHANGED <<findings, cursors, posted, told>>
  BY DEF NewSwarm, BeginWithSnapshot, FallBack, SeatEnds
<1>3. NumbersInv'
  BY <1>2 DEF BusInv, NumbersInv
<1> DEFINE Rest == /\ seat' \in [Seats -> {"ended", "created", "own", "fallback"}]
                   /\ known' \in [Seats -> SUBSET (1 .. posted)] /\ robbed' \subseteq Seats
                   /\ CoveredInv' /\ SeatsInv'
<1>4. CASE NewSwarm
  <2>1. seat' = [x \in Seats |-> "created"] /\ UNCHANGED <<known, robbed>>
    BY <1>4 DEF NewSwarm
  <2>2. Rest
    BY <1>1, <2>1 DEF CoveredInv, SeatsInv
  <2>3. QED
    BY <1>2, <1>3, <2>2 DEF BusInv, BusTypeOK, Finding
<1>5. ASSUME NEW x \in Seats, BeginWithSnapshot(x) PROVE BusInv'
  <2>1. /\ seat' = [seat EXCEPT ![x] = "own"]
        /\ known' = [known EXCEPT ![x] = PreviousFindings(x)]
        /\ UNCHANGED robbed
    BY <1>5 DEF BeginWithSnapshot
  <2>2. /\ PreviousFindings(x) \subseteq 1 .. posted
        /\ \A i \in 1 .. Len(findings) : findings[i].n \in PreviousFindings(x)
    <3>1. DOMAIN findings = 1 .. Len(findings)
      BY ListFacts DEF BusInv
    <3>2. QED
      BY <1>1, <3>1 DEF PreviousFindings, Numbers, Listed
  <2> HIDE DEF Rest
  <2>3. CoveredInv'
    <3> SUFFICES ASSUME NEW y \in Seats \ robbed, seat'[y] \in {"own", "fallback"},
                        NEW i \in 1 .. Len(findings), i <= cursors[SpecOf(y)']
                 PROVE  findings[i].by = SpecOf(y)' \/ findings[i].n \in known'[y]
      BY <1>2, <2>1 DEF CoveredInv
    <3>1. CASE y = x
      BY <1>1, <2>1, <2>2, <3>1
    <3>2. CASE y # x
      <4>1. seat'[y] = seat[y] /\ known'[y] = known[y]
        BY <1>1, <2>1, <3>2
      <4>2. SpecOf(y)' = SpecOf(y)
        BY <4>1 DEF SpecOf
      <4>3. QED
        BY <4>1, <4>2 DEF BusInv, CoveredInv
    <3>3. QED
      BY <3>1, <3>2
  <2>4. SeatsInv'
    BY <1>1, <2>1 DEF BusInv, SeatsInv
  <2>5. Rest
    BY <1>1, <2>1, <2>2, <2>3, <2>4 DEF Rest
  <2>6. QED
    BY <1>2, <1>3, <2>5 DEF Rest, BusInv, BusTypeOK, Finding
<1>6. ASSUME NEW x \in Seats, FallBack(x) PROVE BusInv'
  <2>1. /\ FallbackSpec[x] # NoSpec
        /\ seat' = [seat EXCEPT ![x] = "fallback"]
        /\ known' = [known EXCEPT ![x] = {}]
        /\ robbed' = IF cursors[FallbackSpec[x]] > 0 THEN robbed \union {x} ELSE robbed \ {x}
    BY <1>6 DEF FallBack
  <2> HIDE DEF Rest
  <2>2. CoveredInv'
    <3> SUFFICES ASSUME NEW y \in Seats \ robbed', seat'[y] \in {"own", "fallback"},
                        NEW i \in 1 .. Len(findings), i <= cursors[SpecOf(y)']
                 PROVE  findings[i].by = SpecOf(y)' \/ findings[i].n \in known'[y]
      BY <1>2 DEF CoveredInv
    <3>1. CASE y = x
      <4>1. SpecOf(y)' = FallbackSpec[x]
        BY <1>1, <2>1, <3>1 DEF SpecOf
      <4>2. ~(cursors[FallbackSpec[x]] > 0)
        BY <2>1, <3>1
      <4>3. FallbackSpec[x] \in Specs
        BY <2>1 DEF Specs
      <4>4. cursors[FallbackSpec[x]] \in Nat
        BY <4>3, ListFacts DEF BusInv
      <4>5. QED
        BY <4>1, <4>2, <4>4
    <3>2. CASE y # x
      <4>1. seat'[y] = seat[y] /\ known'[y] = known[y] /\ y \notin robbed
        BY <1>1, <2>1, <3>2
      <4>2. SpecOf(y)' = SpecOf(y)
        BY <4>1 DEF SpecOf
      <4>3. QED
        BY <4>1, <4>2 DEF BusInv, CoveredInv
    <3>3. QED
      BY <3>1, <3>2
  <2>3. SeatsInv'
    BY <1>1, <2>1 DEF BusInv, SeatsInv
  <2>4. Rest
    BY <1>1, <2>1, <2>2, <2>3 DEF Rest
  <2>5. QED
    BY <1>2, <1>3, <2>4 DEF Rest, BusInv, BusTypeOK, Finding
<1>7. ASSUME NEW x \in Seats, SeatEnds(x) PROVE BusInv'
  <2>1. /\ seat' = [seat EXCEPT ![x] = "ended"]
        /\ known' = [known EXCEPT ![x] = {}]
        /\ robbed' = robbed \ {x}
    BY <1>7 DEF SeatEnds
  <2> HIDE DEF Rest
  <2>2. CoveredInv'
    <3> SUFFICES ASSUME NEW y \in Seats \ robbed', seat'[y] \in {"own", "fallback"},
                        NEW i \in 1 .. Len(findings), i <= cursors[SpecOf(y)']
                 PROVE  findings[i].by = SpecOf(y)' \/ findings[i].n \in known'[y]
      BY <1>2 DEF CoveredInv
    <3>1. y # x
      BY <1>1, <2>1
    <3>2. seat'[y] = seat[y] /\ known'[y] = known[y] /\ y \notin robbed
      BY <1>1, <2>1, <3>1
    <3>3. SpecOf(y)' = SpecOf(y)
      BY <3>2 DEF SpecOf
    <3>4. QED
      BY <3>2, <3>3 DEF BusInv, CoveredInv
  <2>3. SeatsInv'
    BY <1>1, <2>1 DEF BusInv, SeatsInv
  <2>4. Rest
    BY <1>1, <2>1, <2>2, <2>3 DEF Rest
  <2>5. QED
    BY <1>2, <1>3, <2>4 DEF Rest, BusInv, BusTypeOK, Finding
<1>8. QED
  BY <1>4, <1>5, <1>6, <1>7

LEMMA BusStepInv == BusInv /\ [BusNext]_busVars => BusInv'
<1> SUFFICES ASSUME BusInv, [BusNext]_busVars PROVE BusInv'
  OBVIOUS
<1>1. CASE UNCHANGED busVars
  BY <1>1 DEF busVars, BusInv, BusTypeOK, Finding, NumbersInv, CoveredInv, SpecOf, SeatsInv
<1>2. CASE PostFinding(CoordinatorName)
  BY <1>2, PostKeepsInv DEF Authors
<1>3. ASSUME NEW x \in Seats, SolverPosts(x) PROVE BusInv'
  <2>1. SpecOf(x) \in Authors /\ PostFinding(SpecOf(x))
    BY <1>3, SpecOfSeat DEF SolverPosts, BusInv, Authors
  <2>2. QED
    BY <2>1, PostKeepsInv
<1>4. ASSUME NEW x \in Seats, CheckFindings(x) PROVE BusInv'
  BY <1>4, CheckKeepsInv
<1>5. CASE \/ NewSwarm
           \/ \E x \in Seats : BeginWithSnapshot(x) \/ FallBack(x) \/ SeatEnds(x)
  BY <1>5, SeatsKeepInv
<1>6. QED
  BY <1>1, <1>2, <1>3, <1>4, <1>5 DEF BusNext, BusStep

\* The inductive invariant: the list is the newest findings in order, and what lies before
\* the cursor of a solver that nobody has robbed is its own or was given to it.
THEOREM BusInvariance == BusSpec => []BusInv
<1>1. BusInit => BusInv
  BY BusInitInv
<1>2. BusInv /\ [BusNext]_busVars => BusInv'
  BY BusStepInv
<1>3. QED
  BY <1>1, <1>2, PTL DEF BusSpec

\* A solver whose cursor nobody else has moved was given, or will be given by its next
\* check, every kept finding of the others, through every trim and every retried swarm.
THEOREM NothingIsMissed == BusSpec => []NothingMissed
<1>1. BusInv => NothingMissed
  <2> SUFFICES ASSUME BusInv, NEW x \in Seats \ robbed, seat[x] \in {"own", "fallback"},
                      NEW f \in Listed(DOMAIN findings),
                      f.by # SpecOf(x), f \notin Unread(SpecOf(x))
               PROVE  f.n \in known[x]
    BY DEF NothingMissed
  <2>1. /\ DOMAIN findings = 1 .. Len(findings) /\ Len(findings) \in Nat
        /\ \A p \in Specs : cursors[p] \in Nat
    BY ListFacts DEF BusInv
  <2>2. PICK i \in 1 .. Len(findings) : f = findings[i]
    BY <2>1 DEF Listed
  <2>3. i \notin cursors[SpecOf(x)] + 1 .. Len(findings)
    BY <2>2 DEF Unread, Listed
  <2>4. SpecOf(x) \in Specs
    BY SpecOfSeat DEF BusInv
  <2>5. i <= cursors[SpecOf(x)]
    BY <2>1, <2>3, <2>4
  <2>6. QED
    BY <2>2, <2>5 DEF BusInv, CoveredInv
<1>2. QED
  BY <1>1, BusInvariance, PTL

-----------------------------------------------------------------------------
(* The refinement of FindingsDelivery *)

\* A post puts the finding into the mailboxes of the others and takes out of all of them
\* what is no longer among the newest.
LEMMA PostIsDelivered ==
  ASSUME BusInv, BusInv', NEW author \in Authors, PostFinding(author), NEW p \in Specs
  PROVE  Unread(p)' = Mailboxes!Newest(
           Unread(p) \union (IF p = author THEN {} ELSE {[by |-> author, n |-> posted + 1]}),
           posted + 1)
<1> DEFINE f == [by |-> author, n |-> posted + 1]
           new == IF p = author THEN {} ELSE {f}
<1>1. PICK d : Posted(f, d)
  BY FindingIsPosted
<1>2. f.n = posted + 1 /\ f.by = author
  OBVIOUS
<1> HIDE DEF f
<1>3. /\ posted \in Nat /\ MaxFindings \in Nat /\ MaxFindings > 0
      /\ Len(findings) \in Nat /\ Len(findings) <= MaxFindings
      /\ cursors[p] \in Nat /\ cursors[p] <= Len(findings)
  BY ListFacts DEF BusInv
<1>4. /\ d \in {0, 1} /\ Len(findings') = Len(findings) + 1 - d
      /\ d = 1 <=> Len(findings) = MaxFindings
      /\ posted' = posted + 1
      /\ cursors'[p] = IF cursors[p] > d THEN cursors[p] - d ELSE 0
  BY <1>1 DEF Posted
<1>5. \A i \in 1 .. Len(findings') : findings'[i].n = posted' - Len(findings') + i
  BY DEF BusInv, NumbersInv
<1>6. \A j \in 1 .. Len(findings) : findings[j].n = posted - Len(findings) + j
  BY DEF BusInv, NumbersInv
<1>7. ASSUME NEW g \in Unread(p)'
      PROVE  g \in Unread(p) \union new /\ g.n + MaxFindings > posted + 1
  <2>1. PICK i \in cursors'[p] + 1 .. Len(findings') : g = findings'[i]
    BY DEF Unread, Listed
  <2>2. g.by # p
    BY DEF Unread
  <2>3. i \in 1 .. Len(findings')
    BY <1>3, <1>4, <2>1
  <2>4. g.n + MaxFindings > posted + 1
    BY <1>3, <1>4, <1>5, <2>1, <2>3
  <2>5. CASE i = Len(findings')
    <3>1. g = f
      BY <1>1, <2>1, <2>3, <2>5 DEF Posted
    <3>2. QED
      BY <1>2, <2>2, <2>4, <3>1
  <2>6. CASE i # Len(findings')
    <3>1. g = findings[i + d]
      BY <1>1, <2>1, <2>3, <2>6 DEF Posted
    <3>2. i + d \in cursors[p] + 1 .. Len(findings)
      BY <1>3, <1>4, <2>1, <2>3, <2>6
    <3>3. g \in Unread(p)
      BY <2>2, <3>1, <3>2 DEF Unread, Listed
    <3>4. QED
      BY <2>4, <3>3
  <2>7. QED
    BY <2>5, <2>6
<1>8. ASSUME NEW g \in Unread(p) \union new, g.n + MaxFindings > posted + 1
      PROVE  g \in Unread(p)'
  <2>1. CASE g \in new
    <3>1. g = f /\ f.by # p
      BY <1>2, <2>1
    <3>2. Len(findings') \in cursors'[p] + 1 .. Len(findings') /\ Len(findings') \in 1 .. Len(findings')
      BY <1>3, <1>4
    <3>3. findings'[Len(findings')] = f
      BY <1>1, <3>2 DEF Posted
    <3>4. QED
      BY <3>1, <3>2, <3>3 DEF Unread, Listed
  <2>2. CASE g \in Unread(p)
    <3>1. PICK j \in cursors[p] + 1 .. Len(findings) : g = findings[j]
      BY <2>2 DEF Unread, Listed
    <3>2. g.by # p
      BY <2>2 DEF Unread
    <3>3. j \in 1 .. Len(findings)
      BY <1>3, <3>1
    <3>4. g.n = posted - Len(findings) + j
      BY <1>6, <3>1, <3>3
    <3>5. j - d \in cursors'[p] + 1 .. Len(findings') /\ j - d \in 1 .. Len(findings')
          /\ j - d # Len(findings') /\ (j - d) + d = j
      BY <1>3, <1>4, <1>8, <3>1, <3>3, <3>4
    <3>6. findings'[j - d] = findings[j]
      BY <1>1, <3>5 DEF Posted
    <3>7. QED
      BY <3>1, <3>2, <3>5, <3>6 DEF Unread, Listed
  <2>3. QED
    BY <2>1, <2>2
<1>9. QED
  BY <1>7, <1>8 DEF Mailboxes!Newest, f

LEMMA PostIsPost ==
  ASSUME BusInv, BusInv', NEW author \in Authors, PostFinding(author)
  PROVE  Mailboxes!Post(author)
<1>1. \A p \in Specs :
        Unread(p)' = Mailboxes!Newest(
          Unread(p) \union (IF p = author THEN {} ELSE {[by |-> author, n |-> posted + 1]}),
          posted + 1)
  BY PostIsDelivered
<1>2. posted' = posted + 1 /\ told' = told
  BY FindingIsPosted DEF Posted
<1>3. QED
  BY <1>1, <1>2 DEF Mailboxes!Post

\* A check hands out the mailbox of its spec and empties it, and it touches no other.
LEMMA CheckIsTake ==
  ASSUME BusInv, NEW x \in Seats, CheckFindings(x)
  PROVE  Mailboxes!Take(SpecOf(x))
<1>1. PICK p \in Specs : p = SpecOf(x)
  BY SpecOfSeat DEF BusInv
<1>2. cursors \in [Specs -> Nat] /\ Len(findings) \in Nat
  BY ListFacts DEF BusInv
<1>3. /\ told' = [told EXCEPT ![p] = Unread(p)]
      /\ cursors' = [cursors EXCEPT ![p] = Len(findings)]
      /\ UNCHANGED <<findings, posted>>
  BY <1>1 DEF CheckFindings
<1>4. Unread(p)' = {}
  <2>1. cursors'[p] = Len(findings)
    BY <1>1, <1>2, <1>3
  <2>2. cursors'[p] + 1 .. Len(findings') = {}
    BY <1>2, <1>3, <2>1
  <2>3. QED
    BY <2>2 DEF Unread, Listed
<1>5. ASSUME NEW q \in Specs, q # p PROVE Unread(q)' = Unread(q)
  <2>1. cursors'[q] = cursors[q] /\ findings' = findings
    BY <1>2, <1>3, <1>5
  <2>2. QED
    BY <2>1 DEF Unread, Listed
<1>6. [q \in Specs |-> Unread(q)'] = [[q \in Specs |-> Unread(q)] EXCEPT ![p] = {}]
  <2> DEFINE before == [q \in Specs |-> Unread(q)]
             after == [q \in Specs |-> Unread(q)']
  <2>1. \A q \in Specs : after[q] = IF q = p THEN {} ELSE before[q]
    BY <1>4, <1>5
  <2>2. after = [q \in Specs |-> after[q]] /\ DOMAIN before = Specs
    OBVIOUS
  <2> HIDE DEF before, after
  <2>3. after = [before EXCEPT ![p] = {}]
    BY <2>1, <2>2
  <2>4. QED
    BY <2>3 DEF before, after
<1>7. told' = [told EXCEPT ![p] = [q \in Specs |-> Unread(q)][p]]
  BY <1>1, <1>3
<1>8. QED
  BY <1>1, <1>3, <1>6, <1>7 DEF Mailboxes!Take

\* The list with its cursors implements the mailboxes: through every trim and every swarm,
\* a finding of somebody else is handed to a model spec once, unless it has fallen out of
\* the newest.
THEOREM DeliversEveryFinding == BusSpec => DeliversFindings
<1>1. BusInit => Mailboxes!Init
  <2> SUFFICES ASSUME BusInit PROVE Mailboxes!Init
    OBVIOUS
  <2>1. ASSUME NEW p \in Specs PROVE Unread(p) = {}
    <3>1. cursors[p] = 0 /\ Len(findings) = 0
      BY DEF BusInit
    <3>2. cursors[p] + 1 .. Len(findings) = {}
      BY <3>1
    <3>3. QED
      BY <3>2 DEF Unread, Listed
  <2>2. QED
    BY <2>1 DEF BusInit, Mailboxes!Init
<1>2. BusInv /\ BusInv' /\ [BusNext]_busVars =>
        [Mailboxes!Next]_<<posted, [p \in Specs |-> Unread(p)], told>>
  <2> SUFFICES ASSUME BusInv, BusInv', [BusNext]_busVars
               PROVE  [Mailboxes!Next]_<<posted, [p \in Specs |-> Unread(p)], told>>
    OBVIOUS
  <2>1. CASE UNCHANGED <<findings, cursors, posted, told>>
    BY <2>1 DEF Unread, Listed
  <2>2. CASE PostFinding(CoordinatorName)
    BY <2>2, PostIsPost DEF Mailboxes!Next, Authors
  <2>3. ASSUME NEW x \in Seats, SolverPosts(x) PROVE Mailboxes!Next
    <3>1. SpecOf(x) \in Authors /\ PostFinding(SpecOf(x))
      BY <2>3, SpecOfSeat DEF SolverPosts, BusInv, Authors
    <3>2. QED
      BY <3>1, PostIsPost DEF Mailboxes!Next, Authors
  <2>4. ASSUME NEW x \in Seats, CheckFindings(x) PROVE Mailboxes!Next
    <3>1. SpecOf(x) \in Specs
      BY SpecOfSeat DEF BusInv
    <3>2. QED
      BY <2>4, <3>1, CheckIsTake DEF Mailboxes!Next
  <2>5. QED
    BY <2>1, <2>2, <2>3, <2>4 DEF BusNext, BusStep, busVars, NewSwarm, BeginWithSnapshot, FallBack,
       SeatEnds
<1>3. QED
  BY <1>1, <1>2, BusInvariance, PTL DEF BusSpec, DeliversFindings, Mailboxes!Spec

=============================================================================
