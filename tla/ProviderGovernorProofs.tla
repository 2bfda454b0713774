----------------------- MODULE ProviderGovernorProofs -----------------------
(***************************************************************************)
(* The theorems of ProviderGovernor, for any callers, groups and limits.   *)
(*                                                                         *)
(* GovernorInv is inductive.  QueuesAreSound says who is in a queue: the    *)
(* callers that wait for its group, each once.  With it a step of the       *)
(* semaphore moves as many callers as it takes permits (WakeEffect), which  *)
(* is what SlotsConserved needs; the budget rests on the slots.            *)
(***************************************************************************)
EXTENDS ProviderGovernor, TLAPS, SequenceTheorems, FiniteSetTheorems

-----------------------------------------------------------------------------
(* The inductive invariant *)

\* A queue holds callers that wait for its group, each at one place.
QueueIsSound(g) ==
  /\ \A i \in 1 .. Len(waiters[g]) : waiters[g][i] \in In(g, "queued")
  /\ \A i, j \in 1 .. Len(waiters[g]) : waiters[g][i] = waiters[g][j] => i = j
QueuesAreSound == \A g \in Groups : QueueIsSound(g)

\* Every caller that waits is in the queue of its group.
WaitersAreQueued ==
  \A c \in Callers : place[c] = "queued" =>
    \E i \in 1 .. Len(waiters[Key(c)]) : waiters[Key(c)][i] = c

Busy(g) == In(g, "granted") \union In(g, "calling")

SlotInv == GovernorTypeOK /\ QueuesAreSound /\ WaitersAreQueued /\ SlotsConserved

\* What the tokens of a group and its calls under way can come to.
Exposure(g) == used[g] + MaxUse * Cardinality(In(g, "calling"))

\* Until a circuit without an end is open the hard budget is not spent, and the calls
\* that were in the slots then exceed it by what they use.
BudgetInv ==
  \A g \in Groups : ~eased[g] =>
    /\ circuit[g] \notin Persistent => used[g] < HardBudget[g]
    /\ Exposure(g) <= HardBudget[g] - 1 + MaxUse * SlotLimit[g]

GovernorInv == SlotInv /\ BudgetInv

LEMMA KeyIsGroup == \A c \in Callers : Key(c) \in Groups
BY ProvidersAssumption DEF Key

LEMMA SetsOfCallersAreFinite ==
  \A g, state : IsFiniteSet(In(g, state)) /\ In(g, state) \subseteq Callers
BY CallersAssumption, FS_Subset DEF In

-----------------------------------------------------------------------------
(* The semaphore *)

\* The first w callers of a queue that names each once are w callers.
LEMMA FirstOfQueue ==
  ASSUME NEW queue \in Seq(Callers), NEW w \in 0 .. Len(queue),
         \A i, j \in 1 .. Len(queue) : queue[i] = queue[j] => i = j
  PROVE  LET grants == {queue[i] : i \in 1 .. w}
         IN grants \subseteq Callers /\ IsFiniteSet(grants) /\ Cardinality(grants) = w
<1> DEFINE grants == {queue[i] : i \in 1 .. w}
           f == [i \in 1 .. w |-> queue[i]]
<1>1. grants \subseteq Callers
  OBVIOUS
<1>2. f \in Bijection(1 .. w, grants)
  BY DEF Bijection, Injection, Surjection, IsInjective
<1>3. IsFiniteSet(1 .. w) /\ Cardinality(1 .. w) = w
  BY FS_Interval
<1>4. IsFiniteSet(grants) /\ Cardinality(grants) = w
  BY <1>2, <1>3, FS_Bijection DEF ExistsBijection
<1>5. QED
  BY <1>1, <1>4

\* How many waiters are woken: as many as there are permits, waiters, and n allows.
LEMMA WokenExists ==
  ASSUME NEW permits \in Nat, NEW n \in Nat, NEW len \in Nat
  PROVE  \E w \in 0 .. len : w <= n /\ w <= permits /\ (w = n \/ w = permits \/ w = len)
<1>1. CASE n <= permits /\ n <= len
  <2>1. n \in 0 .. len
    BY <1>1
  <2>2. QED
    BY <1>1, <2>1
<1>2. CASE permits <= n /\ permits <= len
  <2>1. permits \in 0 .. len
    BY <1>2
  <2>2. QED
    BY <1>2, <2>1
<1>3. CASE len <= n /\ len <= permits
  <2>1. len \in 0 .. len
    OBVIOUS
  <2>2. QED
    BY <1>3, <2>1
<1>4. QED
  BY <1>1, <1>2, <1>3

\* A queue from which the next waiters of group k are woken: those that still wait
\* after c has left it, each once.
QueueWithout(k, c, queue) ==
  /\ queue \in Seq(Callers)
  /\ \A i \in 1 .. Len(queue) : queue[i] \in In(k, "queued") \ {c}
  /\ \A i, j \in 1 .. Len(queue) : queue[i] = queue[j] => i = j
  /\ \A x \in In(k, "queued") \ {c} : \E i \in 1 .. Len(queue) : queue[i] = x

\* What Wake does: w waiters leave the head of the queue, each takes a permit.
Woke(k, c, permits, queue, state, w, grants) ==
  /\ w \in 0 .. Len(queue) /\ w <= permits
  /\ grants = {queue[i] : i \in 1 .. w}
  /\ IsFiniteSet(grants) /\ Cardinality(grants) = w
  /\ slots' = [slots EXCEPT ![k] = permits - w]
  /\ waiters' = [waiters EXCEPT ![k] = SubSeq(queue, w + 1, Len(queue))]
  /\ place' = [x \in Callers |-> IF x \in grants THEN "granted" ELSE IF x = c THEN state ELSE place[x]]

LEMMA WakeEffect ==
  ASSUME NEW k \in Groups, NEW c \in Callers, NEW permits \in Nat, NEW n \in Nat,
         NEW queue, QueueWithout(k, c, queue), NEW state,
         Wake(k, permits, queue, n, Goes(c, state))
  PROVE  \E w, grants : Woke(k, c, permits, queue, state, w, grants)
<1> DEFINE Fits(w) == w <= n /\ w <= permits /\ (w = n \/ w = permits \/ w = Len(queue))
           woken == CHOOSE w \in 0 .. Len(queue) : Fits(w)
           grants == {queue[i] : i \in 1 .. woken}
<1>1. queue \in Seq(Callers) /\ Len(queue) \in Nat
  BY DEF QueueWithout
<1>2. woken \in 0 .. Len(queue) /\ Fits(woken)
  <2>1. \E w \in 0 .. Len(queue) : Fits(w)
    BY <1>1, WokenExists
  <2>2. QED
    BY <2>1, Zenon
<1>3. IsFiniteSet(grants) /\ Cardinality(grants) = woken
  BY <1>1, <1>2, FirstOfQueue DEF QueueWithout
<1>4. /\ slots' = [slots EXCEPT ![k] = permits - woken]
      /\ waiters' = [waiters EXCEPT ![k] = SubSeq(queue, woken + 1, Len(queue))]
      /\ place' = [x \in Callers |-> IF x \in grants THEN "granted"
                                  ELSE IF x \in DOMAIN Goes(c, state) THEN Goes(c, state)[x]
                                  ELSE place[x]]
  BY Zenon DEF Wake
<1>5. place' = [x \in Callers |-> IF x \in grants THEN "granted" ELSE IF x = c THEN state ELSE place[x]]
  <2> HIDE DEF grants
  <2>1. \A x : x \in DOMAIN Goes(c, state) <=> x = c
    BY DEF Goes
  <2>2. Goes(c, state)[c] = state
    BY DEF Goes
  <2>3. QED
    BY <1>4, <2>1, <2>2
<1>6. Woke(k, c, permits, queue, state, woken, grants)
  <2> HIDE DEF woken
  <2> QED
    BY <1>2, <1>3, <1>4, <1>5 DEF Woke
<1>7. QED
  BY <1>6

-----------------------------------------------------------------------------
(* What a step of the semaphore does to a group *)

\* The callers that call the provider: only c starts or ends a call.
CallingAfter(k, c, state) ==
  \A g \in Groups : In(g, "calling")' =
    IF g # k THEN In(g, "calling")
    ELSE IF state = "calling" THEN In(g, "calling") \union {c} ELSE In(g, "calling") \ {c}

LEMMA WokeCalling ==
  ASSUME GovernorTypeOK, NEW k \in Groups, NEW c \in Callers, Key(c) = k, NEW permits, NEW w, NEW grants,
         NEW queue, QueueWithout(k, c, queue), NEW state \in {"idle", "calling"},
         Woke(k, c, permits, queue, state, w, grants)
  PROVE  CallingAfter(k, c, state)
<1>1. grants \subseteq In(k, "queued") \ {c}
  BY DEF Woke, QueueWithout
<1>2. ASSUME NEW g \in Groups, NEW x \in Callers
      PROVE  x \in In(g, "calling")' <=>
               x \in (IF g # k THEN In(g, "calling")
                      ELSE IF state = "calling" THEN In(g, "calling") \union {c}
                      ELSE In(g, "calling") \ {c})
  BY <1>1 DEF Woke, In, Key
<1>3. ASSUME NEW g \in Groups
      PROVE  /\ In(g, "calling")' \subseteq Callers
             /\ In(g, "calling") \union {c} \subseteq Callers
  BY DEF In
<1>4. QED
  BY <1>2, <1>3 DEF CallingAfter

LEMMA WokeQueues ==
  ASSUME GovernorTypeOK, QueuesAreSound, WaitersAreQueued,
         NEW k \in Groups, NEW c \in Callers, Key(c) = k, NEW permits \in Nat, NEW w, NEW grants,
         NEW queue, QueueWithout(k, c, queue), NEW state \in {"idle", "calling"},
         Woke(k, c, permits, queue, state, w, grants)
  PROVE  /\ place' \in [Callers -> {"idle", "queued", "granted", "calling"}]
         /\ slots' \in [Groups -> Nat]
         /\ waiters' \in [Groups -> Seq(Callers)]
         /\ QueuesAreSound'
         /\ WaitersAreQueued'
<1> DEFINE rest == SubSeq(queue, w + 1, Len(queue))
<1>1. queue \in Seq(Callers) /\ w \in 0 .. Len(queue) /\ Len(queue) \in Nat
  BY DEF QueueWithout, Woke
<1>2. /\ rest \in Seq(Callers)
      /\ Len(rest) = Len(queue) - w
      /\ \A i \in 1 .. Len(rest) : rest[i] = queue[w + i]
  BY <1>1
<1> HIDE DEF rest
<1>3. grants \subseteq In(k, "queued") \ {c}
  BY DEF Woke, QueueWithout
<1>4. waiters' \in [Groups -> Seq(Callers)] /\ slots' \in [Groups -> Nat]
  BY <1>1, <1>2 DEF Woke, GovernorTypeOK, rest
<1>5. place' \in [Callers -> {"idle", "queued", "granted", "calling"}]
  BY DEF Woke, GovernorTypeOK
<1>6. waiters'[k] = rest /\ \A g \in Groups : g # k => waiters'[g] = waiters[g]
  BY DEF Woke, GovernorTypeOK, rest
<1>7. \A x \in Callers : place'[x] = "queued" <=> place[x] = "queued" /\ x \notin grants /\ x # c
  BY <1>3 DEF Woke, In
<1>8. ASSUME NEW g \in Groups PROVE QueueIsSound(g)'
  <2>1. CASE g # k
    BY <1>3, <1>6, <1>7, <2>1 DEF QueuesAreSound, QueueIsSound, In, Key
  <2>2. CASE g = k
    <3>1. ASSUME NEW i \in 1 .. Len(rest) PROVE queue[w + i] \notin grants
      <4>1. w + i \in 1 .. Len(queue) /\ w \in Nat
        BY <1>1, <1>2
      <4>2. ASSUME NEW j \in 1 .. w PROVE queue[w + i] # queue[j]
        <5>1. j \in 1 .. Len(queue) /\ w + i # j
          BY <1>1, <4>1
        <5>2. QED
          BY <4>1, <5>1 DEF QueueWithout
      <4>3. QED
        BY <4>2 DEF Woke
    <3>2. \A i \in 1 .. Len(rest) : w + i \in 1 .. Len(queue) /\ rest[i] \in In(k, "queued") \ {c}
      BY <1>1, <1>2 DEF QueueWithout
    <3>3. \A i \in 1 .. Len(rest) : rest[i] \in In(k, "queued")'
      BY <1>2, <1>7, <3>1, <3>2 DEF In, Key
    <3>4. \A i, j \in 1 .. Len(rest) : rest[i] = rest[j] => i = j
      BY <1>1, <1>2, <3>2 DEF QueueWithout
    <3>5. QED
      BY <1>6, <2>2, <3>3, <3>4 DEF QueueIsSound
  <2>3. QED
    BY <2>1, <2>2
<1>9. ASSUME NEW x \in Callers, place'[x] = "queued"
      PROVE  \E i \in 1 .. Len(waiters'[Key(x)]) : waiters'[Key(x)][i] = x
  <2>1. place[x] = "queued" /\ x \notin grants /\ x # c
    BY <1>7, <1>9
  <2>2. CASE Key(x) # k
    BY <1>6, <2>1, <2>2, KeyIsGroup DEF WaitersAreQueued
  <2>3. CASE Key(x) = k
    <3>1. PICK i \in 1 .. Len(queue) : queue[i] = x
      BY <2>1, <2>3 DEF QueueWithout, In
    <3>2. i > w
      BY <1>1, <2>1, <3>1 DEF Woke
    <3>3. i - w \in 1 .. Len(rest) /\ rest[i - w] = x
      BY <1>1, <1>2, <3>1, <3>2
    <3>4. QED
      BY <1>6, <2>3, <3>3
  <2>4. QED
    BY <2>2, <2>3
<1>10. QED
  BY <1>4, <1>5, <1>8, <1>9 DEF QueuesAreSound, WaitersAreQueued, Key

\* A step of the semaphore that accounts for c's permit keeps the slots of every group.
LEMMA WokeSlots ==
  ASSUME SlotInv,
         NEW k \in Groups, NEW c \in Callers, Key(c) = k, NEW permits \in Nat, NEW w, NEW grants,
         NEW queue, QueueWithout(k, c, queue), NEW state \in {"idle", "calling"},
         Woke(k, c, permits, queue, state, w, grants),
         permits + Cardinality(IF state = "idle" THEN Busy(k) \ {c} ELSE Busy(k) \union {c}) = SlotLimit[k]
  PROVE  SlotsConserved'
<1> DEFINE others == IF state = "idle" THEN Busy(k) \ {c} ELSE Busy(k) \union {c}
<1>1. grants \subseteq In(k, "queued") \ {c} /\ IsFiniteSet(grants) /\ Cardinality(grants) = w
  BY DEF Woke, QueueWithout
<1>2. IsFiniteSet(others)
  BY SetsOfCallersAreFinite, FS_Union, FS_RemoveElement, FS_AddElement DEF Busy
<1>3. Busy(k)' = others \union grants
  <2>1. ASSUME NEW x \in Callers PROVE x \in Busy(k)' <=> x \in others \union grants
    BY <1>1 DEF Woke, Busy, In, Key, SlotInv, GovernorTypeOK
  <2>2. Busy(k)' \subseteq Callers /\ others \union grants \subseteq Callers
    BY <1>1 DEF Busy, In
  <2>3. QED
    BY <2>1, <2>2
<1>4. others \intersect grants = {}
  BY <1>1 DEF Busy, In
<1> HIDE DEF others
<1>5. Cardinality(Busy(k)') = Cardinality(others) + w
  <2>1. Cardinality(others \union grants) = Cardinality(others) + Cardinality(grants)
                                             - Cardinality(others \intersect grants)
    BY <1>1, <1>2, FS_Union
  <2>2. Cardinality(others) \in Nat /\ w \in Nat
    BY <1>1, <1>2, FS_CardinalityType
  <2>3. Cardinality(others \intersect grants) = 0
    BY <1>4, FS_EmptySet
  <2>4. QED
    BY <1>1, <1>3, <2>1, <2>2, <2>3
<1>6. slots'[k] + Cardinality(Busy(k)') = SlotLimit[k]
  <2>1. slots'[k] = permits - w /\ w \in Nat
    BY <1>1, FS_CardinalityType DEF Woke, SlotInv, GovernorTypeOK
  <2>2. Cardinality(others) \in Nat
    BY <1>2, FS_CardinalityType
  <2>3. permits + Cardinality(others) = SlotLimit[k]
    BY DEF others
  <2>4. QED
    BY <1>5, <2>1, <2>2, <2>3
<1>7. ASSUME NEW g \in Groups, g # k PROVE slots'[g] = slots[g] /\ Busy(g)' = Busy(g)
  BY <1>1, <1>7 DEF Woke, SlotInv, GovernorTypeOK, Busy, In, Key
<1>8. QED
  BY <1>6, <1>7 DEF SlotInv, SlotsConserved, Busy

\* A caller that does not wait is not in the queue of its group.
LEMMA QueueOfOthers ==
  ASSUME SlotInv, NEW c \in Callers, place[c] # "queued"
  PROVE  QueueWithout(Key(c), c, waiters[Key(c)])
BY KeyIsGroup
   DEF QueueWithout, SlotInv, GovernorTypeOK, QueuesAreSound, QueueIsSound, WaitersAreQueued, In

\* Removing a waiter leaves the others in the queue, each once.
LEMMA QueueAfterRemoval ==
  ASSUME SlotInv, NEW c \in Callers, place[c] = "queued"
  PROVE  QueueWithout(Key(c), c, Unqueued(waiters[Key(c)], c))
<1> DEFINE q == waiters[Key(c)]
           at == CHOOSE j \in DOMAIN q : q[j] = c
           before == SubSeq(q, 1, at - 1)
           after == SubSeq(q, at + 1, Len(q))
           rest == Unqueued(q, c)
<1>1. /\ q \in Seq(Callers) /\ Len(q) \in Nat /\ DOMAIN q = 1 .. Len(q)
      /\ \A i \in 1 .. Len(q) : q[i] \in In(Key(c), "queued")
      /\ \A i, j \in 1 .. Len(q) : q[i] = q[j] => i = j
      /\ \A x \in In(Key(c), "queued") : \E i \in 1 .. Len(q) : q[i] = x
  <2>1. q \in Seq(Callers) /\ Len(q) \in Nat /\ DOMAIN q = 1 .. Len(q)
    BY KeyIsGroup DEF SlotInv, GovernorTypeOK
  <2>2. QueueIsSound(Key(c))
    BY KeyIsGroup DEF SlotInv, QueuesAreSound
  <2>3. \A x \in In(Key(c), "queued") : \E i \in 1 .. Len(q) : q[i] = x
    BY DEF SlotInv, WaitersAreQueued, In
  <2>4. QED
    BY <2>1, <2>2, <2>3 DEF QueueIsSound
<1>2. at \in 1 .. Len(q) /\ q[at] = c
  <2>1. \E j \in DOMAIN q : q[j] = c
    BY <1>1 DEF In
  <2>2. at \in DOMAIN q /\ q[at] = c
    BY <2>1, Zenon
  <2>3. QED
    BY <1>1, <2>2
<1>3. rest = before \o after
  BY DEF Unqueued
<1> HIDE DEF q, at, rest
<1>4. /\ before \in Seq(Callers) /\ Len(before) = at - 1
      /\ \A i \in 1 .. at - 1 : before[i] = q[i]
  BY <1>1, <1>2
<1>5. /\ after \in Seq(Callers) /\ Len(after) = Len(q) - at
      /\ \A i \in 1 .. Len(q) - at : after[i] = q[at + i]
  <2>1. at + 1 \in Int /\ Len(q) \in Int /\ \A i \in at + 1 .. Len(q) : q[i] \in Callers
    BY <1>1, <1>2
  <2>2. /\ after \in Seq(Callers)
        /\ Len(after) = IF at + 1 <= Len(q) THEN Len(q) - (at + 1) + 1 ELSE 0
        /\ \A i \in 1 .. Len(q) - (at + 1) + 1 : after[i] = q[at + 1 + i - 1]
    BY <2>1, SubSeqProperties
  <2>3. Len(after) = Len(q) - at
    <3>1. at \in Int /\ Len(q) \in Int /\ at <= Len(q)
      BY <1>1, <1>2
    <3>2. CASE at + 1 <= Len(q)
      BY <2>2, <3>1, <3>2
    <3>3. CASE at = Len(q)
      BY <2>2, <3>1, <3>3
    <3>4. QED
      BY <3>1, <3>2, <3>3
  <2>4. ASSUME NEW i \in 1 .. Len(q) - at PROVE after[i] = q[at + i]
    <3>1. i \in 1 .. Len(q) - (at + 1) + 1 /\ at + 1 + i - 1 = at + i
      BY <1>1, <1>2
    <3>2. QED
      BY <2>2, <3>1
  <2>5. QED
    BY <2>2, <2>3, <2>4
<1> HIDE DEF before, after
<1>6. /\ rest \in Seq(Callers) /\ Len(rest) = Len(q) - 1
      /\ \A i \in 1 .. Len(q) - 1 : rest[i] = IF i < at THEN q[i] ELSE q[i + 1]
  <2>1. /\ rest \in Seq(Callers) /\ Len(rest) = Len(before) + Len(after)
        /\ \A i \in 1 .. Len(before) + Len(after) :
             rest[i] = IF i <= Len(before) THEN before[i] ELSE after[i - Len(before)]
    BY <1>3, <1>4, <1>5, ConcatProperties
  <2>2. Len(before) + Len(after) = Len(q) - 1
    BY <1>1, <1>2, <1>4, <1>5
  <2>3. ASSUME NEW i \in 1 .. Len(q) - 1
        PROVE  rest[i] = IF i < at THEN q[i] ELSE q[i + 1]
    <3>1. CASE i < at
      <4>1. i \in 1 .. at - 1 /\ i <= Len(before) /\ i \in 1 .. Len(before) + Len(after)
        BY <1>1, <1>2, <1>4, <2>2, <3>1
      <4>2. QED
        BY <1>4, <2>1, <3>1, <4>1
    <3>2. CASE ~(i < at)
      <4>1. i - (at - 1) \in 1 .. Len(q) - at /\ at + (i - (at - 1)) = i + 1
        BY <1>1, <1>2, <3>2
      <4>2. after[i - (at - 1)] = q[i + 1]
        BY <1>5, <4>1
      <4>3. QED
        BY <1>1, <1>2, <1>4, <2>1, <2>2, <3>2, <4>2
    <3>3. QED
      BY <3>1, <3>2
  <2>4. QED
    BY <2>1, <2>2, <2>3
<1>7. \A i \in 1 .. Len(rest) : rest[i] \in In(Key(c), "queued") \ {c}
  <2>1. ASSUME NEW i \in 1 .. Len(rest), i < at PROVE rest[i] \in In(Key(c), "queued") \ {c}
    BY <1>1, <1>2, <1>6, <2>1
  <2>2. ASSUME NEW i \in 1 .. Len(rest), ~(i < at) PROVE rest[i] \in In(Key(c), "queued") \ {c}
    <3>1. i + 1 \in 1 .. Len(q) /\ i + 1 # at
      BY <1>1, <1>2, <1>6, <2>2
    <3>2. QED
      BY <1>1, <1>2, <1>6, <2>2, <3>1
  <2>3. QED
    BY <2>1, <2>2
<1>8. ASSUME NEW i \in 1 .. Len(rest), NEW j \in 1 .. Len(rest), rest[i] = rest[j] PROVE i = j
  <2> DEFINE pos(n) == IF n < at THEN n ELSE n + 1
  <2>1. pos(i) \in 1 .. Len(q) /\ pos(j) \in 1 .. Len(q)
    BY <1>1, <1>2, <1>6
  <2>2. q[pos(i)] = q[pos(j)]
    BY <1>6, <1>8
  <2>3. pos(i) = pos(j)
    <3> HIDE DEF pos
    <3> QED
      BY <1>1, <2>1, <2>2
  <2>4. QED
    BY <1>1, <1>2, <1>6, <2>3
<1>9. ASSUME NEW x \in In(Key(c), "queued") \ {c} PROVE \E i \in 1 .. Len(rest) : rest[i] = x
  <2>1. PICK n \in 1 .. Len(q) : q[n] = x
    BY <1>1, <1>9
  <2>2. CASE n < at
    <3>1. n \in 1 .. Len(rest) /\ rest[n] = x
      BY <1>1, <1>2, <1>6, <2>1, <2>2
    <3>2. QED
      BY <3>1
  <2>3. CASE n > at
    <3>1. n - 1 \in 1 .. Len(rest) /\ rest[n - 1] = x
      BY <1>1, <1>2, <1>6, <2>1, <2>3
    <3>2. QED
      BY <3>1
  <2>4. n # at
    BY <1>2, <1>9, <2>1
  <2>5. QED
    BY <1>1, <1>2, <2>2, <2>3, <2>4
<1>10. QED
  BY <1>6, <1>7, <1>8, <1>9 DEF QueueWithout, q, rest

-----------------------------------------------------------------------------
(* Every step keeps the slots *)

SlotsTyped == /\ place \in [Callers -> {"idle", "queued", "granted", "calling"}]
              /\ slots \in [Groups -> Nat]
              /\ waiters \in [Groups -> Seq(Callers)]
CircuitsTyped == /\ circuit \in [Groups -> {"closed", "rate_limit"} \union Persistent]
                 /\ elapsed \in [Groups -> BOOLEAN]
                 /\ used \in [Groups -> Nat]
                 /\ eased \in [Groups -> BOOLEAN]
SlotsKept == SlotsTyped /\ QueuesAreSound /\ WaitersAreQueued /\ SlotsConserved

LEMMA SlotInvParts == SlotInv <=> SlotsKept /\ CircuitsTyped
BY DEF SlotInv, SlotsKept, SlotsTyped, CircuitsTyped, GovernorTypeOK

\* Waking waiters keeps the slots when the permits, with c's place, add up.
LEMMA WakeStep ==
  ASSUME SlotInv, NEW c \in Callers, NEW permits \in Nat, NEW n \in Nat, NEW queue,
         QueueWithout(Key(c), c, queue), NEW state \in {"idle", "calling"},
         Wake(Key(c), permits, queue, n, Goes(c, state)),
         permits + Cardinality(IF state = "idle" THEN Busy(Key(c)) \ {c}
                                                 ELSE Busy(Key(c)) \union {c}) = SlotLimit[Key(c)]
  PROVE  SlotsKept' /\ CallingAfter(Key(c), c, state)
<1>1. PICK w, grants : Woke(Key(c), c, permits, queue, state, w, grants)
  BY WakeEffect, KeyIsGroup
<1>2. SlotsTyped' /\ QueuesAreSound' /\ WaitersAreQueued'
  BY <1>1, WokeQueues, KeyIsGroup DEF SlotInv, SlotsTyped
<1>3. SlotsConserved'
  BY <1>1, WokeSlots, KeyIsGroup
<1>4. CallingAfter(Key(c), c, state)
  BY <1>1, WokeCalling, KeyIsGroup DEF SlotInv
<1>5. QED
  BY <1>2, <1>3, <1>4 DEF SlotsKept

\* The callers with a slot, by whether c is one of them.
LEMMA BusyOf ==
  ASSUME SlotInv, NEW c \in Callers
  PROVE  LET k == Key(c) IN
         /\ slots[k] \in Nat /\ slots[k] + Cardinality(Busy(k)) = SlotLimit[k]
         /\ Cardinality(Busy(k)) \in Nat
         /\ place[c] \in {"granted", "calling"} =>
              /\ Busy(k) \union {c} = Busy(k)
              /\ slots[k] + 1 + Cardinality(Busy(k) \ {c}) = SlotLimit[k]
         /\ place[c] = "queued" => Busy(k) \ {c} = Busy(k)
<1> DEFINE k == Key(c)
<1>1. slots[k] \in Nat /\ slots[k] + Cardinality(Busy(k)) = SlotLimit[k]
  BY KeyIsGroup DEF SlotInv, GovernorTypeOK, SlotsConserved, Busy
<1>2. IsFiniteSet(Busy(k)) /\ Cardinality(Busy(k)) \in Nat
  BY SetsOfCallersAreFinite, FS_Union, FS_CardinalityType DEF Busy
<1>3. place[c] \in {"granted", "calling"} => c \in Busy(k)
  BY DEF Busy, In
<1>4. place[c] = "queued" => c \notin Busy(k)
  BY DEF Busy, In
<1>5. c \in Busy(k) => Cardinality(Busy(k) \ {c}) = Cardinality(Busy(k)) - 1
  BY <1>2, FS_RemoveElement
<1> HIDE DEF k
<1>6. QED
  BY <1>1, <1>2, <1>3, <1>4, <1>5 DEF k

\* A call that ends gives its slot back.
LEMMA ReleaseStep ==
  ASSUME SlotInv, NEW c \in Callers, place[c] = "calling", Release(c)
  PROVE  SlotsKept' /\ CallingAfter(Key(c), c, "idle")
<1>1. slots[Key(c)] + 1 \in Nat /\ 1 \in Nat
  BY KeyIsGroup DEF SlotInv, GovernorTypeOK
<1>2. QueueWithout(Key(c), c, waiters[Key(c)])
  BY QueueOfOthers
<1>3. slots[Key(c)] + 1 + Cardinality(Busy(Key(c)) \ {c}) = SlotLimit[Key(c)]
  BY BusyOf
<1>4. QED
  BY <1>1, <1>2, <1>3, WakeStep DEF Release

\* A caller that was handed a slot uses it, or gives it back.
LEMMA GrantedStep ==
  ASSUME SlotInv, NEW c \in Callers
  PROVE  /\ ResumeAndCall(c) => SlotsKept' /\ CallingAfter(Key(c), c, "calling")
         /\ ResumeAndLeave(c) \/ CancelGranted(c) => SlotsKept' /\ CallingAfter(Key(c), c, "idle")
<1> SUFFICES ASSUME place[c] = "granted"
             PROVE  /\ ResumeAndCall(c) => SlotsKept' /\ CallingAfter(Key(c), c, "calling")
                    /\ ResumeAndLeave(c) \/ CancelGranted(c) =>
                         SlotsKept' /\ CallingAfter(Key(c), c, "idle")
  BY DEF ResumeAndCall, ResumeAndLeave, CancelGranted
<1>1. slots[Key(c)] \in Nat /\ slots[Key(c)] + 1 \in Nat
  BY KeyIsGroup DEF SlotInv, GovernorTypeOK
<1>2. QueueWithout(Key(c), c, waiters[Key(c)])
  BY QueueOfOthers
<1>3. /\ slots[Key(c)] + Cardinality(Busy(Key(c)) \union {c}) = SlotLimit[Key(c)]
      /\ slots[Key(c)] + 1 + Cardinality(Busy(Key(c)) \ {c}) = SlotLimit[Key(c)]
  BY BusyOf
<1>4. ASSUME ResumeAndCall(c) PROVE SlotsKept' /\ CallingAfter(Key(c), c, "calling")
  BY <1>1, <1>2, <1>3, <1>4, WakeStep DEF ResumeAndCall
<1>5. ASSUME ResumeAndLeave(c) \/ CancelGranted(c)
      PROVE  SlotsKept' /\ CallingAfter(Key(c), c, "idle")
  BY <1>1, <1>2, <1>3, <1>5, WakeStep DEF ResumeAndLeave, CancelGranted
<1>6. QED
  BY <1>4, <1>5

\* A waiter that is cancelled leaves the queue without a slot.
LEMMA CancelQueuedStep ==
  ASSUME SlotInv, NEW c \in Callers, CancelQueued(c)
  PROVE  SlotsKept' /\ CallingAfter(Key(c), c, "idle")
<1>1. slots[Key(c)] \in Nat /\ slots[Key(c)] + Cardinality(Busy(Key(c)) \ {c}) = SlotLimit[Key(c)]
  BY BusyOf DEF CancelQueued
<1>2. QueueWithout(Key(c), c, Unqueued(waiters[Key(c)], c))
  BY QueueAfterRemoval DEF CancelQueued
<1>3. QED
  BY <1>1, <1>2, WakeStep DEF CancelQueued

\* A caller takes a free slot at once.
LEMMA EnterStep ==
  ASSUME SlotInv, NEW c \in Callers, EnterAtOnce(c)
  PROVE  SlotsKept' /\ CallingAfter(Key(c), c, "calling")
<1> DEFINE k == Key(c)
<1>1. /\ k \in Groups /\ SlotsTyped /\ place[c] = "idle"
      /\ slots[k] \in Nat /\ slots[k] # 0
      /\ slots' = [slots EXCEPT ![k] = @ - 1] /\ place' = [place EXCEPT ![c] = "calling"]
      /\ waiters' = waiters
  BY KeyIsGroup DEF EnterAtOnce, Locked, SlotInv, GovernorTypeOK, SlotsTyped
<1>2. SlotsTyped'
  BY <1>1 DEF SlotsTyped
<1>3. QueuesAreSound' /\ WaitersAreQueued'
  <2>1. \A x \in Callers : place'[x] = "queued" <=> place[x] = "queued"
    BY <1>1 DEF SlotsTyped
  <2>2. ASSUME NEW g \in Groups PROVE In(g, "queued")' = In(g, "queued")
    BY <2>1 DEF In, Key
  <2>3. ASSUME NEW g \in Groups PROVE QueueIsSound(g)'
    <3>1. QueueIsSound(g)
      BY DEF SlotInv, QueuesAreSound
    <3>2. QED
      BY <1>1, <2>2, <3>1 DEF QueueIsSound
  <2>4. WaitersAreQueued'
    BY <1>1, <2>1 DEF SlotInv, WaitersAreQueued, Key
  <2>5. QED
    BY <2>3, <2>4 DEF QueuesAreSound
<1>4. CallingAfter(k, c, "calling")
  <2>1. ASSUME NEW g \in Groups, NEW x \in Callers
        PROVE  x \in In(g, "calling")' <=>
                 x \in (IF g # k THEN In(g, "calling") ELSE In(g, "calling") \union {c})
    BY <1>1 DEF SlotsTyped, In, Key
  <2>2. ASSUME NEW g \in Groups
        PROVE  In(g, "calling")' \subseteq Callers /\ In(g, "calling") \union {c} \subseteq Callers
    BY DEF In
  <2>3. QED
    BY <2>1, <2>2 DEF CallingAfter
<1>5. \A g \in Groups : In(g, "granted")' = In(g, "granted")
  BY <1>1 DEF SlotsTyped, In, Key
<1>6. ASSUME NEW g \in Groups PROVE slots'[g] + Cardinality(Busy(g)') = SlotLimit[g]
  <2>1. CASE g # k
    <3>1. Busy(g)' = Busy(g) /\ slots'[g] = slots[g]
      BY <1>1, <1>4, <1>5, <2>1 DEF Busy, CallingAfter, SlotsTyped
    <3>2. QED
      BY <3>1 DEF SlotInv, SlotsConserved, Busy
  <2>2. CASE g = k
    <3>1. Busy(k)' = Busy(k) \union {c} /\ c \notin Busy(k) /\ slots'[k] = slots[k] - 1
      BY <1>1, <1>4, <1>5 DEF Busy, CallingAfter, In, SlotsTyped
    <3>2. IsFiniteSet(Busy(k))
      BY SetsOfCallersAreFinite, FS_Union DEF Busy
    <3>3. Cardinality(Busy(k)') = Cardinality(Busy(k)) + 1
      BY <3>1, <3>2, FS_AddElement
    <3>4. Cardinality(Busy(k)) \in Nat /\ slots[k] + Cardinality(Busy(k)) = SlotLimit[k]
      BY BusyOf
    <3>5. QED
      BY <1>1, <2>2, <3>1, <3>3, <3>4
  <2>3. QED
    BY <2>1, <2>2
<1>7. QED
  BY <1>2, <1>3, <1>4, <1>6 DEF SlotsKept, SlotsConserved, Busy

\* A caller without a slot goes to the end of the queue.
LEMMA QueueStep ==
  ASSUME SlotInv, NEW c \in Callers, WaitForSlot(c)
  PROVE  SlotsKept' /\ \A g \in Groups : In(g, "calling")' = In(g, "calling")
<1> DEFINE k == Key(c)
           q == waiters[k]
<1>1. /\ k \in Groups /\ SlotsTyped /\ place[c] = "idle"
      /\ waiters' = [waiters EXCEPT ![k] = Append(q, c)]
      /\ place' = [place EXCEPT ![c] = "queued"] /\ slots' = slots
  BY KeyIsGroup DEF WaitForSlot, SlotInv, GovernorTypeOK, SlotsTyped
<1>2. /\ q \in Seq(Callers) /\ Len(q) \in Nat
      /\ Append(q, c) \in Seq(Callers) /\ Len(Append(q, c)) = Len(q) + 1
      /\ \A i \in 1 .. Len(q) : Append(q, c)[i] = q[i]
      /\ Append(q, c)[Len(q) + 1] = c
  BY <1>1 DEF SlotsTyped
<1>3. SlotsTyped'
  BY <1>1, <1>2 DEF SlotsTyped
<1>4. \A x \in Callers : place'[x] = "queued" <=> place[x] = "queued" \/ x = c
  BY <1>1 DEF SlotsTyped
<1>5. waiters'[k] = Append(q, c) /\ \A g \in Groups : g # k => waiters'[g] = waiters[g]
  BY <1>1 DEF SlotsTyped
<1>6. ASSUME NEW g \in Groups PROVE QueueIsSound(g)'
  <2>1. CASE g # k
    BY <1>4, <1>5, <2>1 DEF SlotInv, QueuesAreSound, QueueIsSound, In, Key
  <2>2. CASE g = k
    <3>1. QueueIsSound(k)
      BY <1>1 DEF SlotInv, QueuesAreSound
    <3>2. \A i \in 1 .. Len(q) : q[i] # c /\ q[i] \in In(k, "queued")'
      BY <1>1, <1>4, <3>1 DEF QueueIsSound, In, Key
    <3>3. c \in In(k, "queued")'
      BY <1>4 DEF In, Key
    <3> DEFINE new == Append(q, c)
    <3>4. \A i \in 1 .. Len(new) : i \in 1 .. Len(q) \/ i = Len(q) + 1
      BY <1>2
    <3>5. \A i \in 1 .. Len(new) : new[i] \in In(k, "queued")'
      BY <1>2, <3>2, <3>3, <3>4
    <3>6. \A i, j \in 1 .. Len(new) : new[i] = new[j] => i = j
      BY <1>2, <3>1, <3>2, <3>4 DEF QueueIsSound
    <3>7. QED
      BY <1>5, <2>2, <3>5, <3>6 DEF QueueIsSound
  <2>3. QED
    BY <2>1, <2>2
<1>7. ASSUME NEW x \in Callers, place'[x] = "queued"
      PROVE  \E i \in 1 .. Len(waiters'[Key(x)]) : waiters'[Key(x)][i] = x
  <2>1. CASE x = c
    BY <1>2, <1>5, <2>1
  <2>2. CASE x # c
    <3>1. PICK i \in 1 .. Len(waiters[Key(x)]) : waiters[Key(x)][i] = x
      BY <1>4, <1>7, <2>2 DEF SlotInv, WaitersAreQueued
    <3>2. CASE Key(x) # k
      BY <1>5, <3>1, <3>2, KeyIsGroup
    <3>3. CASE Key(x) = k
      <4>1. i \in 1 .. Len(Append(q, c)) /\ Append(q, c)[i] = x
        BY <1>2, <3>1, <3>3
      <4>2. QED
        BY <1>5, <3>3, <4>1
    <3>4. QED
      BY <3>2, <3>3
  <2>3. QED
    BY <2>1, <2>2
<1>8. \A g \in Groups : In(g, "calling")' = In(g, "calling") /\ In(g, "granted")' = In(g, "granted")
  BY <1>1 DEF SlotsTyped, In, Key
<1>9. SlotsConserved'
  BY <1>1, <1>8 DEF SlotInv, SlotsConserved
<1>10. QED
  BY <1>3, <1>6, <1>7, <1>8, <1>9 DEF SlotsKept, QueuesAreSound, WaitersAreQueued, Key

\* What a step does to the callers of the provider, whoever takes it.
LEMMA CallerStep ==
  ASSUME SlotInv, NEW c \in Callers
  PROVE  /\ EnterAtOnce(c) \/ ResumeAndCall(c) => SlotsKept' /\ CallingAfter(Key(c), c, "calling")
         /\ ResumeAndLeave(c) \/ CancelGranted(c) \/ CancelQueued(c) \/ CallEnds(c) =>
              SlotsKept' /\ CallingAfter(Key(c), c, "idle")
<1>1. CallEnds(c) => place[c] = "calling" /\ Release(c)
  BY DEF CallEnds, CallSucceeds, CallFails, CancelCall
<1>2. QED
  BY <1>1, EnterStep, GrantedStep, CancelQueuedStep, ReleaseStep

\* Every step keeps the types of the circuits.
LEMMA CircuitStep == SlotInv /\ [GovernorNext]_governorVars => CircuitsTyped'
<1> SUFFICES ASSUME SlotInv, [GovernorNext]_governorVars PROVE CircuitsTyped'
  OBVIOUS
<1> USE SlotInvParts DEF CircuitsTyped
<1>1. ASSUME NEW c \in Callers, EnterAtOnce(c) \/ WaitForSlot(c) \/ ResumeAndCall(c)
      PROVE  CircuitsTyped'
  BY <1>1 DEF EnterAtOnce, WaitForSlot, ResumeAndCall, CloseCircuit
<1>2. ASSUME NEW c \in Callers,
             ResumeAndLeave(c) \/ CancelGranted(c) \/ CancelQueued(c) \/ CancelCall(c)
      PROVE  CircuitsTyped'
  BY <1>2 DEF ResumeAndLeave, CancelGranted, CancelQueued, CancelCall
<1>3. ASSUME NEW c \in Callers, NEW t \in 0 .. MaxUse, CallSucceeds(c, t) PROVE CircuitsTyped'
  <2>1. used[Key(c)] + t \in Nat
    BY KeyIsGroup, LimitsAssumption
  <2>2. used' \in [Groups -> Nat]
    BY <1>3, <2>1 DEF CallSucceeds
  <2>3. /\ circuit' \in [Groups -> {"closed", "rate_limit"} \union Persistent]
        /\ elapsed' \in [Groups -> BOOLEAN] /\ eased' \in [Groups -> BOOLEAN]
    BY <1>3 DEF CallSucceeds, OpenCircuit, Persistent
  <2>4. QED
    BY <2>2, <2>3
<1>4. ASSUME NEW c \in Callers, NEW kind \in ErrorKinds, CallFails(c, kind) PROVE CircuitsTyped'
  BY <1>4 DEF CallFails, OpensCircuit, OpenCircuit, Persistent, ErrorKinds
<1>5. ASSUME NEW g \in Groups, CooldownElapses(g) PROVE CircuitsTyped'
  BY <1>5 DEF CooldownElapses
<1>6. CASE UNCHANGED governorVars
  BY <1>6 DEF governorVars
<1>7. QED
  BY <1>1, <1>2, <1>3, <1>4, <1>5, <1>6 DEF GovernorNext, Resume, CallEnds

\* A cooldown that elapses, and a stutter, leave the semaphores alone.
LEMMA SlotsUntouched ==
  ASSUME SlotInv, UNCHANGED <<place, slots, waiters>>
  PROVE  SlotsKept' /\ \A g \in Groups : In(g, "calling")' = In(g, "calling")
BY SlotInvParts DEF SlotsKept, SlotsTyped, QueuesAreSound, QueueIsSound, WaitersAreQueued,
                    SlotsConserved, In, Key

\* Every step keeps the queues and the slots.
LEMMA SlotStep == SlotInv /\ [GovernorNext]_governorVars => SlotInv'
<1> SUFFICES ASSUME SlotInv, [GovernorNext]_governorVars PROVE SlotInv'
  OBVIOUS
<1>1. ASSUME NEW c \in Callers, WaitForSlot(c) PROVE SlotsKept'
  BY <1>1, QueueStep
<1>2. ASSUME NEW c \in Callers,
             EnterAtOnce(c) \/ Resume(c) \/ CallEnds(c) \/ CancelGranted(c) \/ CancelQueued(c)
      PROVE  SlotsKept'
  BY <1>2, CallerStep DEF Resume
<1>3. ASSUME (\E g \in Groups : CooldownElapses(g)) \/ UNCHANGED governorVars PROVE SlotsKept'
  BY <1>3, SlotsUntouched DEF CooldownElapses, governorVars
<1>4. SlotsKept'
  BY <1>1, <1>2, <1>3 DEF GovernorNext
<1>5. CircuitsTyped'
  BY CircuitStep
<1>6. SlotInv'
  BY <1>4, <1>5 DEF SlotInv, SlotsKept, SlotsTyped, CircuitsTyped, GovernorTypeOK
<1>7. QED
  BY <1>6

\* At the start every group has all its slots and nobody calls.
LEMMA InitSlots == GovernorInit => SlotInv
<1> SUFFICES ASSUME GovernorInit PROVE SlotInv
  OBVIOUS
<1>1. GovernorTypeOK
  BY LimitsAssumption DEF GovernorInit, GovernorTypeOK
<1>2. QueuesAreSound /\ WaitersAreQueued
  BY DEF GovernorInit, QueuesAreSound, QueueIsSound, WaitersAreQueued
<1>3. ASSUME NEW g \in Groups
      PROVE  slots[g] + Cardinality(In(g, "granted") \union In(g, "calling")) = SlotLimit[g]
  <2>1. In(g, "granted") \union In(g, "calling") = {}
    BY DEF GovernorInit, In
  <2>2. QED
    <3>1. Cardinality(In(g, "granted") \union In(g, "calling")) = 0
      BY <2>1, FS_EmptySet
    <3>2. slots[g] = SlotLimit[g] /\ SlotLimit[g] \in Nat
      BY LimitsAssumption DEF GovernorInit
    <3>3. QED
      BY <3>1, <3>2
<1>4. QED
  BY <1>1, <1>2, <1>3 DEF SlotInv, SlotsConserved

\* The inductive invariant: a queue holds whoever waits for its group, once, and every
\* permit is free, granted or in use.
THEOREM SlotInvariance == GovernorSpec => []SlotInv
BY InitSlots, SlotStep, PTL DEF GovernorSpec

\* Every variable keeps its type: a caller that is cancelled never makes the semaphore
\* negative, and a queue never holds anything but callers.
THEOREM GovernorTypes == GovernorSpec => []GovernorTypeOK
<1>1. SlotInv => GovernorTypeOK
  BY DEF SlotInv
<1>2. QED
  BY <1>1, SlotInvariance, PTL

\* However turns are cancelled while they wait, in the instant they are handed a slot or
\* during the call (slot() is left by its async with), no permit is lost or doubled.
THEOREM SlotsAreConserved == GovernorSpec => []SlotsConserved
<1>1. SlotInv => SlotsConserved
  BY DEF SlotInv
<1>2. QED
  BY <1>1, SlotInvariance, PTL

\* The second check of slot(): no call starts behind a circuit that opened in the wait.
THEOREM NoCallPassesAnOpenCircuit == GovernorSpec => NoCallBehindOpenCircuit
<1> DEFINE Passed == \A c \in Callers : place[c] # "calling" /\ place'[c] = "calling" => Available(Key(c))
<1>1. SlotInv /\ GovernorNext => Passed
  <2> SUFFICES ASSUME SlotInv, GovernorNext, NEW c \in Callers, place[c] # "calling", place'[c] = "calling"
               PROVE  Available(Key(c))
    OBVIOUS
  <2>1. c \in In(Key(c), "calling")' /\ c \notin In(Key(c), "calling") /\ Key(c) \in Groups
    BY KeyIsGroup DEF In, Key
  <2>2. ASSUME NEW x \in Callers, EnterAtOnce(x) \/ ResumeAndCall(x) PROVE Available(Key(c))
    <3>1. CallingAfter(Key(x), x, "calling")
      BY <2>2, CallerStep
    <3>2. c = x
      BY <2>1, <3>1 DEF CallingAfter
    <3>3. QED
      BY <2>2, <3>2 DEF EnterAtOnce, ResumeAndCall, StillAvailable
  <2>3. ASSUME NEW x \in Callers,
               ResumeAndLeave(x) \/ CancelGranted(x) \/ CancelQueued(x) \/ CallEnds(x)
        PROVE  FALSE
    <3>1. CallingAfter(Key(x), x, "idle")
      BY <2>3, CallerStep
    <3>2. QED
      BY <2>1, <3>1 DEF CallingAfter
  <2>4. ASSUME NEW x \in Callers, WaitForSlot(x) PROVE FALSE
    BY <2>1, <2>4, QueueStep
  <2>5. ASSUME NEW g \in Groups, CooldownElapses(g) PROVE FALSE
    BY <2>1, <2>5, SlotsUntouched DEF CooldownElapses
  <2>6. QED
    BY <2>2, <2>3, <2>4, <2>5 DEF GovernorNext, Resume
<1>2. SlotInv /\ [GovernorNext]_governorVars => [Passed]_governorVars
  BY <1>1
<1>3. QED
  BY <1>2, SlotInvariance, PTL DEF GovernorSpec, NoCallBehindOpenCircuit

-----------------------------------------------------------------------------
(* The hard budget *)

LEMMA TimesMonotone ==
  ASSUME NEW m \in Nat, NEW a \in Nat, NEW b \in Nat, a <= b
  PROVE  m * a \in Nat /\ m * b \in Nat /\ m * a <= m * b
<1>1. PICK d \in Nat : b = a + d
  <2>1. b - a \in Nat /\ b = a + (b - a)
    OBVIOUS
  <2>2. QED
    BY <2>1
<1>2. m * b = m * a + m * d
  BY <1>1
<1>3. m * a \in Nat /\ m * d \in Nat
  OBVIOUS
<1>4. QED
  BY <1>2, <1>3

LEMMA TimesOneLess ==
  ASSUME NEW m \in Nat, NEW a \in Nat, a # 0
  PROVE  m * (a - 1) + m = m * a
OBVIOUS

CallsFit == \A g \in Groups : /\ Cardinality(In(g, "calling")) \in Nat
                              /\ Cardinality(In(g, "calling")) <= SlotLimit[g]

\* There are never more calls than slots.
LEMMA CallsBounded == SlotInv => CallsFit
<1> SUFFICES ASSUME SlotInv, NEW g \in Groups
             PROVE  /\ Cardinality(In(g, "calling")) \in Nat
                    /\ Cardinality(In(g, "calling")) <= SlotLimit[g]
  BY DEF CallsFit
<1>1. IsFiniteSet(Busy(g)) /\ In(g, "calling") \subseteq Busy(g)
  BY SetsOfCallersAreFinite, FS_Union DEF Busy
<1>2. /\ Cardinality(In(g, "calling")) \in Nat /\ Cardinality(Busy(g)) \in Nat
      /\ Cardinality(In(g, "calling")) <= Cardinality(Busy(g))
  BY <1>1, SetsOfCallersAreFinite, FS_CardinalityType, FS_Subset
<1>3. slots[g] \in Nat /\ slots[g] + Cardinality(Busy(g)) = SlotLimit[g] /\ SlotLimit[g] \in Nat
  BY LimitsAssumption DEF SlotInv, GovernorTypeOK, SlotsConserved, Busy
<1>4. QED
  BY <1>2, <1>3

\* Before the budget is spent, the calls in the slots exceed it by what they use.
LEMMA UnspentIsBounded ==
  ASSUME NEW g \in Groups, NEW spent \in Nat, NEW n \in Nat, n <= SlotLimit[g],
         spent < HardBudget[g]
  PROVE  spent + MaxUse * n <= HardBudget[g] - 1 + MaxUse * SlotLimit[g]
<1>1. HardBudget[g] \in Nat /\ SlotLimit[g] \in Nat /\ MaxUse \in Nat
  BY LimitsAssumption
<1>2. MaxUse * n \in Nat /\ MaxUse * SlotLimit[g] \in Nat /\ MaxUse * n <= MaxUse * SlotLimit[g]
  BY <1>1, TimesMonotone
<1>3. QED
  BY <1>1, <1>2

\* A step that starts no call and spends at most what a call that ends was allowed
\* does not raise the exposure.
LEMMA ExposureFalls ==
  ASSUME SlotInv, NEW g \in Groups, NEW n \in Nat, NEW t \in 0 .. MaxUse,
         \/ t = 0 /\ n <= Cardinality(In(g, "calling"))
         \/ n = Cardinality(In(g, "calling")) - 1
  PROVE  used[g] + t + MaxUse * n <= Exposure(g)
<1> DEFINE calls == Cardinality(In(g, "calling"))
<1>1. used[g] \in Nat /\ MaxUse \in Nat /\ calls \in Nat
  BY LimitsAssumption, CallsBounded DEF CallsFit, SlotInv, GovernorTypeOK
<1> HIDE DEF calls
<1>2. CASE t = 0 /\ n <= calls
  <2>1. MaxUse * n \in Nat /\ MaxUse * calls \in Nat /\ MaxUse * n <= MaxUse * calls
    BY <1>1, <1>2, TimesMonotone
  <2>2. QED
    BY <1>1, <1>2, <2>1 DEF Exposure, calls
<1>3. CASE n = calls - 1
  <2>1. MaxUse * n + MaxUse = MaxUse * calls
    BY <1>1, <1>3, TimesOneLess
  <2>2. MaxUse * n \in Nat
    BY <1>1, <1>3, TimesMonotone
  <2>3. QED
    BY <1>1, <2>1, <2>2 DEF Exposure, calls
<1>4. QED
  BY <1>2, <1>3 DEF calls

\* Every step keeps the budget's bound: calls start only while the budget is not spent,
\* and a rate limit that reopens a spent budget is told apart by eased.
LEMMA BudgetStep == GovernorInv /\ [GovernorNext]_governorVars => BudgetInv'
<1> SUFFICES ASSUME SlotInv, BudgetInv, [GovernorNext]_governorVars PROVE BudgetInv'
  BY DEF GovernorInv
<1> DEFINE calls(g) == Cardinality(In(g, "calling"))
           bound(g) == HardBudget[g] - 1 + MaxUse * SlotLimit[g]
           Good(g) == ~eased[g] => /\ circuit[g] \notin Persistent => used[g] < HardBudget[g]
                                   /\ Exposure(g) <= bound(g)
<1>1. SlotInv'
  BY SlotStep
<1>2. \A g \in Groups : calls(g)' \in Nat /\ calls(g)' <= SlotLimit[g]
  <2>1. SlotInv' => CallsFit'
    BY CallsBounded, PTL
  <2>2. QED
    BY <1>1, <2>1 DEF CallsFit
<1>3. \A g \in Groups : /\ used[g] \in Nat /\ used'[g] \in Nat /\ calls(g) \in Nat
                        /\ HardBudget[g] \in Nat
  BY <1>1, CallsBounded, LimitsAssumption DEF CallsFit, SlotInv, GovernorTypeOK
<1>4. ASSUME NEW g \in Groups, used'[g] < HardBudget[g] PROVE Good(g)'
  BY <1>2, <1>3, <1>4, UnspentIsBounded DEF Exposure
<1>5. ASSUME NEW g \in Groups, calls(g)' <= calls(g), used'[g] = used[g],
             circuit'[g] = circuit[g], eased'[g] = eased[g]
      PROVE  Good(g)'
  <2>1. used[g] + 0 + MaxUse * calls(g)' <= Exposure(g)
    <3>1. 0 \in 0 .. MaxUse
      BY LimitsAssumption
    <3>2. QED
      BY <1>2, <1>5, <3>1, ExposureFalls
  <2>2. Exposure(g)' <= Exposure(g)
    BY <1>3, <1>5, <2>1 DEF Exposure
  <2>3. Exposure(g) \in Int /\ Exposure(g)' \in Int /\ bound(g) \in Int
    BY <1>2, <1>3, LimitsAssumption DEF Exposure
  <2>4. QED
    BY <1>5, <2>2, <2>3 DEF BudgetInv
\* A step that starts no call and leaves the circuits alone.
<1> DEFINE Quiet == /\ \A g \in Groups : calls(g)' <= calls(g)
                    /\ UNCHANGED <<used, circuit, eased>>
<1>6. ASSUME Quiet PROVE \A g \in Groups : Good(g)'
  BY <1>5, <1>6
<1>7. ASSUME NEW c \in Callers, CallingAfter(Key(c), c, "idle")
      PROVE  /\ \A g \in Groups : calls(g)' <= calls(g)
             /\ place[c] = "calling" => calls(Key(c))' = calls(Key(c)) - 1
  <2>1. ASSUME NEW g \in Groups PROVE calls(g)' <= calls(g)
    <3>1. In(g, "calling")' = In(g, "calling") \/ In(g, "calling")' = In(g, "calling") \ {c}
      BY <1>7 DEF CallingAfter
    <3>2. Cardinality(In(g, "calling") \ {c}) <= Cardinality(In(g, "calling"))
      <4>1. IsFiniteSet(In(g, "calling")) /\ In(g, "calling") \ {c} \subseteq In(g, "calling")
        BY SetsOfCallersAreFinite
      <4>2. QED
        BY <4>1, FS_Subset
    <3>3. CASE In(g, "calling")' = In(g, "calling")
      <4>1. calls(g)' = calls(g)
        BY <3>3
      <4>2. QED
        BY <1>3, <4>1
    <3>4. CASE In(g, "calling")' = In(g, "calling") \ {c}
      BY <3>2, <3>4
    <3>5. QED
      BY <3>1, <3>3, <3>4
  <2>2. ASSUME place[c] = "calling" PROVE calls(Key(c))' = calls(Key(c)) - 1
    <3>1. c \in In(Key(c), "calling") /\ In(Key(c), "calling")' = In(Key(c), "calling") \ {c}
      BY <1>7, <2>2, KeyIsGroup DEF CallingAfter, In
    <3>2. QED
      BY <3>1, SetsOfCallersAreFinite, FS_RemoveElement
  <2>3. QED
    BY <2>1, <2>2
<1>8. ASSUME NEW c \in Callers, EnterAtOnce(c) \/ ResumeAndCall(c) \/ WaitForSlot(c)
      PROVE  \A g \in Groups : Good(g)'
  <2> DEFINE k == Key(c)
  <2>1. /\ k \in Groups /\ circuit[k] \notin Persistent /\ UNCHANGED <<used, eased>>
        /\ \A g \in Groups : g # k => circuit'[g] = circuit[g]
    BY <1>8, KeyIsGroup
       DEF EnterAtOnce, ResumeAndCall, WaitForSlot, StillAvailable, Available, CloseCircuit,
           Persistent, SlotInv, GovernorTypeOK
  <2>2. ASSUME NEW g \in Groups, g # k PROVE In(g, "calling")' = In(g, "calling")
    BY <1>8, <2>2, CallerStep, QueueStep DEF CallingAfter
  <2>3. ASSUME NEW g \in Groups PROVE Good(g)'
    <3>1. CASE g = k
      <4>1. ~eased[k] => used'[k] < HardBudget[k]
        BY <2>1 DEF BudgetInv
      <4>2. QED
        BY <1>4, <2>1, <3>1, <4>1
    <3>2. CASE g # k
      BY <1>3, <1>5, <2>1, <2>2, <3>2
    <3>3. QED
      BY <3>1, <3>2
  <2>4. QED
    BY <2>3
<1>9. ASSUME NEW c \in Callers,
             ResumeAndLeave(c) \/ CancelGranted(c) \/ CancelQueued(c) \/ CancelCall(c)
      PROVE  \A g \in Groups : Good(g)'
  <2>1. CallingAfter(Key(c), c, "idle")
    BY <1>9, CallerStep DEF CallEnds
  <2>2. UNCHANGED <<used, circuit, eased>>
    BY <1>9 DEF ResumeAndLeave, CancelGranted, CancelQueued, CancelCall
  <2>3. QED
    BY <1>6, <1>7, <2>1, <2>2
<1>10. ASSUME NEW c \in Callers, NEW t \in 0 .. MaxUse, CallSucceeds(c, t)
       PROVE  \A g \in Groups : Good(g)'
  <2> DEFINE k == Key(c)
  <2>1. CallingAfter(k, c, "idle") /\ place[c] = "calling" /\ k \in Groups
    BY <1>10, CallerStep, KeyIsGroup DEF CallEnds, CallSucceeds
  <2>2. /\ used' = [used EXCEPT ![k] = used[k] + t]
        /\ \/ used[k] + t >= HardBudget[k] /\ OpenCircuit(k, "hard_token_budget")
           \/ ~(used[k] + t >= HardBudget[k]) /\ UNCHANGED <<circuit, elapsed, eased>>
    BY <1>10 DEF CallSucceeds, BudgetReached
  <2>3. \A g \in Groups : eased'[g] = eased[g]
    BY <2>1, <2>2 DEF OpenCircuit, SlotInv, GovernorTypeOK
  <2>4. \A g \in Groups : g # k => circuit'[g] = circuit[g] /\ used'[g] = used[g]
    BY <2>1, <2>2 DEF OpenCircuit, SlotInv, GovernorTypeOK
  <2>5. calls(k)' = calls(k) - 1 /\ \A g \in Groups : calls(g)' <= calls(g)
    BY <1>7, <2>1
  <2>6. used'[k] = used[k] + t
    BY <2>1, <2>2 DEF SlotInv, GovernorTypeOK
  <2>7. Good(k)'
    <3>1. CASE used'[k] < HardBudget[k]
      BY <1>4, <2>1, <3>1
    <3>2. CASE ~(used'[k] < HardBudget[k])
      <4>1. circuit'[k] \in Persistent
        <5>1. used[k] + t >= HardBudget[k]
          BY <1>3, <2>1, <2>6, <3>2
        <5>2. QED
          BY <2>1, <2>2, <5>1 DEF OpenCircuit, Persistent, SlotInv, GovernorTypeOK
      <4>2. used[k] + t + MaxUse * calls(k)' <= Exposure(k)
        BY <1>2, <2>1, <2>5, ExposureFalls
      <4>3. Exposure(k)' <= Exposure(k)
        BY <2>6, <4>2 DEF Exposure
      <4>4. Exposure(k) \in Int /\ Exposure(k)' \in Int /\ bound(k) \in Int
        BY <1>2, <1>3, <2>1, LimitsAssumption DEF Exposure
      <4>5. QED
        BY <2>1, <2>3, <4>1, <4>3, <4>4 DEF BudgetInv
    <3>3. QED
      BY <3>1, <3>2
  <2>8. ASSUME NEW g \in Groups, g # k PROVE Good(g)'
    BY <1>5, <2>3, <2>4, <2>5, <2>8
  <2>9. QED
    BY <2>7, <2>8
<1>11. ASSUME NEW c \in Callers, NEW kind \in ErrorKinds, CallFails(c, kind)
       PROVE  \A g \in Groups : Good(g)'
  <2> DEFINE k == Key(c)
  <2>1. CallingAfter(k, c, "idle") /\ k \in Groups /\ UNCHANGED used
    BY <1>11, CallerStep, KeyIsGroup DEF CallEnds, CallFails
  <2>2. \A g \in Groups : calls(g)' <= calls(g)
    BY <1>7, <2>1
  <2>3. CASE ~OpensCircuit(kind)
    BY <1>6, <1>11, <2>1, <2>2, <2>3 DEF CallFails
  <2>4. CASE OpensCircuit(kind)
    <3>1. /\ kind \in {"quota", "rate_limit"}
          /\ circuit'[k] = kind
          /\ eased'[k] = (eased[k] \/ (kind = "rate_limit" /\ circuit[k] \in Persistent))
          /\ \A g \in Groups : g # k => circuit'[g] = circuit[g] /\ eased'[g] = eased[g]
      BY <1>11, <2>1, <2>4 DEF CallFails, OpensCircuit, OpenCircuit, SlotInv, GovernorTypeOK
    <3>2. ASSUME NEW g \in Groups, g # k PROVE Good(g)'
      BY <1>5, <2>1, <2>2, <3>1, <3>2
    <3>3. Good(k)'
      <4>1. CASE eased'[k]
        BY <4>1
      <4>2. CASE ~eased'[k] /\ circuit[k] \notin Persistent
        <5>1. used'[k] < HardBudget[k]
          BY <2>1, <3>1, <4>2 DEF BudgetInv
        <5>2. QED
          BY <1>4, <2>1, <5>1
      <4>3. CASE ~eased'[k] /\ circuit[k] \in Persistent
        <5>1. ~eased[k] /\ circuit'[k] \in Persistent
          BY <3>1, <4>3 DEF Persistent
        <5>2. 0 \in 0 .. MaxUse
          BY LimitsAssumption
        <5>3. used[k] + 0 + MaxUse * calls(k)' <= Exposure(k)
          BY <1>2, <2>1, <2>2, <5>2, ExposureFalls
        <5>4. Exposure(k)' <= Exposure(k)
          BY <1>3, <2>1, <5>3 DEF Exposure
        <5>5. Exposure(k) \in Int /\ Exposure(k)' \in Int /\ bound(k) \in Int
          BY <1>2, <1>3, <2>1, LimitsAssumption DEF Exposure
        <5>6. QED
          BY <2>1, <5>1, <5>4, <5>5 DEF BudgetInv
      <4>4. QED
        BY <4>1, <4>2, <4>3
    <3>4. QED
      BY <3>2, <3>3
  <2>5. QED
    BY <2>3, <2>4
<1>12. ASSUME (\E g \in Groups : CooldownElapses(g)) \/ UNCHANGED governorVars
       PROVE  \A g \in Groups : Good(g)'
  <2>1. UNCHANGED <<place, slots, waiters, used, circuit, eased>>
    BY <1>12 DEF CooldownElapses, governorVars
  <2>2. \A g \in Groups : calls(g)' <= calls(g)
    BY <1>3, <2>1, SlotsUntouched
  <2>3. QED
    BY <1>6, <2>1, <2>2
<1>13. \A g \in Groups : Good(g)'
  <2> HIDE DEF Good
  <2> QED
    BY <1>8, <1>9, <1>10, <1>11, <1>12 DEF GovernorNext, Resume, CallEnds
<1>14. QED
  BY <1>13 DEF BudgetInv

\* record_usage and slot() together: what is spent past the hard budget comes from calls
\* that were under way when it was reached, unless a rate limit replaced its circuit.
THEOREM OverspendBounded == GovernorSpec => []OverspendIsBounded
<1>1. GovernorInit => BudgetInv
  <2> SUFFICES ASSUME GovernorInit, NEW g \in Groups
               PROVE  /\ used[g] < HardBudget[g]
                      /\ Exposure(g) <= HardBudget[g] - 1 + MaxUse * SlotLimit[g]
    BY DEF BudgetInv
  <2>1. used[g] = 0 /\ used[g] < HardBudget[g]
    BY LimitsAssumption DEF GovernorInit
  <2>2. Cardinality(In(g, "calling")) \in Nat /\ Cardinality(In(g, "calling")) <= SlotLimit[g]
    BY InitSlots, CallsBounded DEF CallsFit
  <2>3. QED
    BY <2>1, <2>2, UnspentIsBounded DEF Exposure
<1>2. GovernorInv /\ [GovernorNext]_governorVars => GovernorInv'
  BY SlotStep, BudgetStep DEF GovernorInv
<1>3. GovernorInit => GovernorInv
  BY <1>1, InitSlots DEF GovernorInv
<1>4. GovernorInv => OverspendIsBounded
  BY DEF GovernorInv, BudgetInv, OverspendIsBounded, Exposure
<1>5. QED
  BY <1>2, <1>3, <1>4, PTL DEF GovernorSpec
=============================================================================
