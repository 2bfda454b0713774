-------------------------- MODULE ProviderGovernor --------------------------
(***************************************************************************)
(* backend/provider_runtime.py: the in-process guard every solver passes    *)
(* before a turn (solver.run_until_done_or_gave_up).  Providers of one      *)
(* account share a group, and with it a semaphore, a token count and a      *)
(* circuit breaker.  A turn checks the circuit, waits for a slot, checks    *)
(* again, calls the provider, and then records its usage or its error.      *)
(***************************************************************************)
EXTENDS Naturals, Sequences, FiniteSets

CONSTANTS Callers,      \* solvers: each has one provider for all its turns
          Providers, Groups,
          ProviderOf,   \* of a caller
          GroupOf,      \* _group(provider)
          SlotLimit,    \* max_concurrency of a group
          HardBudget,   \* hard_token_budget of a group
          MaxUse,       \* tokens a single call can use
          TokenCap      \* bound: no call succeeds past this count of tokens

ASSUME ProvidersAssumption == /\ ProviderOf \in [Callers -> Providers]
                              /\ GroupOf \in [Providers -> Groups]
ASSUME CallersAssumption == IsFiniteSet(Callers)
ASSUME LimitsAssumption == /\ SlotLimit \in [Groups -> Nat \ {0}]
                           /\ HardBudget \in [Groups -> Nat \ {0}]
                           /\ MaxUse \in Nat

VARIABLES
  place,     \* where a caller is: "granted" has a slot and did not resume yet
  slots,     \* the semaphore's _value
  waiters,   \* its FIFO of callers without a slot
  circuit,   \* circuit_reason, or "closed"
  elapsed,   \* the monotonic clock has passed circuit_until
  used,      \* used_tokens
  eased      \* history: a rate limit has replaced a circuit without an end

governorVars == <<place, slots, waiters, circuit, elapsed, used, eased>>

\* States, semaphores and limits are kept by group.
Key(c) == GroupOf[ProviderOf[c]]
In(k, state) == {c \in Callers : Key(c) = k /\ place[c] = state}
Persistent == {"quota", "hard_token_budget"}

GovernorTypeOK ==
  /\ place \in [Callers -> {"idle", "queued", "granted", "calling"}]
  /\ slots \in [Groups -> Nat]
  /\ waiters \in [Groups -> Seq(Callers)]
  /\ circuit \in [Groups -> {"closed", "rate_limit"} \union Persistent]
  /\ elapsed \in [Groups -> BOOLEAN]
  /\ used \in [Groups -> Nat]
  /\ eased \in [Groups -> BOOLEAN]

GovernorInit ==
  /\ place = [c \in Callers |-> "idle"]
  /\ slots = SlotLimit
  /\ waiters = [k \in Groups |-> <<>>]
  /\ circuit = [k \in Groups |-> "closed"]
  /\ elapsed = [k \in Groups |-> FALSE]
  /\ used = [k \in Groups |-> 0]
  /\ eased = [k \in Groups |-> FALSE]

-----------------------------------------------------------------------------
(* asyncio.Semaphore *)

\* Hand free permits to the first waiters, at most n of them; moved are the callers
\* that change place in the same step.
Wake(k, permits, queue, n, moved) ==
  LET woken == CHOOSE w \in 0 .. Len(queue) :
                 /\ w <= n /\ w <= permits
                 /\ w = n \/ w = permits \/ w = Len(queue)
      grants == {queue[i] : i \in 1 .. woken}
  IN /\ slots' = [slots EXCEPT ![k] = permits - woken]
     /\ waiters' = [waiters EXCEPT ![k] = SubSeq(queue, woken + 1, Len(queue))]
     /\ place' = [c \in Callers |-> IF c \in grants THEN "granted"
                                    ELSE IF c \in DOMAIN moved THEN moved[c] ELSE place[c]]

Goes(c, state) == [x \in {c} |-> state]

\* release(): one permit more, for the next waiter (mutant: nobody is woken).
ReleaseWakesNobody(c) == Wake(Key(c), slots[Key(c)] + 1, waiters[Key(c)], 0, Goes(c, "idle"))
Release(c) == Wake(Key(c), slots[Key(c)] + 1, waiters[Key(c)], 1, Goes(c, "idle"))

\* deque.remove(): the waiter of a caller that waits in the queue leaves it.
Unqueued(queue, c) ==
  LET i == CHOOSE j \in DOMAIN queue : queue[j] = c
  IN SubSeq(queue, 1, i - 1) \o SubSeq(queue, i + 1, Len(queue))

Locked(k) == slots[k] = 0 \/ waiters[k] # <<>> \/ In(k, "granted") # {}

-----------------------------------------------------------------------------
(* The circuit *)

\* check_available does not raise; a cooldown that is over closes the circuit.
Available(k) == circuit[k] = "closed" \/ (circuit[k] = "rate_limit" /\ elapsed[k])
CloseCircuit(k) == /\ circuit' = [circuit EXCEPT ![k] = "closed"]
                   /\ elapsed' = [elapsed EXCEPT ![k] = FALSE]

OpenCircuit(k, reason) ==
  /\ circuit' = [circuit EXCEPT ![k] = reason]
  /\ elapsed' = [elapsed EXCEPT ![k] = FALSE]
  /\ eased' = [eased EXCEPT ![k] = @ \/ (reason = "rate_limit" /\ circuit[k] \in Persistent)]

-----------------------------------------------------------------------------
(* A turn.  One that finds the circuit open ends at once and changes nothing. *)

EnterAtOnce(c) ==
  LET k == Key(c) IN
  /\ place[c] = "idle"
  /\ Available(k)
  /\ CloseCircuit(k)
  /\ ~Locked(k)
  /\ slots' = [slots EXCEPT ![k] = @ - 1]
  /\ place' = [place EXCEPT ![c] = "calling"]
  /\ UNCHANGED <<waiters, used, eased>>

WaitForSlot(c) ==
  LET k == Key(c) IN
  /\ place[c] = "idle"
  /\ Available(k)
  /\ CloseCircuit(k)
  /\ Locked(k)
  /\ waiters' = [waiters EXCEPT ![k] = Append(@, c)]
  /\ place' = [place EXCEPT ![c] = "queued"]
  /\ UNCHANGED <<slots, used, eased>>

\* The check after the wait (mutant: there is none).
NoSecondCheck(k) == TRUE
StillAvailable(k) == Available(k)

\* A waiter resumes with its slot, hands further permits on, and checks again.
ResumeAndCall(c) ==
  LET k == Key(c) IN
  /\ place[c] = "granted"
  /\ StillAvailable(k)
  /\ CloseCircuit(k)
  /\ Wake(k, slots[k], waiters[k], slots[k], Goes(c, "calling"))
  /\ UNCHANGED <<used, eased>>

ResumeAndLeave(c) ==
  LET k == Key(c) IN
  /\ place[c] = "granted"
  /\ ~StillAvailable(k)
  /\ Wake(k, slots[k] + 1, waiters[k], slots[k] + 1, Goes(c, "idle"))
  /\ UNCHANGED <<circuit, elapsed, used, eased>>

\* Mutant: the budget is reached only when it is exceeded.
BudgetExceeded(k, total) == total > HardBudget[k]
BudgetReached(k, total) == total >= HardBudget[k]

\* record_usage of a call that used t tokens, in the step that releases the slot.
CallSucceeds(c, t) ==
  LET k == Key(c)
      total == used[k] + t
  IN /\ place[c] = "calling"
     /\ total <= TokenCap
     /\ Release(c)
     /\ used' = [used EXCEPT ![k] = total]
     /\ IF BudgetReached(k, total)
        THEN OpenCircuit(k, "hard_token_budget")
        ELSE UNCHANGED <<circuit, elapsed, eased>>

OpensCircuit(kind) == kind \in {"quota", "rate_limit"}

\* record_error: a quota error has no end, a rate limit has a cooldown, the other
\* kinds do not open the circuit; the tokens of a failed call are not counted.
CallFails(c, kind) ==
  /\ place[c] = "calling"
  /\ Release(c)
  /\ IF OpensCircuit(kind)
     THEN OpenCircuit(Key(c), kind)
     ELSE UNCHANGED <<circuit, elapsed, eased>>
  /\ UNCHANGED used

\* Mutant: the cancelled waiter keeps the permit it was handed.
CancelGrantedKeepsSlot(c) ==
  /\ place[c] = "granted"
  /\ place' = [place EXCEPT ![c] = "idle"]
  /\ UNCHANGED <<slots, waiters, circuit, elapsed, used, eased>>

\* The solver's task is cancelled: in the queue, with a slot it did not take yet, or
\* in its call.
CancelGranted(c) ==
  /\ place[c] = "granted"
  /\ Wake(Key(c), slots[Key(c)] + 1, waiters[Key(c)], slots[Key(c)] + 1, Goes(c, "idle"))
  /\ UNCHANGED <<circuit, elapsed, used, eased>>

CancelQueued(c) ==
  /\ place[c] = "queued"
  /\ Wake(Key(c), slots[Key(c)], Unqueued(waiters[Key(c)], c), slots[Key(c)], Goes(c, "idle"))
  /\ UNCHANGED <<circuit, elapsed, used, eased>>

CancelCall(c) ==
  /\ place[c] = "calling"
  /\ Release(c)
  /\ UNCHANGED <<circuit, elapsed, used, eased>>

CooldownElapses(k) ==
  /\ circuit[k] = "rate_limit"
  /\ ~elapsed[k]
  /\ elapsed' = [elapsed EXCEPT ![k] = TRUE]
  /\ UNCHANGED <<place, slots, waiters, circuit, used, eased>>

-----------------------------------------------------------------------------
ErrorKinds == {"quota", "rate_limit", "other"}
Resume(c) == ResumeAndCall(c) \/ ResumeAndLeave(c)
CallEnds(c) == \/ \E t \in 0 .. MaxUse : CallSucceeds(c, t)
               \/ \E kind \in ErrorKinds : CallFails(c, kind)
               \/ CancelCall(c)

GovernorNext ==
  \/ \E c \in Callers : \/ EnterAtOnce(c) \/ WaitForSlot(c)
                        \/ Resume(c) \/ CallEnds(c)
                        \/ CancelGranted(c) \/ CancelQueued(c)
  \/ \E k \in Groups : CooldownElapses(k)

GovernorSpec == GovernorInit /\ [][GovernorNext]_governorVars

(* A task that was woken runs.  Nothing makes a call end: the slot is held for   *)
(* the whole turn of an agent, whose number of requests has no limit, and a race *)
(* without tiers never cancels it.                                               *)
GovernorFairness == \A c \in Callers : WF_governorVars(Resume(c))
FairGovernorSpec == GovernorSpec /\ GovernorFairness

-----------------------------------------------------------------------------
(* Properties *)

\* However turns are cancelled while they wait, in the instant they are handed a slot
\* or during the call, no permit of a group is lost and none is used twice, its
\* providers taken together.
SlotsConserved ==
  \A g \in Groups : slots[g] + Cardinality(In(g, "granted") \union In(g, "calling")) = SlotLimit[g]

\* Tokens spent past the hard budget come from calls that were under way when it was
\* reached, unless a rate limit replaced the circuit that the budget had opened.
OverspendIsBounded ==
  \A g \in Groups :
    ~eased[g] => used[g] + MaxUse * Cardinality(In(g, "calling"))
                   <= HardBudget[g] - 1 + MaxUse * SlotLimit[g]

\* No call starts behind an open circuit, even if it opened during the wait.
NoCallBehindOpenCircuit ==
  [][\A c \in Callers : place[c] # "calling" /\ place'[c] = "calling" => Available(Key(c))]_governorVars

\* A turn waits for a slot for ever only if the slots of its group, every one of them, are
\* held by turns that never end: otherwise it gets its answer (the slot, a refusal or a
\* cancellation), whoever is cancelled, refused or handed a slot in the meantime.
HeldForEver(S) == <>[](\A c \in S : place[c] = "calling")
SlotSets(g) == {S \in SUBSET {c \in Callers : Key(c) = g} : Cardinality(S) = SlotLimit[g]}
WaitersAreServed ==
  \A c \in Callers : []<>(place[c] # "queued") \/ \E S \in SlotSets(Key(c)) : HeldForEver(S)

\* An exhausted quota or hard budget blocks the provider for good.
PersistentCircuitStays ==
  [][\A k \in Groups : circuit[k] \in Persistent => circuit'[k] \in Persistent]_governorVars
=============================================================================
