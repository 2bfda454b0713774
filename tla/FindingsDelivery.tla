-------------------------- MODULE FindingsDelivery --------------------------
(***************************************************************************)
(* What the message bus promises: every reader has a mailbox into which     *)
(* every finding of somebody else is put once; a reader takes what is in    *)
(* its mailbox; only the newest findings are kept for it.                   *)
(***************************************************************************)
EXTENDS Naturals

CONSTANTS Readers,    \* model specs
          Writers,    \* model specs and the coordinator
          Retained    \* how many of the newest findings are kept

VARIABLES count,     \* findings posted so far
          inbox,     \* [Readers -> findings that wait]
          handed     \* [Readers -> the answer to the last request]

Init == /\ count = 0
        /\ inbox = [r \in Readers |-> {}]
        /\ handed = [r \in Readers |-> {}]

Newest(S, n) == {f \in S : f.n + Retained > n}

Post(w) ==
  LET f == [by |-> w, n |-> count + 1] IN
  /\ count' = count + 1
  /\ inbox' = [r \in Readers |->
                 Newest(inbox[r] \union (IF r = w THEN {} ELSE {f}), count + 1)]
  /\ UNCHANGED handed

Take(r) ==
  /\ handed' = [handed EXCEPT ![r] = inbox[r]]
  /\ inbox' = [inbox EXCEPT ![r] = {}]
  /\ UNCHANGED count

Next == (\E w \in Writers : Post(w)) \/ (\E r \in Readers : Take(r))
Spec == Init /\ [][Next]_<<count, inbox, handed>>
=============================================================================
