-------------------------- MODULE SubmissionLedger --------------------------
(***************************************************************************)
(* What one challenge promises the competition platform, whatever its      *)
(* solvers do: at most one request is outstanding, no flag is ever sent     *)
(* twice, and nothing is sent once the platform has accepted a flag.  Wrong *)
(* submissions cost points and trigger rate limits, so this is the contract *)
(* ChallengeSwarm.try_submit_flag exists for.                               *)
(***************************************************************************)
CONSTANTS Flags,     \* the strings solvers may try, after strip()
          NoFlag     \* Python's None

VARIABLES tried,         \* every flag a request was sent for
          outstanding,   \* the flag whose request is being answered, or NoFlag
          accepted       \* the flag the platform confirmed, or NoFlag

vars == <<tried, outstanding, accepted>>

Init == /\ tried = {}
        /\ outstanding = NoFlag
        /\ accepted = NoFlag

Send(f) == /\ accepted = NoFlag
           /\ outstanding = NoFlag
           /\ f \notin tried
           /\ tried' = tried \union {f}
           /\ outstanding' = f
           /\ UNCHANGED accepted

\* The platform answered "correct" or "already_solved".
Accept == /\ outstanding # NoFlag
          /\ accepted' = outstanding
          /\ outstanding' = NoFlag
          /\ UNCHANGED tried

\* Any other answer, an exception, or the cancellation of the caller.
Drop == /\ outstanding # NoFlag
        /\ outstanding' = NoFlag
        /\ UNCHANGED <<tried, accepted>>

Next == \/ \E f \in Flags : Send(f)
        \/ Accept
        \/ Drop

Spec == Init /\ [][Next]_vars
=============================================================================
