----------------------------- MODULE MCComponents -----------------------------
(***************************************************************************)
(* Instances of the components around the race: a behaviour is one of one   *)
(* component, chosen at its start.  They share no variable and no model     *)
(* here makes one wait for another, so that interleaving them would add     *)
(* nothing but states.                                                       *)
(***************************************************************************)
EXTENDS MCSandboxPool, MCProviderGovernor, CodexSession, MessageBus, StallPolicy, ChallengeEnv

CONSTANTS seatA, seatB, specA, specB

VARIABLE component

\* The fallback of the first seat is the spec of the second.
MCOwnSpec == (seatA :> specA) @@ (seatB :> specB)
MCFallbackSpec == (seatA :> specB) @@ (seatB :> "none")

vars == <<component, poolVars, governorVars, sessionVars, busVars, stallVars, challengeVars>>

ComponentsInit ==
  /\ component \in {"pool", "governor", "session", "bus", "stall", "env"}
  /\ PoolInit /\ GovernorInit /\ SessionInit /\ BusInit /\ StallInit
  /\ EnvInit /\ (component = "env" \/ (command = "single" /\ onDisk = Absent))

PoolOnly == /\ component = "pool" /\ PoolNext
            /\ UNCHANGED <<component, governorVars, sessionVars, busVars, stallVars, challengeVars>>
GovernorOnly == /\ component = "governor" /\ GovernorNext
                /\ UNCHANGED <<component, poolVars, sessionVars, busVars, stallVars, challengeVars>>
SessionOnly == /\ component = "session" /\ SessionNext
               /\ UNCHANGED <<component, poolVars, governorVars, busVars, stallVars, challengeVars>>
BusOnly == /\ component = "bus" /\ BusNext
           /\ UNCHANGED <<component, poolVars, governorVars, sessionVars, stallVars, challengeVars>>
StallOnly == /\ component = "stall" /\ StallNext
             /\ UNCHANGED <<component, poolVars, governorVars, sessionVars, busVars, challengeVars>>
EnvOnly == /\ component = "env" /\ EnvNext
           /\ UNCHANGED <<component, poolVars, governorVars, sessionVars, busVars, stallVars>>

ComponentsNext == PoolOnly \/ GovernorOnly \/ SessionOnly \/ BusOnly \/ StallOnly \/ EnvOnly

(* What each component's own specification assumes, where it is the one that runs. *)
ComponentsFairness ==
  /\ \A s \in Sandboxes : WF_poolVars(component = "pool" /\ GoesOn(s))
  /\ \A c \in Callers : WF_governorVars(component = "governor" /\ Resume(c))
  /\ WF_sessionVars(component = "session" /\ (StartStep \/ TurnStep \/ StopStep))
  /\ WF_sessionVars(component = "session" /\ (ReadStep \/ CompactionFails \/ ToolStep))
  /\ \A t \in Turns : WF_sessionVars(component = "session" /\ CompleteTurn(t))
  /\ WF_stallVars(component = "stall" /\ StallGoesOn)
  /\ WF_stallVars(component = "stall" /\ Elapse)

ComponentsSpec == ComponentsInit /\ [][ComponentsNext]_vars /\ ComponentsFairness

\* All variables of all components keep their types.
ComponentsTypeOK == /\ PoolTypeOK /\ GovernorTypeOK /\ SessionTypeOK
                    /\ BusTypeOK /\ StallTypeOK /\ EnvTypeOK
=============================================================================
