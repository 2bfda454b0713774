--------------------------- MODULE MCCoordinator ---------------------------
(***************************************************************************)
(* The coordinator on two challenges and one slot.                          *)
(*                                                                          *)
(* OneIfItCrashes bounds the run that has both fairness and crashes: where  *)
(* the process is restarted, or a list is incomplete, the platform has not  *)
(* published the second challenge.                                          *)
(***************************************************************************)
EXTENDS Coordinator

Noticed == known \union knownSolved \union tracked \union platSolved
             \union {c \in Challenges : entry[c] # Unknown}
OneIfItCrashes == restarts > 0 \/ hides > 0 => Noticed \subseteq {1}
=============================================================================
