---------------------------- MODULE MCSandboxPool ----------------------------
(* Two leases for three sandboxes, two of them on a worker with one place. *)
EXTENDS SandboxPool, TLC

CONSTANTS s1, s2, s3

\* A local worker and a remote one with a single place; s1 goes to the first, the others
\* to the second.
MCRegistry ==
  << [name |-> "local", profiles |-> {"standard", "debug"}, arch |-> "arm64",
      native |-> TRUE, local |-> TRUE, limit |-> 2],
     [name |-> "amd", profiles |-> {"standard", "debug"}, arch |-> "amd64",
      native |-> TRUE, local |-> FALSE, limit |-> 1] >>
MCTags == (s1 :> [category |-> "web", nested |-> FALSE, arch |-> "arm64"])
       @@ (s2 :> [category |-> "binary", nested |-> FALSE, arch |-> "any"])
       @@ (s3 :> [category |-> "binary", nested |-> FALSE, arch |-> "amd64"])
=============================================================================
