---------------------------- MODULE MCKnowledgeFlow ----------------------------
(***************************************************************************)
(* Two challenges of one category.  The first comes upon a category rule    *)
(* and a platform rule, the second upon the same category rule; the first   *)
(* may have three solvers, by a quota fallback and by being listed again.   *)
(***************************************************************************)
EXTENDS KnowledgeFlow, TLC

CONSTANTS web1, web2

MCCategory == (web1 :> "web") @@ (web2 :> "web")
MCWrites == (web1 :> {"rule", "law"}) @@ (web2 :> {"rule", "idea"})
MCMaxLines == (web1 :> 2) @@ (web2 :> 1)
MCMaxTraces == (web1 :> 3) @@ (web2 :> 1)
=============================================================================
