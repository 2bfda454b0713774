------------------------- MODULE MCProviderGovernor -------------------------
(* Four solvers on two providers of one account, two slots for them all. *)
EXTENDS ProviderGovernor, TLC

CONSTANTS c1, c2, c3, c4, chat, responses, go

MCProviderOf == (c1 :> chat) @@ (c2 :> responses) @@ (c3 :> chat) @@ (c4 :> responses)
MCGroupOf == (chat :> go) @@ (responses :> go)
MCLimit == go :> 2
MCHardBudget == go :> 3
=============================================================================
