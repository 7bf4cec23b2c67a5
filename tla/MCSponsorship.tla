--------------------------- MODULE MCSponsorship ---------------------------
(***************************************************************************)
(* Small instance of the sponsorship pallet: two accounts, two pools.      *)
(* Fees are the code's own (808 for a 4-byte call to Astar, 1008 to        *)
(* Acala, 1000 for an empty one), so a pool pays for one or two calls.     *)
(***************************************************************************)
EXTENDS SponsorshipSums, TLC

CONSTANTS a1, a2

Config(chains, required) ==
    [max_transaction_value |-> 900, daily_spending_limit |-> 1000,
     allowed_chains |-> chains, authorization_required |-> required]

\* The configurations allow chain 1000 (the one the benchmark uses), which the
\* gateway has no fee for, next to Acala and Astar.
Wide == Config({1000, 2000, 2006}, FALSE)
Narrow == Config({2006}, TRUE)
OneConfig == {Wide}
TwoConfigs == {Wide, Narrow}
MCFree == (a1 :> 3500) @@ (a2 :> 1600)
AccessFree == (a1 :> 4500) @@ (a2 :> 1600)
=============================================================================
