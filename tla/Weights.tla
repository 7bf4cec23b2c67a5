------------------------------ MODULE Weights ------------------------------
(***************************************************************************)
(* The weights that the runtime charges for the pallet's extrinsics        *)
(* (pallets/sponsorship/src/weights.rs), as the number of storage items    *)
(* each of them pays to read and to write.                                 *)
(***************************************************************************)
EXTENDS Naturals

DbWeight(r, w) == [reads |-> r, writes |-> w]

\* Mutant: the entry in the transaction log is not paid for.
weight_unlogged ==
    [create_pool |-> DbWeight(1, 3), fund_pool |-> DbWeight(1, 1),
     update_pool_config |-> DbWeight(1, 1),
     add_authorization_rule |-> DbWeight(1, 1),
     remove_authorization_rule |-> DbWeight(1, 1),
     sponsor_transaction |-> DbWeight(2, 2), process_receipt |-> DbWeight(2, 2)]

\* WeightInfo: SubstrateWeight and the implementation for (), which the
\* runtime uses, agree.
weight ==
    [create_pool |-> DbWeight(1, 3), fund_pool |-> DbWeight(1, 1),
     update_pool_config |-> DbWeight(1, 1),
     add_authorization_rule |-> DbWeight(1, 1),
     remove_authorization_rule |-> DbWeight(1, 1),
     sponsor_transaction |-> DbWeight(2, 3), process_receipt |-> DbWeight(2, 2)]
=============================================================================
