-------------------------- MODULE SponsorshipClaims --------------------------
(***************************************************************************)
(* What the repository's documentation, comments and tests say of the      *)
(* pallet and its code does not do.  Each is a property that a run refutes *)
(* by a short trace.                                                       *)
(***************************************************************************)
EXTENDS Sponsorship, FiniteSetsExt, TLC

CONSTANTS a1, a2

CostOf(t) == transactionLog'[t].gas_cost

NewRecords == DOMAIN transactionLog' \ DOMAIN transactionLog

\* The sponsored costs of the user of record t on its pool; every block of a
\* run is in the same day (7200 blocks).
SpentToday(t) ==
    MapThenSumSet(CostOf, {s \in DOMAIN transactionLog' :
        /\ transactionLog'[s].user = transactionLog'[t].user
        /\ transactionLog'[s].pool_id = transactionLog'[t].pool_id})

Whitelisted(r) ==
    LET k == <<r.pool_id, "UserWhitelist">> IN
    k \in DOMAIN poolAuthorizations /\ r.user \in poolAuthorizations[k]

\* DEMO_SCRIPT.md: "Pool owners can whitelist specific transaction types and set
\* daily limits per user."  A pool that requires authorization sponsors only
\* users on its whitelist, and no user beyond the pool's daily_spending_limit
\* (sponsor_transaction).
PolicyEnforced ==
    [][\A t \in NewRecords :
          LET r == transactionLog'[t]
              config == pools[r.pool_id].config
          IN  /\ config.authorization_required => Whitelisted(r)
              /\ SpentToday(t) <= config.daily_spending_limit]_vars

GenuineReceipt(m) ==
    [transaction_id |-> m.transaction_id, target_chain |-> m.target,
     execution_result |-> "Success", block_hash |-> "hash"]

\* The receipt of any transaction that was dispatched is valid
\* (validate_receipt; the tests' first transaction has id 0).
GenuineReceiptAccepted ==
    \A m \in dispatched : receipt_result(GenuineReceipt(m)) # "InvalidReceipt"

\* process_receipt: "Update transaction status".  Once a receipt was handled,
\* the record of its transaction has the final status the receipt calls for,
\* and a successful one counts among the user's savings (SavingsRecords).
ReceiptSettlesTransaction ==
    \A i \in DOMAIN receipts :
        LET r == receipts[i] IN
        IF r.execution_result = "Success"
        THEN r.transaction_id \in SavingsRecords(transactionLog, transactionLog[r.transaction_id].user)
        ELSE transactionLog[r.transaction_id].status = "Failed"

-----------------------------------------------------------------------------
(* Values for the constants.                                               *)

StrictConfig ==
    [max_transaction_value |-> 1000, daily_spending_limit |-> 1000,
     allowed_chains |-> {2006}, authorization_required |-> TRUE]
StrictConfigs == {StrictConfig}
Whitelists == {{a1}}
Endowment == (a1 :> 10000) @@ (a2 :> 10000)
=============================================================================
