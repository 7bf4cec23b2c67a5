-------------------------- MODULE SponsorshipSums --------------------------
(***************************************************************************)
(* The properties of the pallet that count or add up over a map: the two   *)
(* book-keeping identities, and the storage that an extrinsic pays for.    *)
(***************************************************************************)
EXTENDS SponsorshipProps, Weights, Functions

\* What each pool was given, the pools of an account, what each record cost.
Funds == [p \in DOMAIN pools |-> pools[p].balance + pools[p].total_spent]
PoolsOf(a) == {p \in DOMAIN pools : pools[p].owner = a}
GasCost == [t \in DOMAIN transactionLog |-> transactionLog[t].gas_cost]

\* An account has reserved exactly what its pools hold and have spent: deposits,
\* top-ups and sponsored transactions neither lose nor create a unit
\* (Currency::reserve against PoolInfo.balance and total_spent).
ReservesBackPools ==
    \A a \in Accounts : reserved[a] = SumFunctionOnSet(Funds, PoolsOf(a))

\* A pool's total_spent is the sum of the costs of the transactions logged for
\* it, and its complete history is what the RPC answers when the limit allows.
AuditTrail ==
    \A p \in DOMAIN pools :
        /\ \E answer \in get_pool_transaction_history(transactionLog, p, MaxTransactions) :
              pools[p].total_spent = SumFunctionOnSet(GasCost, answer)
        /\ \A limit \in 1 .. MaxTransactions : \A answer \in get_pool_transaction_history(transactionLog, p, limit) :
              /\ Cardinality(answer) <= limit
              /\ SumFunctionOnSet(GasCost, answer) <= pools[p].total_spent

\* The keys of a storage map that a step writes or removes.
Touched(before, after) ==
    {k \in DOMAIN before \cup DOMAIN after :
        ~ (k \in DOMAIN before /\ k \in DOMAIN after /\ before[k] = after[k])}

ItemsWritten ==
    Cardinality(Touched(pools, pools'))
      + Cardinality(Touched(transactionLog, transactionLog'))
      + Cardinality(Touched(poolAuthorizations, poolAuthorizations'))
      + Cardinality((poolOwners \ poolOwners') \cup (poolOwners' \ poolOwners))
      + Cardinality({i \in {1} : nextPoolId' # nextPoolId})
      + Cardinality({i \in {1} : nextTransactionId' # nextTransactionId})

\* An extrinsic changes no more items of the pallet's storage than its weight
\* pays for, whatever branch it takes (WeightInfo against the extrinsics).
WritesArePaid ==
    [][ItemsWritten = 0 \/ ItemsWritten <= weight[last'.call].writes]_vars
=============================================================================
