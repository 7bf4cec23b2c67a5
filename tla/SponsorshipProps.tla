-------------------------- MODULE SponsorshipProps --------------------------
(***************************************************************************)
(* What the sponsorship pallet guarantees, as long as its two id counters  *)
(* have not run out of values.                                             *)
(***************************************************************************)
EXTENDS Sponsorship

\* Fewer pools and transactions than a u32 and a u64 can number.
ASSUME IdsDoNotRunOut == MaxPools <= MaxPoolId /\ MaxTransactions <= MaxTransactionId

PoolInfos ==
    [owner : Accounts, balance : Balances, total_spent : Balances,
     created_at : Nat, config : Configs, status : PoolStatuses]

TransactionRecords ==
    [pool_id : Nat, user : Accounts, target_chain : Chains,
     call_hash : {Hash(n) : n \in CallLens}, gas_cost : Balances,
     status : TransactionStatuses, timestamp : Nat]

\* Every storage item holds a value of its declared type; balances stay within
\* their width, although the code computes them with saturating arithmetic.
TypeOK ==
    /\ nextPoolId \in Nat /\ nextTransactionId \in Nat /\ block \in Nat
    /\ \A p \in DOMAIN pools : pools[p] \in PoolInfos
    /\ \A t \in DOMAIN transactionLog : transactionLog[t] \in TransactionRecords
    /\ poolOwners \subseteq Accounts \X Nat
    /\ \A k \in DOMAIN poolAuthorizations : poolAuthorizations[k] \in RuleData
    /\ free \in [Accounts -> Balances]
    /\ reserved \in [Accounts -> Balances]

\* Ids are handed out in order and never reused: the pools and the records are
\* exactly those numbered below the counters (create_pool, sponsor_transaction).
IdsAreFresh ==
    /\ DOMAIN pools = 0 .. nextPoolId - 1 /\ nextPoolId <= MaxPools
    /\ DOMAIN transactionLog = 0 .. nextTransactionId - 1
    /\ nextTransactionId <= MaxTransactions

\* The owner index answers for every account exactly the pools that name it as
\* owner (create_pool against get_pools_by_owner_account).
OwnerIndexExact ==
    /\ \A a \in Accounts :
         get_pools_by_owner_account(pools, poolOwners, a) = {p \in DOMAIN pools : pools[p].owner = a}
    /\ \A e \in poolOwners : e[2] \in DOMAIN pools

\* What a pool holds and has spent fits in what its owner has reserved: the
\* reason why no saturating operation on a pool ever saturates.
PoolWithinReserve ==
    \A p \in DOMAIN pools :
        pools[p].balance + pools[p].total_spent <= reserved[pools[p].owner]

\* A transaction is in the audit log if and only if its message was handed to
\* the transport, and the two agree on pool, chain, call and fee, although the
\* record is written before the gateway is called and the fee computed twice.
LoggedIffDispatched ==
    /\ \A m \in dispatched :
         /\ m.transaction_id \in DOMAIN transactionLog
         /\ LET r == transactionLog[m.transaction_id] IN
            /\ r.pool_id = m.sponsor /\ r.target_chain = m.target
            /\ r.gas_cost = m.max_fee /\ r.call_hash = Hash(m.call)
    /\ \A t \in DOMAIN transactionLog : \E m \in dispatched : m.transaction_id = t

\* The audit log is in order: later ids carry later timestamps, no timestamp
\* lies in the future, and none lies before the creation of the pool charged
\* (the block numbers stored by create_pool and sponsor_transaction).
AuditOrder ==
    /\ \A p \in DOMAIN pools : pools[p].created_at <= block
    /\ \A t \in DOMAIN transactionLog :
         /\ transactionLog[t].timestamp <= block
         /\ transactionLog[t].pool_id \in DOMAIN pools
         /\ pools[transactionLog[t].pool_id].created_at <= transactionLog[t].timestamp
    /\ \A s, t \in DOMAIN transactionLog :
         s < t => transactionLog[s].timestamp <= transactionLog[t].timestamp

\* The inductive invariant behind the theorems.
Inv == /\ TypeOK
       /\ IdsAreFresh
       /\ OwnerIndexExact
       /\ PoolWithinReserve
       /\ LoggedIffDispatched
       /\ AuditOrder

\* A step that leaves a pool's configuration and rules alone and adds nothing
\* to its funds.
PoolKept(p) ==
    /\ pools'[p].config = pools[p].config
    /\ pools'[p].balance <= pools[p].balance
    /\ \A t \in AuthorizationTypes :
         LET k == <<p, t>> IN
         /\ (k \in DOMAIN poolAuthorizations') <=> (k \in DOMAIN poolAuthorizations)
         /\ k \in DOMAIN poolAuthorizations
              => poolAuthorizations'[k] = poolAuthorizations[k]

OwnerStep(p) ==
    /\ pools'[p].owner = pools[p].owner
    /\ PoolKept(p) \/ (last'.who = pools[p].owner /\ last'.ret = "Ok")

\* Only the owner of a pool changes its configuration, its rules or adds to
\* its funds, and nobody changes the owner (owner checks of the extrinsics).
OnlyOwnerConfigures == [][\A p \in DOMAIN pools : OwnerStep(p)]_vars

\* What an indexer keeps of the pools, and how it follows an event.
View == [p \in DOMAIN pools |->
            [owner |-> pools[p].owner, balance |-> pools[p].balance,
             spent |-> pools[p].total_spent]]

Followed(view, e) ==
    CASE e.name = "PoolCreated" ->
            Put(view, e.pool_id, [owner |-> e.owner, balance |-> e.initial_deposit, spent |-> 0])
      [] e.name = "PoolFunded" ->
            [view EXCEPT ![e.pool_id].balance = @ + e.amount]
      [] e.name = "TransactionSponsored" ->
            [view EXCEPT ![e.pool_id].balance = @ - e.gas_cost,
                         ![e.pool_id].spent = @ + e.gas_cost]
      [] OTHER -> view

IndexerStep ==
    \/ View' = Followed(View, last'.event)
    \/ View' = View /\ last' = last

\* An indexer that starts from nothing and follows the pallet's events alone
\* knows every pool's owner, balance and spending exactly: no step moves money
\* without the event that says so, and no event is left from a call that was
\* rolled back (deposit_event in create_pool, fund_pool, sponsor_transaction).
IndexerInSync == [][IndexerStep]_vars

\* The pallet implements the abstract ledger: a pool is an escrow whose
\* deposits are what it holds plus what it spent, the audit log is the list of
\* payments, and an owner's reserved balance is what the owner set aside.
Ledger == INSTANCE EscrowLedger WITH
    Owners <- Accounts,
    Escrows <- 0 .. MaxPools - 1,
    PaymentIds <- 0 .. MaxTransactions - 1,
    Deposits <- Amounts,
    Prices <- {estimate_fee(c, n) : c \in DOMAIN get_base_fee, n \in CallLens},
    escrows <- [p \in DOMAIN pools |->
                  [owner |-> pools[p].owner,
                   deposited |-> pools[p].balance + pools[p].total_spent,
                   spent |-> pools[p].total_spent]],
    payments <- [t \in DOMAIN transactionLog |->
                  [escrow |-> transactionLog[t].pool_id,
                   amount |-> transactionLog[t].gas_cost]],
    held <- reserved

ImplementsLedger == Ledger!Spec
=============================================================================
