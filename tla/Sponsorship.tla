---------------------------- MODULE Sponsorship ----------------------------
(***************************************************************************)
(* The sponsorship pallet (pallets/sponsorship/src/lib.rs): gas pools      *)
(* funded by reserved balances, the transactions they sponsor and the      *)
(* receipts that come back.  One action per extrinsic, taken whole: FRAME  *)
(* runs extrinsics one after the other.  An extrinsic that returns an      *)
(* error is a step too; it records the error in `last`.                    *)
(***************************************************************************)
EXTENDS XcmGateway, Sequences, FiniteSets

CONSTANTS
    Accounts,              \* signed origins
    Configs,               \* pool configurations a caller may pass
    Amounts,               \* deposits, top-ups and transfers a caller may ask for
    Chains,                \* target_chain arguments
    CallLens,              \* lengths of call_data arguments
    RuleData,              \* contents of authorization rules
    InitialFree,           \* endowment of the accounts at genesis
    MinPoolDeposit,        \* T::MinPoolDeposit
    ExistentialDeposit,    \* smallest free balance an account may keep
    MaxPoolId,             \* largest PoolId (u32)
    MaxTransactionId,      \* largest transaction id (u64)
    MaxPools,              \* bound: no pool is created once NextPoolId reaches it
    MaxTransactions,       \* bound: same for NextTransactionId
    MaxReceipts,           \* bound: receipts handled
    MaxBlock               \* bound: block number

AuthorizationTypes == {"UserWhitelist", "TransactionType", "SpendingLimit"}
PoolStatuses == {"Active", "Paused", "Closed"}
TransactionStatuses ==
    {"Pending", "Dispatched", "Executed", "Failed", "Refunded"}

ASSUME ConfigAssumption ==
    /\ \A c \in Configs : /\ c.allowed_chains \subseteq Nat
                          /\ c.authorization_required \in BOOLEAN
                          /\ c.daily_spending_limit \in Nat
                          /\ c.max_transaction_value \in Nat
    /\ Amounts \subseteq Nat
    /\ Chains \subseteq Nat
    /\ CallLens \subseteq Nat
ASSUME BalanceAssumption ==
    /\ InitialFree \in [Accounts -> Balances]
    /\ MinPoolDeposit \in Nat
    /\ ExistentialDeposit \in Nat
ASSUME BoundAssumption ==
    /\ MaxPoolId \in Nat /\ MaxTransactionId \in Nat
    /\ MaxPools \in Nat /\ MaxTransactions \in Nat
    /\ MaxReceipts \in Nat /\ MaxBlock \in Nat

VARIABLES
    pools,                 \* Pools: PoolId -> PoolInfo
    nextPoolId,            \* NextPoolId
    poolOwners,            \* PoolOwners: set of <<owner, pool id>>
    poolAuthorizations,    \* PoolAuthorizations: <<pool id, type>> -> rule data
    transactionLog,        \* TransactionLog: id -> TransactionRecord
    nextTransactionId,     \* NextTransactionId
    free, reserved,        \* pallet-balances: AccountData
    block,                 \* frame_system block number
    dispatched,            \* messages handed to the (simulated) XCM transport
    receipts,              \* receipts handled, in order, with the retry decision
    last                   \* the last extrinsic: origin, result and event

poolVars == <<pools, nextPoolId, poolOwners>>
logVars == <<transactionLog, nextTransactionId, dispatched>>
ledger == <<free, reserved>>
vars == <<pools, nextPoolId, poolOwners, poolAuthorizations, transactionLog,
          nextTransactionId, free, reserved, block, dispatched, receipts, last>>

-----------------------------------------------------------------------------
(* Storage maps and the runtime around the pallet.                         *)

EmptyMap == [x \in {} |-> x]
Put(f, k, v) == [x \in DOMAIN f \cup {k} |-> IF x = k THEN v ELSE f[x]]
Drop(f, k) == [x \in DOMAIN f \ {k} |-> f[x]]

\* Mutant: the counter is not advanced.
NextId_stuck(id, max) == id

\* u32 and u64 counters: saturating_add(1).
NextId(id, max) == IF id < max THEN id + 1 ELSE max

\* T::Hashing::hash, collision-free on the call data told apart here.
Hash(call) == <<"hash", call>>

\* FRAME runs an extrinsic in a storage layer: what it wrote is kept only if
\* it returns Ok.
StorageLayer(ok, before, written) == IF ok THEN written ELSE before

\* Currency::reserve: checked arithmetic, and the account must stay alive.
CanReserve(who, value) ==
    \/ value = 0
    \/ /\ free[who] >= value + ExistentialDeposit
       /\ reserved[who] + value <= MaxBalance
reserve(who, value) ==
    /\ free' = [free EXCEPT ![who] = @ - value]
    /\ reserved' = [reserved EXCEPT ![who] = @ + value]

\* The events a pallet call deposits; the storage layer drops them on an error.
NoEvent == [name |-> "none"]
PoolCreated(pool_id, owner, initial_deposit) ==
    [name |-> "PoolCreated", pool_id |-> pool_id, owner |-> owner,
     initial_deposit |-> initial_deposit]
PoolFunded(pool_id, amount, new_balance) ==
    [name |-> "PoolFunded", pool_id |-> pool_id, amount |-> amount, new_balance |-> new_balance]
PoolConfigUpdated(pool_id, owner) ==
    [name |-> "PoolConfigUpdated", pool_id |-> pool_id, owner |-> owner]
TransactionSponsored(transaction_id, pool_id, user, target_chain, gas_cost) ==
    [name |-> "TransactionSponsored", transaction_id |-> transaction_id, pool_id |-> pool_id,
     user |-> user, target_chain |-> target_chain, gas_cost |-> gas_cost]
AuthorizationRuleEvent(name, pool_id, rule_type) ==
    [name |-> name, pool_id |-> pool_id, rule_type |-> rule_type]

Returned(call, who, ret, event) ==
    last' = [call |-> call, who |-> who, ret |-> ret, event |-> event]

Rejected(call, who, err) ==
    /\ Returned(call, who, err, NoEvent)
    /\ UNCHANGED <<poolVars, poolAuthorizations, logVars, ledger, block, receipts>>

-----------------------------------------------------------------------------
(* Queries, answered from the storage of some block by the RPC.            *)

\* Records of a pool; the code stops after the one that makes count >= limit,
\* and iterates the map in hash order, so any subset of that size can be the answer.
get_pool_transaction_history(log, pool_id, limit) ==
    LET all == {t \in DOMAIN log : log[t].pool_id = pool_id}
        stop == IF limit = 0 THEN 1 ELSE limit
        size == IF Cardinality(all) < stop THEN Cardinality(all) ELSE stop
    IN  {answer \in SUBSET all : Cardinality(answer) = size}

get_pools_by_owner_account(stored, owners, owner) ==
    {p \in DOMAIN stored : <<owner, p>> \in owners}

\* The records whose gas_cost get_user_total_gas_savings adds up.
SavingsRecords(log, user) ==
    {t \in DOMAIN log : log[t].user = user /\ log[t].status = "Executed"}

-----------------------------------------------------------------------------
(* Extrinsics.                                                             *)

\* Mutant: the ownership check is missing.
owner_error_unchecked(who, pool_id) ==
    IF pool_id \notin DOMAIN pools THEN "PoolNotFound" ELSE "Ok"

\* The two checks every owner-only extrinsic starts with.
owner_error(who, pool_id) ==
    IF pool_id \notin DOMAIN pools THEN "PoolNotFound"
    ELSE IF pools[pool_id].owner # who THEN "NotPoolOwner"
    ELSE "Ok"

\* Mutant: the deposit is taken without asking whether the account has it.
create_pool_error_unfunded(who, initial_deposit) ==
    IF initial_deposit < MinPoolDeposit THEN "DepositTooSmall" ELSE "Ok"

create_pool_error(who, initial_deposit) ==
    IF initial_deposit < MinPoolDeposit THEN "DepositTooSmall"
    ELSE IF ~CanReserve(who, initial_deposit) THEN "InsufficientBalance"
    ELSE "Ok"

create_pool(who, initial_deposit, config) ==
    /\ nextPoolId < MaxPools
    /\ LET ret == create_pool_error(who, initial_deposit) IN
       \/ ret # "Ok" /\ Rejected("create_pool", who, ret)
       \/ /\ ret = "Ok"
          /\ reserve(who, initial_deposit)
          /\ pools' = Put(pools, nextPoolId,
                          [owner |-> who, balance |-> initial_deposit, total_spent |-> 0,
                           created_at |-> block, config |-> config, status |-> "Active"])
          /\ poolOwners' = poolOwners \cup {<<who, nextPoolId>>}
          /\ nextPoolId' = NextId(nextPoolId, MaxPoolId)
          /\ Returned("create_pool", who, ret, PoolCreated(nextPoolId, who, initial_deposit))
          /\ UNCHANGED <<poolAuthorizations, logVars, block, receipts>>

fund_pool_error(who, pool_id, amount) ==
    IF owner_error(who, pool_id) # "Ok" THEN owner_error(who, pool_id)
    ELSE IF pools[pool_id].status # "Active" THEN "PoolPaused"
    ELSE IF ~CanReserve(who, amount) THEN "InsufficientBalance"
    ELSE "Ok"

fund_pool(who, pool_id, amount) ==
    LET ret == fund_pool_error(who, pool_id, amount) IN
    \/ ret # "Ok" /\ Rejected("fund_pool", who, ret)
    \/ /\ ret = "Ok"
       /\ reserve(who, amount)
       /\ pools' = [pools EXCEPT ![pool_id].balance = saturating_add(@, amount)]
       /\ Returned("fund_pool", who, ret,
                   PoolFunded(pool_id, amount, pools'[pool_id].balance))
       /\ UNCHANGED <<nextPoolId, poolOwners, poolAuthorizations, logVars, block, receipts>>

update_pool_config(who, pool_id, new_config) ==
    LET ret == owner_error(who, pool_id) IN
    \/ ret # "Ok" /\ Rejected("update_pool_config", who, ret)
    \/ /\ ret = "Ok"
       /\ pools' = [pools EXCEPT ![pool_id].config = new_config]
       /\ Returned("update_pool_config", who, ret, PoolConfigUpdated(pool_id, who))
       /\ UNCHANGED <<nextPoolId, poolOwners, poolAuthorizations, logVars, ledger, block, receipts>>

add_authorization_rule(who, pool_id, rule_type, data) ==
    LET ret == owner_error(who, pool_id) IN
    \/ ret # "Ok" /\ Rejected("add_authorization_rule", who, ret)
    \/ /\ ret = "Ok"
       /\ poolAuthorizations' = Put(poolAuthorizations, <<pool_id, rule_type>>, data)
       /\ Returned("add_authorization_rule", who, ret,
                   AuthorizationRuleEvent("AuthorizationRuleAdded", pool_id, rule_type))
       /\ UNCHANGED <<poolVars, logVars, ledger, block, receipts>>

\* Removing a rule that is not there succeeds.
remove_authorization_rule(who, pool_id, rule_type) ==
    LET ret == owner_error(who, pool_id) IN
    \/ ret # "Ok" /\ Rejected("remove_authorization_rule", who, ret)
    \/ /\ ret = "Ok"
       /\ poolAuthorizations' = Drop(poolAuthorizations, <<pool_id, rule_type>>)
       /\ Returned("remove_authorization_rule", who, ret,
                   AuthorizationRuleEvent("AuthorizationRuleRemoved", pool_id, rule_type))
       /\ UNCHANGED <<poolVars, logVars, ledger, block, receipts>>

\* Mutant: the pool's balance is not compared with the cost.
sponsor_error_overdraft(pool_id, target_chain, len) ==
    IF pool_id \notin DOMAIN pools THEN "PoolNotFound"
    ELSE IF pools[pool_id].status # "Active" THEN "PoolPaused"
    ELSE IF target_chain \notin pools[pool_id].config.allowed_chains THEN "ChainNotSupported"
    ELSE IF ~FeeKnown(target_chain) THEN "ChainNotSupported"
    ELSE "Ok"

\* The checks that precede the first write.  Authorization rules and spending
\* limits are not among them ("TODO" in the code).
sponsor_error(pool_id, target_chain, len) ==
    IF pool_id \notin DOMAIN pools THEN "PoolNotFound"
    ELSE IF pools[pool_id].status # "Active" THEN "PoolPaused"
    ELSE IF target_chain \notin pools[pool_id].config.allowed_chains THEN "ChainNotSupported"
    ELSE IF ~FeeKnown(target_chain) THEN "ChainNotSupported"
    ELSE IF pools[pool_id].balance < estimate_fee(target_chain, len) THEN "InsufficientFunds"
    ELSE "Ok"

\* Mutant: the cost is taken from the balance but not entered as spent.
charged_silently(pool_info, cost) ==
    [pool_info EXCEPT !.balance = saturating_sub(@, cost)]

\* The pool after paying for a transaction.
charged(pool_info, cost) ==
    [pool_info EXCEPT !.balance = saturating_sub(@, cost),
                      !.total_spent = saturating_add(@, cost)]

\* Mutant: an error of the gateway is dropped.
send_error_dropped(ret) == "Ok"

\* map_err on the gateway's result: every error becomes ChainNotSupported.
send_error(ret) == IF ret = "Ok" THEN "Ok" ELSE "ChainNotSupported"

\* The record, the counter and the charged pool are written before the gateway
\* is called; an error of the gateway undoes them with the storage layer.
sponsor_transaction(who, pool_id, target_chain, len) ==
    /\ nextTransactionId < MaxTransactions
    /\ LET err == sponsor_error(pool_id, target_chain, len) IN
       \/ err # "Ok" /\ Rejected("sponsor_transaction", who, err)
       \/ /\ err = "Ok"
          /\ LET cost == estimate_fee(target_chain, len)
                 id == nextTransactionId
                 record == [pool_id |-> pool_id, user |-> who, target_chain |-> target_chain,
                            call_hash |-> Hash(len), gas_cost |-> cost,
                            status |-> "Pending", timestamp |-> block]
                 message == Message(target_chain, len, cost, pool_id, id)
                 sent == send_cross_chain_transaction(pool_id, target_chain, len, id)
                 ok == send_error(sent) = "Ok"
             IN /\ transactionLog' = StorageLayer(ok, transactionLog,
                                                  Put(transactionLog, id, record))
                /\ nextTransactionId' = StorageLayer(ok, nextTransactionId,
                                                     NextId(id, MaxTransactionId))
                /\ pools' = StorageLayer(ok, pools,
                                         Put(pools, pool_id, charged(pools[pool_id], cost)))
                /\ dispatched' = IF sent = "Ok" THEN dispatched \cup {message} ELSE dispatched
                /\ Returned("sponsor_transaction", who, send_error(sent),
                            StorageLayer(ok, NoEvent,
                                TransactionSponsored(id, pool_id, who, target_chain, cost)))
          /\ UNCHANGED <<nextPoolId, poolOwners, poolAuthorizations, ledger, block, receipts>>

\* Mutant: a receipt of a failed transaction puts its cost back into the pool.
process_receipt_refunding(who, receipt) ==
    /\ Len(receipts) < MaxReceipts
    /\ receipt_result(receipt) = "Processed"
    /\ receipt.transaction_id \in DOMAIN transactionLog
    /\ pools' = [pools EXCEPT ![transactionLog[receipt.transaction_id].pool_id].balance =
                    saturating_add(@, transactionLog[receipt.transaction_id].gas_cost)]
    /\ receipts' = Append(receipts, receipt)
    /\ Returned("process_receipt", who, "Ok", NoEvent)
    /\ UNCHANGED <<nextPoolId, poolOwners, poolAuthorizations, logVars, ledger, block>>

\* Any signed origin may hand in a receipt; nothing but the node's log changes.
process_receipt(who, receipt) ==
    /\ Len(receipts) < MaxReceipts
    /\ LET result == receipt_result(receipt) IN
       \/ result = "InvalidReceipt" /\ Rejected("process_receipt", who, "InvalidConfiguration")
       \/ /\ result # "InvalidReceipt"
          /\ receipts' = IF result = "Processed"
                         THEN Append(receipts, [transaction_id |-> receipt.transaction_id,
                                                execution_result |-> receipt.execution_result,
                                                retry |-> retry_scheduled(receipt)])
                         ELSE receipts
          /\ Returned("process_receipt", who, "Ok", NoEvent)
          /\ UNCHANGED <<poolVars, poolAuthorizations, logVars, ledger, block>>

-----------------------------------------------------------------------------
(* The runtime around the pallet.                                          *)

\* A new block.
NextBlock ==
    /\ block < MaxBlock
    /\ block' = block + 1
    /\ UNCHANGED <<poolVars, poolAuthorizations, logVars, ledger, receipts, last>>

\* Balances::transfer_keep_alive between two accounts, outside this pallet.
transfer(from, to, value) ==
    /\ from # to
    /\ free[from] >= value + ExistentialDeposit
    /\ free[to] + value <= MaxBalance
    /\ free' = [free EXCEPT ![from] = @ - value, ![to] = @ + value]
    /\ UNCHANGED <<poolVars, poolAuthorizations, logVars, reserved, block, receipts, last>>

-----------------------------------------------------------------------------
\* Receipts a relayer may hand in: for a transaction that was dispatched, or
\* with a missing block hash.
Receipts ==
    [transaction_id : {m.transaction_id : m \in dispatched},
     target_chain : {m.target : m \in dispatched},
     execution_result : ExecutionResults,
     block_hash : {"zero", "hash"}]

Init ==
    /\ pools = EmptyMap
    /\ nextPoolId = 0
    /\ poolOwners = {}
    /\ poolAuthorizations = EmptyMap
    /\ transactionLog = EmptyMap
    /\ nextTransactionId = 0
    /\ free = InitialFree
    /\ reserved = [a \in Accounts |-> 0]
    /\ block = 1
    /\ dispatched = {}
    /\ receipts = <<>>
    /\ last = [call |-> "none", who |-> "none", ret |-> "Ok", event |-> NoEvent]

PoolIdArgs == 0 .. MaxPools - 1

Next ==
    \/ \E who \in Accounts, v \in Amounts, c \in Configs : create_pool(who, v, c)
    \/ \E who \in Accounts, p \in PoolIdArgs, v \in Amounts : fund_pool(who, p, v)
    \/ \E who \in Accounts, p \in PoolIdArgs, c \in Configs : update_pool_config(who, p, c)
    \/ \E who \in Accounts, p \in PoolIdArgs, t \in AuthorizationTypes, d \in RuleData :
          add_authorization_rule(who, p, t, d)
    \/ \E who \in Accounts, p \in PoolIdArgs, t \in AuthorizationTypes :
          remove_authorization_rule(who, p, t)
    \/ \E who \in Accounts, p \in PoolIdArgs, c \in Chains, n \in CallLens :
          sponsor_transaction(who, p, c, n)
    \/ \E who \in Accounts, r \in Receipts : process_receipt(who, r)
    \/ NextBlock
    \/ \E from, to \in Accounts, v \in Amounts : transfer(from, to, v)

Spec == Init /\ [][Next]_vars
=============================================================================
