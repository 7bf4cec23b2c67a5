------------------------- MODULE SponsorshipProofs -------------------------
(***************************************************************************)
(* Machine-checked proofs that the sponsorship pallet keeps its books for  *)
(* any accounts, amounts, configurations, chains and bounds, that only the *)
(* owner of a pool configures it, and that the events tell the whole story *)
(* of the pools.                                                           *)
(***************************************************************************)
EXTENDS SponsorshipProps, TLAPS

USE BalanceWidth

-----------------------------------------------------------------------------
(* Lemmas about the operators.                                             *)

\* Fees are balances: the estimator's saturating addition stays in the width.
LEMMA FeeType ==
    ASSUME NEW c, FeeKnown(c), NEW n \in Nat
    PROVE  estimate_fee(c, n) \in Balances
  <1>1. get_base_fee[c] \in Nat
    BY DEF FeeKnown, get_base_fee
  <1>2. calculate_call_fee(n) \in Nat
    BY DEF calculate_call_fee
  <1> QED
    BY <1>1, <1>2 DEF estimate_fee, saturating_add, Balances

\* A reservation that is allowed keeps both balances within their width and
\* touches one account only.
LEMMA ReserveLemma ==
    ASSUME TypeOK, NEW who \in Accounts, NEW v \in Nat,
           CanReserve(who, v), reserve(who, v)
    PROVE  /\ free' \in [Accounts -> Balances]
           /\ reserved' \in [Accounts -> Balances]
           /\ reserved'[who] = reserved[who] + v
           /\ \A a \in Accounts : reserved'[a] >= reserved[a]
  BY BalanceAssumption DEF TypeOK, CanReserve, reserve, Balances

-----------------------------------------------------------------------------
(* Steps that leave the storage the invariant is about alone.              *)

books == <<pools, nextPoolId, poolOwners, poolAuthorizations, transactionLog,
           nextTransactionId, free, reserved, block, dispatched>>

\* A step that leaves the books alone keeps the invariant.
LEMMA BooksUnchanged == Inv /\ UNCHANGED books => Inv'
  BY DEF Inv, books, TypeOK, IdsAreFresh, OwnerIndexExact, PoolWithinReserve,
         LoggedIffDispatched, AuditOrder, get_pools_by_owner_account

\* An extrinsic that returns an error changes nothing but `last`.
LEMMA RejectedUnchanged ==
    ASSUME NEW call, NEW who, NEW err, Rejected(call, who, err)
    PROVE  UNCHANGED books
  BY DEF Rejected, books, poolVars, logVars, ledger

-----------------------------------------------------------------------------
(* One lemma per extrinsic.                                                *)

\* create_pool: the new pool has a fresh id and is backed by what was reserved.
LEMMA CreatePoolInv ==
    ASSUME Inv, NEW who \in Accounts, NEW v \in Amounts, NEW c \in Configs,
           create_pool(who, v, c)
    PROVE  Inv'
  <1> DEFINE new == [owner |-> who, balance |-> v, total_spent |-> 0,
                     created_at |-> block, config |-> c, status |-> "Active"]
  <1>1. CASE UNCHANGED books
    BY <1>1, BooksUnchanged
  <1>2. CASE ~ UNCHANGED books
    <2>1. /\ CanReserve(who, v) /\ reserve(who, v)
          /\ pools' = Put(pools, nextPoolId, new)
          /\ poolOwners' = poolOwners \cup {<<who, nextPoolId>>}
          /\ nextPoolId < MaxPools
          /\ nextPoolId' = NextId(nextPoolId, MaxPoolId)
          /\ UNCHANGED <<poolAuthorizations, transactionLog, nextTransactionId, dispatched, block>>
      BY <1>2, RejectedUnchanged DEF create_pool, create_pool_error, logVars
    <2> HIDE DEF new
    <2>2. v \in Nat
      BY ConfigAssumption
    <2>3. /\ free' \in [Accounts -> Balances] /\ reserved' \in [Accounts -> Balances]
          /\ reserved'[who] = reserved[who] + v
          /\ \A a \in Accounts : reserved'[a] >= reserved[a]
      BY <2>1, <2>2, ReserveLemma DEF Inv
    <2>4. nextPoolId \in Nat /\ nextPoolId' = nextPoolId + 1 /\ nextPoolId' <= MaxPools
      BY <2>1, IdsDoNotRunOut, BoundAssumption DEF Inv, TypeOK, NextId
    <2>5. nextPoolId \notin DOMAIN pools
      BY <2>4 DEF Inv, IdsAreFresh
    <2>6. /\ DOMAIN pools' = DOMAIN pools \cup {nextPoolId}
          /\ pools'[nextPoolId] = new
          /\ \A p \in DOMAIN pools : pools'[p] = pools[p]
      BY <2>1, <2>5 DEF Put
    <2>7. v \in Balances
      BY <2>2, <2>3 DEF Balances, Inv, TypeOK
    <2>8. new \in PoolInfos /\ new.owner = who /\ new.balance = v /\ new.total_spent = 0
          /\ new.created_at = block
      BY <2>7 DEF new, PoolInfos, PoolStatuses, Balances, Inv, TypeOK
    <2>9. TypeOK'
      BY <2>1, <2>3, <2>4, <2>6, <2>8 DEF Inv, TypeOK
    <2>10. IdsAreFresh'
      BY <2>1, <2>4, <2>6 DEF Inv, IdsAreFresh
    <2>11. OwnerIndexExact'
      <3>1. \A e \in poolOwners' : e[2] \in DOMAIN pools'
        BY <2>1, <2>6 DEF Inv, OwnerIndexExact
      <3>2. \A a \in Accounts, p \in DOMAIN pools' :
              <<a, p>> \in poolOwners' <=> pools'[p].owner = a
        <4> SUFFICES ASSUME NEW a \in Accounts, NEW p \in DOMAIN pools'
                     PROVE  <<a, p>> \in poolOwners' <=> pools'[p].owner = a
          OBVIOUS
        <4>1. CASE p = nextPoolId
          <5>1. <<a, p>> \notin poolOwners
            BY <4>1, <2>5 DEF Inv, OwnerIndexExact
          <5> QED
            BY <4>1, <5>1, <2>1, <2>6, <2>8
        <4>2. CASE p # nextPoolId
          <5>1. p \in DOMAIN pools /\ pools'[p] = pools[p]
            BY <4>2, <2>6
          <5>2. <<a, p>> \in poolOwners <=> pools[p].owner = a
            BY <5>1 DEF Inv, OwnerIndexExact, get_pools_by_owner_account
          <5> QED
            BY <4>2, <5>1, <5>2, <2>1
        <4> QED
          BY <4>1, <4>2
      <3> QED
        BY <3>1, <3>2 DEF OwnerIndexExact, get_pools_by_owner_account
    <2>12. PoolWithinReserve'
      <3> SUFFICES ASSUME NEW p \in DOMAIN pools'
                   PROVE  pools'[p].balance + pools'[p].total_spent <= reserved'[pools'[p].owner]
        BY DEF PoolWithinReserve
      <3>1. CASE p = nextPoolId
        BY <3>1, <2>2, <2>3, <2>6, <2>8 DEF Inv, TypeOK, Balances
      <3>2. CASE p # nextPoolId
        <4>1. p \in DOMAIN pools /\ pools'[p] = pools[p] /\ pools[p] \in PoolInfos
          BY <3>2, <2>6 DEF Inv, TypeOK
        <4>2. pools[p].balance + pools[p].total_spent <= reserved[pools[p].owner]
          BY <4>1 DEF Inv, PoolWithinReserve
        <4> QED
          BY <4>1, <4>2, <2>3 DEF PoolInfos, Balances, Inv, TypeOK
      <3> QED
        BY <3>1, <3>2
    <2>13. LoggedIffDispatched'
      BY <2>1 DEF Inv, LoggedIffDispatched
    <2>14. AuditOrder'
      BY <2>1, <2>5, <2>6, <2>8 DEF Inv, AuditOrder, TypeOK
    <2> QED
      BY <2>9, <2>10, <2>11, <2>12, <2>13, <2>14 DEF Inv
  <1> QED
    BY <1>1, <1>2

\* fund_pool: the top-up does not saturate, because the owner reserved it.
LEMMA FundPoolInv ==
    ASSUME Inv, NEW who \in Accounts, NEW q \in Nat, NEW v \in Amounts,
           fund_pool(who, q, v)
    PROVE  Inv'
  <1>1. CASE UNCHANGED books
    BY <1>1, BooksUnchanged
  <1>2. CASE ~ UNCHANGED books
    <2>1. /\ q \in DOMAIN pools /\ pools[q].owner = who
          /\ CanReserve(who, v) /\ reserve(who, v)
          /\ pools' = [pools EXCEPT ![q].balance = saturating_add(@, v)]
          /\ UNCHANGED <<nextPoolId, poolOwners, poolAuthorizations, transactionLog,
                         nextTransactionId, dispatched, block>>
      BY <1>2, RejectedUnchanged DEF fund_pool, fund_pool_error, owner_error, logVars
    <2>2. v \in Nat
      BY ConfigAssumption
    <2>3. /\ free' \in [Accounts -> Balances] /\ reserved' \in [Accounts -> Balances]
          /\ reserved'[who] = reserved[who] + v
          /\ \A a \in Accounts : reserved'[a] >= reserved[a]
      BY <2>1, <2>2, ReserveLemma DEF Inv
    <2>4. /\ pools[q] \in PoolInfos
          /\ pools[q].balance + pools[q].total_spent <= reserved[who]
      BY <2>1 DEF Inv, TypeOK, PoolWithinReserve
    \* The reservation that just succeeded leaves room for the addition.
    <2>5. /\ saturating_add(pools[q].balance, v) = pools[q].balance + v
          /\ pools[q].balance + v \in Balances
      BY <2>2, <2>3, <2>4 DEF saturating_add, PoolInfos, Balances, Inv, TypeOK
    <2>6. /\ DOMAIN pools' = DOMAIN pools
          /\ \A p \in DOMAIN pools : p # q => pools'[p] = pools[p]
          /\ pools'[q] = [pools[q] EXCEPT !.balance = pools[q].balance + v]
      BY <2>1, <2>5
    <2>7. /\ pools'[q] \in PoolInfos
          /\ pools'[q].owner = pools[q].owner /\ pools'[q].created_at = pools[q].created_at
          /\ pools'[q].balance = pools[q].balance + v
          /\ pools'[q].total_spent = pools[q].total_spent
      BY <2>4, <2>5, <2>6 DEF PoolInfos
    <2>8. TypeOK'
      BY <2>1, <2>3, <2>6, <2>7 DEF Inv, TypeOK
    <2>9. IdsAreFresh'
      BY <2>1, <2>6 DEF Inv, IdsAreFresh
    <2>10. OwnerIndexExact'
      BY <2>1, <2>6, <2>7 DEF Inv, OwnerIndexExact, get_pools_by_owner_account
    <2>11. PoolWithinReserve'
      <3> SUFFICES ASSUME NEW p \in DOMAIN pools
                   PROVE  pools'[p].balance + pools'[p].total_spent <= reserved'[pools'[p].owner]
        BY <2>6 DEF PoolWithinReserve
      <3>1. CASE p = q
        BY <3>1, <2>1, <2>2, <2>3, <2>4, <2>7 DEF PoolInfos, Balances, Inv, TypeOK
      <3>2. CASE p # q
        <4>1. pools[p] \in PoolInfos /\ pools'[p] = pools[p]
          BY <3>2, <2>6 DEF Inv, TypeOK
        <4>2. pools[p].balance + pools[p].total_spent <= reserved[pools[p].owner]
          BY DEF Inv, PoolWithinReserve
        <4> QED
          BY <4>1, <4>2, <2>3 DEF PoolInfos, Balances, Inv, TypeOK
      <3> QED
        BY <3>1, <3>2
    <2>12. LoggedIffDispatched'
      BY <2>1 DEF Inv, LoggedIffDispatched
    <2>13. AuditOrder'
      BY <2>1, <2>6, <2>7 DEF Inv, AuditOrder
    <2> QED
      BY <2>8, <2>9, <2>10, <2>11, <2>12, <2>13 DEF Inv
  <1> QED
    BY <1>1, <1>2

\* update_pool_config touches nothing but the configuration.
LEMMA UpdateConfigInv ==
    ASSUME Inv, NEW who \in Accounts, NEW q \in Nat, NEW c \in Configs,
           update_pool_config(who, q, c)
    PROVE  Inv'
  <1>1. CASE UNCHANGED books
    BY <1>1, BooksUnchanged
  <1>2. CASE ~ UNCHANGED books
    <2>1. /\ q \in DOMAIN pools
          /\ pools' = [pools EXCEPT ![q].config = c]
          /\ UNCHANGED <<nextPoolId, poolOwners, poolAuthorizations, transactionLog,
                         nextTransactionId, dispatched, free, reserved, block>>
      BY <1>2, RejectedUnchanged DEF update_pool_config, owner_error, logVars, ledger
    <2>2. /\ DOMAIN pools' = DOMAIN pools
          /\ \A p \in DOMAIN pools :
               /\ pools'[p] \in PoolInfos
               /\ pools'[p].owner = pools[p].owner
               /\ pools'[p].created_at = pools[p].created_at
               /\ pools'[p].balance = pools[p].balance
               /\ pools'[p].total_spent = pools[p].total_spent
      BY <2>1 DEF Inv, TypeOK, PoolInfos
    <2>3. TypeOK' /\ IdsAreFresh'
      BY <2>1, <2>2 DEF Inv, TypeOK, IdsAreFresh
    <2>4. OwnerIndexExact'
      BY <2>1, <2>2 DEF Inv, OwnerIndexExact, get_pools_by_owner_account
    <2>5. PoolWithinReserve'
      BY <2>1, <2>2 DEF Inv, PoolWithinReserve
    <2>6. LoggedIffDispatched'
      BY <2>1 DEF Inv, LoggedIffDispatched
    <2>7. AuditOrder'
      BY <2>1, <2>2 DEF Inv, AuditOrder
    <2> QED
      BY <2>3, <2>4, <2>5, <2>6, <2>7 DEF Inv
  <1> QED
    BY <1>1, <1>2

\* Adding or removing a rule touches nothing but the rules.
LEMMA RulesInv ==
    ASSUME Inv, NEW who \in Accounts, NEW q \in Nat, NEW t \in AuthorizationTypes,
           \/ \E d \in RuleData : add_authorization_rule(who, q, t, d)
           \/ remove_authorization_rule(who, q, t)
    PROVE  Inv'
  <1>1. /\ UNCHANGED <<pools, nextPoolId, poolOwners, transactionLog, nextTransactionId,
                       dispatched, free, reserved, block>>
        /\ \A k \in DOMAIN poolAuthorizations' : poolAuthorizations'[k] \in RuleData
    <2>1. CASE \E d \in RuleData : add_authorization_rule(who, q, t, d)
      BY <2>1, RejectedUnchanged
      DEF add_authorization_rule, books, poolVars, logVars, ledger, Put, Inv, TypeOK
    <2>2. CASE remove_authorization_rule(who, q, t)
      BY <2>2, RejectedUnchanged
      DEF remove_authorization_rule, books, poolVars, logVars, ledger, Drop, Inv, TypeOK
    <2> QED
      BY <2>1, <2>2
  <1> QED
    BY <1>1 DEF Inv, TypeOK, IdsAreFresh, OwnerIndexExact, PoolWithinReserve,
       LoggedIffDispatched, AuditOrder, get_pools_by_owner_account

\* What sponsor_transaction does when it returns Ok: the record, the charge and
\* the message together, and the charge is within the balance.
SponsorEffect(who, q, chain, n) ==
    LET cost == estimate_fee(chain, n)
        id == nextTransactionId
    IN  /\ q \in DOMAIN pools /\ FeeKnown(chain) /\ cost <= pools[q].balance
        /\ id < MaxTransactions
        /\ transactionLog' = Put(transactionLog, id,
              [pool_id |-> q, user |-> who, target_chain |-> chain,
               call_hash |-> Hash(n), gas_cost |-> cost,
               status |-> "Pending", timestamp |-> block])
        /\ nextTransactionId' = NextId(id, MaxTransactionId)
        /\ pools' = Put(pools, q, charged(pools[q], cost))
        /\ dispatched' = dispatched \cup {Message(chain, n, cost, q, id)}
        /\ UNCHANGED <<nextPoolId, poolOwners, poolAuthorizations, free, reserved, block>>

\* sponsor_transaction takes full effect or none: what it wrote before a
\* failing gateway call is gone.
LEMMA SponsorAllOrNothing ==
    ASSUME Inv, NEW who \in Accounts, NEW q \in Nat, NEW chain \in Chains, NEW n \in CallLens,
           sponsor_transaction(who, q, chain, n)
    PROVE  SponsorEffect(who, q, chain, n) \/ UNCHANGED books
  <1>1. CASE sponsor_error(q, chain, n) # "Ok"
    BY <1>1, RejectedUnchanged DEF sponsor_transaction
  <1>2. CASE sponsor_error(q, chain, n) = "Ok"
    <2>1. q \in DOMAIN pools /\ FeeKnown(chain) /\ ~(pools[q].balance < estimate_fee(chain, n))
      BY <1>2 DEF sponsor_error
    <2>2. estimate_fee(chain, n) <= pools[q].balance
      BY <2>1, FeeType, ConfigAssumption DEF Inv, TypeOK, PoolInfos, Balances
    <2>3. CASE send_cross_chain_transaction(q, chain, n, nextTransactionId) = "Ok"
      BY <1>2, <2>1, <2>2, <2>3
      DEF sponsor_transaction, SponsorEffect, StorageLayer, send_error, ledger
    <2>4. CASE send_cross_chain_transaction(q, chain, n, nextTransactionId) # "Ok"
      BY <1>2, <2>4 DEF sponsor_transaction, StorageLayer, send_error, ledger, books
    <2> QED
      BY <2>3, <2>4
  <1> QED
    BY <1>1, <1>2

\* sponsor_transaction: the charge is covered, the record fresh and its message sent.
LEMMA SponsorInv ==
    ASSUME Inv, NEW who \in Accounts, NEW q \in Nat, NEW chain \in Chains, NEW n \in CallLens,
           sponsor_transaction(who, q, chain, n)
    PROVE  Inv'
  <1> DEFINE cost == estimate_fee(chain, n)
             id == nextTransactionId
             record == [pool_id |-> q, user |-> who, target_chain |-> chain,
                        call_hash |-> Hash(n), gas_cost |-> cost,
                        status |-> "Pending", timestamp |-> block]
             message == Message(chain, n, cost, q, id)
  <1>1. CASE UNCHANGED books
    BY <1>1, BooksUnchanged
  <1>2. CASE SponsorEffect(who, q, chain, n)
    <2>1. /\ q \in DOMAIN pools /\ FeeKnown(chain) /\ cost <= pools[q].balance
          /\ id < MaxTransactions
          /\ transactionLog' = Put(transactionLog, id, record)
          /\ nextTransactionId' = NextId(id, MaxTransactionId)
          /\ pools' = Put(pools, q, charged(pools[q], cost))
          /\ dispatched' = dispatched \cup {message}
          /\ UNCHANGED <<nextPoolId, poolOwners, poolAuthorizations, free, reserved, block>>
      BY <1>2 DEF SponsorEffect
    <2>2. cost \in Balances
      BY <2>1, FeeType, ConfigAssumption
    <2> HIDE DEF cost
    <2>3. /\ record \in TransactionRecords
          /\ record.pool_id = q /\ record.target_chain = chain /\ record.gas_cost = cost
          /\ record.call_hash = Hash(n) /\ record.timestamp = block
      BY <2>2 DEF TransactionRecords, TransactionStatuses, Inv, TypeOK
    <2>4. /\ message.transaction_id = id /\ message.sponsor = q /\ message.target = chain
          /\ message.max_fee = cost /\ message.call = n
      BY DEF Message
    <2> HIDE DEF record, message
    <2>5. id \in Nat /\ nextTransactionId' = id + 1 /\ nextTransactionId' <= MaxTransactions
      BY <2>1, IdsDoNotRunOut, BoundAssumption DEF Inv, TypeOK, NextId
    <2>6. /\ DOMAIN transactionLog' = DOMAIN transactionLog \cup {id}
          /\ id \notin DOMAIN transactionLog
          /\ transactionLog'[id] = record
          /\ \A t \in DOMAIN transactionLog : transactionLog'[t] = transactionLog[t]
      BY <2>1, <2>5 DEF Put, Inv, IdsAreFresh
    <2>7. /\ pools[q] \in PoolInfos
          /\ pools[q].balance + pools[q].total_spent <= reserved[pools[q].owner]
          /\ reserved[pools[q].owner] \in Balances
      BY <2>1 DEF Inv, TypeOK, PoolWithinReserve, PoolInfos
    \* The funds check and the reserve behind the pool keep both saturating
    \* operations exact.
    <2>8. /\ saturating_sub(pools[q].balance, cost) = pools[q].balance - cost
          /\ saturating_add(pools[q].total_spent, cost) = pools[q].total_spent + cost
          /\ pools[q].balance - cost \in Balances
          /\ pools[q].total_spent + cost \in Balances
      BY <2>1, <2>2, <2>7 DEF saturating_add, saturating_sub, PoolInfos, Balances
    <2>9. /\ DOMAIN pools' = DOMAIN pools
          /\ \A p \in DOMAIN pools : p # q => pools'[p] = pools[p]
          /\ pools'[q] = [pools[q] EXCEPT !.balance = pools[q].balance - cost,
                                          !.total_spent = pools[q].total_spent + cost]
      BY <2>1, <2>8 DEF Put, charged
    <2>10. /\ pools'[q] \in PoolInfos
           /\ pools'[q].owner = pools[q].owner /\ pools'[q].created_at = pools[q].created_at
           /\ pools'[q].balance = pools[q].balance - cost
           /\ pools'[q].total_spent = pools[q].total_spent + cost
      BY <2>7, <2>8, <2>9 DEF PoolInfos
    <2>11. TypeOK'
      BY <2>1, <2>3, <2>5, <2>6, <2>9, <2>10 DEF Inv, TypeOK
    <2>12. IdsAreFresh'
      BY <2>1, <2>5, <2>6, <2>9 DEF Inv, IdsAreFresh
    <2>13. OwnerIndexExact'
      <3>1. poolOwners' = poolOwners /\ DOMAIN pools' = DOMAIN pools
        BY <2>1, <2>9
      <3>2. \A p \in DOMAIN pools : pools'[p].owner = pools[p].owner
        BY <2>9, <2>10
      <3> QED
        BY <3>1, <3>2 DEF Inv, OwnerIndexExact, get_pools_by_owner_account
    <2>14. PoolWithinReserve'
      <3> SUFFICES ASSUME NEW p \in DOMAIN pools
                   PROVE  pools'[p].balance + pools'[p].total_spent <= reserved'[pools'[p].owner]
        BY <2>9 DEF PoolWithinReserve
      <3>1. CASE p = q
        BY <3>1, <2>1, <2>2, <2>7, <2>10 DEF PoolInfos, Balances
      <3>2. CASE p # q
        BY <3>2, <2>1, <2>9 DEF Inv, PoolWithinReserve
      <3> QED
        BY <3>1, <3>2
    <2>15. LoggedIffDispatched'
      <3>1. ASSUME NEW m \in dispatched'
            PROVE  /\ m.transaction_id \in DOMAIN transactionLog'
                   /\ LET r == transactionLog'[m.transaction_id] IN
                      /\ r.pool_id = m.sponsor /\ r.target_chain = m.target
                      /\ r.gas_cost = m.max_fee /\ r.call_hash = Hash(m.call)
        <4>1. CASE m = message
          BY <4>1, <2>3, <2>4, <2>6
        <4>2. CASE m \in dispatched
          BY <4>2, <2>6 DEF Inv, LoggedIffDispatched
        <4> QED
          BY <4>1, <4>2, <2>1
      <3>2. \A t \in DOMAIN transactionLog' : \E m \in dispatched' : m.transaction_id = t
        BY <2>1, <2>4, <2>6 DEF Inv, LoggedIffDispatched
      <3> QED
        BY <3>1, <3>2 DEF LoggedIffDispatched
    <2>16. AuditOrder'
      <3>1. \A t \in DOMAIN transactionLog' :
              /\ transactionLog'[t].timestamp <= block
              /\ transactionLog'[t].pool_id \in DOMAIN pools'
              /\ pools'[transactionLog'[t].pool_id].created_at <= transactionLog'[t].timestamp
        <4> SUFFICES ASSUME NEW t \in DOMAIN transactionLog'
                     PROVE  /\ transactionLog'[t].timestamp <= block
                            /\ transactionLog'[t].pool_id \in DOMAIN pools
                            /\ pools[transactionLog'[t].pool_id].created_at
                                 <= transactionLog'[t].timestamp
          BY <2>9, <2>10
        <4>1. CASE t = id
          BY <4>1, <2>1, <2>3, <2>6 DEF Inv, AuditOrder, TypeOK
        <4>2. CASE t # id
          BY <4>2, <2>6 DEF Inv, AuditOrder
        <4> QED
          BY <4>1, <4>2
      <3>2. \A s, t \in DOMAIN transactionLog' :
              s < t => transactionLog'[s].timestamp <= transactionLog'[t].timestamp
        <4>1. \A s \in DOMAIN transactionLog : s < id /\ s \in Nat
          BY <2>5 DEF Inv, IdsAreFresh
        <4> QED
          BY <4>1, <2>3, <2>5, <2>6 DEF Inv, AuditOrder, TypeOK
      <3>3. \A p \in DOMAIN pools' : pools'[p].created_at <= block
        BY <2>1, <2>9, <2>10 DEF Inv, AuditOrder
      <3> QED
        BY <3>1, <3>2, <3>3, <2>1 DEF AuditOrder
    <2> QED
      BY <2>11, <2>12, <2>13, <2>14, <2>15, <2>16 DEF Inv
  <1> QED
    BY <1>1, <1>2, SponsorAllOrNothing

\* process_receipt leaves the books alone.
LEMMA ReceiptInv ==
    ASSUME Inv, NEW who \in Accounts, NEW r, process_receipt(who, r)
    PROVE  Inv'
  <1>1. UNCHANGED books
    BY RejectedUnchanged DEF process_receipt, books, poolVars, logVars, ledger
  <1> QED
    BY <1>1, BooksUnchanged

\* A later block makes no timestamp later.
LEMMA NextBlockInv ==
    ASSUME Inv, NextBlock
    PROVE  Inv'
  <1>1. /\ block \in Nat /\ block' = block + 1
        /\ UNCHANGED <<pools, nextPoolId, poolOwners, poolAuthorizations, transactionLog,
                       nextTransactionId, dispatched, free, reserved>>
    BY DEF NextBlock, poolVars, logVars, ledger, Inv, TypeOK
  <1>2. TypeOK' /\ IdsAreFresh' /\ LoggedIffDispatched'
    BY <1>1 DEF Inv, TypeOK, IdsAreFresh, LoggedIffDispatched
  <1>3. OwnerIndexExact' /\ PoolWithinReserve'
    BY <1>1 DEF Inv, OwnerIndexExact, PoolWithinReserve, get_pools_by_owner_account
  <1>4. AuditOrder'
    BY <1>1 DEF Inv, AuditOrder, TypeOK, PoolInfos, TransactionRecords
  <1> QED
    BY <1>2, <1>3, <1>4 DEF Inv

\* A transfer moves free balance only, within the width.
LEMMA TransferInv ==
    ASSUME Inv, NEW from \in Accounts, NEW to \in Accounts, NEW v \in Amounts,
           transfer(from, to, v)
    PROVE  Inv'
  <1>1. UNCHANGED <<pools, nextPoolId, poolOwners, poolAuthorizations, transactionLog,
                    nextTransactionId, dispatched, reserved, block>>
    BY DEF transfer, poolVars, logVars
  <1>2. free' \in [Accounts -> Balances]
    BY ConfigAssumption, BalanceAssumption DEF transfer, Inv, TypeOK, Balances
  <1>3. TypeOK' /\ IdsAreFresh' /\ LoggedIffDispatched'
    BY <1>1, <1>2 DEF Inv, TypeOK, IdsAreFresh, LoggedIffDispatched
  <1>4. OwnerIndexExact' /\ PoolWithinReserve' /\ AuditOrder'
    BY <1>1 DEF Inv, OwnerIndexExact, PoolWithinReserve, AuditOrder, get_pools_by_owner_account
  <1> QED
    BY <1>3, <1>4 DEF Inv

-----------------------------------------------------------------------------
(* The theorems.                                                           *)

\* The invariant holds at genesis.
LEMMA InitInv == Init => Inv
  <1> SUFFICES ASSUME Init PROVE Inv
    OBVIOUS
  <1>1. DOMAIN pools = {} /\ DOMAIN transactionLog = {} /\ DOMAIN poolAuthorizations = {}
    BY DEF Init, EmptyMap
  <1>2. TypeOK /\ IdsAreFresh
    BY <1>1, BalanceAssumption, BoundAssumption DEF Init, TypeOK, IdsAreFresh, Balances
  <1>3. OwnerIndexExact /\ PoolWithinReserve /\ LoggedIffDispatched /\ AuditOrder
    BY <1>1 DEF Init, OwnerIndexExact, PoolWithinReserve, LoggedIffDispatched, AuditOrder,
                get_pools_by_owner_account
  <1> QED
    BY <1>2, <1>3 DEF Inv

\* Every step keeps the invariant.
LEMMA NextInv == Inv /\ [Next]_vars => Inv'
  <1> SUFFICES ASSUME Inv, [Next]_vars PROVE Inv'
    OBVIOUS
  <1>0. \A p \in PoolIdArgs : p \in Nat
    BY BoundAssumption DEF PoolIdArgs
  <1>1. ASSUME NEW who \in Accounts, NEW v \in Amounts, NEW c \in Configs,
               create_pool(who, v, c)
        PROVE  Inv'
    BY <1>1, CreatePoolInv
  <1>2. ASSUME NEW who \in Accounts, NEW p \in PoolIdArgs, NEW v \in Amounts,
               fund_pool(who, p, v)
        PROVE  Inv'
    BY <1>0, <1>2, FundPoolInv
  <1>3. ASSUME NEW who \in Accounts, NEW p \in PoolIdArgs, NEW c \in Configs,
               update_pool_config(who, p, c)
        PROVE  Inv'
    BY <1>0, <1>3, UpdateConfigInv
  <1>4. ASSUME NEW who \in Accounts, NEW p \in PoolIdArgs, NEW t \in AuthorizationTypes,
               NEW d \in RuleData, add_authorization_rule(who, p, t, d)
        PROVE  Inv'
    BY <1>0, <1>4, RulesInv
  <1>5. ASSUME NEW who \in Accounts, NEW p \in PoolIdArgs, NEW t \in AuthorizationTypes,
               remove_authorization_rule(who, p, t)
        PROVE  Inv'
    BY <1>0, <1>5, RulesInv
  <1>6. ASSUME NEW who \in Accounts, NEW p \in PoolIdArgs, NEW c \in Chains, NEW n \in CallLens,
               sponsor_transaction(who, p, c, n)
        PROVE  Inv'
    BY <1>0, <1>6, SponsorInv
  <1>7. ASSUME NEW who \in Accounts, NEW r \in Receipts, process_receipt(who, r)
        PROVE  Inv'
    BY <1>7, ReceiptInv
  <1>8. CASE NextBlock
    BY <1>8, NextBlockInv
  <1>9. ASSUME NEW from \in Accounts, NEW to \in Accounts, NEW v \in Amounts,
               transfer(from, to, v)
        PROVE  Inv'
    BY <1>9, TransferInv
  <1>10. CASE UNCHANGED vars
    BY <1>10, BooksUnchanged DEF vars, books
  <1> QED
    BY <1>1, <1>2, <1>3, <1>4, <1>5, <1>6, <1>7, <1>8, <1>9, <1>10 DEF Next

\* The inductive invariant holds in every reachable state, whatever the
\* accounts, amounts, configurations, fees charged and bounds.
THEOREM InvHolds == Spec => []Inv
  BY InitInv, NextInv, PTL DEF Spec

\* Balances stay within the width of Balance<T> and every storage item keeps
\* its type.
THEOREM TypeCorrect == Spec => []TypeOK
  <1>1. Inv => TypeOK
    BY DEF Inv
  <1> QED
    BY <1>1, InvHolds, PTL

\* The audit log and the messages handed to the transport agree one to one.
THEOREM LogMatchesMessages == Spec => []LoggedIffDispatched
  <1>1. Inv => LoggedIffDispatched
    BY DEF Inv
  <1> QED
    BY <1>1, InvHolds, PTL

\* A pool never holds or has spent more than its owner has reserved.
THEOREM PoolsAreBacked == Spec => []PoolWithinReserve
  <1>1. Inv => PoolWithinReserve
    BY DEF Inv
  <1> QED
    BY <1>1, InvHolds, PTL

\* The owner index answers exactly the pools an account owns (create_pool,
\* get_pools_by_owner_account).
THEOREM IndexIsExact == Spec => []OwnerIndexExact
  <1>1. Inv => OwnerIndexExact
    BY DEF Inv
  <1> QED
    BY <1>1, InvHolds, PTL

\* No pool and no transaction id is handed out twice, so no insert overwrites
\* (create_pool, sponsor_transaction).
THEOREM FreshIds == Spec => []IdsAreFresh
  <1>1. Inv => IdsAreFresh
    BY DEF Inv
  <1> QED
    BY <1>1, InvHolds, PTL

\* The order of the transaction ids is the order of their blocks
\* (sponsor_transaction).
THEOREM LogInOrder == Spec => []AuditOrder
  <1>1. Inv => AuditOrder
    BY DEF Inv
  <1> QED
    BY <1>1, InvHolds, PTL

-----------------------------------------------------------------------------
(* Only the owner of a pool configures it.                                 *)

\* A step that changes neither pools nor rules disturbs no pool.
LEMMA PoolsUnchangedKept ==
    ASSUME Inv, UNCHANGED <<pools, poolAuthorizations>>, NEW p \in DOMAIN pools
    PROVE  OwnerStep(p)
  <1>1. pools[p].balance \in Int
    BY DEF Inv, TypeOK, PoolInfos, Balances
  <1> QED
    BY <1>1 DEF OwnerStep, PoolKept

\* A rejected extrinsic disturbs no pool.
LEMMA RejectedKept ==
    ASSUME Inv, NEW call, NEW who, NEW err, Rejected(call, who, err), NEW p \in DOMAIN pools
    PROVE  OwnerStep(p)
  BY RejectedUnchanged, PoolsUnchangedKept DEF books

\* create_pool adds a pool under a fresh id and leaves the others alone.
LEMMA CreatePoolOwner ==
    ASSUME Inv, NEW who \in Accounts, NEW v \in Amounts, NEW c \in Configs,
           create_pool(who, v, c), NEW p \in DOMAIN pools
    PROVE  OwnerStep(p)
  <1>1. CASE create_pool_error(who, v) # "Ok"
    BY <1>1, RejectedKept DEF create_pool
  <1>2. CASE create_pool_error(who, v) = "Ok"
    <2>1. p # nextPoolId
      BY DEF Inv, TypeOK, IdsAreFresh
    <2>2. pools'[p] = pools[p] /\ UNCHANGED poolAuthorizations
      BY <1>2, <2>1 DEF create_pool, Put
    <2>3. pools[p].balance \in Int
      BY DEF Inv, TypeOK, PoolInfos, Balances
    <2> QED
      BY <2>2, <2>3 DEF OwnerStep, PoolKept
  <1> QED
    BY <1>1, <1>2

\* fund_pool changes one pool, and only for its owner.
LEMMA FundPoolOwner ==
    ASSUME Inv, NEW who \in Accounts, NEW q \in Nat, NEW v \in Amounts,
           fund_pool(who, q, v), NEW p \in DOMAIN pools
    PROVE  OwnerStep(p)
  <1>1. CASE fund_pool_error(who, q, v) # "Ok"
    BY <1>1, RejectedKept DEF fund_pool
  <1>2. CASE fund_pool_error(who, q, v) = "Ok"
    <2>1. q \in DOMAIN pools /\ pools[q].owner = who
      BY <1>2 DEF fund_pool_error, owner_error
    <2>2. last'.who = who /\ last'.ret = "Ok" /\ UNCHANGED poolAuthorizations
      BY <1>2 DEF fund_pool, Returned
    <2>3. /\ pools'[q].owner = pools[q].owner
          /\ p # q => pools'[p] = pools[p]
      BY <1>2, <2>1 DEF fund_pool, Inv, TypeOK, PoolInfos
    <2>4. pools[p].balance \in Int
      BY DEF Inv, TypeOK, PoolInfos, Balances
    <2>5. CASE p = q
      BY <2>1, <2>2, <2>3, <2>5 DEF OwnerStep
    <2>6. CASE p # q
      BY <2>2, <2>3, <2>4, <2>6 DEF OwnerStep, PoolKept
    <2> QED
      BY <2>5, <2>6
  <1> QED
    BY <1>1, <1>2

\* update_pool_config changes one pool, and only for its owner.
LEMMA UpdateConfigOwner ==
    ASSUME Inv, NEW who \in Accounts, NEW q \in Nat, NEW c \in Configs,
           update_pool_config(who, q, c), NEW p \in DOMAIN pools
    PROVE  OwnerStep(p)
  <1>1. CASE owner_error(who, q) # "Ok"
    BY <1>1, RejectedKept DEF update_pool_config
  <1>2. CASE owner_error(who, q) = "Ok"
    <2>1. q \in DOMAIN pools /\ pools[q].owner = who
      BY <1>2 DEF owner_error
    <2>2. last'.who = who /\ last'.ret = "Ok" /\ UNCHANGED poolAuthorizations
      BY <1>2 DEF update_pool_config, Returned
    <2>3. /\ pools'[q].owner = pools[q].owner
          /\ p # q => pools'[p] = pools[p]
      BY <1>2, <2>1 DEF update_pool_config, Inv, TypeOK, PoolInfos
    <2>4. pools[p].balance \in Int
      BY DEF Inv, TypeOK, PoolInfos, Balances
    <2>5. CASE p = q
      BY <2>1, <2>2, <2>3, <2>5 DEF OwnerStep
    <2>6. CASE p # q
      BY <2>2, <2>3, <2>4, <2>6 DEF OwnerStep, PoolKept
    <2> QED
      BY <2>5, <2>6
  <1> QED
    BY <1>1, <1>2

\* Adding and removing a rule changes the rules of one pool, and only for its
\* owner.
LEMMA RulesOwner ==
    ASSUME Inv, NEW who \in Accounts, NEW q \in Nat, NEW t \in AuthorizationTypes, NEW d,
           add_authorization_rule(who, q, t, d) \/ remove_authorization_rule(who, q, t),
           NEW p \in DOMAIN pools
    PROVE  OwnerStep(p)
  <1>1. CASE owner_error(who, q) # "Ok"
    BY <1>1, RejectedKept DEF add_authorization_rule, remove_authorization_rule
  <1>2. CASE owner_error(who, q) = "Ok"
    <2>1. q \in DOMAIN pools /\ pools[q].owner = who
      BY <1>2 DEF owner_error
    <2>2. /\ last'.who = who /\ last'.ret = "Ok" /\ UNCHANGED pools
          /\ \/ poolAuthorizations' = Put(poolAuthorizations, <<q, t>>, d)
             \/ poolAuthorizations' = Drop(poolAuthorizations, <<q, t>>)
      BY <1>2 DEF add_authorization_rule, remove_authorization_rule, Returned, poolVars
    <2>3. pools[p].balance \in Int
      BY DEF Inv, TypeOK, PoolInfos, Balances
    <2>4. CASE p = q
      BY <2>1, <2>2, <2>4 DEF OwnerStep
    <2>5. CASE p # q
      <3>1. ASSUME NEW u \in AuthorizationTypes
            PROVE  /\ (<<p, u>> \in DOMAIN poolAuthorizations')
                        <=> (<<p, u>> \in DOMAIN poolAuthorizations)
                   /\ <<p, u>> \in DOMAIN poolAuthorizations
                        => poolAuthorizations'[<<p, u>>] = poolAuthorizations[<<p, u>>]
        BY <2>2, <2>5 DEF Put, Drop
      <3> QED
        BY <2>2, <2>3, <3>1 DEF OwnerStep, PoolKept
    <2> QED
      BY <2>4, <2>5
  <1> QED
    BY <1>1, <1>2

\* A sponsored transaction takes from a pool whoever sends it, and leaves its
\* owner, configuration and rules alone.
LEMMA SponsorOwner ==
    ASSUME Inv, NEW who \in Accounts, NEW q \in Nat, NEW chain \in Chains, NEW n \in CallLens,
           sponsor_transaction(who, q, chain, n), NEW p \in DOMAIN pools
    PROVE  OwnerStep(p)
  <1>1. CASE UNCHANGED books
    BY <1>1, PoolsUnchangedKept DEF books
  <1>2. CASE SponsorEffect(who, q, chain, n)
    <2> DEFINE cost == estimate_fee(chain, n)
    <2>1. pools[p] \in PoolInfos /\ pools[p].balance \in Nat
      BY DEF Inv, TypeOK, PoolInfos, Balances
    <2>2. cost \in Nat
      BY <1>2, FeeType, ConfigAssumption DEF SponsorEffect, Balances
    <2>3. pools'[p] = IF p = q THEN charged(pools[p], cost) ELSE pools[p]
      BY <1>2 DEF SponsorEffect, Put
    <2> HIDE DEF cost
    <2>4. /\ pools'[p].owner = pools[p].owner /\ pools'[p].config = pools[p].config
          /\ pools'[p].balance <= pools[p].balance
      BY <2>1, <2>2, <2>3 DEF charged, saturating_sub, PoolInfos
    <2> QED
      BY <1>2, <2>4 DEF SponsorEffect, OwnerStep, PoolKept
  <1> QED
    BY <1>1, <1>2, SponsorAllOrNothing

\* Every step respects the owners.
LEMMA NextOwner == Inv /\ [Next]_vars => [\A p \in DOMAIN pools : OwnerStep(p)]_vars
  <1> SUFFICES ASSUME Inv, Next, NEW p \in DOMAIN pools PROVE OwnerStep(p)
    OBVIOUS
  <1>0. \A q \in PoolIdArgs : q \in Nat
    BY BoundAssumption DEF PoolIdArgs
  <1>1. ASSUME NEW who \in Accounts, NEW v \in Amounts, NEW c \in Configs, create_pool(who, v, c)
        PROVE  OwnerStep(p)
    BY <1>1, CreatePoolOwner
  <1>2. ASSUME NEW who \in Accounts, NEW q \in PoolIdArgs, NEW v \in Amounts, fund_pool(who, q, v)
        PROVE  OwnerStep(p)
    BY <1>0, <1>2, FundPoolOwner
  <1>3. ASSUME NEW who \in Accounts, NEW q \in PoolIdArgs, NEW c \in Configs,
               update_pool_config(who, q, c)
        PROVE  OwnerStep(p)
    BY <1>0, <1>3, UpdateConfigOwner
  <1>4. ASSUME NEW who \in Accounts, NEW q \in PoolIdArgs, NEW t \in AuthorizationTypes,
               NEW d \in RuleData, add_authorization_rule(who, q, t, d)
        PROVE  OwnerStep(p)
    BY <1>0, <1>4, RulesOwner
  <1>5. ASSUME NEW who \in Accounts, NEW q \in PoolIdArgs, NEW t \in AuthorizationTypes,
               remove_authorization_rule(who, q, t)
        PROVE  OwnerStep(p)
    BY <1>0, <1>5, RulesOwner
  <1>6. ASSUME NEW who \in Accounts, NEW q \in PoolIdArgs, NEW c \in Chains, NEW n \in CallLens,
               sponsor_transaction(who, q, c, n)
        PROVE  OwnerStep(p)
    BY <1>0, <1>6, SponsorOwner
  <1>7. ASSUME NEW who \in Accounts, NEW r \in Receipts, process_receipt(who, r)
        PROVE  OwnerStep(p)
    BY <1>7, RejectedKept, PoolsUnchangedKept DEF process_receipt, poolVars
  <1>8. CASE NextBlock
    BY <1>8, PoolsUnchangedKept DEF NextBlock, poolVars
  <1>9. ASSUME NEW from \in Accounts, NEW to \in Accounts, NEW v \in Amounts, transfer(from, to, v)
        PROVE  OwnerStep(p)
    BY <1>9, PoolsUnchangedKept DEF transfer, poolVars
  <1> QED
    BY <1>1, <1>2, <1>3, <1>4, <1>5, <1>6, <1>7, <1>8, <1>9 DEF Next

\* Whatever the other accounts do, a pool's owner never changes, and its
\* configuration, rules and funds change only by a successful call of the
\* owner, spending apart (owner checks of the extrinsics).
THEOREM OwnersRule == Spec => OnlyOwnerConfigures
  BY InvHolds, NextOwner, PTL DEF Spec, OnlyOwnerConfigures

-----------------------------------------------------------------------------
(* An indexer that follows the events stays in sync.                       *)

\* A step that keeps the pools and either has no event about them or leaves
\* the last call in place is followed.
LEMMA PoolsUnchangedFollowed ==
    ASSUME UNCHANGED pools,
           \/ last'.event.name \in {"none", "PoolConfigUpdated", "AuthorizationRuleAdded",
                                    "AuthorizationRuleRemoved"}
           \/ last' = last
    PROVE  IndexerStep
  <1>1. View' = View
    BY DEF View
  <1>2. CASE last'.event.name \in {"none", "PoolConfigUpdated", "AuthorizationRuleAdded",
                                   "AuthorizationRuleRemoved"}
    <2>1. Followed(View, last'.event) = View
      BY <1>2 DEF Followed
    <2> QED
      BY <1>1, <2>1 DEF IndexerStep
  <1> QED
    BY <1>1, <1>2 DEF IndexerStep

\* A refused extrinsic leaves no event.
LEMMA RejectedFollowed ==
    ASSUME NEW call, NEW who, NEW err, Rejected(call, who, err)
    PROVE  IndexerStep
  BY PoolsUnchangedFollowed DEF Rejected, Returned, NoEvent, poolVars

\* create_pool announces the pool it adds.
LEMMA CreatePoolFollowed ==
    ASSUME Inv, NEW who \in Accounts, NEW v \in Amounts, NEW c \in Configs,
           create_pool(who, v, c)
    PROVE  IndexerStep
  <1>1. CASE create_pool_error(who, v) # "Ok"
    BY <1>1, RejectedFollowed DEF create_pool
  <1>2. CASE create_pool_error(who, v) = "Ok"
    <2> DEFINE new == [owner |-> who, balance |-> v, total_spent |-> 0,
                       created_at |-> block, config |-> c, status |-> "Active"]
    <2>1. /\ pools' = Put(pools, nextPoolId, new)
          /\ last'.event = PoolCreated(nextPoolId, who, v)
      BY <1>2 DEF create_pool, Returned
    <2>2. Followed(View, last'.event) =
            Put(View, nextPoolId, [owner |-> who, balance |-> v, spent |-> 0])
      BY <2>1 DEF Followed, PoolCreated
    <2>3. View' = Put(View, nextPoolId, [owner |-> who, balance |-> v, spent |-> 0])
      BY <2>1 DEF View, Put
    <2> QED
      BY <2>2, <2>3 DEF IndexerStep
  <1> QED
    BY <1>1, <1>2

\* fund_pool announces the amount it adds, which no saturation cuts: the pool's
\* balance is within the owner's reserve, and reserve checks its width.
LEMMA FundPoolFollowed ==
    ASSUME Inv, NEW who \in Accounts, NEW q \in Nat, NEW v \in Amounts, fund_pool(who, q, v)
    PROVE  IndexerStep
  <1>1. CASE fund_pool_error(who, q, v) # "Ok"
    BY <1>1, RejectedFollowed DEF fund_pool
  <1>2. CASE fund_pool_error(who, q, v) = "Ok"
    <2>1. /\ q \in DOMAIN pools /\ pools[q].owner = who /\ CanReserve(who, v)
      BY <1>2 DEF fund_pool_error, owner_error
    <2>2. /\ pools[q] \in PoolInfos /\ pools[q].balance \in Nat /\ pools[q].total_spent \in Nat
          /\ pools[q].balance <= MaxBalance /\ reserved[who] \in Nat /\ v \in Nat
          /\ pools[q].balance + pools[q].total_spent <= reserved[who]
      BY <2>1, ConfigAssumption DEF Inv, TypeOK, PoolInfos, Balances, PoolWithinReserve
    <2>3. saturating_add(pools[q].balance, v) = pools[q].balance + v
      BY <2>1, <2>2 DEF CanReserve, saturating_add
    <2>4. /\ pools' = [pools EXCEPT ![q].balance = pools[q].balance + v]
          /\ last'.event.name = "PoolFunded"
          /\ last'.event.pool_id = q /\ last'.event.amount = v
      BY <1>2, <2>3 DEF fund_pool, Returned, PoolFunded
    <2>5. Followed(View, last'.event) = [View EXCEPT ![q].balance = @ + v]
      BY <2>4 DEF Followed
    <2>6. View' = [View EXCEPT ![q].balance = @ + v]
      BY <2>1, <2>2, <2>4 DEF View, Inv, TypeOK, PoolInfos
    <2> QED
      BY <2>5, <2>6 DEF IndexerStep
  <1> QED
    BY <1>1, <1>2

\* update_pool_config changes nothing an indexer keeps.
LEMMA UpdateConfigFollowed ==
    ASSUME Inv, NEW who \in Accounts, NEW q \in Nat, NEW c \in Configs,
           update_pool_config(who, q, c)
    PROVE  IndexerStep
  <1>1. CASE owner_error(who, q) # "Ok"
    BY <1>1, RejectedFollowed DEF update_pool_config
  <1>2. CASE owner_error(who, q) = "Ok"
    <2>1. /\ q \in DOMAIN pools
          /\ pools' = [pools EXCEPT ![q].config = c]
          /\ last'.event.name = "PoolConfigUpdated"
      BY <1>2 DEF update_pool_config, owner_error, Returned, PoolConfigUpdated
    <2>2. View' = View
      BY <2>1 DEF View, Inv, TypeOK, PoolInfos
    <2>3. Followed(View, last'.event) = View
      BY <2>1 DEF Followed
    <2> QED
      BY <2>2, <2>3 DEF IndexerStep
  <1> QED
    BY <1>1, <1>2

\* Rules change no pool.
LEMMA RulesFollowed ==
    ASSUME NEW who \in Accounts, NEW q \in Nat, NEW t \in AuthorizationTypes, NEW d,
           add_authorization_rule(who, q, t, d) \/ remove_authorization_rule(who, q, t)
    PROVE  IndexerStep
  <1>1. CASE owner_error(who, q) # "Ok"
    BY <1>1, RejectedFollowed DEF add_authorization_rule, remove_authorization_rule
  <1>2. CASE owner_error(who, q) = "Ok"
    BY <1>2, PoolsUnchangedFollowed
    DEF add_authorization_rule, remove_authorization_rule, Returned, AuthorizationRuleEvent, poolVars
  <1> QED
    BY <1>1, <1>2

\* The event of a sponsored transaction is deposited with its charge or, when
\* the gateway refuses, dropped with it.
LEMMA SponsorEvent ==
    ASSUME Inv, NEW who \in Accounts, NEW q \in Nat, NEW chain \in Chains, NEW n \in CallLens,
           sponsor_transaction(who, q, chain, n)
    PROVE  \/ /\ SponsorEffect(who, q, chain, n)
              /\ last'.event.name = "TransactionSponsored"
              /\ last'.event.pool_id = q /\ last'.event.gas_cost = estimate_fee(chain, n)
           \/ UNCHANGED pools /\ last'.event.name = "none"
  <1>1. CASE sponsor_error(q, chain, n) # "Ok"
    BY <1>1 DEF sponsor_transaction, Rejected, Returned, NoEvent, poolVars
  <1>2. CASE sponsor_error(q, chain, n) = "Ok"
    <2>1. q \in DOMAIN pools /\ FeeKnown(chain) /\ ~(pools[q].balance < estimate_fee(chain, n))
      BY <1>2 DEF sponsor_error
    <2>2. estimate_fee(chain, n) <= pools[q].balance
      BY <2>1, FeeType, ConfigAssumption DEF Inv, TypeOK, PoolInfos, Balances
    <2>3. CASE send_cross_chain_transaction(q, chain, n, nextTransactionId) = "Ok"
      <3>1. SponsorEffect(who, q, chain, n)
        BY <1>2, <2>1, <2>2, <2>3
        DEF sponsor_transaction, SponsorEffect, StorageLayer, send_error, ledger
      <3>2. last'.event = TransactionSponsored(nextTransactionId, q, who, chain,
                                               estimate_fee(chain, n))
        BY <1>2, <2>3 DEF sponsor_transaction, StorageLayer, send_error, Returned
      <3> QED
        BY <3>1, <3>2 DEF TransactionSponsored
    <2>4. CASE send_cross_chain_transaction(q, chain, n, nextTransactionId) # "Ok"
      BY <1>2, <2>4 DEF sponsor_transaction, StorageLayer, send_error, Returned, NoEvent
    <2> QED
      BY <2>3, <2>4
  <1> QED
    BY <1>1, <1>2

\* A sponsored transaction announces exactly what its pool is charged.
LEMMA SponsorFollowed ==
    ASSUME Inv, NEW who \in Accounts, NEW q \in Nat, NEW chain \in Chains, NEW n \in CallLens,
           sponsor_transaction(who, q, chain, n)
    PROVE  IndexerStep
  <1> DEFINE cost == estimate_fee(chain, n)
  <1>1. CASE UNCHANGED pools /\ last'.event.name = "none"
    BY <1>1, PoolsUnchangedFollowed
  <1>2. CASE /\ SponsorEffect(who, q, chain, n)
             /\ last'.event.name = "TransactionSponsored"
             /\ last'.event.pool_id = q /\ last'.event.gas_cost = cost
    <2>1. /\ q \in DOMAIN pools /\ cost <= pools[q].balance /\ cost \in Nat
          /\ pools' = Put(pools, q, charged(pools[q], cost))
      BY <1>2, FeeType, ConfigAssumption DEF SponsorEffect, Balances
    <2> HIDE DEF cost
    <2>2. /\ pools[q] \in PoolInfos /\ pools[q].balance \in Nat /\ pools[q].total_spent \in Nat
          /\ pools[q].balance + pools[q].total_spent <= MaxBalance
      BY <2>1 DEF Inv, TypeOK, PoolInfos, Balances, PoolWithinReserve
    <2>3. /\ saturating_sub(pools[q].balance, cost) = pools[q].balance - cost
          /\ saturating_add(pools[q].total_spent, cost) = pools[q].total_spent + cost
      BY <2>1, <2>2 DEF saturating_sub, saturating_add
    <2>4. charged(pools[q], cost) =
            [pools[q] EXCEPT !.balance = pools[q].balance - cost,
                             !.total_spent = pools[q].total_spent + cost]
      BY <2>3 DEF charged
    <2>5. Followed(View, last'.event) =
            [View EXCEPT ![q].balance = @ - cost, ![q].spent = @ + cost]
      BY <1>2 DEF Followed
    <2>6. /\ pools'[q].owner = pools[q].owner
          /\ pools'[q].balance = pools[q].balance - cost
          /\ pools'[q].total_spent = pools[q].total_spent + cost
          /\ \A p \in DOMAIN pools : p # q => pools'[p] = pools[p]
          /\ DOMAIN pools' = DOMAIN pools
      BY <2>1, <2>2, <2>4 DEF Put, PoolInfos
    <2>7. View' = [View EXCEPT ![q].balance = @ - cost, ![q].spent = @ + cost]
      BY <2>1, <2>6 DEF View
    <2> QED
      BY <2>5, <2>7 DEF IndexerStep
  <1> QED
    BY <1>1, <1>2, SponsorEvent

\* Every step is followed.
LEMMA NextFollowed == Inv /\ [Next]_vars => [IndexerStep]_vars
  <1> SUFFICES ASSUME Inv, Next PROVE IndexerStep
    OBVIOUS
  <1>0. \A q \in PoolIdArgs : q \in Nat
    BY BoundAssumption DEF PoolIdArgs
  <1>1. ASSUME NEW who \in Accounts, NEW v \in Amounts, NEW c \in Configs, create_pool(who, v, c)
        PROVE  IndexerStep
    BY <1>1, CreatePoolFollowed
  <1>2. ASSUME NEW who \in Accounts, NEW q \in PoolIdArgs, NEW v \in Amounts, fund_pool(who, q, v)
        PROVE  IndexerStep
    BY <1>0, <1>2, FundPoolFollowed
  <1>3. ASSUME NEW who \in Accounts, NEW q \in PoolIdArgs, NEW c \in Configs,
               update_pool_config(who, q, c)
        PROVE  IndexerStep
    BY <1>0, <1>3, UpdateConfigFollowed
  <1>4. ASSUME NEW who \in Accounts, NEW q \in PoolIdArgs, NEW t \in AuthorizationTypes,
               NEW d \in RuleData, add_authorization_rule(who, q, t, d)
        PROVE  IndexerStep
    BY <1>0, <1>4, RulesFollowed
  <1>5. ASSUME NEW who \in Accounts, NEW q \in PoolIdArgs, NEW t \in AuthorizationTypes,
               remove_authorization_rule(who, q, t)
        PROVE  IndexerStep
    BY <1>0, <1>5, RulesFollowed
  <1>6. ASSUME NEW who \in Accounts, NEW q \in PoolIdArgs, NEW c \in Chains, NEW n \in CallLens,
               sponsor_transaction(who, q, c, n)
        PROVE  IndexerStep
    BY <1>0, <1>6, SponsorFollowed
  <1>7. ASSUME NEW who \in Accounts, NEW r \in Receipts, process_receipt(who, r)
        PROVE  IndexerStep
    BY <1>7, RejectedFollowed, PoolsUnchangedFollowed
    DEF process_receipt, Returned, NoEvent, poolVars
  <1>8. CASE NextBlock
    BY <1>8, PoolsUnchangedFollowed DEF NextBlock, poolVars
  <1>9. ASSUME NEW from \in Accounts, NEW to \in Accounts, NEW v \in Amounts, transfer(from, to, v)
        PROVE  IndexerStep
    BY <1>9, PoolsUnchangedFollowed DEF transfer, poolVars
  <1> QED
    BY <1>1, <1>2, <1>3, <1>4, <1>5, <1>6, <1>7, <1>8, <1>9 DEF Next

\* Whoever follows the pallet's events from genesis knows every pool's owner,
\* balance and spending exactly, at any width of balances (deposit_event).
THEOREM EventsTellAll == Spec => IndexerInSync
  BY InvHolds, NextFollowed, PTL DEF Spec, IndexerInSync
=============================================================================
