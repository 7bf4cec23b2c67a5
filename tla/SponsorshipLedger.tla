------------------------- MODULE SponsorshipLedger -------------------------
(***************************************************************************)
(* Machine-checked proofs about the money in the sponsorship pallet.  It   *)
(* implements the abstract ledger EscrowLedger: every extrinsic is an      *)
(* Open, a Deposit, a Pay or a stutter.  The two book-keeping identities   *)
(* then only have to be shown for the steps of the ledger.                 *)
(***************************************************************************)
EXTENDS SponsorshipSums, SponsorshipProofs, FiniteSums

USE BalanceWidth

-----------------------------------------------------------------------------
(* The refinement.                                                         *)

\* The refinement mapping, under the names used in the proofs.
escrowOf(p) == [owner |-> pools[p].owner,
                deposited |-> pools[p].balance + pools[p].total_spent,
                spent |-> pools[p].total_spent]
paymentOf(t) == [escrow |-> transactionLog[t].pool_id,
                 amount |-> transactionLog[t].gas_cost]
escrowMap == [p \in DOMAIN pools |-> escrowOf(p)]
paymentMap == [t \in DOMAIN transactionLog |-> paymentOf(t)]

\* A step that keeps the books and what the owners reserved is a stutter.
LEMMA BooksStutter == UNCHANGED books => UNCHANGED Ledger!vars
  BY DEF books, Ledger!vars

\* create_pool opens an escrow or leaves the ledger alone.
LEMMA CreateOpens ==
    ASSUME Inv, NEW who \in Accounts, NEW v \in Amounts, NEW c \in Configs,
           create_pool(who, v, c)
    PROVE  Ledger!Next \/ UNCHANGED books
  <1> DEFINE new == [owner |-> who, balance |-> v, total_spent |-> 0,
                     created_at |-> block, config |-> c, status |-> "Active"]
  <1> SUFFICES ASSUME ~ UNCHANGED books PROVE Ledger!Next
    OBVIOUS
  <1>1. /\ reserve(who, v) /\ nextPoolId < MaxPools
        /\ pools' = Put(pools, nextPoolId, new)
        /\ UNCHANGED transactionLog
    BY RejectedUnchanged DEF create_pool, create_pool_error, logVars
  <1>2. new.owner = who /\ new.balance = v /\ new.total_spent = 0 /\ v \in Nat
    BY ConfigAssumption
  <1> HIDE DEF new
  <1>3. nextPoolId \in 0 .. MaxPools - 1 /\ nextPoolId \notin DOMAIN pools
    BY <1>1, BoundAssumption DEF Inv, TypeOK, IdsAreFresh
  <1>4. /\ DOMAIN pools' = DOMAIN pools \cup {nextPoolId}
        /\ pools'[nextPoolId] = new
        /\ \A p \in DOMAIN pools : pools'[p] = pools[p]
    BY <1>1, <1>3 DEF Put
  <1>5. escrowMap' = Ledger!Enter(escrowMap, nextPoolId,
                                  [owner |-> who, deposited |-> v, spent |-> 0])
    BY <1>2, <1>3, <1>4 DEF escrowMap, escrowOf, Ledger!Enter
  <1>6. paymentMap' = paymentMap
    BY <1>1 DEF paymentMap, paymentOf
  <1>7. reserved' = [reserved EXCEPT ![who] = @ + v]
    BY <1>1 DEF reserve
  <1>8. Ledger!Open(nextPoolId, who, v)
    BY <1>3, <1>5, <1>6, <1>7
    DEF Ledger!Open, escrowMap, escrowOf, paymentMap, paymentOf
  <1> QED
    BY <1>3, <1>8 DEF Ledger!Next

\* fund_pool makes a deposit or leaves the ledger alone.
LEMMA FundDeposits ==
    ASSUME Inv, NEW who \in Accounts, NEW q \in PoolIdArgs, NEW v \in Amounts,
           fund_pool(who, q, v)
    PROVE  Ledger!Next \/ UNCHANGED books
  <1> SUFFICES ASSUME ~ UNCHANGED books PROVE Ledger!Next
    OBVIOUS
  <1>1. /\ q \in DOMAIN pools /\ pools[q].owner = who
        /\ CanReserve(who, v) /\ reserve(who, v)
        /\ pools' = [pools EXCEPT ![q].balance = saturating_add(@, v)]
        /\ UNCHANGED transactionLog
    BY RejectedUnchanged DEF fund_pool, fund_pool_error, owner_error, logVars
  <1>2. v \in Nat /\ pools[q] \in PoolInfos
    BY <1>1, ConfigAssumption DEF Inv, TypeOK
  <1>3. reserved'[who] = reserved[who] + v /\ reserved' \in [Accounts -> Balances]
        /\ reserved' = [reserved EXCEPT ![who] = @ + v]
    BY <1>1, <1>2, ReserveLemma DEF Inv, reserve
  <1>4. pools[q].balance + pools[q].total_spent <= reserved[who]
    BY <1>1 DEF Inv, PoolWithinReserve
  <1>5. saturating_add(pools[q].balance, v) = pools[q].balance + v
    <2>1. /\ pools[q].balance \in Nat /\ pools[q].total_spent \in Nat
          /\ reserved[who] \in Nat /\ reserved[who] + v <= MaxBalance
      BY <1>2, <1>3 DEF PoolInfos, Balances, Inv, TypeOK
    <2> QED
      BY <1>2, <1>4, <2>1 DEF saturating_add
  <1>6. /\ DOMAIN pools' = DOMAIN pools
        /\ \A p \in DOMAIN pools : p # q => pools'[p] = pools[p]
        /\ pools'[q].owner = pools[q].owner
        /\ pools'[q].balance = pools[q].balance + v
        /\ pools'[q].total_spent = pools[q].total_spent
    <2>1. /\ DOMAIN pools' = DOMAIN pools
          /\ \A p \in DOMAIN pools : p # q => pools'[p] = pools[p]
          /\ pools'[q] = [pools[q] EXCEPT !.balance = pools[q].balance + v]
      BY <1>1, <1>5
    <2> QED
      BY <1>2, <2>1 DEF PoolInfos
  <1>7. escrowMap' = [escrowMap EXCEPT ![q].deposited = @ + v]
    <2>1. escrowOf(q)' = [escrowOf(q) EXCEPT !.deposited = @ + v]
      BY <1>2, <1>6 DEF escrowOf, PoolInfos, Balances
    <2>2. \A p \in DOMAIN pools : p # q => escrowOf(p)' = escrowOf(p)
      BY <1>6 DEF escrowOf
    <2> QED
      BY <2>1, <2>2, <1>1, <1>6 DEF escrowMap
  <1>8. paymentMap' = paymentMap
    BY <1>1 DEF paymentMap, paymentOf
  <1>9. Ledger!Deposit(q, v)
    BY <1>1, <1>3, <1>7, <1>8
    DEF Ledger!Deposit, escrowMap, escrowOf, paymentMap, paymentOf
  <1> QED
    BY <1>9 DEF Ledger!Next, PoolIdArgs

\* sponsor_transaction makes a payment or leaves the ledger alone.
LEMMA SponsorPays ==
    ASSUME Inv, NEW who \in Accounts, NEW q \in PoolIdArgs, NEW chain \in Chains,
           NEW n \in CallLens, sponsor_transaction(who, q, chain, n)
    PROVE  Ledger!Next \/ UNCHANGED books
  <1> DEFINE cost == estimate_fee(chain, n)
             id == nextTransactionId
             record == [pool_id |-> q, user |-> who, target_chain |-> chain,
                        call_hash |-> Hash(n), gas_cost |-> cost,
                        status |-> "Pending", timestamp |-> block]
  <1>0. q \in Nat
    BY BoundAssumption DEF PoolIdArgs
  <1> SUFFICES ASSUME SponsorEffect(who, q, chain, n) PROVE Ledger!Next
    BY <1>0, SponsorAllOrNothing
  <1>1. /\ q \in DOMAIN pools /\ FeeKnown(chain) /\ cost <= pools[q].balance
        /\ id < MaxTransactions
        /\ transactionLog' = Put(transactionLog, id, record)
        /\ pools' = Put(pools, q, charged(pools[q], cost))
        /\ UNCHANGED reserved
    BY DEF SponsorEffect
  <1>2. cost \in Balances
        /\ cost \in {estimate_fee(c, k) : c \in DOMAIN get_base_fee, k \in CallLens}
    BY <1>1, FeeType, ConfigAssumption DEF FeeKnown
  <1> HIDE DEF cost
  <1>3. record.pool_id = q /\ record.gas_cost = cost
    OBVIOUS
  <1> HIDE DEF record
  <1>4. id \in 0 .. MaxTransactions - 1 /\ id \notin DOMAIN transactionLog
    BY <1>1, BoundAssumption DEF Inv, TypeOK, IdsAreFresh
  <1>5. /\ DOMAIN transactionLog' = DOMAIN transactionLog \cup {id}
        /\ transactionLog'[id] = record
        /\ \A t \in DOMAIN transactionLog : transactionLog'[t] = transactionLog[t]
    BY <1>1, <1>4 DEF Put
  <1>6. /\ pools[q] \in PoolInfos
        /\ pools[q].balance + pools[q].total_spent <= reserved[pools[q].owner]
        /\ reserved[pools[q].owner] \in Balances
    BY <1>1 DEF Inv, TypeOK, PoolWithinReserve, PoolInfos
  <1>7. /\ saturating_sub(pools[q].balance, cost) = pools[q].balance - cost
        /\ saturating_add(pools[q].total_spent, cost) = pools[q].total_spent + cost
    <2>1. /\ pools[q].balance \in Nat /\ pools[q].total_spent \in Nat /\ cost \in Nat
          /\ reserved[pools[q].owner] <= MaxBalance /\ reserved[pools[q].owner] \in Nat
      BY <1>2, <1>6 DEF PoolInfos, Balances
    <2>2. cost <= pools[q].balance
      BY <1>1
    <2> QED
      BY <1>6, <2>1, <2>2 DEF saturating_add, saturating_sub
  <1>8. /\ DOMAIN pools' = DOMAIN pools
        /\ \A p \in DOMAIN pools : p # q => pools'[p] = pools[p]
        /\ pools'[q] = [pools[q] EXCEPT !.balance = pools[q].balance - cost,
                                        !.total_spent = pools[q].total_spent + cost]
    BY <1>1, <1>7 DEF Put, charged
  <1>9. /\ pools'[q].owner = pools[q].owner
        /\ pools'[q].balance = pools[q].balance - cost
        /\ pools'[q].total_spent = pools[q].total_spent + cost
    BY <1>6, <1>8 DEF PoolInfos
  <1>10. escrowMap' = [escrowMap EXCEPT ![q].spent = @ + cost]
    <2>1. escrowOf(q)' = [escrowOf(q) EXCEPT !.spent = @ + cost]
      BY <1>2, <1>6, <1>9 DEF escrowOf, PoolInfos, Balances
    <2>2. \A p \in DOMAIN pools : p # q => escrowOf(p)' = escrowOf(p)
      BY <1>8 DEF escrowOf
    <2> QED
      BY <2>1, <2>2, <1>1, <1>8 DEF escrowMap
  <1>11. paymentMap' = Ledger!Enter(paymentMap, id, [escrow |-> q, amount |-> cost])
    BY <1>3, <1>4, <1>5 DEF paymentMap, paymentOf, Ledger!Enter
  <1>12. escrowMap[q].spent + cost <= escrowMap[q].deposited
    BY <1>1, <1>2, <1>6 DEF escrowMap, escrowOf, PoolInfos, Balances
  <1>13. Ledger!Pay(id, q, cost)
    BY <1>1, <1>4, <1>10, <1>11, <1>12
    DEF Ledger!Pay, escrowMap, escrowOf, paymentMap, paymentOf
  <1> QED
    BY <1>2, <1>4, <1>13 DEF Ledger!Next, PoolIdArgs

\* The remaining actions change neither the money in a pool, nor the log, nor
\* what is reserved.
LEMMA OthersStutter ==
    ASSUME Inv, NEW who \in Accounts, NEW q \in PoolIdArgs,
           \/ \E c \in Configs : update_pool_config(who, q, c)
           \/ \E t \in AuthorizationTypes, d \in RuleData : add_authorization_rule(who, q, t, d)
           \/ \E t \in AuthorizationTypes : remove_authorization_rule(who, q, t)
    PROVE  UNCHANGED Ledger!vars
  <1>1. CASE \E c \in Configs : update_pool_config(who, q, c)
    <2>1. PICK c \in Configs : update_pool_config(who, q, c)
      BY <1>1
    <2>2. CASE UNCHANGED books
      BY <2>2, BooksStutter
    <2>3. CASE ~ UNCHANGED books
      <3>1. /\ q \in DOMAIN pools /\ pools' = [pools EXCEPT ![q].config = c]
            /\ UNCHANGED <<transactionLog, reserved>>
        BY <2>1, <2>3, RejectedUnchanged DEF update_pool_config, owner_error, logVars, ledger
      <3>2. /\ DOMAIN pools' = DOMAIN pools
            /\ \A p \in DOMAIN pools : /\ pools'[p].owner = pools[p].owner
                                       /\ pools'[p].balance = pools[p].balance
                                       /\ pools'[p].total_spent = pools[p].total_spent
        BY <3>1 DEF Inv, TypeOK, PoolInfos
      <3>3. escrowMap' = escrowMap /\ paymentMap' = paymentMap
        BY <3>1, <3>2 DEF escrowMap, escrowOf, paymentMap, paymentOf
      <3> QED
        BY <3>1, <3>3 DEF Ledger!vars, escrowMap, escrowOf, paymentMap, paymentOf
    <2> QED
      BY <2>2, <2>3
  <1>2. CASE \/ \E t \in AuthorizationTypes, d \in RuleData : add_authorization_rule(who, q, t, d)
             \/ \E t \in AuthorizationTypes : remove_authorization_rule(who, q, t)
    <2>1. UNCHANGED <<pools, transactionLog, reserved>>
      BY <1>2, RejectedUnchanged
      DEF add_authorization_rule, remove_authorization_rule, books, poolVars, logVars, ledger
    <2> QED
      BY <2>1 DEF Ledger!vars
  <1> QED
    BY <1>1, <1>2

\* Every step of the pallet is a step of the ledger or a stutter.
LEMMA LedgerStep == Inv /\ [Next]_vars => [Ledger!Next]_(Ledger!vars)
  <1> SUFFICES ASSUME Inv, [Next]_vars PROVE Ledger!Next \/ UNCHANGED Ledger!vars
    OBVIOUS
  <1>1. ASSUME NEW who \in Accounts, NEW v \in Amounts, NEW c \in Configs,
               create_pool(who, v, c)
        PROVE  Ledger!Next \/ UNCHANGED Ledger!vars
    BY <1>1, CreateOpens, BooksStutter
  <1>2. ASSUME NEW who \in Accounts, NEW p \in PoolIdArgs, NEW v \in Amounts,
               fund_pool(who, p, v)
        PROVE  Ledger!Next \/ UNCHANGED Ledger!vars
    BY <1>2, FundDeposits, BooksStutter
  <1>3. ASSUME NEW who \in Accounts, NEW p \in PoolIdArgs,
               \/ \E c \in Configs : update_pool_config(who, p, c)
               \/ \E t \in AuthorizationTypes, d \in RuleData :
                    add_authorization_rule(who, p, t, d)
               \/ \E t \in AuthorizationTypes : remove_authorization_rule(who, p, t)
        PROVE  Ledger!Next \/ UNCHANGED Ledger!vars
    BY <1>3, OthersStutter
  <1>4. ASSUME NEW who \in Accounts, NEW p \in PoolIdArgs, NEW c \in Chains, NEW n \in CallLens,
               sponsor_transaction(who, p, c, n)
        PROVE  Ledger!Next \/ UNCHANGED Ledger!vars
    BY <1>4, SponsorPays, BooksStutter
  <1>5. ASSUME NEW who \in Accounts, NEW r \in Receipts, process_receipt(who, r)
        PROVE  UNCHANGED Ledger!vars
    <2>1. UNCHANGED books
      BY <1>5, RejectedUnchanged DEF process_receipt, books, poolVars, logVars, ledger
    <2> QED
      BY <2>1, BooksStutter
  <1>6. CASE NextBlock \/ \E from, to \in Accounts, v \in Amounts : transfer(from, to, v)
    <2>1. UNCHANGED <<pools, transactionLog, reserved>>
      BY <1>6 DEF NextBlock, transfer, poolVars, logVars, ledger
    <2> QED
      BY <2>1 DEF Ledger!vars
  <1>7. CASE UNCHANGED vars
    BY <1>7 DEF vars, Ledger!vars
  <1> QED
    BY <1>1, <1>2, <1>3, <1>4, <1>5, <1>6, <1>7 DEF Next

\* Genesis is an empty ledger.
LEMMA LedgerInit == Init => Ledger!Init
  BY DEF Init, EmptyMap, Ledger!Init

\* Whatever the constants, the pallet implements the abstract escrow ledger: no
\* overdraft, no lost or invented unit, payments entered once and never changed.
THEOREM RefinesLedger == Spec => ImplementsLedger
  BY InvHolds, LedgerInit, LedgerStep, PTL DEF Spec, ImplementsLedger, Ledger!Spec

-----------------------------------------------------------------------------
(* The steps of the ledger in terms of the pallet's storage.               *)

LogKept == /\ DOMAIN transactionLog' = DOMAIN transactionLog
           /\ \A t \in DOMAIN transactionLog : paymentOf(t)' = paymentOf(t)

Opened(e, o, v) ==
    /\ e \notin DOMAIN pools /\ DOMAIN pools' = DOMAIN pools \cup {e}
    /\ escrowOf(e)' = [owner |-> o, deposited |-> v, spent |-> 0]
    /\ \A p \in DOMAIN pools : escrowOf(p)' = escrowOf(p)
    /\ reserved' = [reserved EXCEPT ![o] = @ + v]
    /\ LogKept

Deposited(e, v) ==
    /\ e \in DOMAIN pools /\ DOMAIN pools' = DOMAIN pools
    /\ escrowOf(e)' = [escrowOf(e) EXCEPT !.deposited = @ + v]
    /\ \A p \in DOMAIN pools : p # e => escrowOf(p)' = escrowOf(p)
    /\ reserved' = [reserved EXCEPT ![pools[e].owner] = @ + v]
    /\ LogKept

Paid(i, e, v) ==
    /\ e \in DOMAIN pools /\ DOMAIN pools' = DOMAIN pools
    /\ escrowOf(e)' = [escrowOf(e) EXCEPT !.spent = @ + v]
    /\ \A p \in DOMAIN pools : p # e => escrowOf(p)' = escrowOf(p)
    /\ reserved' = reserved
    /\ i \notin DOMAIN transactionLog /\ DOMAIN transactionLog' = DOMAIN transactionLog \cup {i}
    /\ paymentOf(i)' = [escrow |-> e, amount |-> v]
    /\ \A t \in DOMAIN transactionLog : paymentOf(t)' = paymentOf(t)

Kept ==
    /\ DOMAIN pools' = DOMAIN pools
    /\ \A p \in DOMAIN pools : escrowOf(p)' = escrowOf(p)
    /\ reserved' = reserved
    /\ LogKept

\* Two functions given pointwise are equal only if they are so everywhere.
LEMMA MapsEqual ==
    /\ escrowMap' = escrowMap => /\ DOMAIN pools' = DOMAIN pools
                                 /\ \A p \in DOMAIN pools : escrowOf(p)' = escrowOf(p)
    /\ paymentMap' = paymentMap => LogKept
  <1>1. /\ DOMAIN escrowMap = DOMAIN pools /\ DOMAIN escrowMap' = DOMAIN pools'
        /\ \A p \in DOMAIN pools : escrowMap[p] = escrowOf(p)
        /\ \A p \in DOMAIN pools' : escrowMap'[p] = escrowOf(p)'
    BY DEF escrowMap
  <1>2. /\ DOMAIN paymentMap = DOMAIN transactionLog
        /\ DOMAIN paymentMap' = DOMAIN transactionLog'
        /\ \A t \in DOMAIN transactionLog : paymentMap[t] = paymentOf(t)
        /\ \A t \in DOMAIN transactionLog' : paymentMap'[t] = paymentOf(t)'
    BY DEF paymentMap
  <1> QED
    BY <1>1, <1>2 DEF LogKept

\* Every step of the pallet moves money in one of these ways or not at all.
LEMMA MoneySteps ==
    ASSUME Inv, [Next]_vars
    PROVE  \/ \E e \in PoolIdArgs, o \in Accounts, v \in Nat : Opened(e, o, v)
           \/ \E e \in PoolIdArgs, v \in Nat : Deposited(e, v)
           \/ \E i \in Nat, e \in PoolIdArgs, v \in Nat : Paid(i, e, v)
           \/ Kept
  <1> DEFINE Costs == {estimate_fee(c, n) : c \in DOMAIN get_base_fee, n \in CallLens}
  <1>0. Amounts \subseteq Nat /\ Costs \subseteq Nat
    BY FeeType, ConfigAssumption DEF FeeKnown, Balances
  <1> HIDE DEF Costs
  <1>1. ASSUME NEW e \in PoolIdArgs, NEW o \in Accounts, NEW v \in Amounts, Ledger!Open(e, o, v)
        PROVE  Opened(e, o, v)
    <2>1. /\ e \notin DOMAIN escrowMap
          /\ escrowMap' = Ledger!Enter(escrowMap, e, [owner |-> o, deposited |-> v, spent |-> 0])
          /\ reserved' = [reserved EXCEPT ![o] = @ + v]
          /\ paymentMap' = paymentMap
      BY <1>1 DEF Ledger!Open, escrowMap, escrowOf, paymentMap, paymentOf
    <2>2. DOMAIN pools' = DOMAIN pools \cup {e} /\ e \notin DOMAIN pools
      BY <2>1 DEF escrowMap, Ledger!Enter
    <2>3. \A p \in DOMAIN pools \cup {e} :
             escrowOf(p)' = IF p = e THEN [owner |-> o, deposited |-> v, spent |-> 0] ELSE escrowOf(p)
      BY <2>1, <2>2 DEF escrowMap, Ledger!Enter
    <2> QED
      BY <2>1, <2>2, <2>3, MapsEqual DEF Opened
  <1>2. ASSUME NEW e \in PoolIdArgs, NEW v \in Amounts, Ledger!Deposit(e, v)
        PROVE  Deposited(e, v)
    <2>1. /\ e \in DOMAIN escrowMap
          /\ escrowMap' = [escrowMap EXCEPT ![e].deposited = @ + v]
          /\ reserved' = [reserved EXCEPT ![escrowMap[e].owner] = @ + v]
          /\ paymentMap' = paymentMap
      BY <1>2 DEF Ledger!Deposit, escrowMap, escrowOf, paymentMap, paymentOf
    <2>2. DOMAIN pools' = DOMAIN pools /\ e \in DOMAIN pools /\ escrowMap[e].owner = pools[e].owner
      BY <2>1 DEF escrowMap, escrowOf
    <2>3. \A p \in DOMAIN pools :
             escrowOf(p)' = IF p = e THEN [escrowOf(p) EXCEPT !.deposited = @ + v] ELSE escrowOf(p)
      BY <2>1, <2>2 DEF escrowMap
    <2> QED
      BY <2>1, <2>2, <2>3, MapsEqual DEF Deposited
  <1>3. ASSUME NEW i \in 0 .. MaxTransactions - 1, NEW e \in PoolIdArgs, NEW v \in Costs,
               Ledger!Pay(i, e, v)
        PROVE  Paid(i, e, v)
    <2>1. /\ i \notin DOMAIN paymentMap /\ e \in DOMAIN escrowMap
          /\ escrowMap' = [escrowMap EXCEPT ![e].spent = @ + v]
          /\ paymentMap' = Ledger!Enter(paymentMap, i, [escrow |-> e, amount |-> v])
          /\ reserved' = reserved
      BY <1>3 DEF Ledger!Pay, escrowMap, escrowOf, paymentMap, paymentOf
    <2>2. DOMAIN pools' = DOMAIN pools /\ e \in DOMAIN pools
      BY <2>1 DEF escrowMap
    <2>3. \A p \in DOMAIN pools :
             escrowOf(p)' = IF p = e THEN [escrowOf(p) EXCEPT !.spent = @ + v] ELSE escrowOf(p)
      BY <2>1, <2>2 DEF escrowMap
    <2>4. DOMAIN transactionLog' = DOMAIN transactionLog \cup {i} /\ i \notin DOMAIN transactionLog
      BY <2>1 DEF paymentMap, Ledger!Enter
    <2>5. \A t \in DOMAIN transactionLog \cup {i} :
             paymentOf(t)' = IF t = i THEN [escrow |-> e, amount |-> v] ELSE paymentOf(t)
      BY <2>1, <2>4 DEF paymentMap, Ledger!Enter
    <2> QED
      BY <2>1, <2>2, <2>3, <2>4, <2>5 DEF Paid
  <1>4. CASE UNCHANGED Ledger!vars
    <2>1. escrowMap' = escrowMap /\ paymentMap' = paymentMap /\ reserved' = reserved
      BY <1>4 DEF Ledger!vars, escrowMap, escrowOf, paymentMap, paymentOf
    <2> QED
      BY <2>1, MapsEqual DEF Kept
  <1>5. CASE Ledger!Next
    <2>1. \A i \in 0 .. MaxTransactions - 1 : i \in Nat
      OBVIOUS
    <2> QED
      BY <1>0, <1>1, <1>2, <1>3, <1>5, <2>1 DEF Ledger!Next, PoolIdArgs, Costs
  <1> QED
    BY <1>4, <1>5, LedgerStep

-----------------------------------------------------------------------------
(* The identities.                                                         *)

RecordsOf(p) == {t \in DOMAIN transactionLog : transactionLog[t].pool_id = p}

\* The stronger form of AuditTrail: all records of a pool add up to its spending.
SpendingLogged ==
    \A p \in DOMAIN pools : pools[p].total_spent = SumFunctionOnSet(GasCost, RecordsOf(p))

SumsInv == Inv /\ ReservesBackPools /\ SpendingLogged

\* The sets summed over are finite, the values are natural numbers, and they are
\* the ones the ledger has.
Summable ==
    /\ \A a : IsFiniteSet(PoolsOf(a))
    /\ \A p : IsFiniteSet(RecordsOf(p))
    /\ \A p \in DOMAIN pools : /\ Funds[p] = escrowOf(p).deposited /\ Funds[p] \in Nat
                               /\ pools[p].total_spent = escrowOf(p).spent
                               /\ pools[p].total_spent \in Nat
                               /\ pools[p].owner = escrowOf(p).owner
                               /\ pools[p].owner \in Accounts
    /\ \A t \in DOMAIN transactionLog :
           /\ GasCost[t] = paymentOf(t).amount /\ GasCost[t] \in Nat
           /\ transactionLog[t].pool_id = paymentOf(t).escrow
    /\ \A a \in Accounts : reserved[a] \in Nat

\* The invariant makes the sums meaningful.
LEMMA SumsAreDefined == Inv => Summable
  <1> SUFFICES ASSUME Inv PROVE Summable
    OBVIOUS
  <1>1. IsFiniteSet(DOMAIN pools) /\ IsFiniteSet(DOMAIN transactionLog)
    BY FS_Interval DEF Inv, TypeOK, IdsAreFresh
  <1>2. \A a : PoolsOf(a) \in SUBSET DOMAIN pools
    BY DEF PoolsOf
  <1>3. \A p : RecordsOf(p) \in SUBSET DOMAIN transactionLog
    BY DEF RecordsOf
  <1>4. \A p \in DOMAIN pools : /\ pools[p].balance \in Nat /\ pools[p].total_spent \in Nat
                                /\ pools[p].owner \in Accounts
    BY DEF Inv, TypeOK, PoolInfos, Balances
  <1>5. \A t \in DOMAIN transactionLog : transactionLog[t].gas_cost \in Nat
    BY DEF Inv, TypeOK, TransactionRecords, Balances
  <1>6. \A a \in Accounts : reserved[a] \in Nat
    BY DEF Inv, TypeOK, Balances
  <1>7. (\A a : IsFiniteSet(PoolsOf(a))) /\ (\A p : IsFiniteSet(RecordsOf(p)))
    BY <1>1, <1>2, <1>3, FS_Subset
  <1>8. \A p \in DOMAIN pools : /\ Funds[p] = escrowOf(p).deposited /\ Funds[p] \in Nat
                                /\ pools[p].total_spent = escrowOf(p).spent
                                /\ pools[p].owner = escrowOf(p).owner
    BY <1>4 DEF Funds, escrowOf
  <1>9. \A t \in DOMAIN transactionLog :
            /\ GasCost[t] = paymentOf(t).amount /\ GasCost[t] \in Nat
            /\ transactionLog[t].pool_id = paymentOf(t).escrow
    BY <1>5 DEF GasCost, paymentOf
  <1> QED
    BY <1>4, <1>6, <1>7, <1>8, <1>9 DEF Summable

\* They stay so after every step.
LEMMA SumsStayDefined == Inv' => Summable'
  BY SumsAreDefined, PTL

\* Pools that keep what they were given keep its sum.
LEMMA FundsKept ==
    ASSUME Inv, Inv', NEW S \in SUBSET DOMAIN pools, S \subseteq DOMAIN pools', IsFiniteSet(S),
           \A p \in S : escrowOf(p)'.deposited = escrowOf(p).deposited
    PROVE  SumFunctionOnSet(Funds', S) = SumFunctionOnSet(Funds, S)
  <1>1. \A p \in S : Funds'[p] = Funds[p]
    BY SumsAreDefined, SumsStayDefined DEF Summable
  <1> QED
    BY <1>1, SumSame

\* Records that stay keep the sum of their costs.
LEMMA CostsKept ==
    ASSUME Inv, Inv', NEW S \in SUBSET DOMAIN transactionLog, S \subseteq DOMAIN transactionLog',
           IsFiniteSet(S), \A t \in S : paymentOf(t)' = paymentOf(t)
    PROVE  SumFunctionOnSet(GasCost', S) = SumFunctionOnSet(GasCost, S)
  <1>1. \A t \in S : GasCost'[t] = GasCost[t]
    BY SumsAreDefined, SumsStayDefined DEF Summable
  <1> QED
    BY <1>1, SumSame

\* Opening, adding to, paying out of and leaving alone: an owner's reserve and
\* the owner's pools grow together.
LEMMA ReservesStep ==
    ASSUME SumsInv, Inv', [Next]_vars, NEW a \in Accounts
    PROVE  reserved'[a] = SumFunctionOnSet(Funds', PoolsOf(a)')
  <1> DEFINE S == PoolsOf(a)
             old == Funds
             new == Funds'
  <1>1. Summable /\ Summable'
    BY SumsAreDefined, SumsStayDefined DEF SumsInv
  <1>2. reserved[a] = SumFunctionOnSet(old, S) /\ reserved[a] \in Nat
    BY <1>1 DEF SumsInv, ReservesBackPools, Summable
  <1>3. IsFiniteSet(S) /\ \A p \in S : p \in DOMAIN pools /\ old[p] \in Nat
    BY <1>1 DEF Summable, PoolsOf
  <1>4. ASSUME NEW e \in PoolIdArgs, NEW o \in Accounts, NEW v \in Nat, Opened(e, o, v)
        PROVE  reserved'[a] = SumFunctionOnSet(new, PoolsOf(a)')
    <2>1. SumFunctionOnSet(new, S) = SumFunctionOnSet(old, S)
      BY <1>3, <1>4, FundsKept DEF SumsInv, Opened
    <2>2. e \notin S /\ new[e] = v /\ \A p \in S : new[p] \in Nat
      BY <1>1, <1>3, <1>4 DEF Opened, Summable
    <2>3. PoolsOf(a)' = IF a = o THEN S \cup {e} ELSE S
      <3>1. /\ pools'[e].owner = o
            /\ \A p \in DOMAIN pools : pools'[p].owner = pools[p].owner
        BY <1>1, <1>4 DEF Opened, Summable
      <3> QED
        BY <1>4, <3>1 DEF Opened, PoolsOf
    <2>4. reserved'[a] = IF a = o THEN reserved[a] + v ELSE reserved[a]
      BY <1>4 DEF Opened, SumsInv, Inv, TypeOK
    <2>5. SumFunctionOnSet(new, S \cup {e}) = v + SumFunctionOnSet(new, S)
      <3> HIDE DEF S, new
      <3> QED
        BY <1>3, <2>2, SumAdd
    <2> QED
      BY <1>2, <2>1, <2>3, <2>4, <2>5
  <1>5. ASSUME NEW e \in PoolIdArgs, NEW v \in Nat, Deposited(e, v)
        PROVE  reserved'[a] = SumFunctionOnSet(new, PoolsOf(a)')
    <2>1. \A p \in DOMAIN pools : pools'[p].owner = pools[p].owner
      BY <1>1, <1>5 DEF Deposited, Summable, escrowOf
    <2>2. PoolsOf(a)' = S
      BY <1>5, <2>1 DEF Deposited, PoolsOf
    <2>3. reserved'[a] = IF a = pools[e].owner THEN reserved[a] + v ELSE reserved[a]
      BY <1>5 DEF Deposited, SumsInv, Inv, TypeOK
    <2>4. CASE a = pools[e].owner
      <3>1. e \in S
        BY <1>5, <2>4 DEF Deposited, PoolsOf
      <3>2. new[e] = old[e] + v /\ old[e] \in Nat /\ new[e] \in Nat
        BY <1>1, <1>5 DEF Deposited, Summable, escrowOf
      <3>3. \A p \in S \ {e} : old[p] \in Nat /\ old[p] = new[p]
        BY <1>1, <1>3, <1>5 DEF Deposited, Summable
      <3> HIDE DEF S, old, new
      <3>4. SumFunctionOnSet(new, S) = SumFunctionOnSet(old, S) - old[e] + new[e]
        BY <1>3, <3>1, <3>2, <3>3, SumChange
      <3> QED
        BY <1>2, <2>2, <2>3, <2>4, <3>2, <3>4
    <2>5. CASE a # pools[e].owner
      <3>1. e \notin S
        BY <2>5 DEF PoolsOf
      <3>2. SumFunctionOnSet(new, S) = SumFunctionOnSet(old, S)
        BY <1>3, <1>5, <3>1, FundsKept DEF SumsInv, Deposited
      <3> QED
        BY <1>2, <2>2, <2>3, <2>5, <3>2
    <2> QED
      BY <2>4, <2>5
  <1>6. ASSUME /\ DOMAIN pools' = DOMAIN pools /\ reserved' = reserved
               /\ \A p \in DOMAIN pools : /\ escrowOf(p)'.owner = escrowOf(p).owner
                                          /\ escrowOf(p)'.deposited = escrowOf(p).deposited
        PROVE  reserved'[a] = SumFunctionOnSet(new, PoolsOf(a)')
    <2>1. PoolsOf(a)' = S
      BY <1>1, <1>6 DEF Summable, PoolsOf
    <2>2. SumFunctionOnSet(new, S) = SumFunctionOnSet(old, S)
      BY <1>3, <1>6, FundsKept DEF SumsInv
    <2> QED
      BY <1>2, <1>6, <2>1, <2>2
  <1>7. ASSUME NEW i \in Nat, NEW e \in PoolIdArgs, NEW v \in Nat, Paid(i, e, v)
        PROVE  reserved'[a] = SumFunctionOnSet(new, PoolsOf(a)')
    <2>1. \A p \in DOMAIN pools : /\ escrowOf(p)'.owner = escrowOf(p).owner
                                  /\ escrowOf(p)'.deposited = escrowOf(p).deposited
      BY <1>7 DEF Paid, escrowOf
    <2> QED
      BY <1>6, <1>7, <2>1 DEF Paid
  <1>8. CASE Kept
    BY <1>6, <1>8 DEF Kept
  <1> QED
    BY <1>4, <1>5, <1>7, <1>8, MoneySteps DEF SumsInv

\* Only a payment adds to a pool's records, and it adds its cost to the
\* pool's spending; a new pool has neither.
LEMMA SpendingStep ==
    ASSUME SumsInv, Inv', [Next]_vars, NEW p \in DOMAIN pools'
    PROVE  pools'[p].total_spent = SumFunctionOnSet(GasCost', RecordsOf(p)')
  <1> DEFINE S == RecordsOf(p)
             old == GasCost
             new == GasCost'
  <1>1. Summable /\ Summable'
    BY SumsAreDefined, SumsStayDefined DEF SumsInv
  <1>2. IsFiniteSet(S) /\ S \in SUBSET DOMAIN transactionLog
    BY <1>1 DEF Summable, RecordsOf
  <1>3. /\ pools'[p].total_spent = escrowOf(p)'.spent
        /\ p \in DOMAIN pools => /\ pools[p].total_spent = escrowOf(p).spent
                                 /\ pools[p].total_spent = SumFunctionOnSet(old, S)
    BY <1>1 DEF SumsInv, SpendingLogged, Summable
  <1>4. ASSUME DOMAIN transactionLog \subseteq DOMAIN transactionLog',
               \A t \in DOMAIN transactionLog : paymentOf(t)' = paymentOf(t)
        PROVE  /\ SumFunctionOnSet(new, S) = SumFunctionOnSet(old, S)
               /\ \A t \in DOMAIN transactionLog :
                     transactionLog'[t].pool_id = transactionLog[t].pool_id
    <2>1. SumFunctionOnSet(new, S) = SumFunctionOnSet(old, S)
      BY <1>2, <1>4, CostsKept DEF SumsInv
    <2>2. \A t \in DOMAIN transactionLog :
             transactionLog'[t].pool_id = transactionLog[t].pool_id
      BY <1>1, <1>4 DEF Summable
    <2> QED
      BY <2>1, <2>2
  <1>5. ASSUME LogKept PROVE RecordsOf(p)' = S /\ SumFunctionOnSet(new, S) = SumFunctionOnSet(old, S)
    BY <1>4, <1>5 DEF LogKept, RecordsOf
  <1>6. ASSUME NEW e \in PoolIdArgs, NEW o \in Accounts, NEW v \in Nat, Opened(e, o, v)
        PROVE  pools'[p].total_spent = SumFunctionOnSet(new, RecordsOf(p)')
    <2>1. CASE p = e
      <3>1. S = {}
        BY <1>6, <2>1 DEF Opened, RecordsOf, SumsInv, Inv, AuditOrder
      <3>2. pools'[p].total_spent = 0
        BY <1>3, <1>6, <2>1 DEF Opened
      <3> QED
        BY <1>5, <1>6, <3>1, <3>2, SumEmpty DEF Opened
    <2>2. CASE p # e
      BY <1>3, <1>5, <1>6, <2>2 DEF Opened
    <2> QED
      BY <2>1, <2>2
  <1>7. ASSUME NEW e \in PoolIdArgs, NEW v \in Nat, Deposited(e, v)
        PROVE  pools'[p].total_spent = SumFunctionOnSet(new, RecordsOf(p)')
    <2>1. escrowOf(p)'.spent = escrowOf(p).spent
      BY <1>7 DEF Deposited, escrowOf
    <2> QED
      BY <1>3, <1>5, <1>7, <2>1 DEF Deposited
  <1>8. ASSUME NEW i \in Nat, NEW e \in PoolIdArgs, NEW v \in Nat, Paid(i, e, v)
        PROVE  pools'[p].total_spent = SumFunctionOnSet(new, RecordsOf(p)')
    <2>1. /\ SumFunctionOnSet(new, S) = SumFunctionOnSet(old, S)
          /\ \A t \in DOMAIN transactionLog : transactionLog'[t].pool_id = transactionLog[t].pool_id
      BY <1>4, <1>8 DEF Paid
    <2>2. transactionLog'[i].pool_id = e /\ new[i] = v
      BY <1>1, <1>8 DEF Paid, Summable
    <2>3. RecordsOf(p)' = IF p = e THEN S \cup {i} ELSE S
      BY <1>8, <2>1, <2>2 DEF Paid, RecordsOf
    <2>4. CASE p = e
      <3>1. i \notin S /\ \A t \in S \cup {i} : new[t] \in Nat
        BY <1>1, <1>2, <1>8 DEF Paid, Summable
      <3>2. SumFunctionOnSet(new, S \cup {i}) = v + SumFunctionOnSet(new, S)
        <4> HIDE DEF S, new
        <4> QED
          BY <1>2, <2>2, <3>1, SumAdd
      <3>3. escrowOf(p)'.spent = escrowOf(p).spent + v /\ p \in DOMAIN pools
        BY <1>8, <2>4 DEF Paid, escrowOf
      <3>4. escrowOf(p).spent \in Nat
        BY <1>1, <3>3 DEF Summable
      <3> QED
        BY <1>3, <2>1, <2>3, <2>4, <3>2, <3>3, <3>4
    <2>5. CASE p # e
      BY <1>3, <1>8, <2>1, <2>3, <2>5 DEF Paid
    <2> QED
      BY <2>4, <2>5
  <1>9. CASE Kept
    BY <1>3, <1>5, <1>9 DEF Kept
  <1> QED
    BY <1>6, <1>7, <1>8, <1>9, MoneySteps DEF SumsInv

-----------------------------------------------------------------------------
(* The theorems.                                                           *)

\* Nothing is reserved, funded or spent at genesis.
LEMMA SumsInit == Init => SumsInv
  <1> SUFFICES ASSUME Init PROVE SumsInv
    OBVIOUS
  <1>1. Inv /\ DOMAIN pools = {}
    BY InitInv DEF Init, EmptyMap
  <1>2. \A a \in Accounts : PoolsOf(a) = {} /\ reserved[a] = 0
    BY <1>1 DEF PoolsOf, Init
  <1> QED
    BY <1>1, <1>2, SumEmpty DEF SumsInv, ReservesBackPools, SpendingLogged

\* Every step keeps both identities.
LEMMA SumsStep == SumsInv /\ [Next]_vars => SumsInv'
  <1> SUFFICES ASSUME SumsInv, [Next]_vars PROVE SumsInv'
    OBVIOUS
  <1>1. Inv'
    BY NextInv DEF SumsInv
  <1>2. ReservesBackPools'
    BY <1>1, ReservesStep DEF ReservesBackPools
  <1>3. SpendingLogged'
    BY <1>1, SpendingStep DEF SpendingLogged
  <1> QED
    BY <1>1, <1>2, <1>3 DEF SumsInv

\* The records of a pool that a query answers with are the pool's and no more
\* than its limit allows.
LEMMA AnswerIsPart ==
    ASSUME Inv, NEW p, NEW limit \in Nat \ {0},
           NEW answer \in get_pool_transaction_history(transactionLog, p, limit)
    PROVE  answer \in SUBSET RecordsOf(p) /\ Cardinality(answer) <= limit
  <1>1. Cardinality(RecordsOf(p)) \in Nat
    BY SumsAreDefined, FS_CardinalityType DEF Summable
  <1> QED
    BY <1>1 DEF get_pool_transaction_history, RecordsOf

\* A limit of MaxTransactions cuts off nothing.
LEMMA CompleteHistory ==
    ASSUME Inv, NEW p \in DOMAIN pools
    PROVE  RecordsOf(p) \in get_pool_transaction_history(transactionLog, p, MaxTransactions)
  <1> DEFINE c == Cardinality(RecordsOf(p))
             limit == MaxTransactions
  <1>1. /\ IsFiniteSet(DOMAIN transactionLog)
        /\ Cardinality(DOMAIN transactionLog) = nextTransactionId
        /\ nextTransactionId <= limit /\ nextTransactionId \in Nat /\ limit \in Nat
    <2>1. nextTransactionId \in Nat /\ limit \in Nat /\ nextTransactionId <= limit
      BY BoundAssumption DEF Inv, TypeOK, IdsAreFresh
    <2>2. DOMAIN transactionLog = 0 .. nextTransactionId - 1
      BY DEF Inv, IdsAreFresh
    <2>3. /\ IsFiniteSet(0 .. nextTransactionId - 1)
          /\ Cardinality(0 .. nextTransactionId - 1) = nextTransactionId
      BY <2>1, FS_Interval
    <2> QED
      BY <2>1, <2>2, <2>3
  <1>2. c \in Nat /\ c <= nextTransactionId
    BY <1>1, FS_Subset, FS_CardinalityType DEF RecordsOf
  <1>3. c = IF c < (IF limit = 0 THEN 1 ELSE limit) THEN c ELSE IF limit = 0 THEN 1 ELSE limit
    <2> HIDE DEF c
    <2> QED
      BY <1>1, <1>2
  <1> QED
    BY <1>3 DEF get_pool_transaction_history, RecordsOf

\* Both identities hold in every state, for all constants.
THEOREM SumsHold == Spec => []SumsInv
  BY SumsInit, SumsStep, PTL DEF Spec

\* An account has reserved exactly what its pools hold and have spent, however
\* many pools and accounts there are (Currency::reserve in create_pool and
\* fund_pool against PoolInfo.balance and total_spent).
THEOREM ReservesAddUp == Spec => []ReservesBackPools
  <1>1. SumsInv => ReservesBackPools
    BY DEF SumsInv
  <1> QED
    BY <1>1, SumsHold, PTL

\* The transaction log accounts for every unit a pool has spent: its complete
\* history adds up to total_spent, and no answer cut off by a limit exceeds it
\* (sponsor_transaction against get_pool_transaction_history).
THEOREM SpendingIsAudited == Spec => []AuditTrail
  <1>1. ASSUME SumsInv, NEW p \in DOMAIN pools
        PROVE  \E answer \in get_pool_transaction_history(transactionLog, p, MaxTransactions) :
                  pools[p].total_spent = SumFunctionOnSet(GasCost, answer)
    <2>1. pools[p].total_spent = SumFunctionOnSet(GasCost, RecordsOf(p))
      BY <1>1 DEF SumsInv, SpendingLogged
    <2>2. RecordsOf(p) \in get_pool_transaction_history(transactionLog, p, MaxTransactions)
      BY <1>1, CompleteHistory DEF SumsInv
    <2> QED
      BY <2>1, <2>2
  <1>2. ASSUME SumsInv, NEW p \in DOMAIN pools, NEW limit \in 1 .. MaxTransactions,
               NEW answer \in get_pool_transaction_history(transactionLog, p, limit)
        PROVE  /\ Cardinality(answer) <= limit
               /\ SumFunctionOnSet(GasCost, answer) <= pools[p].total_spent
    <2>1. answer \in SUBSET RecordsOf(p) /\ Cardinality(answer) <= limit
      BY <1>2, AnswerIsPart DEF SumsInv
    <2>2. Summable
      BY <1>2, SumsAreDefined DEF SumsInv
    <2>3. IsFiniteSet(RecordsOf(p)) /\ \A t \in RecordsOf(p) : GasCost[t] \in Nat
      BY <2>2 DEF Summable, RecordsOf
    <2>4. SumFunctionOnSet(GasCost, answer) <= SumFunctionOnSet(GasCost, RecordsOf(p))
      BY <2>1, <2>3, SumPart
    <2> QED
      BY <1>2, <2>1, <2>4 DEF SumsInv, SpendingLogged
  <1>3. SumsInv => AuditTrail
    BY <1>1, <1>2 DEF AuditTrail
  <1> QED
    BY <1>3, SumsHold, PTL

-----------------------------------------------------------------------------
(* Storage items written and paid for.                                     *)

PoolWrites == Cardinality(Touched(pools, pools'))
LogWrites == Cardinality(Touched(transactionLog, transactionLog'))
RuleWrites == Cardinality(Touched(poolAuthorizations, poolAuthorizations'))
OwnerWrites == Cardinality((poolOwners \ poolOwners') \cup (poolOwners' \ poolOwners))
PoolIdWrites == Cardinality({i \in {1} : nextPoolId' # nextPoolId})
TransactionIdWrites == Cardinality({i \in {1} : nextTransactionId' # nextTransactionId})

\* A set with no element but x counts as none or one.
LEMMA AtMostOne ==
    ASSUME NEW x, NEW S \in SUBSET {x}
    PROVE  Cardinality(S) \in {0, 1}
  <1>1. S = {} \/ S = {x}
    OBVIOUS
  <1> QED
    BY <1>1, FS_EmptySet, FS_Singleton

\* Maps that agree outside one key differ in one item.
LEMMA OneKeyTouched ==
    ASSUME NEW f, NEW g, NEW k,
           \A x : x # k => /\ x \in DOMAIN f <=> x \in DOMAIN g
                           /\ x \in DOMAIN f => f[x] = g[x]
    PROVE  Cardinality(Touched(f, g)) \in {0, 1}
  <1>1. Touched(f, g) \in SUBSET {k}
    BY DEF Touched
  <1> QED
    BY <1>1, AtMostOne

\* What a step leaves alone it does not write, and a counter is one item.
LEMMA Unwritten ==
    /\ UNCHANGED pools => PoolWrites = 0
    /\ UNCHANGED transactionLog => LogWrites = 0
    /\ UNCHANGED poolAuthorizations => RuleWrites = 0
    /\ UNCHANGED poolOwners => OwnerWrites = 0
    /\ UNCHANGED nextPoolId => PoolIdWrites = 0
    /\ UNCHANGED nextTransactionId => TransactionIdWrites = 0
    /\ PoolIdWrites \in {0, 1} /\ TransactionIdWrites \in {0, 1}
  <1>1. \A f : Touched(f, f) = {}
    BY DEF Touched
  <1>2. UNCHANGED poolOwners => (poolOwners \ poolOwners') \cup (poolOwners' \ poolOwners) = {}
    OBVIOUS
  <1>3. /\ UNCHANGED nextPoolId => {i \in {1} : nextPoolId' # nextPoolId} = {}
        /\ UNCHANGED nextTransactionId => {i \in {1} : nextTransactionId' # nextTransactionId} = {}
    OBVIOUS
  <1>4. /\ {i \in {1} : nextPoolId' # nextPoolId} \in SUBSET {1}
        /\ {i \in {1} : nextTransactionId' # nextTransactionId} \in SUBSET {1}
    OBVIOUS
  <1>5. PoolIdWrites \in {0, 1} /\ TransactionIdWrites \in {0, 1}
    BY <1>4, AtMostOne DEF PoolIdWrites, TransactionIdWrites
  <1>6. Cardinality({}) = 0
    BY FS_EmptySet
  <1> QED
    BY <1>1, <1>2, <1>3, <1>5, <1>6
    DEF PoolWrites, LogWrites, RuleWrites, OwnerWrites, PoolIdWrites, TransactionIdWrites

WeightStep == ItemsWritten = 0 \/ ItemsWritten <= weight[last'.call].writes

\* The items written, by the map they belong to.
LEMMA ItemsByMap ==
    ItemsWritten = PoolWrites + LogWrites + RuleWrites + OwnerWrites
                     + PoolIdWrites + TransactionIdWrites
  BY DEF ItemsWritten, PoolWrites, LogWrites, RuleWrites, OwnerWrites, PoolIdWrites,
         TransactionIdWrites

\* A step that writes no storage item.
LEMMA NothingWritten ==
    ASSUME UNCHANGED <<pools, nextPoolId, poolOwners, poolAuthorizations, transactionLog,
                       nextTransactionId>>
    PROVE  WeightStep
  BY Unwritten, ItemsByMap DEF WeightStep

\* A rejected extrinsic is one.
LEMMA RejectedWritesNothing ==
    ASSUME NEW call, NEW who, NEW err, Rejected(call, who, err)
    PROVE  WeightStep
  BY NothingWritten DEF Rejected, poolVars, logVars

\* create_pool pays for the pool, the owner entry and the counter.
LEMMA CreatePoolPaid ==
    ASSUME NEW who, NEW v, NEW c, create_pool(who, v, c)
    PROVE  WeightStep
  <1>1. CASE create_pool_error(who, v) # "Ok"
    BY <1>1, RejectedWritesNothing DEF create_pool
  <1>2. CASE create_pool_error(who, v) = "Ok"
    <2> DEFINE new == [owner |-> who, balance |-> v, total_spent |-> 0,
                       created_at |-> block, config |-> c, status |-> "Active"]
    <2>1. /\ pools' = Put(pools, nextPoolId, new)
          /\ poolOwners' = poolOwners \cup {<<who, nextPoolId>>}
          /\ UNCHANGED <<poolAuthorizations, transactionLog, nextTransactionId>>
          /\ last'.call = "create_pool"
      BY <1>2 DEF create_pool, logVars, Returned
    <2>2. PoolWrites \in {0, 1}
      BY <2>1, OneKeyTouched DEF PoolWrites, Put
    <2>3. (poolOwners \ poolOwners') \cup (poolOwners' \ poolOwners) \in SUBSET {<<who, nextPoolId>>}
      BY <2>1
    <2>4. OwnerWrites \in {0, 1}
      BY <2>3, AtMostOne DEF OwnerWrites
    <2>5. LogWrites = 0 /\ RuleWrites = 0 /\ TransactionIdWrites = 0 /\ PoolIdWrites \in {0, 1}
      BY <2>1, Unwritten
    <2>6. weight[last'.call].writes = 3
      BY <2>1 DEF weight, DbWeight
    <2> QED
      BY <2>2, <2>4, <2>5, <2>6, ItemsByMap DEF WeightStep
  <1> QED
    BY <1>1, <1>2

\* The extrinsics that change one pool pay for it.
LEMMA OnePoolPaid ==
    ASSUME NEW who, NEW q, NEW v,
           fund_pool(who, q, v) \/ update_pool_config(who, q, v)
    PROVE  WeightStep
  <1>1. CASE \E call, err : Rejected(call, who, err)
    BY <1>1, RejectedWritesNothing
  <1>2. CASE ~ \E call, err : Rejected(call, who, err)
    <2>1. /\ \E b : pools' = [pools EXCEPT ![q] = b]
          /\ UNCHANGED <<nextPoolId, poolOwners, poolAuthorizations, transactionLog,
                         nextTransactionId>>
          /\ last'.call \in {"fund_pool", "update_pool_config"}
      BY <1>2 DEF fund_pool, update_pool_config, logVars, Returned
    <2>2. PoolWrites \in {0, 1}
      BY <2>1, OneKeyTouched DEF PoolWrites
    <2>3. /\ LogWrites = 0 /\ RuleWrites = 0 /\ OwnerWrites = 0 /\ TransactionIdWrites = 0
          /\ PoolIdWrites = 0
      BY <2>1, Unwritten
    <2>4. weight[last'.call].writes = 1
      BY <2>1 DEF weight, DbWeight
    <2> QED
      BY <2>2, <2>3, <2>4, ItemsByMap DEF WeightStep
  <1> QED
    BY <1>1, <1>2

\* The extrinsics that change one rule pay for it.
LEMMA OneRulePaid ==
    ASSUME NEW who, NEW q, NEW k, NEW d,
           add_authorization_rule(who, q, k, d) \/ remove_authorization_rule(who, q, k)
    PROVE  WeightStep
  <1>1. CASE \E call, err : Rejected(call, who, err)
    BY <1>1, RejectedWritesNothing
  <1>2. CASE ~ \E call, err : Rejected(call, who, err)
    <2>1. /\ \/ poolAuthorizations' = Put(poolAuthorizations, <<q, k>>, d)
             \/ poolAuthorizations' = Drop(poolAuthorizations, <<q, k>>)
          /\ UNCHANGED <<pools, nextPoolId, poolOwners, transactionLog, nextTransactionId>>
          /\ last'.call \in {"add_authorization_rule", "remove_authorization_rule"}
      BY <1>2 DEF add_authorization_rule, remove_authorization_rule, poolVars, logVars, Returned
    <2>2. RuleWrites \in {0, 1}
      BY <2>1, OneKeyTouched DEF RuleWrites, Put, Drop
    <2>3. /\ PoolWrites = 0 /\ LogWrites = 0 /\ OwnerWrites = 0 /\ TransactionIdWrites = 0
          /\ PoolIdWrites = 0
      BY <2>1, Unwritten
    <2>4. weight[last'.call].writes = 1
      BY <2>1 DEF weight, DbWeight
    <2> QED
      BY <2>2, <2>3, <2>4, ItemsByMap DEF WeightStep
  <1> QED
    BY <1>1, <1>2

\* sponsor_transaction pays for the pool, the record and the counter.
LEMMA SponsorPaid ==
    ASSUME Inv, NEW who \in Accounts, NEW q \in Nat, NEW c \in Chains, NEW n \in CallLens,
           sponsor_transaction(who, q, c, n)
    PROVE  WeightStep
  <1>1. CASE UNCHANGED books
    BY <1>1, NothingWritten DEF books
  <1>2. CASE SponsorEffect(who, q, c, n) /\ ~ UNCHANGED books
    <2>1. /\ \E r : transactionLog' = Put(transactionLog, nextTransactionId, r)
          /\ \E b : pools' = Put(pools, q, b)
          /\ UNCHANGED <<nextPoolId, poolOwners, poolAuthorizations>>
      BY <1>2 DEF SponsorEffect
    <2>2. last'.call = "sponsor_transaction"
      BY DEF sponsor_transaction, Rejected, Returned
    <2>3. PoolWrites \in {0, 1}
      BY <2>1, OneKeyTouched DEF PoolWrites, Put
    <2>4. LogWrites \in {0, 1}
      BY <2>1, OneKeyTouched DEF LogWrites, Put
    <2>5. RuleWrites = 0 /\ OwnerWrites = 0 /\ PoolIdWrites = 0 /\ TransactionIdWrites \in {0, 1}
      BY <2>1, Unwritten
    <2>6. weight[last'.call].writes = 3
      BY <2>2 DEF weight, DbWeight
    <2> QED
      BY <2>3, <2>4, <2>5, <2>6, ItemsByMap DEF WeightStep
  <1> QED
    BY <1>1, <1>2, SponsorAllOrNothing

\* Whatever branch an extrinsic takes, it changes no more storage items than
\* its weight charges for (WeightInfo against the extrinsics).
THEOREM WeightsCoverWrites == Spec => WritesArePaid
  <1>1. Inv /\ [Next]_vars => [WeightStep]_vars
    <2> SUFFICES ASSUME Inv, Next PROVE WeightStep
      OBVIOUS
    <2>0. \A q \in PoolIdArgs : q \in Nat
      BY BoundAssumption DEF PoolIdArgs
    <2>1. ASSUME \E who \in Accounts, v \in Amounts, c \in Configs : create_pool(who, v, c)
          PROVE  WeightStep
      BY <2>1, CreatePoolPaid
    <2>2. ASSUME NEW who \in Accounts, NEW q \in PoolIdArgs,
                 \/ \E v \in Amounts : fund_pool(who, q, v)
                 \/ \E c \in Configs : update_pool_config(who, q, c)
          PROVE  WeightStep
      BY <2>2, OnePoolPaid
    <2>3. ASSUME NEW who \in Accounts, NEW q \in PoolIdArgs, NEW k \in AuthorizationTypes,
                 \/ \E d \in RuleData : add_authorization_rule(who, q, k, d)
                 \/ remove_authorization_rule(who, q, k)
          PROVE  WeightStep
      BY <2>3, OneRulePaid
    <2>4. ASSUME NEW who \in Accounts, NEW q \in PoolIdArgs, NEW c \in Chains, NEW n \in CallLens,
                 sponsor_transaction(who, q, c, n)
          PROVE  WeightStep
      BY <2>0, <2>4, SponsorPaid
    <2>5. ASSUME NEW who \in Accounts, NEW r \in Receipts, process_receipt(who, r)
          PROVE  WeightStep
      BY <2>5, NothingWritten, RejectedWritesNothing DEF process_receipt, poolVars, logVars
    <2>6. ASSUME NextBlock \/ \E from, to \in Accounts, v \in Amounts : transfer(from, to, v)
          PROVE  WeightStep
      BY <2>6, NothingWritten DEF NextBlock, transfer, poolVars, logVars
    <2> QED
      BY <2>1, <2>2, <2>3, <2>4, <2>5, <2>6 DEF Next
  <1> QED
    BY <1>1, InvHolds, PTL DEF Spec, WritesArePaid, WeightStep
=============================================================================
