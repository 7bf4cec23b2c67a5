------------------------ MODULE SponsorshipRpcProofs ------------------------
(***************************************************************************)
(* Machine-checked proofs of what a client may conclude from RPC answers,  *)
(* for any chain, any number of answers and any limits.  Blocks only ever  *)
(* add pools and records, so answers from different blocks are compared by *)
(* comparing the states they were read from.                               *)
(***************************************************************************)
EXTENDS SponsorshipRpcProps, SponsorshipLedger

USE BalanceWidth

-----------------------------------------------------------------------------
(* The states of blocks.                                                   *)

RecordsIn(s, p) == {t \in DOMAIN s.transactionLog : s.transactionLog[t].pool_id = p}

\* A block's storage answers consistently: the owner index is exact, and the
\* records of a pool add up to its spending.
Consistent(s) ==
    /\ \A a \in Accounts :
         runtime_get_pools_by_owner(s, a) = {p \in DOMAIN s.pools : s.pools[p].owner = a}
    /\ \A p \in DOMAIN s.pools :
         s.pools[p].total_spent = TotalCost(s.transactionLog, RecordsIn(s, p))
    /\ IsFiniteSet(DOMAIN s.transactionLog)
    /\ \A t \in DOMAIN s.transactionLog : s.transactionLog[t].gas_cost \in Nat

\* Everything a state has is still there in a later one.
Precedes(s, u) ==
    /\ DOMAIN s.pools \subseteq DOMAIN u.pools
    /\ \A p \in DOMAIN s.pools : u.pools[p].owner = s.pools[p].owner
    /\ DOMAIN s.transactionLog \subseteq DOMAIN u.transactionLog
    /\ \A t \in DOMAIN s.transactionLog :
         /\ u.transactionLog[t].pool_id = s.transactionLog[t].pool_id
         /\ u.transactionLog[t].gas_cost = s.transactionLog[t].gas_cost

ChainGrows ==
    /\ \A h \in DOMAIN chain : Consistent(chain[h]) /\ Precedes(chain[h], State)
    /\ \A h, k \in DOMAIN chain : h <= k => Precedes(chain[h], chain[k])

\* An answer is what the runtime says at the block it was read from.
TrueAnswer(a) ==
    /\ a.method = "getPool" =>
         a.at \in DOMAIN chain /\ a.result = runtime_get_pool(chain[a.at], a.pool_id)
    /\ a.method = "getPoolsByOwner" =>
         /\ a.at \in DOMAIN chain /\ a.owner \in Accounts
         /\ a.result = runtime_get_pools_by_owner(chain[a.at], a.owner)
    /\ a.method = "getTransactionHistory" =>
         /\ a.at \in DOMAIN chain /\ a.limit \in Nat
         /\ a.result \in runtime_get_transaction_history(chain[a.at], a.pool_id, a.limit)
    /\ a.method = "estimateGasCost" =>
         /\ a.len \in CallLens
         /\ a.result = estimate_transaction_gas_cost(a.target_chain, a.len)

AnswersTrue == \A a \in answers : TrueAnswer(a)

\* A record's cost is the estimate for its chain and call.
CostsQuoted ==
    \A t \in DOMAIN transactionLog : \A n \in CallLens :
        transactionLog[t].call_hash = Hash(n) =>
            transactionLog[t].gas_cost =
                estimate_transaction_gas_cost(transactionLog[t].target_chain, n)

\* The inductive invariant.
RpcInv == /\ SumsInv /\ CostsQuoted
          /\ \E S : chain \in Seq(S)
          /\ ChainGrows /\ AnswersTrue

-----------------------------------------------------------------------------
(* A step of the pallet only adds to the state.                            *)

\* The order of states is transitive.
LEMMA PrecedesTransitive ==
    ASSUME NEW s, NEW u, NEW v, Precedes(s, u), Precedes(u, v)
    PROVE  Precedes(s, v)
  BY DEF Precedes

\* The pallet's storage is consistent.
LEMMA StorageConsistent == SumsInv => Consistent(State)
  <1> SUFFICES ASSUME SumsInv PROVE Consistent(State)
    OBVIOUS
  <1>1. State.pools = pools /\ State.poolOwners = poolOwners /\ State.transactionLog = transactionLog
    BY DEF State
  <1>2. \A a \in Accounts :
           runtime_get_pools_by_owner(State, a) = {p \in DOMAIN State.pools : State.pools[p].owner = a}
    BY <1>1 DEF runtime_get_pools_by_owner, SumsInv, Inv, OwnerIndexExact
  <1>3. \A p \in DOMAIN State.pools :
           State.pools[p].total_spent = TotalCost(State.transactionLog, RecordsIn(State, p))
    BY <1>1 DEF TotalCost, RecordsIn, SumsInv, SpendingLogged, RecordsOf, GasCost
  <1>4. IsFiniteSet(DOMAIN State.transactionLog)
    BY <1>1, FS_Interval DEF SumsInv, Inv, TypeOK, IdsAreFresh
  <1>5. \A t \in DOMAIN State.transactionLog : State.transactionLog[t].gas_cost \in Nat
    BY <1>1 DEF SumsInv, Inv, TypeOK, TransactionRecords, Balances
  <1> QED
    BY <1>2, <1>3, <1>4, <1>5 DEF Consistent

\* Pools and records are never removed, and keep owner, pool and cost.
LEMMA StorageGrows ==
    ASSUME Inv, [Next]_vars
    PROVE  Precedes(State, State')
  <1>1. /\ State.pools = pools /\ State.transactionLog = transactionLog
        /\ State'.pools = pools' /\ State'.transactionLog = transactionLog'
    BY DEF State
  <1>2. Summable /\ Summable'
    BY NextInv, SumsAreDefined, SumsStayDefined
  <1>3. ASSUME DOMAIN pools \subseteq DOMAIN pools',
               \A p \in DOMAIN pools : escrowOf(p)'.owner = escrowOf(p).owner,
               DOMAIN transactionLog \subseteq DOMAIN transactionLog',
               \A t \in DOMAIN transactionLog : paymentOf(t)' = paymentOf(t)
        PROVE  Precedes(State, State')
    <2>1. \A p \in DOMAIN pools : pools'[p].owner = pools[p].owner
      BY <1>2, <1>3 DEF Summable
    <2>2. \A t \in DOMAIN transactionLog :
             /\ transactionLog'[t].pool_id = transactionLog[t].pool_id
             /\ transactionLog'[t].gas_cost = transactionLog[t].gas_cost
      BY <1>3 DEF paymentOf
    <2> QED
      BY <1>1, <1>3, <2>1, <2>2 DEF Precedes
  <1>4. ASSUME NEW e \in PoolIdArgs, NEW o \in Accounts, NEW v \in Nat, Opened(e, o, v)
        PROVE  Precedes(State, State')
    BY <1>3, <1>4 DEF Opened, LogKept
  <1>5. ASSUME NEW e \in PoolIdArgs, NEW v \in Nat, Deposited(e, v)
        PROVE  Precedes(State, State')
    <2>1. \A p \in DOMAIN pools : escrowOf(p)'.owner = escrowOf(p).owner
      BY <1>5 DEF Deposited, escrowOf
    <2> QED
      BY <1>3, <1>5, <2>1 DEF Deposited, LogKept
  <1>6. ASSUME NEW i \in Nat, NEW e \in PoolIdArgs, NEW v \in Nat, Paid(i, e, v)
        PROVE  Precedes(State, State')
    <2>1. \A p \in DOMAIN pools : escrowOf(p)'.owner = escrowOf(p).owner
      BY <1>6 DEF Paid, escrowOf
    <2> QED
      BY <1>3, <1>6, <2>1 DEF Paid
  <1>7. CASE Kept
    BY <1>3, <1>7 DEF Kept, LogKept
  <1> QED
    BY <1>4, <1>5, <1>6, <1>7, MoneySteps

\* The log changes by sponsored transactions only.
LEMMA LogSteps ==
    ASSUME Inv, [Next]_vars
    PROVE  \/ UNCHANGED transactionLog
           \/ \E who \in Accounts, q \in Nat, c \in Chains, n \in CallLens : SponsorEffect(who, q, c, n)
  <1>0. \A q \in PoolIdArgs : q \in Nat
    BY BoundAssumption DEF PoolIdArgs
  <1>1. ASSUME NEW who \in Accounts, NEW q \in PoolIdArgs, NEW c \in Chains, NEW n \in CallLens,
               sponsor_transaction(who, q, c, n)
        PROVE  SponsorEffect(who, q, c, n) \/ UNCHANGED transactionLog
    BY <1>0, <1>1, SponsorAllOrNothing DEF books
  <1>2. ASSUME \E who \in Accounts, v \in Amounts, c \in Configs : create_pool(who, v, c)
        PROVE  UNCHANGED transactionLog
    BY <1>2 DEF create_pool, Rejected, logVars
  <1>3. ASSUME \E who \in Accounts, q \in PoolIdArgs, v \in Amounts : fund_pool(who, q, v)
        PROVE  UNCHANGED transactionLog
    BY <1>3 DEF fund_pool, Rejected, logVars
  <1>4. ASSUME NEW who \in Accounts, NEW q \in PoolIdArgs,
               \/ \E c \in Configs : update_pool_config(who, q, c)
               \/ \E k \in AuthorizationTypes, d \in RuleData : add_authorization_rule(who, q, k, d)
               \/ \E k \in AuthorizationTypes : remove_authorization_rule(who, q, k)
        PROVE  UNCHANGED transactionLog
    BY <1>4 DEF update_pool_config, add_authorization_rule, remove_authorization_rule,
                Rejected, logVars
  <1>5. ASSUME \E who \in Accounts, r \in Receipts : process_receipt(who, r)
        PROVE  UNCHANGED transactionLog
    BY <1>5 DEF process_receipt, Rejected, logVars
  <1>6. ASSUME NextBlock \/ \E from, to \in Accounts, v \in Amounts : transfer(from, to, v)
        PROVE  UNCHANGED transactionLog
    BY <1>6 DEF NextBlock, transfer, logVars
  <1> QED
    BY <1>0, <1>1, <1>2, <1>3, <1>4, <1>5, <1>6 DEF Next, vars

\* What is charged is what is quoted for the same call.
LEMMA CostsStayQuoted ==
    ASSUME Inv, CostsQuoted, [Next]_vars
    PROVE  CostsQuoted'
  <1>1. CASE UNCHANGED transactionLog
    BY <1>1 DEF CostsQuoted
  <1>2. ASSUME NEW who \in Accounts, NEW q \in Nat, NEW c \in Chains, NEW m \in CallLens,
               SponsorEffect(who, q, c, m)
        PROVE  CostsQuoted'
    <2> DEFINE id == nextTransactionId
               cost == estimate_fee(c, m)
    <2> SUFFICES ASSUME NEW t \in DOMAIN transactionLog', NEW n \in CallLens,
                        transactionLog'[t].call_hash = Hash(n)
                 PROVE  transactionLog'[t].gas_cost =
                           estimate_transaction_gas_cost(transactionLog'[t].target_chain, n)
      BY DEF CostsQuoted
    <2>1. /\ FeeKnown(c)
          /\ transactionLog' = Put(transactionLog, id,
              [pool_id |-> q, user |-> who, target_chain |-> c, call_hash |-> Hash(m),
               gas_cost |-> cost, status |-> "Pending", timestamp |-> block])
      BY <1>2 DEF SponsorEffect
    <2>2. CASE t = id
      <3>1. /\ transactionLog'[t].call_hash = Hash(m) /\ transactionLog'[t].gas_cost = cost
            /\ transactionLog'[t].target_chain = c
        BY <2>1, <2>2 DEF Put
      <3>2. m = n
        BY <3>1 DEF Hash
      <3> QED
        BY <2>1, <3>1, <3>2 DEF estimate_transaction_gas_cost
    <2>3. CASE t # id
      BY <2>1, <2>3 DEF Put, CostsQuoted
    <2> QED
      BY <2>2, <2>3
  <1> QED
    BY <1>1, <1>2, LogSteps

-----------------------------------------------------------------------------
(* The invariant.                                                          *)

\* A chain that keeps its blocks keeps the answers true.
LEMMA AnswersKept ==
    ASSUME AnswersTrue, UNCHANGED answers, DOMAIN chain \subseteq DOMAIN chain',
           \A h \in DOMAIN chain : chain'[h] = chain[h]
    PROVE  AnswersTrue'
  <1> SUFFICES ASSUME NEW a \in answers PROVE TrueAnswer(a)'
    BY DEF AnswersTrue
  <1>1. TrueAnswer(a)
    BY DEF AnswersTrue
  <1>2. a.at \in DOMAIN chain => a.at \in DOMAIN chain' /\ chain'[a.at] = chain[a.at]
    OBVIOUS
  <1> QED
    BY <1>1, <1>2 DEF TrueAnswer

\* The pallet runs, and may end a block.
LEMMA ChainKeeps ==
    ASSUME RpcInv, Chain
    PROVE  RpcInv'
  <1>1. SumsInv' /\ CostsQuoted'
    BY SumsStep, CostsStayQuoted DEF RpcInv, SumsInv, Chain
  <1>2. Precedes(State, State') /\ Consistent(State)
    BY StorageGrows, StorageConsistent DEF RpcInv, SumsInv, Chain
  <1>3. PICK S : chain \in Seq(S)
    BY DEF RpcInv
  <1>4. \A h \in DOMAIN chain : /\ Consistent(chain[h]) /\ Precedes(chain[h], State)
                                /\ Precedes(chain[h], State')
    BY <1>2, PrecedesTransitive DEF RpcInv, ChainGrows
  <1>5. CASE chain' = chain
    <2>1. ChainGrows'
      BY <1>4, <1>5 DEF RpcInv, ChainGrows
    <2>2. AnswersTrue'
      BY <1>5, AnswersKept DEF RpcInv, Chain
    <2> QED
      BY <1>1, <1>3, <1>5, <2>1, <2>2 DEF RpcInv
  <1>6. CASE chain' = Append(chain, State)
    <2> DEFINE n == Len(chain)
               T == S \cup {State}
    <2>1. /\ chain' \in Seq(T)
          /\ n \in Nat /\ DOMAIN chain = 1 .. n /\ DOMAIN chain' = 1 .. n + 1
          /\ \A h \in 1 .. n : chain'[h] = chain[h]
          /\ chain'[n + 1] = State
      BY <1>3, <1>6
    <2>2. Precedes(State, State)
      BY DEF Precedes
    <2>3. \A h \in DOMAIN chain' : Consistent(chain'[h]) /\ Precedes(chain'[h], State')
      <3> SUFFICES ASSUME NEW h \in 1 .. n + 1
                   PROVE  Consistent(chain'[h]) /\ Precedes(chain'[h], State')
        BY <2>1
      <3>1. CASE h = n + 1
        BY <1>2, <2>1, <3>1
      <3>2. CASE h \in 1 .. n
        BY <1>4, <2>1, <3>2
      <3> QED
        BY <2>1, <3>1, <3>2
    <2>4. ASSUME NEW h \in DOMAIN chain', NEW k \in DOMAIN chain', h <= k
          PROVE  Precedes(chain'[h], chain'[k])
      <3>1. h \in 1 .. n + 1 /\ k \in 1 .. n + 1
        BY <2>1
      <3>2. CASE k \in 1 .. n
        <4>1. h \in 1 .. n
          BY <2>1, <2>4, <3>1, <3>2
        <4> QED
          BY <2>1, <2>4, <3>2, <4>1 DEF RpcInv, ChainGrows
      <3>3. CASE k = n + 1 /\ h \in 1 .. n
        BY <1>4, <2>1, <3>3
      <3>4. CASE k = n + 1 /\ h = n + 1
        BY <2>1, <2>2, <3>4
      <3> QED
        BY <2>1, <3>1, <3>2, <3>3, <3>4
    <2>5. ChainGrows'
      BY <2>3, <2>4 DEF ChainGrows
    <2>6. DOMAIN chain \subseteq DOMAIN chain' /\ \A h \in DOMAIN chain : chain'[h] = chain[h]
      BY <2>1
    <2>7. AnswersTrue'
      BY <2>6, AnswersKept DEF RpcInv, Chain
    <2>8. \E R : chain' \in Seq(R)
      BY <2>1
    <2> QED
      BY <1>1, <2>5, <2>7, <2>8 DEF RpcInv
  <1> QED
    BY <1>5, <1>6 DEF Chain

\* What the books and the chain say does not depend on the answers.
LEMMA StorageKept ==
    ASSUME RpcInv, UNCHANGED <<vars, chain>>, AnswersTrue'
    PROVE  RpcInv'
  <1>1. [Next]_vars /\ State' = State
    BY DEF vars, State
  <1>2. SumsInv' /\ CostsQuoted'
    BY <1>1, SumsStep, CostsStayQuoted DEF RpcInv, SumsInv
  <1>3. ChainGrows'
    BY <1>1 DEF RpcInv, ChainGrows
  <1> QED
    BY <1>2, <1>3 DEF RpcInv

\* A true answer is added to the answers.
LEMMA AnsweredKeeps ==
    ASSUME RpcInv, NEW a, Answered(a), TrueAnswer(a)
    PROVE  RpcInv'
  <1>1. answers' = answers \cup {a} /\ UNCHANGED <<vars, chain>>
    BY DEF Answered
  <1>2. \A b \in answers \cup {a} : TrueAnswer(b)
    BY DEF RpcInv, AnswersTrue
  <1>3. \A b \in answers \cup {a} : TrueAnswer(b)'
    BY <1>1, <1>2 DEF TrueAnswer
  <1>4. AnswersTrue'
    BY <1>1, <1>3 DEF AnswersTrue
  <1> QED
    BY <1>1, <1>4, StorageKept

\* Every method answers what the runtime says, or an error.
LEMMA MethodsAnswerTruly ==
    ASSUME RpcInv, RpcNext, ~ Chain
    PROVE  \E a : Answered(a) /\ TrueAnswer(a)
  <1>1. TrueAnswer(InternalError)
    BY DEF TrueAnswer, InternalError
  <1>2. ASSUME NEW p \in PoolIdArgs, NEW at \in Ats, get_pool(p, at)
        PROVE  \E a : Answered(a) /\ TrueAnswer(a)
    <2> DEFINE h == at_or_best(at)
               a == [method |-> "getPool", at |-> h, pool_id |-> p,
                     result |-> runtime_get_pool(chain[h], p)]
    <2>1. Answered(InternalError) \/ (h \in DOMAIN chain /\ Answered(a))
      BY <1>2 DEF get_pool
    <2>2. h \in DOMAIN chain => TrueAnswer(a)
      BY DEF TrueAnswer
    <2> QED
      BY <1>1, <2>1, <2>2
  <1>3. ASSUME NEW o \in Accounts, NEW at \in Ats, get_pools_by_owner(o, at)
        PROVE  \E a : Answered(a) /\ TrueAnswer(a)
    <2> DEFINE h == at_or_best(at)
               a == [method |-> "getPoolsByOwner", at |-> h, owner |-> o,
                     result |-> runtime_get_pools_by_owner(chain[h], o)]
    <2>1. Answered(InternalError) \/ (h \in DOMAIN chain /\ Answered(a))
      BY <1>3 DEF get_pools_by_owner
    <2>2. h \in DOMAIN chain => TrueAnswer(a)
      BY DEF TrueAnswer
    <2> QED
      BY <1>1, <2>1, <2>2
  <1>4. ASSUME NEW p \in PoolIdArgs, NEW limit \in Limits, NEW at \in Ats,
               get_transaction_history(p, limit, at)
        PROVE  \E a : Answered(a) /\ TrueAnswer(a)
    <2> DEFINE h == at_or_best(at)
               most == limit_or_default(limit)
               a(r) == [method |-> "getTransactionHistory", at |-> h, pool_id |-> p,
                        limit |-> most, result |-> r]
    <2>1. \/ Answered(InternalError)
          \/ /\ h \in DOMAIN chain
             /\ \E r \in runtime_get_transaction_history(chain[h], p, most) : Answered(a(r))
      BY <1>4 DEF get_transaction_history
    <2>2. most \in Nat
      BY LimitAssumption DEF limit_or_default, NoLimit
    <2>3. ASSUME h \in DOMAIN chain, NEW r \in runtime_get_transaction_history(chain[h], p, most)
          PROVE  TrueAnswer(a(r))
      <3> HIDE DEF h, most
      <3> QED
        BY <2>2, <2>3 DEF TrueAnswer
    <2> QED
      BY <1>1, <2>1, <2>3
  <1>5. ASSUME NEW u \in Accounts, NEW at \in Ats, get_user_gas_savings(u, at)
        PROVE  \E a : Answered(a) /\ TrueAnswer(a)
    <2> DEFINE a == [method |-> "getUserGasSavings", user |-> u,
                     result |-> runtime_get_user_gas_savings(chain[at_or_best(at)], u)]
    <2>1. Answered(InternalError) \/ Answered(a)
      BY <1>5 DEF get_user_gas_savings
    <2>2. TrueAnswer(a)
      BY DEF TrueAnswer
    <2> QED
      BY <1>1, <2>1, <2>2
  <1>6. ASSUME NEW c \in Chains, NEW n \in CallLens, NEW at \in Ats, estimate_gas_cost(c, n, at)
        PROVE  \E a : Answered(a) /\ TrueAnswer(a)
    <2> DEFINE a == [method |-> "estimateGasCost", target_chain |-> c, len |-> n,
                     result |-> runtime_estimate_gas_cost(c, n)]
    <2>1. Answered(InternalError) \/ Answered(a)
      BY <1>6 DEF estimate_gas_cost
    <2>2. TrueAnswer(a)
      BY DEF TrueAnswer, runtime_estimate_gas_cost
    <2> QED
      BY <1>1, <2>1, <2>2
  <1> QED
    BY <1>2, <1>3, <1>4, <1>5, <1>6 DEF RpcNext

\* The genesis block and no answers.
LEMMA RpcInitially == RpcInit => RpcInv
  <1> SUFFICES ASSUME RpcInit PROVE RpcInv
    OBVIOUS
  <1>1. SumsInv /\ Consistent(State)
    BY SumsInit, StorageConsistent DEF RpcInit
  <1>2. chain \in Seq({State}) /\ DOMAIN chain = {1} /\ chain[1] = State
    BY DEF RpcInit
  <1>3. Precedes(State, State)
    BY DEF Precedes
  <1>4. ChainGrows
    BY <1>1, <1>2, <1>3 DEF ChainGrows
  <1>5. CostsQuoted /\ AnswersTrue
    BY DEF RpcInit, Init, EmptyMap, CostsQuoted, AnswersTrue
  <1> QED
    BY <1>1, <1>2, <1>4, <1>5 DEF RpcInv

\* The invariant holds while blocks are made and questions answered.
THEOREM RpcInvHolds == RpcSpec => []RpcInv
  <1>1. RpcInv /\ [RpcNext]_<<vars, rpcVars>> => RpcInv'
    <2> SUFFICES ASSUME RpcInv, [RpcNext]_<<vars, rpcVars>> PROVE RpcInv'
      OBVIOUS
    <2>1. CASE Chain
      BY <2>1, ChainKeeps
    <2>2. CASE RpcNext /\ ~ Chain
      BY <2>2, MethodsAnswerTruly, AnsweredKeeps
    <2>3. CASE UNCHANGED <<vars, rpcVars>>
      <3>1. UNCHANGED <<vars, chain>> /\ UNCHANGED answers
        BY <2>3 DEF rpcVars
      <3>2. AnswersTrue'
        BY <3>1, AnswersKept DEF RpcInv
      <3> QED
        BY <3>1, <3>2, StorageKept
    <2> QED
      BY <2>1, <2>2, <2>3
  <1> QED
    BY <1>1, RpcInitially, PTL DEF RpcSpec

-----------------------------------------------------------------------------
(* What a client may conclude.                                             *)

\* The costs of a block's records as a function, and what sums over them are.
LEMMA CostsOfBlock ==
    ASSUME NEW s, Consistent(s), NEW p
    PROVE  LET cost == [t \in DOMAIN s.transactionLog |-> s.transactionLog[t].gas_cost] IN
           /\ IsFiniteSet(RecordsIn(s, p)) /\ \A t \in RecordsIn(s, p) : cost[t] \in Nat
           /\ \A S : TotalCost(s.transactionLog, S) = SumFunctionOnSet(cost, S)
  <1>1. RecordsIn(s, p) \in SUBSET DOMAIN s.transactionLog
    BY DEF RecordsIn
  <1>2. IsFiniteSet(RecordsIn(s, p))
    BY <1>1, FS_Subset DEF Consistent
  <1> QED
    BY <1>1, <1>2 DEF Consistent, TotalCost

\* Of two consistent blocks the later one has all costs of the earlier one.
LEMMA SpendingGrows ==
    ASSUME NEW s, NEW u, Consistent(s), Consistent(u), Precedes(s, u), NEW p
    PROVE  TotalCost(s.transactionLog, RecordsIn(s, p)) <= TotalCost(u.transactionLog, RecordsIn(u, p))
  <1> DEFINE A == RecordsIn(s, p)
             B == RecordsIn(u, p)
             f == [t \in DOMAIN s.transactionLog |-> s.transactionLog[t].gas_cost]
             g == [t \in DOMAIN u.transactionLog |-> u.transactionLog[t].gas_cost]
  <1>1. /\ IsFiniteSet(A) /\ IsFiniteSet(B) /\ \A t \in B : g[t] \in Nat
        /\ TotalCost(s.transactionLog, A) = SumFunctionOnSet(f, A)
        /\ TotalCost(u.transactionLog, B) = SumFunctionOnSet(g, B)
    BY CostsOfBlock
  <1>2. A \in SUBSET B /\ \A t \in A : f[t] = g[t]
    BY DEF RecordsIn, Precedes
  <1> HIDE DEF A, B, f, g
  <1>3. SumFunctionOnSet(f, A) = SumFunctionOnSet(g, A)
    BY <1>1, <1>2, SumSame
  <1>4. SumFunctionOnSet(g, A) <= SumFunctionOnSet(g, B)
    BY <1>1, <1>2, SumPart
  <1> QED
    BY <1>1, <1>3, <1>4 DEF A, B

\* A history never exceeds the pool's costs, and one shorter than its limit
\* has them all.
LEMMA HistoryOfBlock ==
    ASSUME NEW s, Consistent(s), NEW p, NEW limit \in Nat,
           NEW r \in runtime_get_transaction_history(s, p, limit)
    PROVE  /\ r.total \in Nat
           /\ r.total <= TotalCost(s.transactionLog, RecordsIn(s, p))
           /\ r.count < limit => r.total = TotalCost(s.transactionLog, RecordsIn(s, p))
  <1> DEFINE all == RecordsIn(s, p)
             f == [t \in DOMAIN s.transactionLog |-> s.transactionLog[t].gas_cost]
             stop == IF limit = 0 THEN 1 ELSE limit
  <1>1. PICK ids \in SUBSET all :
           /\ Cardinality(ids) = IF Cardinality(all) < stop THEN Cardinality(all) ELSE stop
           /\ r = [count |-> Cardinality(ids), total |-> TotalCost(s.transactionLog, ids)]
    BY DEF runtime_get_transaction_history, get_pool_transaction_history, RecordsIn
  <1>2. /\ IsFiniteSet(all) /\ \A t \in all : f[t] \in Nat
        /\ \A S : TotalCost(s.transactionLog, S) = SumFunctionOnSet(f, S)
    BY CostsOfBlock
  <1>3. r.total = SumFunctionOnSet(f, ids) /\ r.count = Cardinality(ids)
    BY <1>1, <1>2
  <1> HIDE DEF all, f
  <1>4. IsFiniteSet(ids) /\ Cardinality(all) \in Nat
    BY <1>2, FS_Subset, FS_CardinalityType
  <1>5. SumFunctionOnSet(f, ids) \in Nat
    BY <1>2, <1>4, SumType
  <1>6. SumFunctionOnSet(f, ids) <= SumFunctionOnSet(f, all)
    BY <1>2, SumPart
  <1>7. ASSUME r.count < limit PROVE ids = all
    <2>1. Cardinality(ids) = Cardinality(all)
      BY <1>1, <1>3, <1>4, <1>7
    <2> QED
      BY <1>2, <2>1, FS_Subset
  <1> QED
    BY <1>2, <1>3, <1>5, <1>6, <1>7 DEF all

\* What a pool has spent and what its history adds up to explain each other,
\* whatever blocks, limits and iteration orders they come from (getPool against
\* getTransactionHistory).
THEOREM HistoriesExplain == RpcSpec => []HistoryExplainsSpending
  <1>1. RpcInv => HistoryExplainsSpending
    <2> SUFFICES ASSUME RpcInv, NEW p \in AnswersOf("getPool"),
                        NEW h \in AnswersOf("getTransactionHistory"),
                        p.pool_id = h.pool_id, p.result.found
                 PROVE  /\ h.at >= p.at /\ Complete(h) => h.result.total >= p.result.total_spent
                        /\ h.at <= p.at => h.result.total <= p.result.total_spent
      BY DEF HistoryExplainsSpending
    <2> DEFINE s == chain[p.at]
               u == chain[h.at]
               id == p.pool_id
               Costs(x) == TotalCost(x.transactionLog, RecordsIn(x, id))
    <2>1. /\ p.at \in DOMAIN chain /\ p.result = runtime_get_pool(s, id)
          /\ h.at \in DOMAIN chain /\ h.limit \in Nat
          /\ h.result \in runtime_get_transaction_history(u, id, h.limit)
      BY DEF AnswersOf, RpcInv, AnswersTrue, TrueAnswer
    <2>2. /\ Consistent(s) /\ Consistent(u)
          /\ p.at <= h.at => Precedes(s, u)
          /\ h.at <= p.at => Precedes(u, s)
      BY <2>1 DEF RpcInv, ChainGrows
    <2>3. id \in DOMAIN s.pools /\ p.result.total_spent = s.pools[id].total_spent
      BY <2>1 DEF runtime_get_pool
    <2>4. p.result.total_spent = Costs(s)
      BY <2>2, <2>3 DEF Consistent
    <2>5. /\ h.result.total \in Nat /\ h.result.total <= Costs(u)
          /\ h.result.count < h.limit => h.result.total = Costs(u)
      BY <2>1, <2>2, HistoryOfBlock
    <2>6. Costs(s) \in Nat /\ Costs(u) \in Nat
      BY <2>2, CostsOfBlock, SumType
    <2>7. /\ p.at <= h.at => Costs(s) <= Costs(u)
          /\ h.at <= p.at => Costs(u) <= Costs(s)
      BY <2>2, SpendingGrows
    <2>8. p.at \in Int /\ h.at \in Int
      BY <2>1 DEF RpcInv
    <2> HIDE DEF s, u, id, Costs
    <2> QED
      BY <2>4, <2>5, <2>6, <2>7, <2>8 DEF Complete
  <1> QED
    BY <1>1, RpcInvHolds, PTL

\* The owner index and the pools never contradict each other, at the same or at
\* different blocks (getPoolsByOwner against getPool).
THEOREM ListingsAgree == RpcSpec => []ListedPoolsAreFound
  <1>1. RpcInv => ListedPoolsAreFound
    <2> SUFFICES ASSUME RpcInv, NEW l \in AnswersOf("getPoolsByOwner"), NEW p \in AnswersOf("getPool")
                 PROVE  /\ p.pool_id \in l.result /\ p.at >= l.at
                              => p.result.found /\ p.result.owner = l.owner
                        /\ p.result.found /\ l.at >= p.at
                              => (p.pool_id \in l.result <=> p.result.owner = l.owner)
      BY DEF ListedPoolsAreFound
    <2> DEFINE s == chain[p.at]
               u == chain[l.at]
               id == p.pool_id
    <2>1. /\ p.at \in DOMAIN chain /\ p.result = runtime_get_pool(s, id)
          /\ l.at \in DOMAIN chain /\ l.owner \in Accounts
          /\ l.result = runtime_get_pools_by_owner(u, l.owner)
      BY DEF AnswersOf, RpcInv, AnswersTrue, TrueAnswer
    <2>2. /\ Consistent(u)
          /\ p.at <= l.at => Precedes(s, u)
          /\ l.at <= p.at => Precedes(u, s)
      BY <2>1 DEF RpcInv, ChainGrows
    <2>3. l.result = {q \in DOMAIN u.pools : u.pools[q].owner = l.owner}
      BY <2>1, <2>2 DEF Consistent
    <2>4. /\ id \in DOMAIN s.pools => p.result.found /\ p.result.owner = s.pools[id].owner
          /\ id \notin DOMAIN s.pools => ~ p.result.found
      BY <2>1 DEF runtime_get_pool
    <2>5. p.at \in Int /\ l.at \in Int
      BY <2>1 DEF RpcInv
    <2>6. (p.at >= l.at <=> l.at <= p.at) /\ (l.at >= p.at <=> p.at <= l.at)
      BY <2>5
    <2> QED
      BY <2>2, <2>3, <2>4, <2>6 DEF Precedes
  <1> QED
    BY <1>1, RpcInvHolds, PTL

\* A quote is what the pool will be charged, for every chain and size that can
\* be sponsored (estimate_gas_cost against sponsor_transaction).
THEOREM QuotesAreCharged == RpcSpec => []QuoteIsCharged
  <1>1. RpcInv => QuoteIsCharged
    BY DEF RpcInv, AnswersTrue, TrueAnswer, AnswersOf, CostsQuoted, QuoteIsCharged
  <1> QED
    BY <1>1, RpcInvHolds, PTL
=============================================================================
