--------------------------- MODULE SponsorshipRpc ---------------------------
(***************************************************************************)
(* The node's sponsorship RPC (pallets/sponsorship/src/rpc.rs) over the    *)
(* runtime API (runtime/src/lib.rs), composed with the pallet: every call  *)
(* is answered from the storage of one block, the one the caller names or  *)
(* the best block at that moment, while blocks keep coming.                *)
(*                                                                         *)
(* A block is its state; its hash is its position in `chain`.  The chain   *)
(* has no forks: it is the finalised one.                                  *)
(***************************************************************************)
EXTENDS Sponsorship, Functions

CONSTANTS
    Limits,                \* limit arguments of getTransactionHistory
    MaxAnswers             \* bound: answers a client keeps

VARIABLES
    chain,                 \* the blocks of the node's client, genesis first
    answers                \* what a client was told, with the block it was read from

rpcVars == <<chain, answers>>

-----------------------------------------------------------------------------
(* Arguments that may be left out.                                         *)

None == 0                  \* an Option that is None; block hashes start at 1

\* at.unwrap_or_else(|| self.client.info().best_hash)
at_or_best(at) == IF at = None THEN Len(chain) ELSE at

\* limit.unwrap_or(50)
NoLimit == -1
ASSUME LimitAssumption == Limits \subseteq Nat \cup {NoLimit}
limit_or_default(limit) == IF limit = NoLimit THEN 50 ELSE limit

-----------------------------------------------------------------------------
(* The runtime API, on the state of one block.                             *)

State == [pools |-> pools, poolOwners |-> poolOwners, transactionLog |-> transactionLog]

runtime_get_pool(state, pool_id) ==
    IF pool_id \in DOMAIN state.pools
    THEN [found |-> TRUE, owner |-> state.pools[pool_id].owner,
          total_spent |-> state.pools[pool_id].total_spent]
    ELSE [found |-> FALSE]

runtime_get_pools_by_owner(state, owner) ==
    get_pools_by_owner_account(state.pools, state.poolOwners, owner)

TotalCost(log, ids) == SumFunctionOnSet([t \in DOMAIN log |-> log[t].gas_cost], ids)

\* The answers the iteration order allows, as number of records and their costs.
runtime_get_transaction_history(state, pool_id, limit) ==
    {[count |-> Cardinality(ids), total |-> TotalCost(state.transactionLog, ids)] :
        ids \in get_pool_transaction_history(state.transactionLog, pool_id, limit)}

runtime_get_user_gas_savings(state, user) ==
    TotalCost(state.transactionLog, SavingsRecords(state.transactionLog, user))

runtime_estimate_gas_cost(target_chain, len) ==
    estimate_transaction_gas_cost(target_chain, len)

-----------------------------------------------------------------------------
(* The RPC methods.  A block the client does not know is an error.         *)

Answered(answer) ==
    /\ Cardinality(answers) < MaxAnswers
    /\ answers' = answers \cup {answer}
    /\ UNCHANGED <<vars, chain>>

InternalError == [method |-> "Something wrong"]

get_pool(pool_id, at) ==
    LET h == at_or_best(at) IN
    \/ h \notin DOMAIN chain /\ Answered(InternalError)
    \/ /\ h \in DOMAIN chain
       /\ Answered([method |-> "getPool", at |-> h, pool_id |-> pool_id,
                    result |-> runtime_get_pool(chain[h], pool_id)])

get_pools_by_owner(owner, at) ==
    LET h == at_or_best(at) IN
    \/ h \notin DOMAIN chain /\ Answered(InternalError)
    \/ /\ h \in DOMAIN chain
       /\ Answered([method |-> "getPoolsByOwner", at |-> h, owner |-> owner,
                    result |-> runtime_get_pools_by_owner(chain[h], owner)])

\* Mutant: the history is read from the best block whatever block is named.
get_transaction_history_best(pool_id, limit, at) ==
    LET h == at_or_best(at) IN
    /\ h \in DOMAIN chain
    /\ \E result \in runtime_get_transaction_history(chain[Len(chain)], pool_id,
                                                     limit_or_default(limit)) :
          Answered([method |-> "getTransactionHistory", at |-> h, pool_id |-> pool_id,
                    limit |-> limit_or_default(limit), result |-> result])

get_transaction_history(pool_id, limit, at) ==
    LET h == at_or_best(at) IN
    \/ h \notin DOMAIN chain /\ Answered(InternalError)
    \/ /\ h \in DOMAIN chain
       /\ \E result \in runtime_get_transaction_history(chain[h], pool_id,
                                                        limit_or_default(limit)) :
             Answered([method |-> "getTransactionHistory", at |-> h, pool_id |-> pool_id,
                       limit |-> limit_or_default(limit), result |-> result])

get_user_gas_savings(user, at) ==
    LET h == at_or_best(at) IN
    \/ h \notin DOMAIN chain /\ Answered(InternalError)
    \/ /\ h \in DOMAIN chain
       /\ Answered([method |-> "getUserGasSavings", user |-> user,
                    result |-> runtime_get_user_gas_savings(chain[h], user)])

estimate_gas_cost(target_chain, len, at) ==
    LET h == at_or_best(at) IN
    \/ h \notin DOMAIN chain /\ Answered(InternalError)
    \/ /\ h \in DOMAIN chain
       /\ Answered([method |-> "estimateGasCost", target_chain |-> target_chain, len |-> len,
                    result |-> runtime_estimate_gas_cost(target_chain, len)])

-----------------------------------------------------------------------------
RpcInit == Init /\ chain = <<State>> /\ answers = {}

\* The pallet runs; a block that ends is appended with its state.
Chain ==
    /\ Next
    /\ chain' = IF block' = block THEN chain ELSE Append(chain, State)
    /\ UNCHANGED answers

\* Block arguments: none given, a block of the chain, or the next one.
Ats == 0 .. Len(chain) + 1

RpcNext ==
    \/ Chain
    \/ \E p \in PoolIdArgs, at \in Ats : get_pool(p, at)
    \/ \E a \in Accounts, at \in Ats : get_pools_by_owner(a, at)
    \/ \E p \in PoolIdArgs, limit \in Limits, at \in Ats : get_transaction_history(p, limit, at)
    \/ \E a \in Accounts, at \in Ats : get_user_gas_savings(a, at)
    \/ \E c \in Chains, n \in CallLens, at \in Ats : estimate_gas_cost(c, n, at)

RpcSpec == RpcInit /\ [][RpcNext]_<<vars, rpcVars>>
=============================================================================
