------------------------ MODULE SponsorshipRpcProps ------------------------
(***************************************************************************)
(* What a client may conclude from several RPC answers, read from the same *)
(* or from different blocks while transactions keep being sponsored.       *)
(***************************************************************************)
EXTENDS SponsorshipRpc, TLC

CONSTANTS a1, a2

AnswersOf(method) == {a \in answers : a.method = method}

\* A history that was not cut off by its limit.
Complete(h) == h.result.count < h.limit

\* The spending of a pool and its history explain each other even when they
\* come from two calls: a complete history of the same or a later block covers
\* what was spent, and no history of the same or an earlier block, complete or
\* cut off by its limit, exceeds it (getPool against getTransactionHistory).
HistoryExplainsSpending ==
    \A p \in AnswersOf("getPool"), h \in AnswersOf("getTransactionHistory") :
        p.pool_id = h.pool_id /\ p.result.found =>
          /\ h.at >= p.at /\ Complete(h) => h.result.total >= p.result.total_spent
          /\ h.at <= p.at => h.result.total <= p.result.total_spent

\* A pool listed for an owner is found, with that owner, at the same and at
\* every later block; a pool that is found is listed for its owner from then
\* on (getPoolsByOwner reads the owner index, getPool the pools).
ListedPoolsAreFound ==
    \A l \in AnswersOf("getPoolsByOwner"), p \in AnswersOf("getPool") :
        /\ p.pool_id \in l.result /\ p.at >= l.at
              => p.result.found /\ p.result.owner = l.owner
        /\ p.result.found /\ l.at >= p.at
              => (p.pool_id \in l.result <=> p.result.owner = l.owner)

\* The estimate a client was given for a call, at whatever block, is what the
\* pool is charged if the call is sponsored (estimate_transaction_gas_cost,
\* with its fallback, against the fee that sponsor_transaction computes).
QuoteIsCharged ==
    \A q \in AnswersOf("estimateGasCost"), t \in DOMAIN transactionLog :
        /\ transactionLog[t].target_chain = q.target_chain
        /\ transactionLog[t].call_hash = Hash(q.len)
        => transactionLog[t].gas_cost = q.result

-----------------------------------------------------------------------------
(* Values for the constants.                                               *)

OneConfig ==
    {[max_transaction_value |-> 900, daily_spending_limit |-> 1000,
      allowed_chains |-> {1000, 2006}, authorization_required |-> FALSE]}
\* States that differ only in `last`, which no action and no property here
\* reads, are explored once.
Stored == <<pools, nextPoolId, poolOwners, poolAuthorizations, transactionLog,
            nextTransactionId, free, reserved, block, dispatched, receipts, rpcVars>>
LimitArgs == {NoLimit, 0}
RpcFree == (a1 :> 2600) @@ (a2 :> 2600)
=============================================================================
