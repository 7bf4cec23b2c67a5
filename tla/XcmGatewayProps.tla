--------------------------- MODULE XcmGatewayProps ---------------------------
(***************************************************************************)
(* The gateway keeps its list of parachains in five places (fee table,     *)
(* builder, validator, call validator, delivery times), its size limit in  *)
(* two, and decides in three places what the result of an execution means. *)
(* These properties say that the copies agree in the ways the pallet       *)
(* relies on.  The state is one request: where to, how large, what it      *)
(* consumed and how it ended, how often it was retried and what block it   *)
(* is now.                                                                 *)
(***************************************************************************)
EXTENDS XcmRetry

CONSTANTS Targets, Lens, Consumed, RetryCounts, Blocks,
          SentAt           \* block in which the request was sent

ASSUME RequestAssumption ==
    /\ Targets \subseteq Nat /\ Lens \subseteq Nat /\ Consumed \subseteq Nat
    /\ RetryCounts \subseteq 0 .. 255 /\ Blocks \subseteq Nat /\ SentAt \in Nat

VARIABLES target, len, consumed, result, retry_count, now

vars == <<target, len, consumed, result, retry_count, now>>

Init == /\ target \in Targets /\ len \in Lens /\ consumed \in Consumed
        /\ result \in ExecutionResults /\ retry_count \in RetryCounts /\ now = SentAt

\* The block number moves: forward, or back to another fork.
Next == now' \in Blocks /\ UNCHANGED <<target, len, consumed, result, retry_count>>
Spec == Init /\ [][Next]_vars

Sent == send_cross_chain_transaction(0, target, len, 1)

\* A chain the pallet can quote a fee for, and so charge a pool for, is never
\* refused by the builder, the validator or the dispatcher as a destination,
\* and has a delivery time; and a chain whose calls are validated is one of
\* them (estimate_fee against format_for_parachain, validate_message,
\* simulate_xcm_dispatch, estimate_delivery_time, validate_call_data_for_chain).
QuotedChainIsReachable ==
    /\ FeeKnown(target) => /\ Sent # "UnsupportedDestination"
                           /\ is_valid_target(target)
                           /\ target \in DOMAIN estimate_delivery_time
    /\ validate_call_data_for_chain(target) = "Valid" => FeeKnown(target)

\* Sending succeeds exactly for the four supported parachains and calls of 1
\* to 1024 bytes, and the error tells which of the two is wrong
\* (send_cross_chain_transaction through builder, validator and dispatcher).
SendVerdict ==
    Sent = IF target \notin {2000, 2006, 2012, 2030} THEN "UnsupportedDestination"
           ELSE IF len \notin 1 .. 1024 THEN "MessageFormatError"
           ELSE "Ok"

\* No error that sending can return is one that handle_dispatch_failure would
\* retry: the same message would be refused again.
FailedSendIsFinal == Sent # "Ok" => ~handle_dispatch_failure_retries(Sent)

\* Of the fee reserved for a call, what was consumed and what is refunded add
\* up to the fee; consuming more refunds nothing (update_for_actual_consumption).
RefundExact ==
    FeeKnown(target) =>
        LET fee == estimate_fee(target, len)
            refund == update_for_actual_consumption(fee, consumed)
        IN  IF consumed <= fee THEN refund + consumed = fee ELSE refund = 0

Pending == add_pending_transaction(SentAt)

\* Up to the last retry that retry_transaction allows, a transaction is ready
\* exactly when 5 blocks times two to its retry count have passed: neither the
\* wrapping power, nor the saturating product, nor a block number below the
\* last retry makes it ready early (calculate_backoff_delay, is_ready_for_retry).
ReadyOnTime ==
    retry_transaction(retry_count) =>
        (is_ready_for_retry(Pending.last_retry_at, retry_count, now)
            <=> now >= Pending.last_retry_at + 5 * 2^retry_count)

Receipt == [transaction_id |-> 1, target_chain |-> target,
            execution_result |-> result, block_hash |-> "hash"]

\* A processed receipt settles the reserved fee exactly once, by a refund if
\* and only if the transaction ends as Failed; only then is it retried; and the
\* user is told of a success if and only if it ends as Executed (the handlers,
\* the final status and the notification system each match on the result).
SettledOnce ==
    LET effects == receipt_effects(Receipt)
        settlements == {i \in DOMAIN effects : effects[i] \in {"refund", "update_pool_balance"}}
        announced == {effects[i] : i \in DOMAIN effects}
    IN  target # 0 =>
          /\ \E i \in settlements : settlements = {i}
          /\ effects[Len(effects)] \in {"Executed", "Failed"}
          /\ "refund" \in announced <=> effects[Len(effects)] = "Failed"
          /\ "retry" \in announced => "refund" \in announced
          /\ notify_transaction_complete(result) = "success_notification"
                <=> "Executed" \in announced
          /\ "notify_failure" \in announced => "Failed" \in announced

\* Everything announced about a request, from its sending to its receipt or to
\* the handling of the error.
Life ==
    send_effects(0, target, len, 1) \o
        (IF Sent = "Ok" THEN receipt_effects(Receipt) ELSE failure_effects(Sent))

\* The one final status comes last, and a settlement after the dispatch.
EndsOnce(life) ==
    /\ {i \in DOMAIN life : life[i] \in {"Executed", "Failed"}} = {Len(life)}
    /\ \A i \in DOMAIN life :
          life[i] \in {"refund", "update_pool_balance"} =>
              \E j \in DOMAIN life : j < i /\ life[j] = "Dispatched"

\* A request ends with one final status and announces nothing after it; its fee
\* is settled only if it was dispatched, and afterwards (the statuses come from
\* send_cross_chain_transaction, handle_dispatch_failure and process_receipt).
OneFinalStatus == EndsOnce(Life)
=============================================================================
