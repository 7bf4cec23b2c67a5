------------------------------ MODULE XcmRetry ------------------------------
(***************************************************************************)
(* The retry clock and the receipt handlers of the XCM gateway             *)
(* (RetryHandler, TransactionTracker, ReceiptProcessor and                 *)
(* UserNotificationSystem of pallets/sponsorship/src/xcm_gateway.rs).      *)
(* The handlers write nothing but the node's log; what they do is the      *)
(* sequence of effects they announce there.                                *)
(***************************************************************************)
EXTENDS XcmGateway, Sequences

CONSTANT Bits              \* width of the unsigned integers of the delay (32 in the code)

\* The width holds the longest delay in use, 5 * 2^2 blocks.
ASSUME BitsAssumption == Bits \in Nat /\ Bits >= 5 /\ 2^Bits > 5 * 2^2

-----------------------------------------------------------------------------
(* RetryHandler.                                                           *)

BASE_DELAY_BLOCKS == 5

\* The part of PendingTransaction that the retry clock reads, as
\* add_pending_transaction fills it in.
add_pending_transaction(block_number) ==
    [retry_count |-> 0, created_at |-> block_number, last_retry_at |-> block_number]

\* Mutant: the delay grows linearly.
calculate_backoff_delay_linear(retry_count) == BASE_DELAY_BLOCKS * retry_count

\* 2u32.pow wraps in a release build: from Bits on, the power is a multiple
\* of 2^Bits.  The product saturates.
calculate_backoff_delay(retry_count) ==
    LET multiplier == IF retry_count < Bits THEN 2^retry_count ELSE 0
        delay == BASE_DELAY_BLOCKS * multiplier
    IN  IF delay >= 2^Bits THEN 2^Bits - 1 ELSE delay

is_ready_for_retry(last_retry_block, retry_count, current_block) ==
    saturating_sub(current_block, last_retry_block) >= calculate_backoff_delay(retry_count)

-----------------------------------------------------------------------------
(* TransactionTracker's announcements.                                     *)

\* It writes the new status to the node's log.
update_transaction_status(new_status) == <<new_status>>

mark_dispatched == update_transaction_status("Dispatched")
mark_failed == update_transaction_status("Failed")

-----------------------------------------------------------------------------
(* ReceiptProcessor's handlers, one sequence of effects per result.        *)

\* Mutant: a timed-out transaction is retried without refunding it.
handler_effects_unrefunded(r) ==
    CASE r.execution_result = "Success" -> <<"update_pool_balance", "notify_success">>
      [] r.execution_result = "Failed" -> <<"refund", "notify_failure">>
      [] r.execution_result = "Timeout" -> <<"retry">>
      [] r.execution_result = "InsufficientFunds" -> <<"refund">>

\* handle_successful_execution, handle_failed_execution, handle_timeout and
\* handle_insufficient_funds.
handler_effects(r) ==
    CASE r.execution_result = "Success" -> <<"update_pool_balance", "notify_success">>
      [] r.execution_result = "Failed" -> <<"refund", "notify_failure">>
      [] r.execution_result = "Timeout" ->
            IF retry_scheduled(r) THEN <<"refund", "retry">> ELSE <<"refund">>
      [] r.execution_result = "InsufficientFunds" -> <<"refund">>

\* The status process_receipt announces last.
final_status(r) == IF r.execution_result = "Success" THEN "Executed" ELSE "Failed"

\* Everything process_receipt announces for a receipt, in order.
receipt_effects(r) ==
    IF receipt_result(r) # "Processed" THEN <<>>
    ELSE handler_effects(r) \o <<"mark_processed">> \o update_transaction_status(final_status(r))

-----------------------------------------------------------------------------
(* XcmGateway.                                                             *)

\* What send_cross_chain_transaction announces: a message that could be built is
\* pending before it is dispatched.
send_effects(pool_id, target_chain, len, transaction_id) ==
    CASE ~FeeKnown(target_chain) \/ format_for_parachain(target_chain, len) # "Ok" -> <<>>
      [] send_cross_chain_transaction(pool_id, target_chain, len, transaction_id) = "Ok" ->
            <<"Pending">> \o mark_dispatched
      [] OTHER -> <<"Pending">>

\* handle_dispatch_failure: a first retry or the end.
failure_effects(error) ==
    IF handle_dispatch_failure_retries(error)
    THEN IF retry_transaction(0) THEN <<"retry">> ELSE <<>>
    ELSE mark_failed

-----------------------------------------------------------------------------
\* UserNotificationSystem: which of its four messages a user gets.
notify_transaction_complete(execution_result) ==
    CASE execution_result = "Success" -> "success_notification"
      [] execution_result = "Failed" -> "failure_notification"
      [] execution_result = "Timeout" -> "timeout_notification"
      [] execution_result = "InsufficientFunds" -> "insufficient_funds_notification"
=============================================================================
