----------------------------- MODULE XcmGateway -----------------------------
(***************************************************************************)
(* The XCM gateway of the sponsorship pallet                               *)
(* (pallets/sponsorship/src/xcm_gateway.rs): fee estimation, message       *)
(* building and validation, dispatch, receipt validation and the retry     *)
(* policy.  None of it writes storage, so it is a library of operators     *)
(* that the pallet's state machine (Sponsorship) calls.                    *)
(*                                                                         *)
(* Parachain ids and fees are the code's own numbers.  Call data is        *)
(* abstracted to its length, the only thing the code looks at.  A Rust     *)
(* Result is the string "Ok" or the name of the error variant.             *)
(***************************************************************************)
EXTENDS Integers

CONSTANT MaxBalance        \* largest value of Balance<T> (2^128 - 1 in the runtime)

ASSUME BalanceWidth == MaxBalance \in Nat

Balances == 0 .. MaxBalance

\* Saturating arithmetic on Balance<T> (sp_runtime::traits::Saturating).
saturating_add(x, y) == IF x + y > MaxBalance THEN MaxBalance ELSE x + y
saturating_sub(x, y) == IF x < y THEN 0 ELSE x - y

-----------------------------------------------------------------------------
(* FeeEstimator.  The chains outside the domain of get_base_fee are the    *)
(* ones for which the code returns UnsupportedDestination.                 *)

\* Mutant: a parachain is added to the fee table only.
get_base_fee_extra ==
    [c \in {2000, 2006, 2012, 2030, 2034} |->
        CASE c = 2000 -> 1000
          [] c = 2006 -> 800
          [] c = 2012 -> 1200
          [] c = 2030 -> 900
          [] c = 2034 -> 700]

get_base_fee ==
    [c \in {2000, 2006, 2012, 2030} |->
        CASE c = 2000 -> 1000
          [] c = 2006 -> 800
          [] c = 2012 -> 1200
          [] c = 2030 -> 900]

FeeKnown(target_chain) == target_chain \in DOMAIN get_base_fee

\* 2 units per byte; a length of u32 cannot saturate a u128 balance.
calculate_call_fee(len) == 2 * len

estimate_fee(target_chain, len) ==
    saturating_add(get_base_fee[target_chain], calculate_call_fee(len))

\* Mutant: the fallback is quoted for every chain.
estimate_transaction_gas_cost_fallback(target_chain, len) ==
    saturating_add(1000, 10 * len)

\* The pallet's RPC estimate: the gateway's, or a fallback by size.
estimate_transaction_gas_cost(target_chain, len) ==
    IF FeeKnown(target_chain)
    THEN estimate_fee(target_chain, len)
    ELSE saturating_add(1000, 10 * len)

-----------------------------------------------------------------------------
(* XcmMessageBuilder, XcmMessageValidator, XcmDispatcher.                  *)

MaxCallLen == 1024         \* BoundedVec<u8, ConstU32<1024>>

is_supported_parachain(para_id) == para_id \in {2000, 2006, 2012, 2030}

is_valid_target(para_id) == para_id \in 2000 .. 2100

\* DemoXcmMessage
Message(target, len, max_fee, sponsor, transaction_id) ==
    [target |-> target, call |-> len, max_fee |-> max_fee,
     sponsor |-> sponsor, transaction_id |-> transaction_id]

\* Result of format_for_parachain and, inside it, build_demo_message.
format_for_parachain(target, len) ==
    IF ~is_supported_parachain(target) THEN "UnsupportedDestination"
    ELSE IF len > MaxCallLen THEN "MessageFormatError"
    ELSE "Ok"

\* is_excessive_fee always answers false.
validate_message(m) ==
    IF ~is_valid_target(m.target) THEN "InvalidTarget"
    ELSE IF m.call = 0 \/ m.call > MaxCallLen THEN "InvalidCallData"
    ELSE "Valid"

\* Both validators of call data, Acala's and Astar's, accept any data.
validate_call_data_for_chain(target_chain) ==
    IF target_chain \in {2000, 2006} THEN "Valid" ELSE "InvalidTarget"

\* simulate_xcm_dispatch is inlined: it logs, and refuses parachain 9999.
dispatch_message(m) ==
    IF validate_message(m) # "Valid" THEN "MessageFormatError"
    ELSE IF m.target = 9999 THEN "UnsupportedDestination"
    ELSE "Ok"

\* Mutant: an error of the builder is not propagated.
send_cross_chain_transaction_unchecked(pool_id, target_chain, len, transaction_id) ==
    IF ~FeeKnown(target_chain) THEN "UnsupportedDestination" ELSE "Ok"

\* Result of XcmGateway::send_cross_chain_transaction.  The tracker calls
\* (add_pending_transaction, mark_dispatched) only write to the node's log.
send_cross_chain_transaction(pool_id, target_chain, len, transaction_id) ==
    IF ~FeeKnown(target_chain) THEN "UnsupportedDestination"
    ELSE LET fee == estimate_fee(target_chain, len) IN
         IF format_for_parachain(target_chain, len) # "Ok"
         THEN format_for_parachain(target_chain, len)
         ELSE dispatch_message(Message(target_chain, len, fee, pool_id, transaction_id))

\* Blocks until delivery; the other chains are UnsupportedDestination.
estimate_delivery_time ==
    [c \in {2000, 2006, 2012, 2030} |->
        CASE c = 2000 -> 2
          [] c = 2006 -> 3
          [] c = 2012 -> 2
          [] c = 2030 -> 3]

-----------------------------------------------------------------------------
(* RetryHandler and PoolBalanceUpdater.                                    *)

MAX_RETRIES == 3

\* TRUE when a retry is scheduled (the backoff delay is only logged).
retry_transaction(current_retry_count) == current_retry_count < MAX_RETRIES

\* Mutant: a malformed message is retried.
handle_dispatch_failure_retries_format(error) ==
    error # "UnsupportedDestination"

\* Whether handle_dispatch_failure retries (TRUE) or marks the transaction failed.
handle_dispatch_failure_retries(error) ==
    error \notin {"UnsupportedDestination", "MessageFormatError"}

\* Mutant: the surplus is computed the wrong way round.
update_for_actual_consumption_swapped(reserved_amount, actual_amount) ==
    saturating_sub(actual_amount, reserved_amount)

\* The refund due when actual_amount of reserved_amount was consumed.
update_for_actual_consumption(reserved_amount, actual_amount) ==
    IF actual_amount <= reserved_amount
    THEN saturating_sub(reserved_amount, actual_amount)
    ELSE 0

-----------------------------------------------------------------------------
(* ReceiptProcessor.                                                       *)

ExecutionResults == {"Success", "Failed", "Timeout", "InsufficientFunds"}

validate_receipt(r) ==
    /\ r.transaction_id # 0
    /\ r.target_chain # 0
    /\ r.block_hash # "zero"

\* "In production, this would check storage": the code answers false.
is_already_processed(transaction_id) == FALSE

\* "For demo, allow one retry": the code answers true.
should_retry_timeout(transaction_id) == TRUE

\* handle_timeout asks for a retry with retry count 1 whatever came before;
\* the other handlers only write to the node's log.
retry_scheduled(r) ==
    /\ r.execution_result = "Timeout"
    /\ should_retry_timeout(r.transaction_id)
    /\ retry_transaction(1)

\* Result of ReceiptProcessor::process_receipt.
receipt_result(r) ==
    IF ~validate_receipt(r) THEN "InvalidReceipt"
    ELSE IF is_already_processed(r.transaction_id) THEN "AlreadyProcessed"
    ELSE "Processed"
=============================================================================
