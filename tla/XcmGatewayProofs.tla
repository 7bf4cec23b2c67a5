------------------------- MODULE XcmGatewayProofs -------------------------
(***************************************************************************)
(* The gateway's lists and limits agree for every target, size and amount. *)
(***************************************************************************)
EXTENDS XcmGatewayProps, TLAPS

Inputs == /\ target \in Nat /\ len \in Nat /\ consumed \in Nat /\ result \in ExecutionResults
          /\ retry_count \in Nat /\ now \in Nat

\* Every request consists of natural numbers.
LEMMA InputsHold == Spec => []Inputs
  <1>1. Init => Inputs
    BY RequestAssumption DEF Init, Inputs
  <1>2. Inputs /\ [Next]_vars => Inputs'
    BY RequestAssumption DEF Inputs, Next, vars
  <1> QED
    BY <1>1, <1>2, PTL DEF Spec

\* The chains that get_base_fee knows.
LEMMA KnownChains == FeeKnown(target) <=> target \in {2000, 2006, 2012, 2030}
  BY DEF FeeKnown, get_base_fee

\* What sending answers, through builder, validator and dispatcher.
LEMMA VerdictLemma == Inputs => SendVerdict
  <1> SUFFICES ASSUME Inputs PROVE SendVerdict
    OBVIOUS
  <1> DEFINE m == Message(target, len, estimate_fee(target, len), 0, 1)
  <1>1. m.target = target /\ m.call = len
    BY DEF Message
  <1> HIDE DEF m
  <1>2. CASE target \notin {2000, 2006, 2012, 2030}
    BY <1>2, KnownChains DEF SendVerdict, Sent, send_cross_chain_transaction
  <1>3. CASE target \in {2000, 2006, 2012, 2030} /\ len > 1024
    BY <1>3, KnownChains
    DEF SendVerdict, Sent, send_cross_chain_transaction, format_for_parachain,
        is_supported_parachain, MaxCallLen, Inputs
  <1>4. CASE target \in {2000, 2006, 2012, 2030} /\ len <= 1024
    <2>1. Sent = dispatch_message(m)
      BY <1>4, KnownChains
      DEF Sent, send_cross_chain_transaction, format_for_parachain,
          is_supported_parachain, MaxCallLen, Inputs, m
    <2>2. dispatch_message(m) = IF len = 0 THEN "MessageFormatError" ELSE "Ok"
      BY <1>1, <1>4 DEF dispatch_message, validate_message, is_valid_target, MaxCallLen, Inputs
    <2> QED
      BY <1>4, <2>1, <2>2 DEF SendVerdict, Inputs
  <1> QED
    BY <1>2, <1>3, <1>4 DEF Inputs

\* For every target and size, sending succeeds exactly for the supported chains
\* and calls of 1 to 1024 bytes.
THEOREM SendDecided == Spec => []SendVerdict
  BY InputsHold, VerdictLemma, PTL

\* A pool can only be charged for a chain that can be reached, for every target
\* and size (the five lists of parachains).
THEOREM QuotedReachable == Spec => []QuotedChainIsReachable
  <1>1. Inputs => QuotedChainIsReachable
    BY KnownChains, VerdictLemma
    DEF QuotedChainIsReachable, SendVerdict, is_valid_target, estimate_delivery_time,
        validate_call_data_for_chain, Inputs
  <1> QED
    BY <1>1, InputsHold, PTL

\* No error that sending can return is one that handle_dispatch_failure retries.
THEOREM RefusedIsFinal == Spec => []FailedSendIsFinal
  <1>1. Inputs => FailedSendIsFinal
    BY VerdictLemma DEF FailedSendIsFinal, SendVerdict, handle_dispatch_failure_retries
  <1> QED
    BY <1>1, InputsHold, PTL

\* Whatever a call consumes of its fee, consumption and refund add up to the
\* fee, and consuming more refunds nothing (update_for_actual_consumption).
THEOREM RefundsAreExact == Spec => []RefundExact
  <1>1. Inputs => RefundExact
    <2> SUFFICES ASSUME Inputs, FeeKnown(target)
                 PROVE  LET fee == estimate_fee(target, len)
                            refund == update_for_actual_consumption(fee, consumed)
                        IN  IF consumed <= fee THEN refund + consumed = fee ELSE refund = 0
      BY DEF RefundExact
    <2>1. get_base_fee[target] \in Nat /\ calculate_call_fee(len) \in Nat
      BY DEF FeeKnown, get_base_fee, calculate_call_fee, Inputs
    <2>2. estimate_fee(target, len) \in Nat
      BY <2>1, BalanceWidth DEF estimate_fee, saturating_add
    <2> QED
      BY <2>2 DEF Inputs, update_for_actual_consumption, saturating_sub
  <1> QED
    BY <1>1, InputsHold, PTL

\* A sequence of four effects, its positions and its elements.
LEMMA FourEffects ==
    ASSUME NEW a, NEW b, NEW c, NEW d, NEW s, s = <<a, b, c, d>>
    PROVE  /\ DOMAIN s = {1, 2, 3, 4} /\ Len(s) = 4
           /\ s[1] = a /\ s[2] = b /\ s[3] = c /\ s[4] = d
           /\ {s[i] : i \in DOMAIN s} = {a, b, c, d}
  <1>1. DOMAIN s = {1, 2, 3, 4} /\ Len(s) = 4 /\ s[1] = a /\ s[2] = b /\ s[3] = c /\ s[4] = d
    OBVIOUS
  <1> QED
    BY <1>1

\* A sequence of three effects, its positions and its elements.
LEMMA ThreeEffects ==
    ASSUME NEW a, NEW b, NEW c, NEW s, s = <<a, b, c>>
    PROVE  /\ DOMAIN s = {1, 2, 3} /\ Len(s) = 3
           /\ s[1] = a /\ s[2] = b /\ s[3] = c
           /\ {s[i] : i \in DOMAIN s} = {a, b, c}
  <1>1. DOMAIN s = {1, 2, 3} /\ Len(s) = 3 /\ s[1] = a /\ s[2] = b /\ s[3] = c
    OBVIOUS
  <1> QED
    BY <1>1

\* What process_receipt announces for each result.
LEMMA EffectsByResult ==
    ASSUME target # 0
    PROVE  LET e == receipt_effects(Receipt) IN
           /\ result = "Success" =>
                e = <<"update_pool_balance", "notify_success", "mark_processed", "Executed">>
           /\ result = "Failed" => e = <<"refund", "notify_failure", "mark_processed", "Failed">>
           /\ result = "Timeout" => e = <<"refund", "retry", "mark_processed", "Failed">>
           /\ result = "InsufficientFunds" => e = <<"refund", "mark_processed", "Failed">>
  <1> DEFINE e == receipt_effects(Receipt)
  <1>1. e = handler_effects(Receipt) \o <<"mark_processed">> \o <<final_status(Receipt)>>
    BY DEF receipt_effects, update_transaction_status, receipt_result, validate_receipt,
           is_already_processed, Receipt
  <1>2. ASSUME result = "Success"
        PROVE  e = <<"update_pool_balance", "notify_success", "mark_processed", "Executed">>
    BY <1>1, <1>2 DEF handler_effects, final_status, Receipt
  <1>3. ASSUME result = "Failed"
        PROVE  e = <<"refund", "notify_failure", "mark_processed", "Failed">>
    BY <1>1, <1>3 DEF handler_effects, final_status, Receipt
  <1>4. ASSUME result = "Timeout"
        PROVE  e = <<"refund", "retry", "mark_processed", "Failed">>
    BY <1>1, <1>4 DEF handler_effects, final_status, Receipt, retry_scheduled,
                      should_retry_timeout, retry_transaction, MAX_RETRIES
  <1>5. ASSUME result = "InsufficientFunds"
        PROVE  e = <<"refund", "mark_processed", "Failed">>
    BY <1>1, <1>5 DEF handler_effects, final_status, Receipt
  <1> QED
    BY <1>2, <1>3, <1>4, <1>5

\* Whatever the result of an execution, its receipt settles the reserved fee
\* once and its status, refund, retry and notification agree (process_receipt).
THEOREM ReceiptsSettleOnce == Spec => []SettledOnce
  <1> DEFINE e == receipt_effects(Receipt)
  <1>6. Inputs => SettledOnce
    <2> SUFFICES ASSUME Inputs, target # 0 PROVE SettledOnce
      BY DEF SettledOnce
    <2>1. CASE result = "Success"
      <3>1. e = <<"update_pool_balance", "notify_success", "mark_processed", "Executed">>
        BY EffectsByResult, <2>1
      <3> HIDE DEF e
      <3>2. {i \in DOMAIN e : e[i] \in {"refund", "update_pool_balance"}} = {1}
        BY <3>1, FourEffects
      <3>3. {e[i] : i \in DOMAIN e} = {"update_pool_balance", "notify_success", "mark_processed", "Executed"}
        BY <3>1, FourEffects
      <3>4. e[Len(e)] = "Executed"
        BY <3>1, FourEffects
      <3> QED
        BY <2>1, <3>2, <3>3, <3>4 DEF SettledOnce, notify_transaction_complete, e
    <2>2. CASE result = "Failed"
      <3>1. e = <<"refund", "notify_failure", "mark_processed", "Failed">>
        BY EffectsByResult, <2>2
      <3> HIDE DEF e
      <3>2. {i \in DOMAIN e : e[i] \in {"refund", "update_pool_balance"}} = {1}
        BY <3>1, FourEffects
      <3>3. {e[i] : i \in DOMAIN e} = {"refund", "notify_failure", "mark_processed", "Failed"}
        BY <3>1, FourEffects
      <3>4. e[Len(e)] = "Failed"
        BY <3>1, FourEffects
      <3> QED
        BY <2>2, <3>2, <3>3, <3>4 DEF SettledOnce, notify_transaction_complete, e
    <2>3. CASE result = "Timeout"
      <3>1. e = <<"refund", "retry", "mark_processed", "Failed">>
        BY EffectsByResult, <2>3
      <3> HIDE DEF e
      <3>2. {i \in DOMAIN e : e[i] \in {"refund", "update_pool_balance"}} = {1}
        BY <3>1, FourEffects
      <3>3. {e[i] : i \in DOMAIN e} = {"refund", "retry", "mark_processed", "Failed"}
        BY <3>1, FourEffects
      <3>4. e[Len(e)] = "Failed"
        BY <3>1, FourEffects
      <3> QED
        BY <2>3, <3>2, <3>3, <3>4 DEF SettledOnce, notify_transaction_complete, e
    <2>4. CASE result = "InsufficientFunds"
      <3>1. e = <<"refund", "mark_processed", "Failed">>
        BY EffectsByResult, <2>4
      <3> HIDE DEF e
      <3>2. {i \in DOMAIN e : e[i] \in {"refund", "update_pool_balance"}} = {1}
        BY <3>1, ThreeEffects
      <3>3. {e[i] : i \in DOMAIN e} = {"refund", "mark_processed", "Failed"}
        BY <3>1, ThreeEffects
      <3>4. e[Len(e)] = "Failed"
        BY <3>1, ThreeEffects
      <3> QED
        BY <2>4, <3>2, <3>3, <3>4 DEF SettledOnce, notify_transaction_complete, e
    <2> QED
      BY <2>1, <2>2, <2>3, <2>4 DEF Inputs, ExecutionResults
  <1> QED
    BY <1>6, InputsHold, PTL

\* Whatever the target, the size and the result, a request ends with one final
\* status, and its fee is settled only after its dispatch.
THEOREM RequestsEndOnce == Spec => []OneFinalStatus
  <1>1. Inputs => OneFinalStatus
    <2> SUFFICES ASSUME Inputs PROVE EndsOnce(Life)
      BY DEF OneFinalStatus
    <2>1. CASE Sent # "Ok"
      <3>1. Sent \in {"UnsupportedDestination", "MessageFormatError"}
        BY <2>1, VerdictLemma DEF SendVerdict
      <3>2. failure_effects(Sent) = <<"Failed">>
        BY <3>1 DEF failure_effects, handle_dispatch_failure_retries, mark_failed,
                    update_transaction_status
      <3>3. send_effects(0, target, len, 1) = <<>> \/ send_effects(0, target, len, 1) = <<"Pending">>
        BY <2>1 DEF send_effects, Sent
      <3>4. Life = send_effects(0, target, len, 1) \o <<"Failed">>
        BY <2>1, <3>2 DEF Life
      <3>5. CASE send_effects(0, target, len, 1) = <<>>
        <4>1. DOMAIN Life = {1} /\ Len(Life) = 1 /\ Life[1] = "Failed"
          BY <3>4, <3>5
        <4> QED
          BY <4>1 DEF EndsOnce
      <3>6. CASE send_effects(0, target, len, 1) = <<"Pending">>
        <4>1. DOMAIN Life = {1, 2} /\ Len(Life) = 2 /\ Life[1] = "Pending" /\ Life[2] = "Failed"
          BY <3>4, <3>6
        <4> QED
          BY <4>1 DEF EndsOnce
      <3> QED
        BY <3>3, <3>5, <3>6
    <2>2. CASE Sent = "Ok"
      <3> DEFINE e == receipt_effects(Receipt)
      <3>1. target # 0
        BY <2>2, VerdictLemma DEF SendVerdict
      <3>2. FeeKnown(target) /\ format_for_parachain(target, len) = "Ok"
        BY <2>2, VerdictLemma, KnownChains
        DEF SendVerdict, format_for_parachain, is_supported_parachain, MaxCallLen, Inputs
      <3>3. send_effects(0, target, len, 1) = <<"Pending">> \o <<"Dispatched">>
        BY <2>2, <3>2 DEF send_effects, Sent, mark_dispatched, update_transaction_status
      <3>4. Life = (<<"Pending">> \o <<"Dispatched">>) \o e
        BY <2>2, <3>3 DEF Life
      <3>5. CASE result = "Success"
        <4>1. e = <<"update_pool_balance", "notify_success", "mark_processed", "Executed">>
          BY <3>1, <3>5, EffectsByResult
        <4> HIDE DEF e
        <4>2. Life = (<<"Pending">> \o <<"Dispatched">>)
                       \o <<"update_pool_balance", "notify_success", "mark_processed", "Executed">>
          BY <3>4, <4>1, Zenon
        <4>3. /\ DOMAIN Life = 1 .. 6 /\ Len(Life) = 6
              /\ Life[1] = "Pending" /\ Life[2] = "Dispatched"
              /\ Life[3] = "update_pool_balance" /\ Life[4] = "notify_success"
              /\ Life[5] = "mark_processed" /\ Life[6] = "Executed"
          BY <4>2
        <4> QED
          BY <4>3 DEF EndsOnce
      <3>6. CASE result = "Failed"
        <4>1. e = <<"refund", "notify_failure", "mark_processed", "Failed">>
          BY <3>1, <3>6, EffectsByResult
        <4> HIDE DEF e
        <4>2. Life = (<<"Pending">> \o <<"Dispatched">>)
                       \o <<"refund", "notify_failure", "mark_processed", "Failed">>
          BY <3>4, <4>1, Zenon
        <4>3. /\ DOMAIN Life = 1 .. 6 /\ Len(Life) = 6
              /\ Life[1] = "Pending" /\ Life[2] = "Dispatched"
              /\ Life[3] = "refund" /\ Life[4] = "notify_failure"
              /\ Life[5] = "mark_processed" /\ Life[6] = "Failed"
          BY <4>2
        <4> QED
          BY <4>3 DEF EndsOnce
      <3>7. CASE result = "Timeout"
        <4>1. e = <<"refund", "retry", "mark_processed", "Failed">>
          BY <3>1, <3>7, EffectsByResult
        <4> HIDE DEF e
        <4>2. Life = (<<"Pending">> \o <<"Dispatched">>)
                       \o <<"refund", "retry", "mark_processed", "Failed">>
          BY <3>4, <4>1, Zenon
        <4>3. /\ DOMAIN Life = 1 .. 6 /\ Len(Life) = 6
              /\ Life[1] = "Pending" /\ Life[2] = "Dispatched"
              /\ Life[3] = "refund" /\ Life[4] = "retry"
              /\ Life[5] = "mark_processed" /\ Life[6] = "Failed"
          BY <4>2
        <4> QED
          BY <4>3 DEF EndsOnce
      <3>8. CASE result = "InsufficientFunds"
        <4>1. e = <<"refund", "mark_processed", "Failed">>
          BY <3>1, <3>8, EffectsByResult
        <4> HIDE DEF e
        <4>2. Life = (<<"Pending">> \o <<"Dispatched">>)
                       \o <<"refund", "mark_processed", "Failed">>
          BY <3>4, <4>1, Zenon
        <4>3. /\ DOMAIN Life = 1 .. 5 /\ Len(Life) = 5
              /\ Life[1] = "Pending" /\ Life[2] = "Dispatched"
              /\ Life[3] = "refund" /\ Life[4] = "mark_processed"
              /\ Life[5] = "Failed"
          BY <4>2
        <4> QED
          BY <4>3 DEF EndsOnce
      <3> QED
        BY <3>5, <3>6, <3>7, <3>8 DEF Inputs, ExecutionResults
    <2> QED
      BY <2>1, <2>2
  <1> QED
    BY <1>1, InputsHold, PTL

\* The delay of every retry that is allowed is exact: the power does not wrap
\* and the product does not saturate.
LEMMA DelayIsExact ==
    ASSUME NEW n \in Nat, retry_transaction(n)
    PROVE  calculate_backoff_delay(n) = 5 * 2^n /\ 5 * 2^n \in Nat \ {0}
  <1>1. n \in {0, 1, 2}
    BY DEF retry_transaction, MAX_RETRIES
  <1>2. 2^0 = 1 /\ 2^1 = 2 /\ 2^2 = 4
    OBVIOUS
  <1>3. n < Bits /\ 2^n \in {1, 2, 4}
    <2>1. n < Bits
      BY <1>1, BitsAssumption
    <2>2. CASE n = 0
      BY <1>2, <2>1, <2>2
    <2>3. CASE n = 1
      BY <1>2, <2>1, <2>3
    <2>4. CASE n = 2
      BY <1>2, <2>1, <2>4
    <2> QED
      BY <1>1, <2>2, <2>3, <2>4
  <1>4. 2^Bits \in Int /\ 2^Bits > 20
    BY <1>2, BitsAssumption
  <1> DEFINE power == 2^n
             width == 2^Bits
  <1>5. power \in {1, 2, 4} /\ width \in Int /\ width > 20
    BY <1>3, <1>4
  <1>6. calculate_backoff_delay(n) = IF 5 * power >= width THEN width - 1 ELSE 5 * power
    BY <1>3 DEF calculate_backoff_delay, BASE_DELAY_BLOCKS
  <1> HIDE DEF power, width
  <1>7. calculate_backoff_delay(n) = 5 * power /\ 5 * power \in Nat \ {0}
    BY <1>5, <1>6
  <1> QED
    BY <1>7 DEF power

\* A transaction is never retried early or late, whatever its retry count and the
\* current block, even one before its last retry (calculate_backoff_delay,
\* is_ready_for_retry).
THEOREM RetriesOnTime == Spec => []ReadyOnTime
  <1>1. Inputs => ReadyOnTime
    <2> SUFFICES ASSUME Inputs, retry_transaction(retry_count)
                 PROVE  is_ready_for_retry(Pending.last_retry_at, retry_count, now)
                           <=> now >= Pending.last_retry_at + 5 * 2^retry_count
      BY DEF ReadyOnTime
    <2> DEFINE delay == 5 * 2^retry_count
    <2>1. Pending.last_retry_at = SentAt /\ SentAt \in Nat /\ now \in Nat
      BY RequestAssumption DEF Pending, add_pending_transaction, Inputs
    <2>2. calculate_backoff_delay(retry_count) = delay /\ delay \in Nat \ {0}
      BY DelayIsExact DEF Inputs
    <2> HIDE DEF delay
    <2>3. is_ready_for_retry(SentAt, retry_count, now) <=> now >= SentAt + delay
      BY <2>1, <2>2 DEF is_ready_for_retry, saturating_sub
    <2> QED
      BY <2>1, <2>3 DEF delay
  <1> QED
    BY <1>1, InputsHold, PTL
=============================================================================
