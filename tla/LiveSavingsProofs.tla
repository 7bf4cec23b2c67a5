------------------------- MODULE LiveSavingsProofs -------------------------
(***************************************************************************)
(* Machine-checked proofs about the live savings counter, for any          *)
(* animation length, amounts and number of sockets.                        *)
(***************************************************************************)
EXTENDS LiveSavingsProps, TLAPS

\* The inductive invariant: the counts of sockets and timers, and OneListener.
TrackingInv == sockets \in Int /\ timers \in Int /\ OneListener

\* The effect's cleanup takes out the one listener that can be there.
LEMMA CleanupLeavesNone ==
    ASSUME OneListener
    PROVE  RemoveFirst(listeners, captured) = <<>>
  <1>1. CASE listeners = <<>>
    BY <1>1 DEF RemoveFirst
  <1>2. CASE listeners = <<captured>>
    <2> DEFINE I == {i \in 1 .. Len(listeners) : listeners[i] = captured}
    <2>1. Len(listeners) = 1 /\ listeners[1] = captured
      BY <1>2
    <2>2. I = {1}
      BY <2>1
    <2>3. Min(I) = 1
      BY <2>2 DEF Min
    <2>4. SelectInSeq(listeners, LAMBDA v : v = captured) = 1
      BY <2>2, <2>3 DEF SelectInSeq
    <2>5. RemoveFirst(listeners, captured) = RemoveAt(listeners, 1)
      BY <2>1, <2>4 DEF RemoveFirst
    <2> QED
      BY <1>2, <2>5 DEF RemoveAt
  <1> QED
    BY <1>1, <1>2 DEF OneListener

\* What a step may do to sockets, timers and listeners.
TrackingStep ==
    /\ sockets' \in Int /\ timers' \in Int
    /\ sockets' + timers' < sockets + timers => timers' < timers /\ sockets' = sockets
    /\ OneListener'

\* A step that leaves sockets, timers, listeners and callbacks alone.
LEMMA TrackingKept ==
    ASSUME TrackingInv, UNCHANGED <<sockets, timers, listeners, captured>>
    PROVE  TrackingStep
  BY DEF TrackingInv, TrackingStep, OneListener

\* Every callback keeps the invariant and the tracking.
LEMMA EveryTrackingStep ==
    ASSUME TrackingInv, [Next]_vars
    PROVE  TrackingStep
  <1>1. CASE UNCHANGED vars
    BY <1>1, TrackingKept DEF vars, trackingVars, hookVars
  <1>2. CASE sponsored \/ polled \/ handleWebSocketMessage
    BY <1>2, TrackingKept DEF sponsored, polled, handleWebSocketMessage, Updated, trackingVars
  <1>3. CASE socket_error
    BY <1>3, TrackingKept DEF socket_error, hookVars
  <1>4. CASE socket_closed
    BY <1>4 DEF socket_closed, hookVars, TrackingInv, TrackingStep, OneListener
  <1>5. CASE reconnect
    BY <1>5 DEF reconnect, ConstructorThrew, hookVars, TrackingInv, TrackingStep, OneListener
  <1>6. CASE disconnect \/ resetDemo
    BY <1>6 DEF disconnect, resetDemo, stopRealTimeTracking, hookVars, TrackingInv,
                TrackingStep, OneListener
  <1>7. CASE animateStep \/ refreshed \/ time_passes \/ poll
    BY <1>7, TrackingKept DEF animateStep, refreshed, time_passes, poll, trackingVars
  <1>8. CASE effect
    <2>1. listeners' = Append(<<>>, savings) /\ captured' = savings
      BY <1>8, CleanupLeavesNone DEF effect, replaced_listeners, TrackingInv
    <2>2. OneListener'
      BY <2>1 DEF OneListener
    <2>3. timers' = timers /\ (sockets' = sockets \/ sockets' = sockets + 1)
      BY <1>8 DEF effect, startRealTimeTracking, SocketMade, ConstructorThrew
    <2>4. sockets \in Int /\ timers \in Int
      BY DEF TrackingInv
    <2>5. /\ sockets' \in Int /\ timers' \in Int
          /\ sockets' + timers' < sockets + timers => timers' < timers /\ sockets' = sockets
      BY <2>3, <2>4
    <2> QED
      BY <2>2, <2>5 DEF TrackingStep
  <1> QED
    BY <1>1, <1>2, <1>3, <1>4, <1>5, <1>6, <1>7, <1>8 DEF Next

\* Nothing is tracked at the start, and the invariant is kept.
LEMMA TrackingHolds == Init /\ [][Next]_vars => []TrackingInv
  <1>1. Init => TrackingInv
    BY DEF Init, TrackingInv, OneListener
  <1>2. TrackingInv /\ [Next]_vars => TrackingInv'
    BY EveryTrackingStep DEF TrackingInv, TrackingStep
  <1> QED
    BY <1>1, <1>2, PTL

\* However renders, resets and disconnects interleave, the hook is told of an
\* update at most once and by its latest callback (on, off, useGasSavings).
THEOREM ToldOnce == Spec => []OneListener
  <1>1. TrackingInv => OneListener
    BY DEF TrackingInv
  <1> QED
    BY <1>1, TrackingHolds, PTL DEF Spec

\* A started tracking is lost only to a reconnect whose constructor throws,
\* with any number of sockets and timers (connectWebSocket, onclose).
THEOREM TrackingIsKept == Spec => TrackingSurvives
  <1>1. TrackingInv /\ [Next]_vars
          => [sockets' + timers' < sockets + timers => timers' < timers /\ sockets' = sockets]_vars
    BY EveryTrackingStep DEF TrackingStep
  <1> QED
    BY <1>1, TrackingHolds, PTL DEF Spec, TrackingSurvives
=============================================================================
