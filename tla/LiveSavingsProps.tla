-------------------------- MODULE LiveSavingsProps --------------------------
(***************************************************************************)
(* What the live savings counter guarantees.                               *)
(***************************************************************************)
EXTENDS LiveSavings

\* Once the SDK's total stops changing, the counter shows it and stays there:
\* whatever animations and refreshes with old values still run, and even after
\* a reset that lowered the total and dropped the listeners (useGasSavings).
DisplayCatchesUp == <>[](savings = gasSavings)

\* The hook is told of an update at most once, and the listener in place is the
\* one of the last effect: renders, resets and disconnects in any order neither
\* pile listeners up nor leave an old one behind (on, off, stopRealTimeTracking).
OneListener == listeners \in {<<>>, <<captured>>}

\* A started tracking ends only when a reconnect finds its endpoint unusable:
\* an error, a close or a stop of the socket leaves it or a timer that replaces
\* it (connectWebSocket: onerror, onclose, setTimeout).
TrackingSurvives ==
    [][sockets' + timers' < sockets + timers => timers' < timers /\ sockets' = sockets]_vars
=============================================================================
