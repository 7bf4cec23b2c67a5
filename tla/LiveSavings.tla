---------------------------- MODULE LiveSavings ----------------------------
(***************************************************************************)
(* The live savings counter: the demo SDK's real-time tracking             *)
(* (sdk/src/demo-sdk.ts) and the hook that shows it (sdk/src/hooks.ts,     *)
(* useGasSavings).  Socket events, timers, animation frames, React effects *)
(* and promises all run on one thread, each step of the model is one such  *)
(* callback.                                                               *)
(*                                                                         *)
(* The hook's callbacks close over the `savings` of the render that made   *)
(* them; a render with a new value replaces them in an effect, which also  *)
(* starts the tracking again and refreshes.                                *)
(***************************************************************************)
EXTENDS Integers, SequencesExt

CONSTANTS
    Frames,                \* steps of an animation (30)
    Increments,            \* savings of one sponsored call or one polling tick
    Totals,                \* totals a WebSocket message may carry; 0 is "none"
    MaxChanges,            \* bound: changes of the SDK's total
    MaxSockets,            \* bound: sockets and reconnect timers told apart
    PollFrames             \* frames the hook's interval of ten seconds lasts (600)

ASSUME FramesAssumption == Frames \in Nat \ {0} /\ PollFrames \in Nat /\ PollFrames > Frames

VARIABLES
    gasSavings,            \* the SDK's total
    changes,               \* how often it changed
    wsConnection,          \* wsConnection is not null
    sockets,               \* WebSockets whose close event is still to come
    timers,                \* reconnect timers of onclose
    intervals,             \* polling intervals of startRealTimeTracking: none (0) or some (1)
    listeners,             \* listeners of gas_savings_updated, as the value they closed over
    savings,               \* what the hook shows
    captured,              \* the value the hook's current callbacks closed over
    refreshing,            \* refreshes that wait for the SDK's answer
    animations,            \* running animations, in the order of their callbacks
    wait                   \* frames before the hook's interval fires

trackingVars == <<wsConnection, sockets, timers, intervals>>
hookVars == <<savings, captured, refreshing, animations, wait>>
vars == <<gasSavings, changes, trackingVars, listeners, hookVars>>

NotMounted == -1

\* A task (event, timer, frame, effect) starts when the microtasks of the one
\* before are done; a sponsored call and disconnect go on in a microtask.
NewTask == refreshing = <<>>

-----------------------------------------------------------------------------
(* animateToValue, called by callbacks that closed over the values in      *)
(* `closed`: an animation for a larger value, the value itself otherwise.  *)

\* Mutant: the counter only ever moves up.
animateToValue_up_only(closed, newValue) ==
    LET behind == SelectSeq(closed, LAMBDA v : newValue > v) IN
    /\ animations' = animations \o
          [i \in DOMAIN behind |-> [start |-> behind[i], target |-> newValue, frame |-> 0]]
    /\ UNCHANGED savings

animateToValue(closed, newValue) ==
    LET behind == SelectSeq(closed, LAMBDA v : newValue > v) IN
    /\ animations' = animations \o
          [i \in DOMAIN behind |-> [start |-> behind[i], target |-> newValue, frame |-> 0]]
    /\ savings' = IF Len(behind) < Len(closed) THEN newValue ELSE savings

animated(a) ==
    IF a.frame = Frames THEN a.target
    ELSE a.start + (a.frame * (a.target - a.start)) \div Frames

\* One animation frame: every running animation sets the value, and React
\* renders the one that was set last.
animateStep ==
    /\ NewTask
    /\ animations # <<>>
    /\ LET stepped == [i \in DOMAIN animations |-> [animations[i] EXCEPT !.frame = @ + 1]] IN
       /\ savings' = animated(stepped[Len(stepped)])
       /\ animations' = SelectSeq(stepped, LAMBDA a : a.frame < Frames)
    /\ wait' = IF wait = 0 THEN 0 ELSE wait - 1
    /\ UNCHANGED <<gasSavings, changes, trackingVars, listeners, captured, refreshing>>

-----------------------------------------------------------------------------
(* The SDK's total changes and listeners are told.                         *)

Updated(newSavings) ==
    /\ changes < MaxChanges
    /\ changes' = changes + 1
    /\ gasSavings' = newSavings
    /\ animateToValue(listeners, newSavings)
    /\ UNCHANGED <<trackingVars, listeners, captured, refreshing, wait>>

\* The end of quickSponsor.
sponsored == \E increment \in Increments : Updated(gasSavings + increment)

\* A tick of a polling interval that draws an update.
polled == NewTask /\ intervals > 0 /\ \E increment \in Increments : Updated(gasSavings + increment)

\* onmessage, gas_savings_updated: a total of 0 counts as none.
handleWebSocketMessage ==
    /\ NewTask
    /\ sockets > 0
    /\ \E total \in Totals : Updated(IF total = 0 THEN gasSavings ELSE total)

-----------------------------------------------------------------------------
(* Sockets.                                                                *)

\* connectWebSocket: a new socket, whatever became of the one before; the
\* constructor throws for an endpoint that is no URL.
SocketMade ==
    /\ wsConnection' = TRUE
    /\ sockets' = IF sockets + timers < MaxSockets THEN sockets + 1 ELSE sockets
ConstructorThrew == wsConnection' = FALSE /\ UNCHANGED sockets

\* onerror; the close event follows.
socket_error ==
    /\ NewTask
    /\ sockets > 0
    /\ wsConnection' = FALSE
    /\ UNCHANGED <<gasSavings, changes, sockets, timers, intervals, listeners, hookVars>>

\* Mutant: no reconnect for a socket that is no longer the current one.
socket_closed_current_only ==
    /\ NewTask
    /\ sockets > 0
    /\ sockets' = sockets - 1
    /\ timers' = IF wsConnection THEN timers + 1 ELSE timers
    /\ UNCHANGED <<gasSavings, changes, wsConnection, intervals, listeners, hookVars>>

\* onclose: reconnect in five seconds, also after stopRealTimeTracking.
socket_closed ==
    /\ NewTask
    /\ sockets > 0
    /\ sockets' = sockets - 1
    /\ timers' = timers + 1
    /\ UNCHANGED <<gasSavings, changes, wsConnection, intervals, listeners, hookVars>>

\* The timer of onclose: connectWebSocket again.
reconnect ==
    /\ NewTask
    /\ timers > 0
    /\ timers' = timers - 1
    /\ \/ wsConnection' = TRUE /\ sockets' = sockets + 1
       \/ ConstructorThrew
    /\ UNCHANGED <<gasSavings, changes, intervals, listeners, hookVars>>

\* Polling is started only when the constructor threw.
startRealTimeTracking ==
    /\ \/ SocketMade /\ UNCHANGED intervals
       \/ ConstructorThrew /\ intervals' = 1
    /\ UNCHANGED timers

\* stopRealTimeTracking, called by disconnect and resetDemo: the socket is
\* asked to close and all listeners are dropped.
stopRealTimeTracking == wsConnection' = FALSE /\ listeners' = <<>>

disconnect ==
    /\ stopRealTimeTracking
    /\ UNCHANGED <<gasSavings, changes, sockets, timers, intervals, hookVars>>

resetDemo ==
    /\ NewTask
    /\ changes < MaxChanges
    /\ changes' = changes + 1
    /\ gasSavings' = 0
    /\ stopRealTimeTracking
    /\ UNCHANGED <<sockets, timers, intervals, hookVars>>

-----------------------------------------------------------------------------
(* The hook.                                                               *)

\* refresh reads the total at once and animates after its await.
Refresh(closed) == Append(refreshing, [closed |-> closed, current |-> gasSavings])

\* Mutant: the cleanup of the effect does not remove the old listener.
replaced_listeners_kept(new) == Append(listeners, new)

\* off of the effect's cleanup, which takes the first occurrence out, then on.
replaced_listeners(new) == Append(RemoveFirst(listeners, captured), new)

\* The effects of a render with new callbacks, the first one included; the
\* second effect starts the interval anew.
effect ==
    /\ NewTask
    /\ savings # captured
    /\ captured' = savings
    /\ listeners' = replaced_listeners(savings)
    /\ startRealTimeTracking
    /\ refreshing' = Refresh(savings)
    /\ wait' = PollFrames
    /\ UNCHANGED <<gasSavings, changes, savings, animations>>

refreshed ==
    /\ refreshing # <<>>
    /\ refreshing' = Tail(refreshing)
    /\ animateToValue(<<Head(refreshing).closed>>, Head(refreshing).current)
    /\ UNCHANGED <<gasSavings, changes, trackingVars, listeners, captured, wait>>

\* Time passes while nothing is animated or left to do.
time_passes ==
    /\ NewTask /\ savings = captured
    /\ animations = <<>> /\ wait > 0
    /\ wait' = 0
    /\ UNCHANGED <<gasSavings, changes, trackingVars, listeners, savings, captured,
                   refreshing, animations>>

\* The ten-second interval of the hook.
poll ==
    /\ NewTask /\ savings = captured
    /\ wait = 0
    /\ refreshing' = Refresh(captured)
    /\ wait' = PollFrames
    /\ UNCHANGED <<gasSavings, changes, trackingVars, listeners, savings, captured, animations>>

-----------------------------------------------------------------------------
Init ==
    /\ gasSavings = 0
    /\ changes = 0
    /\ wsConnection = FALSE
    /\ sockets = 0
    /\ timers = 0
    /\ intervals = 0
    /\ listeners = <<>>
    /\ savings = 0
    /\ captured = NotMounted
    /\ refreshing = <<>>
    /\ animations = <<>>
    /\ wait = PollFrames

Next ==
    \/ sponsored \/ polled \/ handleWebSocketMessage
    \/ socket_error \/ socket_closed \/ reconnect
    \/ disconnect \/ resetDemo
    \/ animateStep \/ effect \/ refreshed \/ time_passes \/ poll

\* The browser keeps drawing frames, running effects, settling promises and
\* firing the hook's interval.
Fairness ==
    /\ WF_vars(animateStep) /\ WF_vars(effect) /\ WF_vars(refreshed)
    /\ WF_vars(time_passes) /\ WF_vars(poll)

Spec == Init /\ [][Next]_vars /\ Fairness
=============================================================================
