---------------------------- MODULE DemoSdkProps ----------------------------
(***************************************************************************)
(* What overlapping calls of the demo SDK may not do to each other.        *)
(***************************************************************************)
EXTENDS DemoSdk, Functions

\* A handle of a node connection is never left behind unusable: while the SDK
\* holds one and does not count as connected, some connect is about to finish
\* with it (connect and disconnect replace this.api around their awaits).
NoHalfOpenApi ==
    api /\ ~isConnected => \E t \in Tasks : At(t, "readying")

\* Once no sponsored call is running the hook shows the outcome of a call: it
\* is not loading and its status is that of its result, whatever calls
\* overlapped (useSponsoredTransaction).
HookSettles ==
    (\A t \in Tasks : task[t].job # "sponsor") =>
        ~hook.isLoading /\ hook.status = hook.result

\* What each entry of the history saved.
Saved == [i \in DOMAIN transactionHistory |-> transactionHistory[i].gasSaved]

\* Sponsored calls and resets keep history and counter together: as long as the
\* history has not been cut, the savings shown are the sum of its entries, also
\* when the demo is reset while calls are running (quickSponsor,
\* addTransactionToHistory, resetDemo).  Messages of the real-time tracking,
\* which set one without the other, are left to LiveSavings.
HistoryExplainsSavings ==
    Len(transactionHistory) < MaxHistory => gasSavings = SumFunction(Saved)

\* Every sponsored call returns to the hook (quickSponsor).
EveryCallReturns ==
    \A t \in Tasks : (task[t].job = "sponsor") ~> At(t, "idle")

\* A call whose extrinsic is reported to be in a block succeeds with that
\* block's hash, even if the wallet or the node is disconnected before its
\* savings are known; it never falls back to the mock (quickSponsor).
InBlockIsReported ==
    \A t \in Tasks :
        (task[t].hash = "block") ~> (At(t, "succeeded") /\ task[t].hash = "block")

\* A result that says success and names a block was sponsored: the pallet
\* dispatched its call (types.ts: "Whether sponsorship was successful").
SuccessMeansSponsored ==
    \A t \in Tasks :
        At(t, "succeeded") /\ task[t].hash = "block" => task[t].ret = "Ok"
=============================================================================
