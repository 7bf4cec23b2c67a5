--------------------------- MODULE DemoSdkProofs ---------------------------
(***************************************************************************)
(* Machine-checked proofs about overlapping calls of the demo SDK, for any *)
(* number of calls at once.                                                *)
(***************************************************************************)
EXTENDS DemoSdkProps, FiniteSums

Jobs == {"none", "connect", "disconnect", "setEndpoint", "connectWallet", "sponsor"}

Awaits == {"idle", "creating", "readying", "connected", "disconnecting", "enabling", "accounts",
           "sleeping", "injecting", "submitted", "in_block", "asking", "fallback",
           "injecting_null", "mocksigning", "succeeded", "failed"}
Statuses == {"none", "Pending", "Executed", "Failed"}

TaskRecords ==
    [job : Jobs, pc : Awaits, chain : TargetChains \cup {""},
     hash : {"none", "block", "mock"}, ret : {"none", "Ok", "Err"}]

\* Types of the variables the properties are about.
SdkTypes ==
    /\ task \in [Tasks -> TaskRecords]
    /\ hook \in [isLoading : BOOLEAN, status : Statuses, result : Statuses]

\* A task that is idle or waits for a disconnect is not a sponsored call.
JobsMatch ==
    \A t \in Tasks : task[t].pc \in {"idle", "disconnecting"} => task[t].job # "sponsor"

\* The inductive invariant.
SdkInv == SdkTypes /\ JobsMatch /\ NoHalfOpenApi /\ HookSettles

\* The record of a free task.
LEMMA IdleType == Idle \in TaskRecords
  BY DEF Idle, TaskRecords, Jobs, Awaits

\* Nothing runs at the start.
LEMMA SdkInit == Init => SdkInv
  <1> SUFFICES ASSUME Init PROVE SdkInv
    OBVIOUS
  <1>1. SdkTypes
    BY IdleType DEF Init, SdkTypes, Statuses
  <1>2. JobsMatch
    BY DEF Init, JobsMatch, Idle
  <1>3. NoHalfOpenApi
    BY DEF Init, NoHalfOpenApi
  <1>4. HookSettles
    BY DEF Init, HookSettles
  <1> QED
    BY <1>1, <1>2, <1>3, <1>4 DEF SdkInv

\* A task goes on to wait for something else; the others stay where they are.
Moved(t, pc) ==
    /\ task' \in [Tasks -> TaskRecords]
    /\ task'[t].pc = pc /\ task'[t].job = task[t].job
    /\ \A u \in Tasks : u # t => task'[u] = task[u]

\* Goto moves a task.
LEMMA GotoMoved ==
    ASSUME SdkInv, NEW t \in Tasks, NEW pc \in Awaits, Goto(t, pc)
    PROVE  Moved(t, pc)
  BY DEF SdkInv, SdkTypes, TaskRecords, Goto, Moved

\* So does a step that learns something about the extrinsic.
LEMMA LearnMoved ==
    ASSUME SdkInv, NEW t \in Tasks, NEW pc \in Awaits, NEW hash \in {"none", "block", "mock"},
           NEW ret \in {"none", "Ok", "Err"},
           \/ task' = [task EXCEPT ![t].pc = pc, ![t].hash = hash, ![t].ret = ret]
           \/ task' = [task EXCEPT ![t].pc = pc, ![t].hash = hash]
           \/ task' = [task EXCEPT ![t].pc = pc, ![t].ret = ret]
    PROVE  Moved(t, pc)
  <1>1. task \in [Tasks -> TaskRecords] /\ task[t] \in TaskRecords
    BY DEF SdkInv, SdkTypes
  <1>2. PICK r \in {[task[t] EXCEPT !.pc = pc, !.hash = hash, !.ret = ret],
                    [task[t] EXCEPT !.pc = pc, !.hash = hash],
                    [task[t] EXCEPT !.pc = pc, !.ret = ret]} :
           task' = [task EXCEPT ![t] = r]
    BY <1>1
  <1>3. r \in TaskRecords /\ r.pc = pc /\ r.job = task[t].job
    BY <1>1, <1>2 DEF TaskRecords
  <1> QED
    BY <1>1, <1>2, <1>3 DEF Moved

\* A task that moves on without touching the hook disturbs nothing, unless it
\* was the one about to connect or takes the connection away.
LEMMA MovedKeeps ==
    ASSUME SdkInv, NEW t \in Tasks, NEW pc \in Awaits, Moved(t, pc),
           pc \notin {"idle", "disconnecting"}, UNCHANGED hook,
           task[t].pc # "readying" \/ pc = "readying" \/ isConnected' \/ ~api',
           api' => api \/ pc = "readying",
           isConnected => isConnected' \/ ~api'
    PROVE  SdkInv'
  <1>1. SdkTypes'
    BY DEF SdkInv, SdkTypes, Moved
  <1>2. JobsMatch'
    BY DEF SdkInv, JobsMatch, Moved
  <1>3. NoHalfOpenApi'
    BY DEF SdkInv, NoHalfOpenApi, At, Moved
  <1>4. HookSettles'
    BY DEF SdkInv, HookSettles, Moved
  <1> QED
    BY <1>1, <1>2, <1>3, <1>4 DEF SdkInv

\* A call that ends without the hook was not a sponsored one.
LEMMA DoneKeeps ==
    ASSUME SdkInv, NEW t \in Tasks, Done(t), UNCHANGED hook,
           task[t].job # "sponsor", task[t].pc # "readying",
           api' => api /\ (isConnected => isConnected')
    PROVE  SdkInv'
  <1>1. SdkTypes'
    BY IdleType DEF SdkInv, SdkTypes, Done
  <1>2. /\ task'[t].pc = "idle" /\ task'[t].job = "none"
        /\ \A u \in Tasks : u # t => task'[u] = task[u]
    BY DEF SdkInv, SdkTypes, Done, Idle
  <1>3. JobsMatch'
    BY <1>2 DEF SdkInv, JobsMatch
  <1>4. NoHalfOpenApi'
    BY <1>2 DEF SdkInv, NoHalfOpenApi, At
  <1>5. HookSettles'
    BY <1>2 DEF SdkInv, HookSettles
  <1> QED
    BY <1>1, <1>3, <1>4, <1>5 DEF SdkInv

\* A new call takes a free task; only a sponsored one changes the hook.
LEMMA StartKeeps ==
    ASSUME SdkInv, NEW t \in Tasks, NEW job \in Jobs, NEW chain \in TargetChains \cup {""},
           NEW pc \in Awaits, Start(t, job, chain, pc),
           pc # "idle", pc = "disconnecting" => job # "sponsor",
           hook' \in [isLoading : BOOLEAN, status : Statuses, result : Statuses],
           job = "sponsor" \/ UNCHANGED hook,
           api' => api /\ (isConnected => isConnected')
    PROVE  SdkInv'
  <1>1. SdkTypes'
    BY DEF SdkInv, SdkTypes, TaskRecords, Jobs, Start, Idle
  <1>2. /\ task[t].pc = "idle" /\ task'[t].pc = pc /\ task'[t].job = job
        /\ \A u \in Tasks : u # t => task'[u] = task[u]
    BY DEF SdkInv, SdkTypes, Start, Idle, At
  <1>3. JobsMatch'
    BY <1>2 DEF SdkInv, JobsMatch
  <1>4. NoHalfOpenApi'
    BY <1>2 DEF SdkInv, NoHalfOpenApi, At
  <1>5. HookSettles'
    BY <1>2 DEF SdkInv, HookSettles, JobsMatch
  <1> QED
    BY <1>1, <1>3, <1>4, <1>5 DEF SdkInv

\* Connecting and disconnecting.
LEMMA ConnectSteps ==
    ASSUME SdkInv, NEW t \in Tasks,
           \/ api_created(t) \/ api_ready(t) \/ connect_failed(t)
           \/ api_disconnected(t) \/ disconnect_failed(t)
    PROVE  SdkInv'
  <1>1. CASE api_created(t)
    <2>1. Moved(t, "readying")
      BY <1>1, GotoMoved DEF api_created, Awaits
    <2> QED
      BY <1>1, <2>1, MovedKeeps DEF api_created, Awaits
  <1>2. CASE api_ready(t)
    <2>1. Moved(t, "connected")
      BY <1>2, GotoMoved DEF api_ready, Awaits
    <2> QED
      BY <1>2, <2>1, MovedKeeps DEF api_ready, Awaits
  <1>3. CASE connect_failed(t)
    <2>1. Moved(t, "connected")
      BY <1>3, GotoMoved DEF connect_failed, Awaits
    <2> QED
      BY <1>3, <2>1, MovedKeeps DEF connect_failed, Awaits
  <1>4. CASE api_disconnected(t)
    <2>1. task[t].job # "sponsor" /\ task[t].pc = "disconnecting"
      BY <1>4 DEF api_disconnected, At, SdkInv, JobsMatch
    <2>2. CASE task[t].job = "setEndpoint"
      <3>1. Moved(t, "creating")
        BY <1>4, <2>2, GotoMoved DEF api_disconnected, Awaits
      <3> QED
        BY <1>4, <2>1, <3>1, MovedKeeps DEF api_disconnected, Awaits
    <2>3. CASE task[t].job # "setEndpoint"
      BY <1>4, <2>1, <2>3, DoneKeeps DEF api_disconnected
    <2> QED
      BY <2>2, <2>3
  <1>5. CASE disconnect_failed(t)
    <2>1. task[t].job # "sponsor" /\ task[t].pc = "disconnecting"
      BY <1>5 DEF disconnect_failed, At, SdkInv, JobsMatch
    <2> QED
      BY <1>5, <2>1, DoneKeeps DEF disconnect_failed, sdkVars
  <1> QED
    BY <1>1, <1>2, <1>3, <1>4, <1>5

\* The wallet answers.
LEMMA WalletSteps ==
    ASSUME SdkInv, NEW t \in Tasks,
           enableMockWallet(t) \/ web3Enabled(t) \/ web3Accounts(t)
    PROVE  SdkInv'
  <1>1. CASE web3Enabled(t)
    <2>1. Moved(t, "accounts")
      BY <1>1, GotoMoved DEF web3Enabled, Awaits
    <2> QED
      BY <1>1, <2>1, MovedKeeps DEF web3Enabled, Awaits, At, sdkVars
  <1>2. CASE enableMockWallet(t) \/ web3Accounts(t)
    <2>1. /\ task[t].pc # "readying" /\ UNCHANGED <<api, isConnected>> /\ UNCHANGED hook
          /\ IF task[t].job = "sponsor" THEN Goto(t, "sleeping") ELSE Done(t)
      BY <1>2 DEF enableMockWallet, web3Accounts, wallet_connected, At
    <2>2. CASE task[t].job = "sponsor"
      <3>1. Moved(t, "sleeping")
        BY <2>1, <2>2, GotoMoved DEF Awaits
      <3> QED
        BY <2>1, <3>1, MovedKeeps DEF Awaits
    <2>3. CASE task[t].job # "sponsor"
      BY <2>1, <2>3, DoneKeeps
    <2> QED
      BY <2>2, <2>3
  <1> QED
    BY <1>1, <1>2

\* quickSponsor between its awaits, up to the result.
LEMMA SponsorSteps ==
    ASSUME SdkInv, NEW t \in Tasks,
           \/ after_connect(t) \/ after_sleep(t) \/ sent(t) \/ in_block(t) \/ submit_failed(t)
           \/ fallback(t) \/ null_extrinsic(t) \/ ask_savings(t) \/ savings_answered(t)
           \/ mock_signed(t)
    PROVE  SdkInv'
  <1>1. /\ task[t].pc # "readying"
        /\ UNCHANGED <<api, isConnected>> /\ UNCHANGED hook
    BY DEF after_connect, after_sleep, sent, in_block, submit_failed, fallback, null_extrinsic,
           ask_savings, savings_answered, mock_signed, completed, At, sdkVars
  <1>2. submit_pc \in {"throws", "mocksigning", "injecting"}
    BY DEF submit_pc
  <1>3. submit_null_pc \in {"failed", "mocksigning", "injecting_null"}
    BY <1>2 DEF submit_null_pc
  <1>4. CASE after_connect(t) /\ task[t].job # "sponsor"
    <2>1. Done(t)
      BY <1>4 DEF after_connect
    <2> QED
      BY <1>1, <1>4, <2>1, DoneKeeps
  <1>5. CASE ~(after_connect(t) /\ task[t].job # "sponsor")
    <2> DEFINE Pcs == Awaits \ {"idle", "disconnecting", "readying"}
    <2>1. CASE \E pc \in Pcs : Goto(t, pc)
      <3>1. PICK pc \in Pcs : Goto(t, pc)
        BY <2>1
      <3>2. Moved(t, pc)
        BY <3>1, GotoMoved
      <3> QED
        BY <1>1, <3>2, MovedKeeps
    <2>2. CASE in_block(t) \/ (submit_failed(t) /\ At(t, "submitted"))
      <3>1. Returns(t) \subseteq {"none", "Ok", "Err"}
        BY DEF Returns
      <3>2. PICK pc \in {"in_block", "fallback"}, hash \in {"none", "block", "mock"},
                 ret \in {"none", "Ok", "Err"} :
               \/ task' = [task EXCEPT ![t].pc = pc, ![t].hash = hash, ![t].ret = ret]
               \/ task' = [task EXCEPT ![t].pc = pc, ![t].ret = ret]
        BY <2>2, <3>1 DEF in_block, submit_failed, At
      <3>3. Moved(t, pc)
        BY <3>2, LearnMoved DEF Awaits
      <3> QED
        BY <1>1, <3>3, MovedKeeps DEF Awaits
    <2>3. CASE \E h \in {"block", "mock"}, g \in RpcSavings \cup MockSavings : completed(t, h, g)
      <3>1. Moved(t, "succeeded")
        BY <2>3, LearnMoved DEF completed, Awaits
      <3> QED
        BY <1>1, <3>1, MovedKeeps DEF Awaits
    <2>4. CASE after_connect(t)
      <3>1. Goto(t, "enabling") \/ Goto(t, "sleeping")
        BY <1>5, <2>4 DEF after_connect
      <3> QED
        BY <2>1, <3>1 DEF Awaits
    <2>5. CASE after_sleep(t)
      <3>1. \E pc \in {"fallback", "mocksigning", "injecting", "failed", "injecting_null"} : Goto(t, pc)
        BY <1>2, <1>3, <2>5 DEF after_sleep
      <3> QED
        BY <2>1, <3>1 DEF Awaits
    <2>6. CASE sent(t) \/ null_extrinsic(t) \/ (submit_failed(t) /\ At(t, "injecting"))
      <3>1. \E pc \in {"submitted", "failed", "fallback"} : Goto(t, pc)
        BY <2>6 DEF sent, null_extrinsic, submit_failed, At
      <3> QED
        BY <2>1, <3>1 DEF Awaits
    <2>7. CASE fallback(t)
      <3>1. Goto(t, submit_null_pc)
        BY <2>7 DEF fallback
      <3> QED
        BY <1>3, <2>1, <3>1 DEF Awaits
    <2>8. CASE ask_savings(t)
      <3>1. \/ Goto(t, "asking")
            \/ \E g \in MockSavings : completed(t, "block", g)
        BY <2>8 DEF ask_savings
      <3> QED
        BY <2>1, <2>3, <3>1 DEF Awaits
    <2>9. CASE savings_answered(t) \/ mock_signed(t)
      BY <2>3, <2>9 DEF savings_answered, mock_signed
    <2> QED
      BY <2>2, <2>4, <2>5, <2>6, <2>7, <2>8, <2>9 DEF submit_failed
  <1> QED
    BY <1>4, <1>5

\* The hook shows a result: whatever other calls still run, it is consistent.
LEMMA HookReturnedKeeps ==
    ASSUME SdkInv, NEW t \in Tasks, hook_returned(t)
    PROVE  SdkInv'
  <1>1. SdkTypes'
    BY IdleType DEF SdkInv, SdkTypes, hook_returned, Done, Statuses
  <1>2. /\ task'[t].pc = "idle" /\ task'[t].job = "none" /\ task[t].pc # "readying"
        /\ \A u \in Tasks : u # t => task'[u] = task[u]
        /\ UNCHANGED <<api, isConnected>>
    BY DEF SdkInv, SdkTypes, hook_returned, Done, Idle, At, sdkVars
  <1>3. JobsMatch'
    BY <1>2 DEF SdkInv, JobsMatch
  <1>4. NoHalfOpenApi'
    BY <1>2 DEF SdkInv, NoHalfOpenApi, At
  <1>5. HookSettles'
    BY DEF hook_returned, HookSettles
  <1> QED
    BY <1>1, <1>3, <1>4, <1>5 DEF SdkInv

\* A new call.
LEMMA CallKeeps ==
    ASSUME SdkInv, NEW t \in Tasks, Call(t)
    PROVE  SdkInv'
  <1>0. connect_pc \in {"connected", "creating"}
    BY DEF connect_pc
  <1>h. hook \in [isLoading : BOOLEAN, status : Statuses, result : Statuses]
    BY DEF SdkInv, SdkTypes
  <1>1. CASE connect(t)
    BY <1>0, <1>h, <1>1, StartKeeps DEF connect, Jobs, Awaits, sdkVars
  <1>2. CASE Start(t, "disconnect", "", "disconnecting") /\ UNCHANGED <<sdkVars, savingsVars, hook>>
    BY <1>h, <1>2, StartKeeps DEF Jobs, Awaits, sdkVars
  <1>3. CASE ~api /\ isConnected' = FALSE /\ UNCHANGED <<api, wallet, savingsVars, task, hook, calls>>
    <2>1. SdkTypes' /\ JobsMatch' /\ HookSettles'
      BY <1>3 DEF SdkInv, SdkTypes, JobsMatch, HookSettles
    <2>2. NoHalfOpenApi'
      BY <1>3 DEF NoHalfOpenApi
    <2> QED
      BY <2>1, <2>2 DEF SdkInv
  <1>4. CASE setEndpoint(t)
    <2>1. CASE Start(t, "setEndpoint", "", "disconnecting") /\ UNCHANGED sdkVars /\ UNCHANGED hook
      BY <1>h, <2>1, StartKeeps DEF Jobs, Awaits, sdkVars
    <2>2. CASE Start(t, "connect", "", "creating") /\ ~api /\ UNCHANGED api /\ UNCHANGED hook
      BY <1>h, <2>2, StartKeeps DEF Jobs, Awaits
    <2> QED
      BY <1>4, <2>1, <2>2 DEF setEndpoint
  <1>5. CASE connectWallet(t)
    BY <1>h, <1>5, StartKeeps DEF connectWallet, Jobs, Awaits, sdkVars
  <1>6. ASSUME NEW chain \in TargetChains, quickSponsor(t, chain)
        PROVE  SdkInv'
    <2>1. hook' \in [isLoading : BOOLEAN, status : Statuses, result : Statuses]
      BY <1>6 DEF quickSponsor, SdkInv, SdkTypes, Statuses
    <2> QED
      BY <1>0, <1>6, <2>1, StartKeeps DEF quickSponsor, Jobs, Awaits, sdkVars
  <1> QED
    BY <1>1, <1>2, <1>3, <1>4, <1>5, <1>6 DEF Call, disconnect

\* Every step keeps the invariant.
LEMMA SdkNext == SdkInv /\ [Next]_vars => SdkInv'
  <1> SUFFICES ASSUME SdkInv, [Next]_vars PROVE SdkInv'
    OBVIOUS
  <1>1. ASSUME NEW t \in Tasks, Resume(t) PROVE SdkInv'
    BY <1>1, ConnectSteps, WalletSteps, SponsorSteps, HookReturnedKeeps DEF Resume
  <1>2. ASSUME NEW t \in Tasks, Call(t) PROVE SdkInv'
    BY <1>2, CallKeeps
  <1>3. CASE disconnectWallet \/ resetDemo \/ UNCHANGED vars
    BY <1>3 DEF disconnectWallet, resetDemo, vars, sdkVars, SdkInv, SdkTypes, JobsMatch,
                NoHalfOpenApi, HookSettles, At
  <1> QED
    BY <1>1, <1>2, <1>3 DEF Next

\* However many calls overlap, the SDK never keeps a node connection that it
\* does not use and no connect will finish (connect, disconnect).
THEOREM NoHalfOpen == Spec => []NoHalfOpenApi
  <1>1. SdkInv => NoHalfOpenApi
    BY DEF SdkInv
  <1> QED
    BY <1>1, SdkInit, SdkNext, PTL DEF Spec

\* However many calls overlap, once none is running the hook shows the outcome
\* of a call and is not loading (useSponsoredTransaction).
THEOREM HookIsSettled == Spec => []HookSettles
  <1>1. SdkInv => HookSettles
    BY DEF SdkInv
  <1> QED
    BY <1>1, SdkInit, SdkNext, PTL DEF Spec

-----------------------------------------------------------------------------
(* History and savings.                                                    *)

Entries == [txHash : {"block", "mock"}, gasSaved : Nat]

\* The inductive invariant behind HistoryExplainsSavings.
SavingsInv ==
    /\ gasSavings \in Nat
    /\ transactionHistory \in Seq(Entries)
    /\ HistoryExplainsSavings

\* A completed call adds the same amount to both.
LEMMA CompletedSaves ==
    ASSUME SavingsInv, NEW t, NEW txHash \in {"block", "mock"}, NEW gasSaved \in Nat,
           completed(t, txHash, gasSaved)
    PROVE  SavingsInv'
  <1> DEFINE old == transactionHistory
             e == [txHash |-> txHash, gasSaved |-> gasSaved]
             n == Len(old)
             size == IF n < MaxHistory THEN n + 1 ELSE MaxHistory
  <1>1. /\ gasSavings \in Nat /\ gasSavings' = gasSavings + gasSaved
        /\ transactionHistory' = SubSeq(<<e>> \o old, 1, size)
    BY DEF SavingsInv, completed, addTransactionToHistory
  <1>2. old \in Seq(Entries) /\ e \in Entries /\ n \in Nat
    BY DEF SavingsInv, Entries
  <1>3. size \in Nat /\ size <= n + 1 /\ (size < MaxHistory => n < MaxHistory /\ size = n + 1)
    BY <1>2, SavingsAssumption
  <1> HIDE DEF e, size
  <1>4. /\ <<e>> \o old \in Seq(Entries) /\ Len(<<e>> \o old) = n + 1
        /\ (<<e>> \o old)[1] = e /\ \A i \in 1 .. n : (<<e>> \o old)[i + 1] = old[i]
    BY <1>2
  <1> DEFINE all == <<e>> \o old
             new == SubSeq(all, 1, size)
  <1>5. /\ new \in Seq(Entries) /\ Len(new) = size
        /\ \A i \in 1 .. size : new[i] = all[i]
    <2> HIDE DEF all
    <2> QED
      BY <1>3, <1>4 DEF all
  <1>6. transactionHistory' = new
    BY <1>1
  <1> HIDE DEF all, new
  <1>7. ASSUME size < MaxHistory
        PROVE  gasSavings' = SumFunction(Saved')
    <2> DEFINE f == Saved
               g == Saved'
    <2>1. DOMAIN f = 1 .. n /\ \A i \in 1 .. n : f[i] = old[i].gasSaved /\ f[i] \in Nat
      <3>1. DOMAIN old = 1 .. n /\ \A i \in 1 .. n : old[i] \in Entries
        BY <1>2
      <3>2. \A x \in Entries : x.gasSaved \in Nat
        BY DEF Entries
      <3>3. DOMAIN f = DOMAIN old /\ \A i \in DOMAIN old : f[i] = old[i].gasSaved
        BY DEF Saved
      <3> QED
        BY <3>1, <3>2, <3>3
    <2>2. DOMAIN g = 1 .. n + 1 /\ \A i \in 1 .. n + 1 : g[i] = new[i].gasSaved
      <3>1. DOMAIN new = 1 .. n + 1
        BY <1>3, <1>5, <1>7
      <3>2. DOMAIN g = DOMAIN new /\ \A i \in DOMAIN new : g[i] = new[i].gasSaved
        BY <1>6 DEF Saved
      <3> QED
        BY <3>1, <3>2
    <2>3. new[1] = e /\ \A i \in 1 .. n : new[i + 1] = old[i]
      BY <1>2, <1>3, <1>4, <1>5, <1>7 DEF all
    <2> HIDE DEF f, g, old
    <2>4. g[1] = gasSaved /\ \A i \in 1 .. n : g[i + 1] = f[i]
      <3>1. g[1] = gasSaved
        BY <1>2, <2>2, <2>3 DEF e
      <3>2. ASSUME NEW i \in 1 .. n PROVE g[i + 1] = f[i]
        BY <1>2, <2>1, <2>2, <2>3
      <3> QED
        BY <3>1, <3>2
    <2>5. gasSavings = SumFunction(f)
      BY <1>3, <1>7 DEF SavingsInv, HistoryExplainsSavings, f, old
    <2>6. SumFunction(g) = g[1] + SumFunction(f)
      BY <1>2, <2>1, <2>2, <2>4, SumInFront
    <2>7. gasSavings' = SumFunction(g)
      BY <1>1, <2>4, <2>5, <2>6
    <2> QED
      BY <2>7 DEF g
  <1>8. HistoryExplainsSavings'
    BY <1>5, <1>7, <1>6 DEF HistoryExplainsSavings
  <1>9. gasSavings' \in Nat
    BY <1>1
  <1>10. transactionHistory' \in Seq(Entries)
    BY <1>5, <1>6
  <1> QED
    BY <1>8, <1>9, <1>10 DEF SavingsInv

\* Every other step leaves both alone.
LEMMA SavingsKept ==
    ASSUME SavingsInv, UNCHANGED savingsVars
    PROVE  SavingsInv'
  BY DEF SavingsInv, savingsVars, HistoryExplainsSavings, Saved

\* Calls that wait or return leave history and savings alone; three steps
\* complete a call.
LEMMA SavingsStep == SavingsInv /\ [Next]_vars => SavingsInv'
  <1> SUFFICES ASSUME SavingsInv, [Next]_vars PROVE SavingsInv'
    OBVIOUS
  <1>0. MockSavings \subseteq Nat /\ RpcSavings \subseteq Nat
    BY SavingsAssumption
  <1>1. CASE UNCHANGED vars
    BY <1>1, SavingsKept DEF vars
  <1>2. ASSUME NEW t \in Tasks, ask_savings(t) \/ savings_answered(t) \/ mock_signed(t)
        PROVE  SavingsInv'
    BY <1>0, <1>2, SavingsKept, CompletedSaves DEF ask_savings, savings_answered, mock_signed
  <1>3. ASSUME NEW t \in Tasks,
               \/ api_created(t) \/ api_ready(t) \/ connect_failed(t) \/ api_disconnected(t)
               \/ disconnect_failed(t)
               \/ enableMockWallet(t) \/ web3Enabled(t) \/ web3Accounts(t)
        PROVE  SavingsInv'
    BY <1>3, SavingsKept DEF api_created, api_ready, connect_failed, api_disconnected,
       disconnect_failed, enableMockWallet, web3Enabled, web3Accounts, wallet_connected
  <1>4. ASSUME NEW t \in Tasks,
               \/ after_connect(t) \/ after_sleep(t) \/ sent(t) \/ in_block(t) \/ submit_failed(t)
               \/ fallback(t) \/ null_extrinsic(t) \/ hook_returned(t)
        PROVE  SavingsInv'
    BY <1>4, SavingsKept DEF after_connect, after_sleep, sent, in_block, submit_failed,
       fallback, null_extrinsic, hook_returned
  <1>5. ASSUME NEW t \in Tasks, Call(t)
        PROVE  SavingsInv'
    BY <1>5, SavingsKept DEF Call, connect, disconnect, setEndpoint, connectWallet, quickSponsor
  <1>6. CASE disconnectWallet
    BY <1>6, SavingsKept DEF disconnectWallet
  <1>7. CASE resetDemo
    <2>1. gasSavings' = 0 /\ transactionHistory' = <<>>
      BY <1>7 DEF resetDemo
    <2>2. DOMAIN Saved' = {}
      BY <2>1 DEF Saved
    <2>3. SumFunction(Saved') = 0
      BY <2>2, SumEmpty DEF SumFunction
    <2> QED
      BY <2>1, <2>3 DEF SavingsInv, HistoryExplainsSavings
  <1> QED
    BY <1>1, <1>2, <1>3, <1>4, <1>5, <1>6, <1>7 DEF Next, Resume

\* Until the history is cut, the savings shown are the sum of its entries,
\* however many calls and resets overlap (quickSponsor, resetDemo).
THEOREM HistoryAddsUp == Spec => []HistoryExplainsSavings
  <1>1. Init => SavingsInv
    <2> SUFFICES ASSUME Init PROVE SavingsInv
      OBVIOUS
    <2>1. gasSavings = 0 /\ transactionHistory = <<>>
      BY DEF Init
    <2>2. SumFunction(Saved) = 0
      BY <2>1, SumEmpty DEF SumFunction, Saved
    <2> QED
      BY <2>1, <2>2 DEF SavingsInv, HistoryExplainsSavings
  <1>2. SavingsInv => HistoryExplainsSavings
    BY DEF SavingsInv
  <1> QED
    BY <1>1, <1>2, SavingsStep, PTL DEF Spec
=============================================================================
