------------------------------ MODULE DemoSdk ------------------------------
(***************************************************************************)
(* The demo SDK (sdk/src/demo-sdk.ts) and the React hook that calls it     *)
(* (sdk/src/hooks.ts, useSponsoredTransaction).  The SDK is a singleton    *)
(* whose async methods overlap: a task is one running call, and each step  *)
(* of a task is the code between two awaits, so every other task may run   *)
(* in between.  What a task waits for (node, wallet extension, timer)      *)
(* answers or fails.                                                       *)
(*                                                                         *)
(* The extrinsic a task submits is executed by the sponsorship pallet,     *)
(* whose gateway knows only some parachains (XcmGateway).                  *)
(***************************************************************************)
EXTENDS XcmGateway, Sequences

CONSTANTS
    Tasks,                 \* calls that may be running at once
    TargetChains,          \* targetChain arguments; "" is a missing one
    MockSavings,           \* what mockData.generateSavings may return
    RpcSavings,            \* what the node may answer to getUserGasSavings
    MaxHistory,            \* transactions kept in the history (100)
    MaxCalls               \* bound: calls started

ASSUME SavingsAssumption ==
    MockSavings \subseteq Nat /\ RpcSavings \subseteq Nat /\ MaxHistory \in Nat

VARIABLES
    api,                   \* this.api is not null
    isConnected,
    wallet,                \* walletConnection and mockWallet: "none", "mock" or "real"
    gasSavings,
    transactionHistory,    \* newest first
    task,                  \* the running calls
    hook,                  \* state of useSponsoredTransaction
    calls                  \* number of calls started

sdkVars == <<api, isConnected, wallet>>
savingsVars == <<gasSavings, transactionHistory>>
vars == <<sdkVars, savingsVars, task, hook, calls>>

Idle == [job |-> "none", pc |-> "idle", chain |-> "", hash |-> "none", ret |-> "none"]

\* isNodeConnected
isNodeConnected == isConnected /\ api

\* The parachain quickSponsor asks for.
para_id(targetChain) == IF targetChain = "astar" THEN 2007 ELSE 2000

At(t, pc) == task[t].pc = pc
Goto(t, pc) == task' = [task EXCEPT ![t].pc = pc]

\* A task that has nothing more to do.
Done(t) == task' = [task EXCEPT ![t] = Idle]

Start(t, job, chain, pc) ==
    /\ At(t, "idle")
    /\ calls < MaxCalls
    /\ calls' = calls + 1
    /\ task' = [task EXCEPT ![t] = [Idle EXCEPT !.job = job, !.chain = chain, !.pc = pc]]

-----------------------------------------------------------------------------
(* connect, disconnect, setEndpoint.                                       *)

\* connect returns at once when there is a connection.
connect_pc == IF isNodeConnected THEN "connected" ELSE "creating"

connect(t) == Start(t, "connect", "", connect_pc) /\ UNCHANGED <<sdkVars, savingsVars, hook>>

\* ApiPromise.create resolves.
api_created(t) ==
    /\ At(t, "creating")
    /\ api' = TRUE
    /\ Goto(t, "readying")
    /\ UNCHANGED <<isConnected, wallet, savingsVars, hook, calls>>

api_ready(t) ==
    /\ At(t, "readying")
    /\ isConnected' = TRUE
    /\ Goto(t, "connected")
    /\ UNCHANGED <<api, wallet, savingsVars, hook, calls>>

\* Mutant: the handle of the failed connection is kept.
connect_failed_keeps_api(t) ==
    /\ At(t, "creating") \/ At(t, "readying")
    /\ isConnected' = FALSE
    /\ Goto(t, "connected")
    /\ UNCHANGED <<api, wallet, savingsVars, hook, calls>>

\* catch in connect: mock mode, also when another call has connected meanwhile.
connect_failed(t) ==
    /\ At(t, "creating") \/ At(t, "readying")
    /\ isConnected' = FALSE
    /\ api' = FALSE
    /\ Goto(t, "connected")
    /\ UNCHANGED <<wallet, savingsVars, hook, calls>>

disconnect(t) ==
    \/ /\ api
       /\ Start(t, "disconnect", "", "disconnecting")
       /\ UNCHANGED <<sdkVars, savingsVars, hook>>
    \/ /\ ~api
       /\ isConnected' = FALSE
       /\ UNCHANGED <<api, wallet, savingsVars, task, hook, calls>>

\* setEndpoint only reconnects; which endpoint is used makes no difference here.
setEndpoint(t) ==
    /\ isConnected
    /\ \/ /\ api
          /\ Start(t, "setEndpoint", "", "disconnecting")
          /\ UNCHANGED sdkVars
       \/ /\ ~api
          /\ Start(t, "connect", "", "creating")
          /\ isConnected' = FALSE
          /\ UNCHANGED <<api, wallet>>
    /\ UNCHANGED <<savingsVars, hook>>

\* api.disconnect() resolves; setEndpoint then connects again.
api_disconnected(t) ==
    /\ At(t, "disconnecting")
    /\ api' = FALSE
    /\ isConnected' = FALSE
    /\ IF task[t].job = "setEndpoint" THEN Goto(t, "creating") ELSE Done(t)
    /\ UNCHANGED <<wallet, savingsVars, hook, calls>>

\* api.disconnect() rejects: disconnect ends there.
disconnect_failed(t) ==
    /\ At(t, "disconnecting")
    /\ Done(t)
    /\ UNCHANGED <<sdkVars, savingsVars, hook, calls>>

-----------------------------------------------------------------------------
(* connectWallet, disconnectWallet.                                        *)

connectWallet(t) ==
    Start(t, "connectWallet", "", "enabling") /\ UNCHANGED <<sdkVars, savingsVars, hook>>

\* The end of connectWallet, in quickSponsor followed by a delay.
wallet_connected(t, kind) ==
    /\ wallet' = kind
    /\ IF task[t].job = "sponsor" THEN Goto(t, "sleeping") ELSE Done(t)
    /\ UNCHANGED <<api, isConnected, savingsVars, hook, calls>>

\* No extension, no account, or an error: the mock wallet.
enableMockWallet(t) ==
    /\ At(t, "enabling") \/ At(t, "accounts")
    /\ wallet_connected(t, "mock")

\* web3Enable found an extension.
web3Enabled(t) ==
    /\ At(t, "enabling")
    /\ Goto(t, "accounts")
    /\ UNCHANGED <<sdkVars, savingsVars, hook, calls>>

\* web3Accounts found an account.
web3Accounts(t) == At(t, "accounts") /\ wallet_connected(t, "real")

disconnectWallet ==
    /\ wallet' = "none"
    /\ UNCHANGED <<api, isConnected, savingsVars, task, hook, calls>>

-----------------------------------------------------------------------------
(* signAndSubmitTransaction: what it does first.                           *)

submit_pc ==
    IF wallet = "none" THEN "throws"
    ELSE IF wallet = "mock" \/ ~isNodeConnected THEN "mocksigning"
    ELSE "injecting"

\* signAndSubmitTransaction(null): with a real wallet and a node the missing
\* extrinsic is an error once the wallet has answered.
submit_null_pc ==
    CASE submit_pc = "throws" -> "failed"
      [] submit_pc = "mocksigning" -> "mocksigning"
      [] submit_pc = "injecting" -> "injecting_null"

-----------------------------------------------------------------------------
(* quickSponsor, called by the hook.                                       *)

quickSponsor(t, chain) ==
    /\ Start(t, "sponsor", chain, IF chain = "" THEN "failed" ELSE connect_pc)
    /\ hook' = [hook EXCEPT !.isLoading = TRUE, !.status = "Pending"]
    /\ UNCHANGED <<sdkVars, savingsVars>>

\* connect has returned.
after_connect(t) ==
    /\ At(t, "connected")
    /\ CASE task[t].job # "sponsor" -> Done(t)
         [] task[t].job = "sponsor" /\ wallet = "none" -> Goto(t, "enabling")
         [] task[t].job = "sponsor" /\ wallet # "none" -> Goto(t, "sleeping")
    /\ UNCHANGED <<sdkVars, savingsVars, hook, calls>>

\* The delay is over.  A wallet that is gone now makes the real path throw.
after_sleep(t) ==
    /\ At(t, "sleeping")
    /\ IF isNodeConnected /\ wallet # "mock"
       THEN Goto(t, IF submit_pc = "throws" THEN "fallback" ELSE submit_pc)
       ELSE Goto(t, submit_null_pc)
    /\ UNCHANGED <<sdkVars, savingsVars, hook, calls>>

\* web3FromAddress resolves: the extrinsic is signed and sent.
sent(t) ==
    /\ At(t, "injecting")
    /\ Goto(t, "submitted")
    /\ UNCHANGED <<sdkVars, savingsVars, hook, calls>>

\* What sponsor_transaction may return: Ok only for a parachain the gateway knows.
Returns(t) == IF FeeKnown(para_id(task[t].chain)) THEN {"Ok", "Err"} ELSE {"Err"}

\* status.isInBlock: resolved whether or not the dispatch succeeded.
in_block(t) ==
    /\ At(t, "submitted")
    /\ \E ret \in Returns(t) :
          task' = [task EXCEPT ![t].pc = "in_block", ![t].hash = "block", ![t].ret = ret]
    /\ UNCHANGED <<sdkVars, savingsVars, hook, calls>>

\* Mutant: an error of the submission is logged and not passed on.
submit_failed_silently(t) ==
    /\ \/ At(t, "injecting") /\ Goto(t, "fallback")
       \/ At(t, "submitted") /\ Goto(t, "unresolved")
    /\ UNCHANGED <<sdkVars, savingsVars, hook, calls>>

\* The wallet refuses, or the submission ends with an error; after an error of
\* the connection the extrinsic may have been executed all the same.
submit_failed(t) ==
    /\ \/ At(t, "injecting") /\ Goto(t, "fallback")
       \/ /\ At(t, "submitted")
          /\ \E ret \in Returns(t) \cup {"none"} :
                task' = [task EXCEPT ![t].pc = "fallback", ![t].ret = ret]
    /\ UNCHANGED <<sdkVars, savingsVars, hook, calls>>

\* catch (blockchainError): a second try without an extrinsic.
fallback(t) ==
    /\ At(t, "fallback")
    /\ Goto(t, submit_null_pc)
    /\ UNCHANGED <<sdkVars, savingsVars, hook, calls>>

null_extrinsic(t) ==
    /\ At(t, "injecting_null")
    /\ Goto(t, "failed")
    /\ UNCHANGED <<sdkVars, savingsVars, hook, calls>>

addTransactionToHistory(transaction) ==
    transactionHistory' = SubSeq(<<transaction>> \o transactionHistory, 1,
        IF Len(transactionHistory) < MaxHistory THEN Len(transactionHistory) + 1 ELSE MaxHistory)

\* The end of quickSponsor's try block.
completed(t, txHash, gasSaved) ==
    /\ gasSavings' = gasSavings + gasSaved
    /\ addTransactionToHistory([txHash |-> txHash, gasSaved |-> gasSaved])
    /\ task' = [task EXCEPT ![t].pc = "succeeded", ![t].hash = txHash]
    /\ UNCHANGED <<sdkVars, hook, calls>>

\* Mutant: the account is read outside the try block around the RPC call.
ask_savings_unguarded(t) ==
    /\ At(t, "in_block")
    /\ Goto(t, IF wallet = "none" THEN "fallback" ELSE "asking")
    /\ UNCHANGED <<sdkVars, savingsVars, hook, calls>>

\* The savings are asked for; without a wallet or a node reading the account
\* or the api throws, which gives mock savings.
ask_savings(t) ==
    /\ At(t, "in_block")
    /\ \/ /\ wallet = "none" \/ ~api
          /\ \E gasSaved \in MockSavings : completed(t, "block", gasSaved)
       \/ /\ wallet # "none" /\ api
          /\ Goto(t, "asking")
          /\ UNCHANGED <<sdkVars, savingsVars, hook, calls>>

savings_answered(t) ==
    /\ At(t, "asking")
    /\ \E gasSaved \in RpcSavings \cup MockSavings : completed(t, "block", gasSaved)

mock_signed(t) ==
    /\ At(t, "mocksigning")
    /\ \E gasSaved \in MockSavings : completed(t, "mock", gasSaved)

\* Mutant: a failed result leaves the status as it was.
hook_returned_ok_only(t) ==
    /\ At(t, "succeeded") \/ At(t, "failed")
    /\ hook' = [isLoading |-> FALSE,
                status |-> IF At(t, "succeeded") THEN "Executed" ELSE hook.status,
                result |-> IF At(t, "succeeded") THEN "Executed" ELSE "Failed"]
    /\ Done(t)
    /\ UNCHANGED <<sdkVars, savingsVars, calls>>

\* quickSponsor never throws: the hook shows its result.
hook_returned(t) ==
    /\ At(t, "succeeded") \/ At(t, "failed")
    /\ LET status == IF At(t, "succeeded") THEN "Executed" ELSE "Failed" IN
       hook' = [isLoading |-> FALSE, status |-> status, result |-> status]
    /\ Done(t)
    /\ UNCHANGED <<sdkVars, savingsVars, calls>>

\* Mutant: only the counter is reset.
resetDemo_counter_only ==
    /\ gasSavings' = 0
    /\ UNCHANGED <<sdkVars, transactionHistory, task, hook, calls>>

resetDemo ==
    /\ gasSavings' = 0
    /\ transactionHistory' = <<>>
    /\ UNCHANGED <<sdkVars, task, hook, calls>>

-----------------------------------------------------------------------------
Init ==
    /\ api = FALSE
    /\ isConnected = FALSE
    /\ wallet = "none"
    /\ gasSavings = 0
    /\ transactionHistory = <<>>
    /\ task = [t \in Tasks |-> Idle]
    /\ hook = [isLoading |-> FALSE, status |-> "none", result |-> "none"]
    /\ calls = 0

\* A step of a running call: what it waited for has answered or failed.
Resume(t) ==
    \/ api_created(t) \/ api_ready(t) \/ connect_failed(t) \/ api_disconnected(t)
    \/ disconnect_failed(t)
    \/ enableMockWallet(t) \/ web3Enabled(t) \/ web3Accounts(t)
    \/ after_connect(t) \/ after_sleep(t) \/ sent(t) \/ in_block(t) \/ submit_failed(t)
    \/ fallback(t) \/ null_extrinsic(t) \/ ask_savings(t) \/ savings_answered(t)
    \/ mock_signed(t) \/ hook_returned(t)

Call(t) ==
    \/ connect(t) \/ disconnect(t) \/ setEndpoint(t) \/ connectWallet(t)
    \/ \E chain \in TargetChains : quickSponsor(t, chain)

Next ==
    \/ \E t \in Tasks : Resume(t) \/ Call(t)
    \/ disconnectWallet
    \/ resetDemo

\* Every timer fires and everything a call waits for answers or fails.
Fairness == \A t \in Tasks : WF_vars(Resume(t))

Spec == Init /\ [][Next]_vars /\ Fairness
=============================================================================
