------------------------ MODULE GasSavingsApiProofs ------------------------
(***************************************************************************)
(* Machine-checked proofs that the backend's books agree for any users,    *)
(* requests and costs, however the handlers interleave and fail.           *)
(***************************************************************************)
EXTENDS GasSavingsApiProps, FiniteSums

\* The rows added since init.sql are well formed, stored under their own id and
\* finitely many.
HistoryTypes ==
    /\ DOMAIN SeededHistory \subseteq DOMAIN history
    /\ IsFiniteSet(DOMAIN history \ DOMAIN SeededHistory)
    /\ \A t \in DOMAIN history \ DOMAIN SeededHistory :
          history[t] \in Rows /\ history[t].transaction_id = t

SavingsTypes == \A u \in DOMAIN savings : savings[u] \in Nat

CacheTypes == \A u \in DOMAIN cache : cache[u].value \in Nat

GetTypes ==
    get \in [Gets -> [pc : {"idle", "query", "fill", "answered", "failed"},
                      user : Users \cup {"none"}, value : Nat]]

PostTypes ==
    post \in [Posts -> [pc : {"idle", "invalidate", "notify", "created", "failed"},
                        row : Rows \cup {NoRow}, inserted : BOOLEAN]]

\* A handler past its INSERT holds the row that the table has, and no two
\* handlers inserted the same transaction.
InsertedRows ==
    /\ \A p \in Posts : post[p].pc \in {"invalidate", "notify", "created"} => post[p].inserted
    /\ \A p \in Posts : post[p].inserted =>
          LET t == post[p].row.transaction_id IN
          t \in DOMAIN history \ DOMAIN SeededHistory /\ history[t] = post[p].row
    /\ \A p, q \in Posts : post[p].inserted /\ post[q].inserted
          /\ post[p].row.transaction_id = post[q].row.transaction_id => p = q
    /\ \A p \in Posts : post[p].pc = "notify" => post[p].row.status = "executed"

\* Only the handler that inserted a transaction announces it, as its last step.
Announcements ==
    /\ emails \in [TxIds -> Nat]
    /\ \A t \in TxIds : emails[t] # 0 =>
          /\ emails[t] = 1
          /\ \E p \in Posts : /\ post[p].pc = "created"
                              /\ post[p].row.transaction_id = t
                              /\ post[p].row.status = "executed"

\* The inductive invariant.
ApiInv == /\ HistoryTypes /\ SavingsTypes /\ CacheTypes /\ GetTypes /\ PostTypes
          /\ InsertedRows /\ Announcements
          /\ SavingsMatchHistory /\ NeverAhead

\* Totals are natural numbers.
LEMMA TotalType == ASSUME SavingsTypes, NEW u PROVE TotalSaved(u) \in Nat
  BY DEF SavingsTypes, TotalSaved

-----------------------------------------------------------------------------
(* Parts of the state that a step leaves alone keep what is said of them.  *)

\* The database's books.
LEMMA BooksKept ==
    ASSUME ApiInv, UNCHANGED <<history, savings>>
    PROVE  /\ HistoryTypes' /\ SavingsTypes' /\ SavingsMatchHistory'
           /\ \A u : TotalSaved(u)' = TotalSaved(u)
  BY DEF ApiInv, HistoryTypes, SavingsTypes, SavingsMatchHistory, TotalSaved, GasCost,
         ExecutedSince

\* The handlers of POST and what they announced.
LEMMA PostsKept ==
    ASSUME ApiInv, UNCHANGED <<history, post, emails>>
    PROVE  PostTypes' /\ InsertedRows' /\ Announcements'
  BY DEF ApiInv, PostTypes, InsertedRows, Announcements

\* The cache and the handlers of GET.
LEMMA ReadersKept ==
    ASSUME ApiInv, UNCHANGED <<cache, get, savings>>
    PROVE  CacheTypes' /\ GetTypes' /\ NeverAhead'
  BY DEF ApiInv, CacheTypes, GetTypes, NeverAhead, TotalSaved

-----------------------------------------------------------------------------
(* One lemma per step of a handler.                                        *)

\* The initial state.
LEMMA InitApi == Init => ApiInv
  <1> SUFFICES ASSUME Init PROVE ApiInv
    OBVIOUS
  <1>1. DOMAIN history \ DOMAIN SeededHistory = {}
    BY DEF Init
  <1>2. HistoryTypes
    BY <1>1, FS_EmptySet DEF Init, HistoryTypes
  <1>3. SavingsTypes
    BY ApiAssumption DEF Init, SavingsTypes
  <1>4. CacheTypes /\ GetTypes /\ PostTypes
    BY DEF Init, CacheTypes, GetTypes, PostTypes
  <1>5. InsertedRows /\ Announcements
    BY DEF Init, InsertedRows, Announcements
  <1>6. SavingsMatchHistory
    <2> SUFFICES ASSUME NEW u \in Users
                 PROVE  TotalSaved(u) = SeededTotal(u) + SumFunctionOnSet(GasCost, ExecutedSince(u))
      BY DEF SavingsMatchHistory
    <2>1. ExecutedSince(u) = {}
      BY <1>1 DEF ExecutedSince
    <2>2. SumFunctionOnSet(GasCost, ExecutedSince(u)) = 0
      BY <2>1, SumEmpty
    <2>3. TotalSaved(u) = SeededTotal(u) /\ SeededTotal(u) \in Nat
      BY ApiAssumption DEF Init, TotalSaved, SeededTotal
    <2> QED
      BY <2>2, <2>3
  <1>7. NeverAhead
    BY DEF Init, NeverAhead
  <1> QED
    BY <1>2, <1>3, <1>4, <1>5, <1>6, <1>7 DEF ApiInv

\* GET: a lookup answers with a cached value, which is not ahead.
LEMMA GetLookupApi ==
    ASSUME ApiInv, NEW g \in Gets, NEW u \in Users, GetLookup(g, u)
    PROVE  ApiInv'
  <1>1. CacheTypes' /\ GetTypes'
    BY DEF ApiInv, CacheTypes, GetTypes, GetLookup
  <1>2. NeverAhead'
    BY BooksKept DEF ApiInv, NeverAhead, CacheTypes, GetTypes, GetLookup
  <1> QED
    BY <1>1, <1>2, BooksKept, PostsKept DEF ApiInv, GetLookup

\* GET: the query reads the total of the moment.
LEMMA GetQueryApi ==
    ASSUME ApiInv, NEW g \in Gets, GetQuery(g)
    PROVE  ApiInv'
  <1>1. TotalSaved(get[g].user) \in Nat
    BY TotalType DEF ApiInv
  <1>2. CacheTypes' /\ GetTypes'
    BY <1>1 DEF ApiInv, CacheTypes, GetTypes, GetQuery
  <1>3. NeverAhead'
    BY <1>1, BooksKept DEF ApiInv, NeverAhead, CacheTypes, GetTypes, GetQuery
  <1> QED
    BY <1>2, <1>3, BooksKept, PostsKept DEF ApiInv, GetQuery

\* GET: the cache gets the value read before, which has not overtaken the total.
LEMMA GetFillApi ==
    ASSUME ApiInv, NEW g \in Gets, GetFill(g)
    PROVE  ApiInv'
  <1>1. CacheTypes' /\ GetTypes'
    BY DEF ApiInv, CacheTypes, GetTypes, GetFill, Put
  <1>2. NeverAhead'
    BY BooksKept DEF ApiInv, NeverAhead, CacheTypes, GetTypes, GetFill, Put
  <1> QED
    BY <1>1, <1>2, BooksKept, PostsKept DEF ApiInv, GetFill

\* GET: a failed await ends the handler.
LEMMA GetFailApi ==
    ASSUME ApiInv, NEW g \in Gets, GetFail(g)
    PROVE  ApiInv'
  <1>1. CacheTypes' /\ GetTypes'
    BY DEF ApiInv, CacheTypes, GetTypes, GetFail
  <1>2. NeverAhead'
    BY BooksKept DEF ApiInv, NeverAhead, CacheTypes, GetTypes, GetFail
  <1> QED
    BY <1>1, <1>2, BooksKept, PostsKept DEF ApiInv, GetFail

\* An entry leaves the cache.
LEMMA DropKept ==
    ASSUME ApiInv, NEW u, cache' = Drop(cache, u), UNCHANGED <<get, savings>>
    PROVE  CacheTypes' /\ GetTypes' /\ NeverAhead'
  BY DEF ApiInv, CacheTypes, GetTypes, NeverAhead, TotalSaved, Drop

\* Redis expires an entry.
LEMMA ExpireApi ==
    ASSUME ApiInv, NEW u \in Users, Expire(u)
    PROVE  ApiInv'
  BY BooksKept, PostsKept, DropKept DEF ApiInv, Expire

\* POST: a statement that is refused or rejected leaves the table alone.
LEMMA PostFailed ==
    ASSUME ApiInv, NEW p \in Posts, UNCHANGED <<history, emails>>,
           post[p].pc \in {"idle", "invalidate"},
           \/ post' = [post EXCEPT ![p].pc = "failed"]
           \/ \E row \in Rows :
                post' = [post EXCEPT ![p] = [pc |-> "failed", row |-> row, inserted |-> FALSE]]
    PROVE  PostTypes' /\ InsertedRows' /\ Announcements'
  <1>1. PostTypes'
    <2>1. CASE post' = [post EXCEPT ![p].pc = "failed"]
      BY <2>1 DEF ApiInv, PostTypes
    <2>2. ASSUME NEW row \in Rows,
                 post' = [post EXCEPT ![p] = [pc |-> "failed", row |-> row, inserted |-> FALSE]]
          PROVE  PostTypes'
      BY <2>2 DEF ApiInv, PostTypes
    <2> QED
      BY <2>1, <2>2
  <1>2. InsertedRows'
    BY DEF ApiInv, PostTypes, InsertedRows
  <1>3. \A q \in Posts : post[q].pc = "created" => post'[q] = post[q]
    BY DEF ApiInv, PostTypes
  <1>4. Announcements'
    BY <1>3 DEF ApiInv, Announcements
  <1> QED
    BY <1>1, <1>2, <1>4

\* POST: an await rejects.
LEMMA PostFailApi ==
    ASSUME ApiInv, NEW p \in Posts, PostFail(p)
    PROVE  ApiInv'
  BY PostFailed, BooksKept, ReadersKept DEF ApiInv, PostFail

\* POST: the cache entry is dropped after the INSERT.
LEMMA PostInvalidateApi ==
    ASSUME ApiInv, NEW p \in Posts, PostInvalidate(p)
    PROVE  ApiInv'
  <1>1. PostTypes'
    BY DEF ApiInv, PostTypes, PostInvalidate
  <1>2. InsertedRows'
    BY DEF ApiInv, PostTypes, InsertedRows, PostInvalidate
  <1>3. Announcements'
    BY DEF ApiInv, PostTypes, Announcements, PostInvalidate
  <1> QED
    BY <1>1, <1>2, <1>3, BooksKept, DropKept DEF ApiInv, PostInvalidate

\* POST: the one handler that inserted a transaction announces it.
LEMMA PostNotifyApi ==
    ASSUME ApiInv, NEW p \in Posts, PostNotify(p)
    PROVE  ApiInv'
  <1> DEFINE t == post[p].row.transaction_id
  <1>1. PostTypes'
    BY DEF ApiInv, PostTypes, PostNotify
  <1>2. InsertedRows'
    BY DEF ApiInv, PostTypes, InsertedRows, PostNotify
  <1>3. post[p].inserted /\ t \in TxIds /\ post[p].row.status = "executed"
    BY DEF ApiInv, InsertedRows, PostNotify, HistoryTypes, Rows
  <1>4. emails[t] = 0
    BY <1>3 DEF ApiInv, InsertedRows, Announcements, PostNotify
  <1>5. Announcements'
    <2>1. post'[p].pc = "created" /\ post'[p].row = post[p].row
      BY DEF ApiInv, PostTypes, PostNotify
    <2>2. \A q \in Posts : post[q].pc = "created" => post'[q] = post[q]
      BY DEF ApiInv, PostTypes, PostNotify
    <2>3. emails' \in [TxIds -> Nat] /\ emails'[t] \in {0, 1}
          /\ \A s \in TxIds \ {t} : emails'[s] = emails[s]
      BY <1>3, <1>4 DEF ApiInv, Announcements, PostNotify
    <2> QED
      BY <1>3, <2>1, <2>2, <2>3 DEF ApiInv, Announcements
  <1> QED
    BY <1>1, <1>2, <1>5, BooksKept, ReadersKept DEF ApiInv, PostNotify

-----------------------------------------------------------------------------
(* The INSERT with its trigger.                                            *)

Inserts(p, row) ==
    /\ row.transaction_id \notin DOMAIN history
    /\ history' = Put(history, row.transaction_id, row)
    /\ savings' = update_user_gas_savings(row)
    /\ post' = [post EXCEPT ![p] = [pc |-> "invalidate", row |-> row, inserted |-> TRUE]]
    /\ UNCHANGED <<cache, get, emails>>

\* The table gains the row and keeps the others.
LEMMA InsertHistory ==
    ASSUME ApiInv, NEW p \in Posts, NEW row \in Rows, Inserts(p, row)
    PROVE  /\ row.transaction_id \notin DOMAIN SeededHistory
           /\ DOMAIN history' = DOMAIN history \cup {row.transaction_id}
           /\ history'[row.transaction_id] = row
           /\ \A t \in DOMAIN history : history'[t] = history[t]
           /\ HistoryTypes'
  <1> DEFINE t == row.transaction_id
             old == DOMAIN history \ DOMAIN SeededHistory
  <1>1. t \notin DOMAIN SeededHistory
    BY DEF ApiInv, HistoryTypes, Inserts
  <1>2. /\ DOMAIN history' = DOMAIN history \cup {t}
        /\ history'[t] = row
        /\ \A s \in DOMAIN history : history'[s] = history[s]
    BY DEF Inserts, Put
  <1>3. DOMAIN history' \ DOMAIN SeededHistory = old \cup {t}
    BY <1>1, <1>2
  <1>4. IsFiniteSet(old \cup {t})
    BY FS_AddElement DEF ApiInv, HistoryTypes
  <1> QED
    BY <1>1, <1>2, <1>3, <1>4 DEF ApiInv, HistoryTypes, Inserts

\* The trigger adds the cost of an executed row to its user's total.
LEMMA InsertTotals ==
    ASSUME ApiInv, NEW p \in Posts, NEW row \in Rows, Inserts(p, row), NEW u
    PROVE  TotalSaved(u)' = IF u = row.user /\ row.status = "executed"
                            THEN TotalSaved(u) + row.gas_cost ELSE TotalSaved(u)
  BY DEF Inserts, update_user_gas_savings, TotalSaved, Put

\* The sum of a user's counted rows grows by the same cost.
LEMMA InsertSums ==
    ASSUME ApiInv, NEW p \in Posts, NEW row \in Rows, Inserts(p, row), NEW u
    PROVE  LET sum == SumFunctionOnSet(GasCost, ExecutedSince(u)) IN
           /\ sum \in Nat
           /\ SumFunctionOnSet(GasCost', ExecutedSince(u)') =
                IF u = row.user /\ row.status = "executed" THEN sum + row.gas_cost ELSE sum
  <1> DEFINE t == row.transaction_id
             E == ExecutedSince(u)
             cost == GasCost
             newCost == GasCost'
  <1>1. IsFiniteSet(E)
    <2>1. E \in SUBSET (DOMAIN history \ DOMAIN SeededHistory)
      BY DEF ExecutedSince
    <2> QED
      BY <2>1, FS_Subset DEF ApiInv, HistoryTypes
  <1>2. t \notin E
    BY DEF ExecutedSince, Inserts
  <1>3. \A x \in E : cost[x] \in Nat
    BY ApiAssumption DEF ExecutedSince, GasCost, ApiInv, HistoryTypes, Rows
  <1>4. \A x \in E : newCost[x] = cost[x]
    BY InsertHistory DEF ExecutedSince, GasCost
  <1>5. newCost[t] = row.gas_cost /\ row.gas_cost \in Nat
    BY InsertHistory, ApiAssumption DEF GasCost, Rows
  <1>6. E' = IF u = row.user /\ row.status = "executed" THEN E \cup {t} ELSE E
    <2>1. \A x : x \in E' <=> \/ x \in E
                              \/ x = t /\ u = row.user /\ row.status = "executed"
      <3>1. /\ t \notin DOMAIN SeededHistory
            /\ DOMAIN history' = DOMAIN history \cup {t}
            /\ history'[t] = row
            /\ \A x \in DOMAIN history : history'[x] = history[x]
        BY InsertHistory
      <3>2. \A x : x \in E' <=> /\ x \in DOMAIN history' \ DOMAIN SeededHistory
                                /\ history'[x].user = u /\ history'[x].status = "executed"
        BY DEF ExecutedSince
      <3>3. \A x : x \in E <=> /\ x \in DOMAIN history \ DOMAIN SeededHistory
                               /\ history[x].user = u /\ history[x].status = "executed"
        BY DEF ExecutedSince
      <3>4. t \notin DOMAIN history
        BY DEF Inserts
      <3> HIDE DEF E
      <3> QED
        BY <3>1, <3>2, <3>3, <3>4
    <2> HIDE DEF E
    <2> QED
      BY <2>1
  <1> HIDE DEF E, cost, newCost
  <1>7. SumFunctionOnSet(newCost, E) = SumFunctionOnSet(cost, E)
    BY <1>1, <1>4, SumSame
  <1>8. SumFunctionOnSet(cost, E) \in Nat
    BY <1>1, <1>3, SumType
  <1>9. SumFunctionOnSet(newCost, E \cup {t}) = newCost[t] + SumFunctionOnSet(newCost, E)
    BY <1>1, <1>2, <1>3, <1>4, <1>5, SumAdd
  <1> QED
    BY <1>5, <1>6, <1>7, <1>8, <1>9 DEF E, cost, newCost

\* POST: the INSERT keeps the books, whoever reads or posts at the same time.
LEMMA PostInsertApi ==
    ASSUME ApiInv, NEW p \in Posts, NEW row \in Rows, PostInsert(p, row)
    PROVE  ApiInv'
  <1> DEFINE t == row.transaction_id
  <1>1. CASE Duplicate(t)
    BY <1>1, PostFailed, BooksKept, ReadersKept DEF ApiInv, PostInsert, Duplicate
  <1>2. CASE ~Duplicate(t)
    <2>1. Inserts(p, row) /\ post[p].pc = "idle"
      BY <1>2 DEF PostInsert, Inserts, Duplicate
    <2>2. HistoryTypes'
      BY <2>1, InsertHistory
    <2>3. row.gas_cost \in Nat /\ \A u : TotalSaved(u) \in Nat
      BY TotalType, ApiAssumption DEF ApiInv, Rows
    <2>4. \A u : TotalSaved(u)' \in Nat /\ TotalSaved(u) <= TotalSaved(u)'
      BY <2>1, <2>3, InsertTotals
    <2>5. SavingsTypes'
      BY <2>1, <2>3 DEF ApiInv, SavingsTypes, Inserts, update_user_gas_savings, Put
    <2>6. CacheTypes' /\ GetTypes'
      BY <2>1 DEF ApiInv, CacheTypes, GetTypes, Inserts
    <2>7. PostTypes'
      BY <2>1 DEF ApiInv, PostTypes, Inserts
    <2>8. /\ post'[p] = [pc |-> "invalidate", row |-> row, inserted |-> TRUE]
          /\ \A q \in Posts \ {p} : post'[q] = post[q]
      BY <2>1 DEF ApiInv, PostTypes, Inserts
    <2>9. InsertedRows'
      <3>1. \A q \in Posts \ {p} : post[q].inserted => post[q].row.transaction_id # t
        BY <2>1 DEF ApiInv, InsertedRows, Inserts
      <3>2. \A q \in Posts : post'[q].pc \in {"invalidate", "notify", "created"} => post'[q].inserted
        BY <2>8 DEF ApiInv, InsertedRows
      <3>3. \A q \in Posts : post'[q].inserted =>
              /\ post'[q].row.transaction_id \in DOMAIN history' \ DOMAIN SeededHistory
              /\ history'[post'[q].row.transaction_id] = post'[q].row
        <4> SUFFICES ASSUME NEW q \in Posts, post'[q].inserted
                     PROVE  /\ post'[q].row.transaction_id \in DOMAIN history' \ DOMAIN SeededHistory
                            /\ history'[post'[q].row.transaction_id] = post'[q].row
          OBVIOUS
        <4>1. /\ t \notin DOMAIN SeededHistory
              /\ DOMAIN history' = DOMAIN history \cup {t}
              /\ history'[t] = row
              /\ \A x \in DOMAIN history : history'[x] = history[x]
          BY <2>1, InsertHistory
        <4>2. CASE q = p
          BY <2>8, <4>1, <4>2
        <4>3. CASE q # p
          BY <2>8, <4>1, <4>3 DEF ApiInv, InsertedRows
        <4> QED
          BY <4>2, <4>3
      <3>4. \A q, r \in Posts : post'[q].inserted /\ post'[r].inserted
              /\ post'[q].row.transaction_id = post'[r].row.transaction_id => q = r
        BY <2>8, <3>1 DEF ApiInv, InsertedRows
      <3>5. \A q \in Posts : post'[q].pc = "notify" => post'[q].row.status = "executed"
        BY <2>8 DEF ApiInv, InsertedRows
      <3> QED
        BY <3>2, <3>3, <3>4, <3>5 DEF InsertedRows
    <2>10. Announcements'
      BY <2>1, <2>8 DEF ApiInv, Announcements, Inserts
    <2>11. SavingsMatchHistory'
      <3> SUFFICES ASSUME NEW u \in Users
                   PROVE  TotalSaved(u)' = SeededTotal(u)
                              + SumFunctionOnSet(GasCost', ExecutedSince(u)')
        BY DEF SavingsMatchHistory, SeededTotal
      <3>1. SeededTotal(u) \in Nat
        BY ApiAssumption DEF SeededTotal
      <3>2. TotalSaved(u) = SeededTotal(u) + SumFunctionOnSet(GasCost, ExecutedSince(u))
        BY DEF ApiInv, SavingsMatchHistory
      <3> QED
        BY <2>1, <2>3, <3>1, <3>2, InsertTotals, InsertSums
    <2>12. NeverAhead'
      BY <2>1, <2>3, <2>4 DEF ApiInv, NeverAhead, CacheTypes, GetTypes, Inserts
    <2> QED
      BY <2>2, <2>5, <2>6, <2>7, <2>9, <2>10, <2>11, <2>12 DEF ApiInv
  <1> QED
    BY <1>1, <1>2

-----------------------------------------------------------------------------
(* The theorems.                                                           *)

\* Every step keeps the invariant.
LEMMA NextApi == ApiInv /\ [Next]_vars => ApiInv'
  <1> SUFFICES ASSUME ApiInv, [Next]_vars PROVE ApiInv'
    OBVIOUS
  <1>1. CASE UNCHANGED vars
    BY <1>1, BooksKept, PostsKept, ReadersKept DEF vars, ApiInv
  <1>2. ASSUME NEW g \in Gets, GetStep(g) PROVE ApiInv'
    BY <1>2, GetLookupApi, GetQueryApi, GetFillApi, GetFailApi DEF GetStep
  <1>3. ASSUME NEW p \in Posts, PostStep(p) PROVE ApiInv'
    BY <1>3, PostInsertApi, PostInvalidateApi, PostNotifyApi, PostFailApi DEF PostStep
  <1>4. ASSUME NEW u \in Users, Expire(u) PROVE ApiInv'
    BY <1>4, ExpireApi
  <1> QED
    BY <1>1, <1>2, <1>3, <1>4 DEF Next

\* The invariant holds in every state.
LEMMA ApiInvHolds == Spec => []ApiInv
  BY InitApi, NextApi, PTL DEF Spec

\* For any users, requests and costs, a total is the seeded one plus the cost of
\* every executed row posted since, each counted once (the UNIQUE id and the
\* trigger of init.sql against retried and interleaved POSTs).
THEOREM TotalsAddUp == Spec => []SavingsMatchHistory
  <1>1. ApiInv => SavingsMatchHistory
    BY DEF ApiInv
  <1> QED
    BY <1>1, ApiInvHolds, PTL

\* No cached total and no answer is ahead of the database, however GET and POST
\* handlers interleave (server.js, the two handlers).
THEOREM ReadersAreNeverAhead == Spec => []NeverAhead
  <1>1. ApiInv => NeverAhead
    BY DEF ApiInv
  <1> QED
    BY <1>1, ApiInvHolds, PTL

\* A transaction is announced at most once, and only if it is recorded as
\* executed (sendTransactionNotification after the INSERT).
THEOREM NotifiedOnce == Spec => []AnnouncedOnce
  <1>1. ApiInv => AnnouncedOnce
    <2> SUFFICES ASSUME ApiInv, NEW t \in TxIds, emails[t] > 0
                 PROVE  /\ emails[t] = 1
                        /\ t \in DOMAIN history /\ history[t].status = "executed"
      BY DEF AnnouncedOnce
    <2>1. emails[t] # 0
      BY DEF ApiInv, Announcements
    <2>2. PICK p \in Posts : /\ post[p].pc = "created"
                             /\ post[p].row.transaction_id = t
                             /\ post[p].row.status = "executed"
      BY <2>1 DEF ApiInv, Announcements
    <2> QED
      BY <2>1, <2>2 DEF ApiInv, Announcements, InsertedRows
  <1> QED
    BY <1>1, ApiInvHolds, PTL
=============================================================================
