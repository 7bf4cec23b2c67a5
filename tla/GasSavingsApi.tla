--------------------------- MODULE GasSavingsApi ---------------------------
(***************************************************************************)
(* The backend that records sponsored transactions and serves gas savings  *)
(* (backend/api/server.js) with its PostgreSQL schema                      *)
(* (docker/postgres/init.sql) and its Redis cache.  Handlers of different  *)
(* requests interleave at every await; a statement sent to PostgreSQL or   *)
(* Redis is atomic there, and may fail.  The trigger that adds up the      *)
(* savings runs in the transaction of the INSERT.                          *)
(***************************************************************************)
EXTENDS Integers, FiniteSets

CONSTANTS
    Users,                 \* user_account values
    TxIds,                 \* transaction_id values
    GasCosts,              \* gas_cost values
    Gets,                  \* GET /api/gas-savings requests, one handler each
    Posts,                 \* POST /api/transactions requests, one handler each
    Seeded,                \* user_gas_savings.total_saved of the rows in init.sql
    SeededHistory          \* transaction_history rows of init.sql; they are inserted
                           \* before the trigger exists and so not added up by it

ASSUME ApiAssumption == /\ DOMAIN Seeded \subseteq Users
                        /\ \A u \in DOMAIN Seeded : Seeded[u] \in Nat
                        /\ GasCosts \subseteq Nat
                        /\ DOMAIN SeededHistory \subseteq TxIds

Statuses == {"pending", "executed"}

VARIABLES
    history,               \* transaction_history: id -> row
    savings,               \* user_gas_savings: user -> total_saved
    cache,                 \* Redis gas_savings:<user> -> [value, expires]
    get,                   \* handler of each GET: [pc, user, value]
    post,                  \* handler of each POST: [pc, row, inserted]
    emails                 \* how often each transaction was announced by e-mail

vars == <<history, savings, cache, get, post, emails>>

Put(f, k, v) == [x \in DOMAIN f \cup {k} |-> IF x = k THEN v ELSE f[x]]
Drop(f, k) == [x \in DOMAIN f \ {k} |-> f[x]]

\* total_saved of a user; the handler's default for a missing row is 0.
TotalSaved(u) == IF u \in DOMAIN savings THEN savings[u] ELSE 0

-----------------------------------------------------------------------------
(* GET /api/gas-savings/:userAccount                                       *)

\* await redisClient.get: a hit is answered at once.
GetLookup(g, u) ==
    /\ get[g].pc = "idle"
    /\ get' = [get EXCEPT ![g] =
                 IF u \in DOMAIN cache
                 THEN [pc |-> "answered", user |-> u, value |-> cache[u].value]
                 ELSE [pc |-> "query", user |-> u, value |-> 0]]
    /\ UNCHANGED <<history, savings, cache, post, emails>>

\* await db.query
GetQuery(g) ==
    /\ get[g].pc = "query"
    /\ get' = [get EXCEPT ![g].pc = "fill", ![g].value = TotalSaved(get[g].user)]
    /\ UNCHANGED <<history, savings, cache, post, emails>>

\* Mutant: the entry is stored without a time to live.
GetFill_forever(g) ==
    /\ get[g].pc = "fill"
    /\ cache' = Put(cache, get[g].user, [value |-> get[g].value, expires |-> FALSE])
    /\ get' = [get EXCEPT ![g].pc = "answered"]
    /\ UNCHANGED <<history, savings, post, emails>>

\* await redisClient.setEx, then the answer.
GetFill(g) ==
    /\ get[g].pc = "fill"
    /\ cache' = Put(cache, get[g].user, [value |-> get[g].value, expires |-> TRUE])
    /\ get' = [get EXCEPT ![g].pc = "answered"]
    /\ UNCHANGED <<history, savings, post, emails>>

\* An await rejects: 500.
GetFail(g) ==
    /\ get[g].pc \in {"idle", "query", "fill"}
    /\ get' = [get EXCEPT ![g].pc = "failed"]
    /\ UNCHANGED <<history, savings, cache, post, emails>>

-----------------------------------------------------------------------------
(* POST /api/transactions                                                  *)

\* Mutant: the upsert overwrites the total instead of adding to it.
update_user_gas_savings_overwrite(row) ==
    IF row.status = "executed" THEN Put(savings, row.user, row.gas_cost) ELSE savings

\* The trigger on transaction_history: upsert, only for executed rows.
update_user_gas_savings(row) ==
    IF row.status = "executed"
    THEN Put(savings, row.user, TotalSaved(row.user) + row.gas_cost)
    ELSE savings

\* Mutant: transaction_id is not UNIQUE.
Duplicate_never(t) == FALSE

\* transaction_id VARCHAR(255) UNIQUE
Duplicate(t) == t \in DOMAIN history

\* await db.query(INSERT): a duplicate id is an error of the statement.
PostInsert(p, row) ==
    /\ post[p].pc = "idle"
    /\ \/ /\ Duplicate(row.transaction_id)
          /\ post' = [post EXCEPT ![p] = [pc |-> "failed", row |-> row, inserted |-> FALSE]]
          /\ UNCHANGED <<history, savings>>
       \/ /\ ~Duplicate(row.transaction_id)
          /\ history' = Put(history, row.transaction_id, row)
          /\ savings' = update_user_gas_savings(row)
          /\ post' = [post EXCEPT ![p] = [pc |-> "invalidate", row |-> row, inserted |-> TRUE]]
    /\ UNCHANGED <<cache, get, emails>>

\* await redisClient.del
PostInvalidate(p) ==
    /\ post[p].pc = "invalidate"
    /\ cache' = Drop(cache, post[p].row.user)
    /\ post' = [post EXCEPT ![p].pc = IF post[p].row.status = "executed" THEN "notify" ELSE "created"]
    /\ UNCHANGED <<history, savings, get, emails>>

\* await sendTransactionNotification, which swallows its own errors.
PostNotify(p) ==
    /\ post[p].pc = "notify"
    /\ \/ emails' = [emails EXCEPT ![post[p].row.transaction_id] = @ + 1]
       \/ UNCHANGED emails
    /\ post' = [post EXCEPT ![p].pc = "created"]
    /\ UNCHANGED <<history, savings, cache, get>>

\* An await rejects: the INSERT before it did anything, or the DEL after it.
PostFail(p) ==
    /\ post[p].pc \in {"idle", "invalidate"}
    /\ post' = [post EXCEPT ![p].pc = "failed"]
    /\ UNCHANGED <<history, savings, cache, get, emails>>

-----------------------------------------------------------------------------
\* Redis drops an entry whose 300 seconds are over.
Expire(u) ==
    /\ u \in DOMAIN cache
    /\ cache[u].expires
    /\ cache' = Drop(cache, u)
    /\ UNCHANGED <<history, savings, get, post, emails>>

Rows == [transaction_id : TxIds, user : Users, gas_cost : GasCosts, status : Statuses]

NoRow == [transaction_id |-> 0, user |-> "none", gas_cost |-> 0, status |-> "pending"]

Init ==
    /\ history = SeededHistory
    /\ savings = Seeded
    /\ cache = [u \in {} |-> u]
    /\ get = [g \in Gets |-> [pc |-> "idle", user |-> "none", value |-> 0]]
    /\ post = [p \in Posts |-> [pc |-> "idle", row |-> NoRow, inserted |-> FALSE]]
    /\ emails = [t \in TxIds |-> 0]

GetStep(g) ==
    \/ \E u \in Users : GetLookup(g, u)
    \/ GetQuery(g)
    \/ GetFill(g)
    \/ GetFail(g)

PostStep(p) ==
    \/ \E row \in Rows : PostInsert(p, row)
    \/ PostInvalidate(p)
    \/ PostNotify(p)
    \/ PostFail(p)

Next ==
    \/ \E g \in Gets : GetStep(g)
    \/ \E p \in Posts : PostStep(p)
    \/ \E u \in Users : Expire(u)

\* Redis enforces the time to live of an entry; no request needs to arrive and
\* no handler is assumed to finish.
Spec == Init /\ [][Next]_vars /\ \A u \in Users : WF_vars(Expire(u))
=============================================================================
