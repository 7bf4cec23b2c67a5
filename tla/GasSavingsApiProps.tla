------------------------- MODULE GasSavingsApiProps -------------------------
(***************************************************************************)
(* What the backend guarantees about recorded savings and the cache.       *)
(***************************************************************************)
EXTENDS GasSavingsApi, Functions, TLC

CONSTANTS u1, u2

\* The rows a user's requests added that count, and what each row costs.
ExecutedSince(u) ==
    {t \in DOMAIN history \ DOMAIN SeededHistory :
        history[t].user = u /\ history[t].status = "executed"}
GasCost == [t \in DOMAIN history |-> history[t].gas_cost]
SeededTotal(u) == IF u \in DOMAIN Seeded THEN Seeded[u] ELSE 0

\* A user's total is the seeded one plus the cost of every executed row posted
\* since, each counted once, whatever requests were retried, duplicated or cut
\* short (INSERT with its trigger in init.sql).
SavingsMatchHistory ==
    \A u \in Users :
        TotalSaved(u) = SeededTotal(u) + SumFunctionOnSet(GasCost, ExecutedSince(u))

\* Neither the cache nor an answer about to be given shows savings that are
\* not in the database: a stale value is an old one (GET against POST).
NeverAhead ==
    /\ \A u \in DOMAIN cache : cache[u].value <= TotalSaved(u)
    /\ \A g \in Gets : get[g].pc \in {"fill", "answered"} => get[g].value <= TotalSaved(get[g].user)

\* A transaction is announced at most once, and only if it is recorded as
\* executed, although clients retry a POST that was answered 500.
AnnouncedOnce ==
    \A t \in TxIds :
        emails[t] > 0 => /\ emails[t] = 1
                         /\ t \in DOMAIN history /\ history[t].status = "executed"

Stale(u) == u \in DOMAIN cache /\ cache[u].value # TotalSaved(u)

\* A stale cache entry does not stay: the five minutes of setEx end it even
\* when the DEL of the POST that made it stale was lost.
StaleEntryEnds == \A u \in Users : Stale(u) ~> ~Stale(u)

InFlight == \/ \E g \in Gets : get[g].pc \in {"query", "fill"}
            \/ \E p \in Posts : post[p].pc \in {"invalidate", "notify"}

\* server.js, POST: "Invalidate cache".  When no request is in flight and no
\* POST failed, a cached total is the one in the database.
CacheInvalidated ==
    ~InFlight /\ (\A p \in Posts : post[p].pc # "failed") => \A u \in Users : ~Stale(u)

-----------------------------------------------------------------------------
(* Values for the constants: one user with a seeded row, one without.      *)

SeededRows == u1 :> 3
SeededTransactions ==
    0 :> [transaction_id |-> 0, user |-> u1, gas_cost |-> 1, status |-> "executed"]
=============================================================================
