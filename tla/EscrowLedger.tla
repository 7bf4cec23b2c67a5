---------------------------- MODULE EscrowLedger ----------------------------
(***************************************************************************)
(* What the sponsorship pallet promises about money, without pools,        *)
(* configurations, chains or messages: owners put money into escrows, an   *)
(* escrow pays out what it was given and never more, every payment is      *)
(* entered once under a fresh number and never changed, and what an owner  *)
(* has had to set aside grows by exactly what went into the escrows.       *)
(***************************************************************************)
EXTENDS Integers

CONSTANTS
    Owners, Escrows, PaymentIds,
    Deposits,              \* amounts that can be put into an escrow
    Prices                 \* amounts that can be paid out of one

VARIABLES
    escrows,               \* open escrows: id -> [owner, deposited, spent]
    payments,              \* payments made: id -> [escrow, amount]
    held                   \* what each owner has set aside

vars == <<escrows, payments, held>>

Enter(f, k, v) == [x \in DOMAIN f \cup {k} |-> IF x = k THEN v ELSE f[x]]

Init ==
    /\ escrows = [x \in {} |-> x]
    /\ payments = [x \in {} |-> x]
    /\ held = [o \in Owners |-> 0]

Open(e, o, v) ==
    /\ e \notin DOMAIN escrows
    /\ escrows' = Enter(escrows, e, [owner |-> o, deposited |-> v, spent |-> 0])
    /\ held' = [held EXCEPT ![o] = @ + v]
    /\ UNCHANGED payments

Deposit(e, v) ==
    /\ e \in DOMAIN escrows
    /\ escrows' = [escrows EXCEPT ![e].deposited = @ + v]
    /\ held' = [held EXCEPT ![escrows[e].owner] = @ + v]
    /\ UNCHANGED payments

Pay(i, e, v) ==
    /\ i \notin DOMAIN payments
    /\ e \in DOMAIN escrows
    /\ escrows[e].spent + v <= escrows[e].deposited
    /\ escrows' = [escrows EXCEPT ![e].spent = @ + v]
    /\ payments' = Enter(payments, i, [escrow |-> e, amount |-> v])
    /\ UNCHANGED held

Next ==
    \/ \E e \in Escrows, o \in Owners, v \in Deposits : Open(e, o, v)
    \/ \E e \in Escrows, v \in Deposits : Deposit(e, v)
    \/ \E i \in PaymentIds, e \in Escrows, v \in Prices : Pay(i, e, v)

Spec == Init /\ [][Next]_vars
=============================================================================
