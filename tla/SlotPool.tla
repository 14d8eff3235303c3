------------------------------ MODULE SlotPool ------------------------------
(***************************************************************************)
(* What a pool of slots promises, whoever waits for one and however: a     *)
(* slot is taken only while fewer than `limit` are, and given back by its  *)
(* holder.  Who has withdrawn while it waited never takes one.  The limit  *)
(* may be lowered below the number of slots taken; nobody is thrown out    *)
(* then.                                                                   *)
(***************************************************************************)
EXTENDS Integers, FiniteSets

CONSTANTS
    Tasks,
    Limits              \* the values the limit may take

VARIABLES
    holders,
    withdrawn,          \* those that gave up and have not left yet
    limit

vars == <<holders, withdrawn, limit>>

Init ==
    /\ holders = {}
    /\ withdrawn = {}
    /\ limit \in Limits

Acquire(t) ==
    /\ t \notin holders \union withdrawn
    /\ Cardinality(holders) < limit
    /\ holders' = holders \union {t}
    /\ UNCHANGED <<withdrawn, limit>>

Release(t) ==
    /\ t \in holders
    /\ holders' = holders \ {t}
    /\ UNCHANGED <<withdrawn, limit>>

Withdraw(t) ==
    /\ t \notin holders
    /\ withdrawn' = withdrawn \union {t}
    /\ UNCHANGED <<holders, limit>>

Leave(t) ==
    /\ t \in withdrawn
    /\ withdrawn' = withdrawn \ {t}
    /\ UNCHANGED <<holders, limit>>

SetLimit ==
    /\ limit' \in Limits
    /\ UNCHANGED <<holders, withdrawn>>

Next ==
    \/ \E t \in Tasks : Acquire(t) \/ Release(t) \/ Withdraw(t) \/ Leave(t)
    \/ SetLimit

Spec == Init /\ [][Next]_vars
=============================================================================
