------------------------------- MODULE Deque -------------------------------
(***************************************************************************)
(* What a double-ended queue on a heap promises: values come out at either *)
(* end as they lie, a push fails for want of memory only and then changes  *)
(* nothing, a pop fails on an empty deque only.  An implementation that    *)
(* gets into a state it was not made for may withdraw the promise.         *)
(***************************************************************************)
EXTENDS Sequences

CONSTANTS Values, NoValue

VARIABLES
    items,     \* from front to back
    promised,
    op,        \* the last operation, what it returned, and the element it found
    ok,
    val

dequeVars == <<items, promised, op, ok, val>>

DequeInit ==
    /\ items = <<>>
    /\ promised = TRUE
    /\ op = "none"
    /\ ok = TRUE
    /\ val = NoValue

PushedFront ==
    /\ op' = "push_front" /\ ok' = TRUE
    /\ \E v \in Values : items' = <<v>> \o items
    /\ val' = NoValue

PushedBack ==
    /\ op' = "push_back" /\ ok' = TRUE
    /\ \E v \in Values : items' = Append(items, v)
    /\ val' = NoValue

NotPushed ==
    /\ op' \in {"push_front", "push_back"} /\ ok' = FALSE
    /\ val' = NoValue
    /\ UNCHANGED items

PoppedFront ==
    /\ op' = "pop_front" /\ ok' = TRUE
    /\ items = <<val'>> \o items'

PoppedBack ==
    /\ op' = "pop_back" /\ ok' = TRUE
    /\ items = Append(items', val')

NotPopped ==
    /\ op' \in {"pop_front", "pop_back"} /\ ok' = FALSE
    /\ items = <<>>
    /\ val' = NoValue
    /\ UNCHANGED items

ReservedSpace ==
    /\ op' = "reserve" /\ ok' \in BOOLEAN
    /\ val' = NoValue
    /\ UNCHANGED items

Operation ==
    /\ promised /\ promised' = TRUE
    /\ \/ PushedFront \/ PushedBack \/ NotPushed
       \/ PoppedFront \/ PoppedBack \/ NotPopped
       \/ ReservedSpace

Withdraw == promised' = FALSE

DequeNext == Operation \/ Withdraw

DequeSpec == DequeInit /\ [][DequeNext]_dequeVars
=============================================================================
