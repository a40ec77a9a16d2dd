----------------------------- MODULE FifoQueue -----------------------------
(***************************************************************************)
(* What a single-producer single-consumer queue promises its two users: a  *)
(* bounded first-in first-out queue whose push answers "full" only when it *)
(* is full, whose pop answers "empty" only when it is empty, and whose pop *)
(* hands out the very value that was at the front when it was taken.       *)
(* Each operation is called, takes effect at one instant between call and  *)
(* return, and returns: the queue is linearizable.                         *)
(***************************************************************************)
EXTENDS Naturals, Sequences

CONSTANTS
    Bound,        \* number of values the queue can hold
    Value,        \* what may be pushed
    NoValue       \* std::nullopt

VARIABLES
    queue,   \* the values accepted and not yet taken, oldest first
    push,    \* "called", or how the last push ended: "accepted", "rejected"
    displaces, \* the push may displace the oldest value
    pop,     \* "called", "taken", or "returned"
    inHand,  \* the value a pop has taken and not yet returned
    out      \* what the last pop returned

vars == <<queue, push, displaces, pop, inHand, out>>

Init ==
    /\ queue = <<>>
    /\ push = "accepted" /\ displaces = FALSE
    /\ pop = "returned"
    /\ inHand = NoValue
    /\ out = NoValue

CallPush ==
    /\ push # "called"
    /\ push' = "called"
    /\ displaces' \in BOOLEAN
    /\ UNCHANGED <<queue, pop, inHand, out>>

Accept(v) ==
    /\ push = "called"
    /\ Len(queue) < Bound
    /\ queue' = Append(queue, v)
    /\ push' = "accepted"
    /\ UNCHANGED <<displaces, pop, inHand, out>>

Reject ==
    /\ push = "called"
    /\ Len(queue) = Bound
    /\ push' = "rejected"
    /\ UNCHANGED <<queue, displaces, pop, inHand, out>>

Displace ==
    /\ displaces
    /\ push = "called"
    /\ Len(queue) = Bound
    /\ queue # <<>>
    /\ queue' = Tail(queue)
    /\ UNCHANGED <<push, displaces, pop, inHand, out>>

CallPop ==
    /\ pop = "returned"
    /\ pop' = "called"
    /\ UNCHANGED <<queue, push, displaces, inHand, out>>

Take ==
    /\ pop = "called"
    /\ queue # <<>>
    /\ inHand' = Head(queue)
    /\ queue' = Tail(queue)
    /\ pop' = "taken"
    /\ UNCHANGED <<push, displaces, out>>

Hand ==
    /\ pop = "taken"
    /\ out' = inHand
    /\ inHand' = NoValue
    /\ pop' = "returned"
    /\ UNCHANGED <<queue, push, displaces>>

FindEmpty ==
    /\ pop = "called"
    /\ queue = <<>>
    /\ out' = NoValue
    /\ pop' = "returned"
    /\ UNCHANGED <<queue, push, displaces, inHand>>

Next ==
    \/ CallPush \/ (\E v \in Value : Accept(v)) \/ Reject \/ Displace
    \/ CallPop \/ Take \/ Hand \/ FindEmpty

Spec == Init /\ [][Next]_vars
=============================================================================
