----------------------------- MODULE SpscQueue -----------------------------
(***************************************************************************)
(* CQueue_concurrent_SPSC (data_structures/src/c_queue.tpp): the circular  *)
(* queue that carries completed packets from the URGENT validation handler *)
(* to the MEDIUM pattern thread.  One step per access to the shared        *)
(* atomics head and tail and to a slot of the array.                       *)
(*                                                                         *)
(* push publishes head before it writes the slot, and pop publishes tail   *)
(* before it reads the slot, so the queue leans on how its two users are   *)
(* scheduled: a cooperative thread, once inside an operation, finishes it  *)
(* before the other thread runs; any other thread can be preempted between *)
(* any two accesses.                                                       *)
(***************************************************************************)
EXTENDS Naturals, Sequences

CONSTANTS
    Capacity,     \* template parameter capacity
    Uses,         \* the ways the queue may be used
    MaxPush       \* bound: number of values accepted in a behaviour

ASSUME CapacityAssumption == Capacity \in Nat \ {0}
ASSUME UsesAssumption ==
    Uses \subseteq [cooperative : SUBSET {"producer", "consumer"},
                   overwrites : SUBSET BOOLEAN]
ASSUME MaxPushAssumption == MaxPush \in Nat

Index == 0 .. Capacity - 1
Values == 1 .. MaxPush   \* the n-th value accepted is n
Empty == 0               \* a slot never written, and std::nullopt

VARIABLES
    use,         \* the threads the other one cannot preempt, and the values
                 \* callers give push's overwrite parameter
    head, tail,  \* the shared atomics
    slots,       \* the array
    pc,          \* where each thread is, "idle" between operations
    headCopy,    \* push: the copy of head of full(), then of push
    overwrite,   \* push: the parameter
    pushTail,    \* push: next_tail of the overwriting branch
    tailCopy,    \* pop: the copy of tail of empty(), then of pop
    nextTail,    \* pop: next_tail
    accepted,    \* how the last push ended: what it returned
    out,         \* what the last pop returned
    nPublished,  \* number of values head was advanced for
    nGone        \* number of values tail was advanced over

pushVars == <<headCopy, overwrite, pushTail, accepted>>
popVars == <<tailCopy, nextTail, out>>
vars == <<use, head, tail, slots, pc, pushVars, popVars, nPublished, nGone>>

-----------------------------------------------------------------------------
\* Mutant: the wrap is tested before the increment.
CircularIncrementLate(i) == IF i = Capacity THEN 0 ELSE i + 1

CircularIncrement(i) == IF i + 1 = Capacity THEN 0 ELSE i + 1

\* size() on the current head and tail.
Size == IF head < tail THEN head + Capacity - tail ELSE head - tail

\* Mutant: both threads preemptible (the handler's task in a MEDIUM queue).
CanRunPreemptible(t) == TRUE

CanRun(t) == \A u \in use.cooperative \ {t} : pc[u] = "idle"

Step(t, from, to) ==
    /\ pc[t] = from
    /\ CanRun(t)
    /\ pc' = [pc EXCEPT ![t] = to]

Init ==
    /\ use \in Uses
    /\ head = 0 /\ tail = 0
    /\ slots = [i \in Index |-> Empty]
    /\ pc = [t \in {"producer", "consumer"} |-> "idle"]
    /\ headCopy = 0 /\ overwrite = FALSE /\ pushTail = 0
    /\ tailCopy = 0 /\ nextTail = 0
    /\ accepted = TRUE /\ out = Empty
    /\ nPublished = 0 /\ nGone = 0

-----------------------------------------------------------------------------
(* push(val, overwrite) *)

PushCall ==
    /\ nPublished < MaxPush
    /\ Step("producer", "idle", "full_head")
    /\ overwrite' \in use.overwrites
    /\ UNCHANGED <<head, tail, slots, headCopy, pushTail, accepted, popVars,
                   nPublished, nGone>>

FullLoadHead ==
    /\ Step("producer", "full_head", "full_tail")
    /\ headCopy' = head
    /\ UNCHANGED <<head, tail, slots, overwrite, pushTail, accepted, popVars,
                   nPublished, nGone>>

\* Mutant: full() written as in CQueue, size() == capacity.
FullAnswerByCount == Size = Capacity

\* The value full() returns.
FullAnswer == CircularIncrement(headCopy) = tail

PushRejects ==
    /\ FullAnswer /\ ~overwrite
    /\ Step("producer", "full_tail", "idle")
    /\ accepted' = FALSE
    /\ UNCHANGED <<head, tail, slots, headCopy, overwrite, pushTail, popVars,
                   nPublished, nGone>>

PushMustDisplace ==
    /\ FullAnswer /\ overwrite
    /\ Step("producer", "full_tail", "displace_load")
    /\ UNCHANGED <<head, tail, slots, pushVars, popVars, nPublished, nGone>>

PushHasRoom ==
    /\ ~FullAnswer
    /\ Step("producer", "full_tail", "publish")
    /\ UNCHANGED <<head, tail, slots, pushVars, popVars, nPublished, nGone>>

DisplaceLoad ==
    /\ Step("producer", "displace_load", "displace_store")
    /\ pushTail' = CircularIncrement(tail)
    /\ UNCHANGED <<head, tail, slots, headCopy, overwrite, accepted, popVars,
                   nPublished, nGone>>

\* Mutant: the displacing branch leaves tail where it is.
DisplaceStoreForgotten ==
    /\ Step("producer", "displace_store", "publish")
    /\ UNCHANGED <<head, tail, slots, pushVars, popVars, nPublished, nGone>>

DisplaceStore ==
    /\ Step("producer", "displace_store", "publish")
    /\ tail' = pushTail
    /\ nGone' = nGone + 1
    /\ UNCHANGED <<head, slots, pushVars, popVars, nPublished>>

\* head has one writer, so its two loads and its store are one step.
PublishHead ==
    /\ Step("producer", "publish", "write")
    /\ headCopy' = head
    /\ head' = CircularIncrement(head)
    /\ nPublished' = nPublished + 1
    /\ UNCHANGED <<tail, slots, overwrite, pushTail, accepted, popVars, nGone>>

WriteSlot ==
    /\ Step("producer", "write", "idle")
    /\ slots' = [slots EXCEPT ![headCopy] = nPublished]
    /\ accepted' = TRUE
    /\ UNCHANGED <<head, tail, headCopy, overwrite, pushTail, popVars,
                   nPublished, nGone>>

Push ==
    \/ PushCall \/ FullLoadHead \/ PushRejects \/ PushMustDisplace
    \/ PushHasRoom \/ DisplaceLoad \/ DisplaceStore \/ PublishHead
    \/ WriteSlot

-----------------------------------------------------------------------------
(* pop() *)

\* The call, and the load of tail with which empty() begins.
PopCall ==
    /\ Step("consumer", "idle", "empty_head")
    /\ tailCopy' = tail
    /\ UNCHANGED <<head, tail, slots, pushVars, nextTail, out, nPublished,
                   nGone>>

PopFindsEmpty ==
    /\ tailCopy = head
    /\ Step("consumer", "empty_head", "idle")
    /\ out' = Empty
    /\ UNCHANGED <<head, tail, slots, pushVars, tailCopy, nextTail,
                   nPublished, nGone>>

PopFindsValue ==
    /\ tailCopy # head
    /\ Step("consumer", "empty_head", "load_copy")
    /\ UNCHANGED <<head, tail, slots, pushVars, popVars, nPublished, nGone>>

LoadTailCopy ==
    /\ Step("consumer", "load_copy", "load_next")
    /\ tailCopy' = tail
    /\ UNCHANGED <<head, tail, slots, pushVars, nextTail, out, nPublished,
                   nGone>>

LoadNextTail ==
    /\ Step("consumer", "load_next", "advance")
    /\ nextTail' = CircularIncrement(tail)
    /\ UNCHANGED <<head, tail, slots, pushVars, tailCopy, out, nPublished,
                   nGone>>

AdvanceTail ==
    /\ Step("consumer", "advance", "move")
    /\ tail' = nextTail
    /\ nGone' = nGone + 1
    /\ UNCHANGED <<head, slots, pushVars, popVars, nPublished>>

MoveSlot ==
    /\ Step("consumer", "move", "idle")
    /\ out' = slots[tailCopy]
    /\ UNCHANGED <<head, tail, slots, pushVars, tailCopy, nextTail,
                   nPublished, nGone>>

Pop ==
    \/ PopCall \/ PopFindsEmpty \/ PopFindsValue \/ LoadTailCopy
    \/ LoadNextTail \/ AdvanceTail \/ MoveSlot

Next == (Push \/ Pop) /\ UNCHANGED use

Spec == Init /\ [][Next]_vars

-----------------------------------------------------------------------------
(* Properties *)

ProducerPc == {"idle", "full_head", "full_tail", "displace_load",
               "displace_store", "publish", "write"}
ConsumerPc == {"idle", "empty_head", "load_copy", "load_next", "advance",
               "move"}

\* Every index a thread holds is one of the array, and the counters that
\* name the values do not outrun each other.
TypeOK ==
    /\ use \in Uses
    /\ head \in Index /\ tail \in Index
    /\ headCopy \in Index /\ pushTail \in Index
    /\ tailCopy \in Index /\ nextTail \in Index
    /\ slots \in [Index -> Values \cup {Empty}]
    /\ pc \in [{"producer", "consumer"} -> ProducerPc \cup ConsumerPc]
    /\ pc["producer"] \in ProducerPc /\ pc["consumer"] \in ConsumerPc
    /\ overwrite \in BOOLEAN /\ accepted \in BOOLEAN
    /\ out \in Values \cup {Empty}
    /\ nPublished \in 0 .. MaxPush /\ nGone \in 0 .. nPublished

\* The slot a push is about to write is never the slot a pop is about to
\* move out of: the array needs no lock of its own.
NoSlotRace ==
    ~ /\ pc["producer"] = "write"
      /\ pc["consumer"] = "move"
      /\ headCopy = tailCopy

\* The callers of push never give it TRUE for overwrite.
NeverOverwrites(u) == u.overwrites \subseteq {FALSE}

\* A pop that returned a value returned the oldest one still queued when it
\* advanced tail, never a slot not yet written or already reused (callers
\* that never overwrite).
OldestFirst ==
    NeverOverwrites(use) /\ pc["consumer"] = "idle" /\ out # Empty
        => out = nGone

\* The k-th slot from tail on, counting from 0.
At(k) == IF tail + k < Capacity THEN tail + k ELSE tail + k - Capacity

\* The values visible to the consumer: all that are published, but the one
\* whose slot is still to be written.
NVisible ==
    IF pc["producer"] = "write" THEN Size - 1 ELSE Size

Contents == [k \in 1 .. NVisible |-> slots[At(k - 1)]]

PushPhase ==
    CASE pc["producer"] # "idle" -> "called"
      [] pc["producer"] = "idle" /\ accepted -> "accepted"
      [] OTHER -> "rejected"

PopPhase ==
    CASE pc["consumer"] = "idle" -> "returned"
      [] pc["consumer"] = "move" -> "taken"
      [] OTHER -> "called"

\* The value whose slot pop has released and not yet read.
InHand == IF pc["consumer"] = "move" THEN slots[tailCopy] ELSE Empty

Fifo == INSTANCE FifoQueue WITH
    Bound <- Capacity - 1,
    Value <- Values,
    NoValue <- Empty,
    queue <- Contents,
    push <- PushPhase,
    displaces <- overwrite,
    pop <- PopPhase,
    inHand <- InHand,
    out <- out

\* The queue is a linearizable bounded FIFO of Capacity - 1 values: push
\* says "full" only when that many are queued, pop says "empty" only when
\* none is.
ImplementsFifo == Fifo!Spec

\* The producer cannot be preempted by the consumer, as in the deployed queues,
\* where the producer is the URGENT thread and the consumer a MEDIUM one; and
\* if a push may displace the oldest value, the consumer cannot be preempted
\* either, and there is place for a value.
WellScheduled(u) ==
    /\ "producer" \in u.cooperative
    /\ \/ NeverOverwrites(u)
       \/ "consumer" \in u.cooperative /\ Capacity > 1

\* Why the queue then keeps its promises: the distance from tail to head is
\* the number of values queued and at most Capacity - 1; each queued slot holds
\* the value that its distance from tail names; a thread's copies are still
\* current.
DistanceIsCount ==
    /\ nGone <= nPublished
    /\ nPublished - nGone < Capacity
    /\ head = At(nPublished - nGone)

\* How far slot i is from tail, the way the queue grows.
Distance(i) == IF tail <= i THEN i - tail ELSE i + Capacity - tail

SlotsHoldQueue ==
    \A i \in Index :
        Distance(i) < NVisible => slots[i] = nGone + Distance(i) + 1

OneAtATime ==
    NeverOverwrites(use) \/ pc["producer"] = "idle" \/ pc["consumer"] = "idle"

ProducerCopiesCurrent ==
    /\ overwrite => ~NeverOverwrites(use)
    /\ pc["producer"] \notin {"idle", "write"} => nPublished < MaxPush
    /\ pc["producer"] = "full_tail" => headCopy = head
    /\ pc["producer"] \in {"displace_load", "displace_store"}
          => overwrite /\ CircularIncrement(head) = tail
    /\ pc["producer"] = "displace_store" => pushTail = CircularIncrement(tail)
    /\ pc["producer"] = "publish" => CircularIncrement(head) # tail
    /\ pc["producer"] = "write" => /\ CircularIncrement(headCopy) = head
                                  /\ head # tail

ConsumerCopiesCurrent ==
    /\ pc["consumer"] = "empty_head" => tailCopy = tail
    /\ pc["consumer"] \in {"load_copy", "load_next", "advance"} => NVisible >= 1
    /\ pc["consumer"] \in {"load_next", "advance"} => tailCopy = tail
    /\ pc["consumer"] = "advance" => nextTail = CircularIncrement(tail)
    /\ pc["consumer"] = "move" => /\ CircularIncrement(tailCopy) = tail
                                 /\ slots[tailCopy] = nGone
                                 /\ nGone >= 1

WellScheduledInv ==
    /\ TypeOK
    /\ OneAtATime
    /\ DistanceIsCount
    /\ SlotsHoldQueue
    /\ ProducerCopiesCurrent
    /\ ConsumerCopiesCurrent
    /\ OldestFirst

QueueInv == WellScheduled(use) => WellScheduledInv
=============================================================================
