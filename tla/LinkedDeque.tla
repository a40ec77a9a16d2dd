---------------------------- MODULE LinkedDeque ----------------------------
(***************************************************************************)
(* CLinkedDeque (data_structures/include/c_linked_deque.h): a deque in     *)
(* blocks of the heap, linked from the back (prev) to the front (next).  A *)
(* block that was emptied, or allocated by reserve, is kept in a list of   *)
(* reserved nodes.  The heap is shared: it may refuse a block of any size  *)
(* at any time, and allocate_node then asks for half as much.              *)
(***************************************************************************)
EXTENDS Integers, SequencesExt

CONSTANTS
    BlockSize,       \* standard_block_size
    MaxNodes,        \* bound: blocks the heap has room for
    MaxElements,     \* bound: elements pushed before one is popped
    Values,
    Operations,      \* operations that are called
    Beyond,          \* bound: whether to go on when not used as intended
    Reservations,    \* numbers of elements reserve is called with
    SizeModulus      \* 2^32: size_t of the device

ASSUME DequeAssumption ==
    /\ BlockSize \in Nat \ {0} /\ MaxNodes \in Nat /\ SizeModulus \in Nat \ {0}
    /\ MaxElements \in Nat
    /\ Reservations \subseteq Nat /\ Beyond \in BOOLEAN

Id == 1 .. MaxNodes
nullptr == 0

VARIABLES
    deque,       \* the members of the object, and the nodes in the heap
    op, ok, val, \* the last call, its answer, what a pop wrote to val
    intended,    \* no reserved node was put to use, and no reservation has
                 \* failed half-way
    undefined    \* a node was used that is not allocated

vars == <<deque, op, ok, val, intended, undefined>>

Indices == 0 .. BlockSize - 1

Node == [front : 0 .. BlockSize, back : 0 .. BlockSize, size : 0 .. BlockSize,
         next : Id \cup {nullptr}, prev : Id \cup {nullptr},
         vals : UNION {[places -> Values] : places \in SUBSET Indices}]

NoValue == 0      \* val, when the last call was not a pop that found an element

Init ==
    /\ deque = [nodes |-> [id \in {} |-> nullptr],
                front |-> nullptr, back |-> nullptr, reserved |-> nullptr,
                count |-> 0, capacity |-> 0]
    /\ op = "none" /\ ok = TRUE /\ val = NoValue
    /\ intended = TRUE /\ undefined = FALSE

-----------------------------------------------------------------------------
(* allocate_node.  What the heap grants is the size a node notes, 0 for no  *)
(* node.  The number asked for is halved until a block is given, and then   *)
(* once more; the node notes twice that, an odd number made even.  The heap *)
(* deals in units of 8 bytes: one that refuses a block with room for two    *)
(* bytes also refuses one with room for one, which would note the size 0.   *)

Allocated(d) == DOMAIN d.nodes

Grants(d) ==
    {0} \cup (IF Allocated(d) = Id THEN {}
              ELSE {2 * (BlockSize \div 2^(i + 1)) : i \in 0 .. BlockSize} \ {0})

NewId(d) == Min(Id \ Allocated(d))

\* f, and x with the value y.
Put(f, x, y) == [z \in DOMAIN f \cup {x} |-> IF z = x THEN y ELSE f[z]]

\* Mutant: the places of a node are counted from 1.
BlankFromOne(dir, size) ==
    [front |-> IF dir = "BACK" THEN size + 1 ELSE 1,
     back |-> IF dir = "BACK" THEN size + 1 ELSE 1,
     size |-> size, next |-> nullptr, prev |-> nullptr, vals |-> <<>>]

Blank(dir, size) ==
    [front |-> IF dir = "BACK" THEN size ELSE 0,
     back |-> IF dir = "BACK" THEN size ELSE 0,
     size |-> size, next |-> nullptr, prev |-> nullptr, vals |-> <<>>]

AllocateNode(d, dir, grant) ==
    [d EXCEPT !.nodes = Put(@, NewId(d), Blank(dir, grant))]

Free(d, id) ==
    [d EXCEPT !.nodes = [i \in DOMAIN @ \ {id} |-> @[i]]]

Modulo(n) == n % SizeModulus

-----------------------------------------------------------------------------
(* The private helpers that link and unlink a node at either end.           *)

ReusedNode(d, dir) == Blank(dir, d.nodes[d.reserved].size)

AddFrontNode(d, grant) ==
    LET fromHeap == d.reserved = nullptr
        new == IF fromHeap THEN NewId(d) ELSE d.reserved
        had == IF fromHeap THEN AllocateNode(d, "FRONT", grant)
               ELSE [d EXCEPT !.nodes[new] = ReusedNode(d, "FRONT"),
                              !.capacity = Modulo(@ - d.nodes[new].size)]
    IN [had EXCEPT !.nodes[d.front].next = new,
                   !.nodes[new].prev = d.front,
                   !.front = new]

\* Mutant: the old back node does not learn of the one behind it.
AddBackNodeOneWay(d, grant) ==
    LET fromHeap == d.reserved = nullptr
        new == IF fromHeap THEN NewId(d) ELSE d.reserved
        had == IF fromHeap THEN AllocateNode(d, "BACK", grant)
               ELSE [d EXCEPT !.nodes[new] = ReusedNode(d, "BACK"),
                              !.reserved = d.nodes[new].prev,
                              !.capacity = Modulo(@ - d.nodes[new].size)]
    IN [had EXCEPT !.nodes[new].next = d.back, !.back = new]

AddBackNode(d, grant) ==
    LET fromHeap == d.reserved = nullptr
        new == IF fromHeap THEN NewId(d) ELSE d.reserved
        had == IF fromHeap THEN AllocateNode(d, "BACK", grant)
               ELSE [d EXCEPT !.nodes[new] = ReusedNode(d, "BACK"),
                              !.reserved = d.nodes[new].prev,
                              !.capacity = Modulo(@ - d.nodes[new].size)]
    IN [had EXCEPT !.nodes[d.back].prev = new,
                   !.nodes[new].next = d.back,
                   !.back = new]

\* Mutant: the node becomes the only one reserved.
RemoveFrontNodeForgets(d) ==
    LET old == d.front
        new == d.nodes[old].prev
        kept == [d EXCEPT !.nodes[old].next = nullptr,
                          !.reserved = old,
                          !.capacity = Modulo(@ + d.nodes[old].size),
                          !.front = new]
    IN IF new = nullptr THEN [kept EXCEPT !.back = nullptr]
                        ELSE [kept EXCEPT !.nodes[new].next = nullptr]

RemoveFrontNode(d) ==
    LET old == d.front
        new == d.nodes[old].prev
        kept == [d EXCEPT !.nodes[old].next = d.reserved,
                          !.reserved = old,
                          !.capacity = Modulo(@ + d.nodes[old].size),
                          !.front = new]
    IN IF new = nullptr THEN [kept EXCEPT !.back = nullptr]
                        ELSE [kept EXCEPT !.nodes[new].next = nullptr]

RemoveBackNode(d) ==
    LET old == d.back
        new == d.nodes[old].next
        kept == [d EXCEPT !.nodes[old].next = d.reserved,
                          !.reserved = old,
                          !.capacity = Modulo(@ - d.nodes[old].size),
                          !.back = new]
    IN IF new = nullptr THEN [kept EXCEPT !.front = nullptr]
                        ELSE [kept EXCEPT !.nodes[new].prev = nullptr]

-----------------------------------------------------------------------------
(* The operations.  One that reads or writes a node that is not allocated,  *)
(* or a place a node does not have, is undefined behaviour: the model stops.*)

Called(name) ==
    /\ ~ undefined
    /\ intended \/ Beyond
    /\ name \in Operations
    /\ op' = name

Undefined ==
    /\ undefined' = TRUE
    /\ UNCHANGED <<deque, ok, intended>>

Returns(d, answer) ==
    /\ deque' = d
    /\ ok' = answer
    /\ UNCHANGED undefined

AsIntended(claim) == intended' = (intended /\ claim)

\* A push makes a first node when there is no element.
FirstGrants == IF deque.count = 0 THEN Grants(deque) ELSE {0}

WithFirstNode(dir, grant) ==
    IF deque.count > 0 THEN deque
    ELSE IF grant = 0 THEN [deque EXCEPT !.front = nullptr]
    ELSE [AllocateNode(deque, dir, grant) EXCEPT !.front = NewId(deque),
                                                 !.back = NewId(deque)]

NoNode(d) == d.count = 0 /\ d.front = nullptr

Store(d, node, index, v) ==
    [d EXCEPT !.nodes[node].vals = Put(@, index, v), !.count = @ + 1]

\* vals holds the places with an element: what is left in the others is never
\* looked at.
Take(d, node, index) ==
    [d EXCEPT !.nodes[node].vals = [i \in DOMAIN @ \ {index} |-> @[i]],
              !.count = @ - 1]

StoreFront(d, v) ==
    LET index == d.nodes[d.front].front
    IN [Store(d, d.front, index, v) EXCEPT !.nodes[d.front].front = index + 1]

StoreBack(d, v) ==
    LET index == d.nodes[d.back].back - 1
    IN [Store(d, d.back, index, v) EXCEPT !.nodes[d.back].back = index]

PushFront ==
    /\ Called("push_front") /\ deque.count < MaxElements
    /\ \E first \in FirstGrants, v \in Values :
         LET d == WithFirstNode("FRONT", first)
             usable == d.front \in Allocated(d)
             full == d.nodes[d.front].front = d.nodes[d.front].size
         IN \/ /\ NoNode(d)
               /\ Returns(d, FALSE) /\ AsIntended(TRUE)
            \/ /\ usable /\ ~ full
               /\ Returns(StoreFront(d, v), TRUE) /\ AsIntended(TRUE)
            \/ /\ usable /\ full /\ d.reserved = nullptr
               /\ \E grant \in Grants(d) :
                    IF grant = 0 THEN Returns(d, FALSE)
                    ELSE Returns(StoreFront(AddFrontNode(d, grant), v), TRUE)
               /\ AsIntended(TRUE)
            \/ /\ usable /\ full /\ d.reserved \in Allocated(d)
               /\ Returns(StoreFront(AddFrontNode(d, 0), v), TRUE)
               /\ AsIntended(FALSE)
            \/ /\ ~ NoNode(d)
               /\ usable => full /\ d.reserved \notin Allocated(d) \cup {nullptr}
               /\ Undefined
    /\ val' = NoValue

PushBack ==
    /\ Called("push_back") /\ deque.count < MaxElements
    /\ \E first \in FirstGrants, v \in Values :
         LET d == WithFirstNode("BACK", first)
             usable == d.back \in Allocated(d)
             full == d.nodes[d.back].back = 0
         IN \/ /\ NoNode(d)
               /\ Returns(d, FALSE) /\ AsIntended(TRUE)
            \/ /\ usable /\ ~ full
               /\ Returns(StoreBack(d, v), TRUE) /\ AsIntended(TRUE)
            \/ /\ usable /\ full /\ d.reserved = nullptr
               /\ \E grant \in Grants(d) :
                    IF grant = 0 THEN Returns(d, FALSE)
                    ELSE Returns(StoreBack(AddBackNode(d, grant), v), TRUE)
               /\ AsIntended(TRUE)
            \/ /\ usable /\ full /\ d.reserved \in Allocated(d)
               /\ Returns(StoreBack(AddBackNode(d, 0), v), TRUE)
               /\ AsIntended(FALSE)
            \/ /\ ~ NoNode(d)
               /\ usable => full /\ d.reserved \notin Allocated(d) \cup {nullptr}
               /\ Undefined
    /\ val' = NoValue

\* pop_front and pop_back find nothing.
PopFails(name, end) ==
    /\ Called(name)
    /\ \/ deque.count = 0
       \/ /\ end \in Allocated(deque)
          /\ deque.nodes[end].front = deque.nodes[end].back
    /\ Returns(deque, FALSE)
    /\ val' = NoValue /\ UNCHANGED intended

\* The node at the end, and the one that is to take its place, must exist.
Poppable(end, neighbour, index) ==
    /\ end \in Allocated(deque)
    /\ index \in DOMAIN deque.nodes[end].vals
    /\ neighbour \in Allocated(deque) \cup {nullptr}

PopFront ==
    LET end == deque.front
        node == deque.nodes[end]
        index == node.front - 1
        taken == [Take(deque, end, index) EXCEPT !.nodes[end].front = index]
    IN /\ Called("pop_front")
       /\ deque.count > 0
       /\ IF end \in Allocated(deque) /\ Poppable(end, node.prev, index)
            THEN /\ node.front # node.back
                 /\ val' = node.vals[index]
                 /\ Returns(IF index \in {0, node.back} THEN RemoveFrontNode(taken)
                                                       ELSE taken, TRUE)
                 /\ UNCHANGED intended
            ELSE Undefined /\ val' = NoValue

PopBack ==
    LET end == deque.back
        node == deque.nodes[end]
        index == node.back
        taken == [Take(deque, end, index) EXCEPT !.nodes[end].back = index + 1]
    IN /\ Called("pop_back")
       /\ deque.count > 0
       /\ IF end \in Allocated(deque) /\ Poppable(end, node.next, index)
            THEN /\ node.front # node.back
                 /\ val' = node.vals[index]
                 /\ Returns(IF index + 1 \in {node.size, node.front}
                              THEN RemoveBackNode(taken) ELSE taken, TRUE)
                 /\ UNCHANGED intended
            ELSE Undefined /\ val' = NoValue

-----------------------------------------------------------------------------
(* reserve *)

ReserveNode(d, grant) ==
    [AllocateNode(d, "FRONT", grant) EXCEPT !.nodes[NewId(d)].next = d.reserved,
                                            !.reserved = NewId(d)]

Granted(d, grants) ==
    LET G[k \in 0 .. Len(grants)] ==
          IF k = 0 THEN d ELSE ReserveNode(G[k - 1], grants[k])
    IN G[Len(grants)]

Elements(grants) == FoldLeft(LAMBDA a, b : a + b, 0, grants)

\* The blocks a call may get: all but the last are not enough.
GrantSequences(n) ==
    UNION {{g \in [1 .. k -> Grants(deque) \ {0}] :
              k > 0 => Elements(SubSeq(g, 1, k - 1)) < n}
             : k \in 0 .. Cardinality(Id \ Allocated(deque))}

Reserve ==
    /\ Called("reserve")
    /\ \E n \in Reservations : \E g \in GrantSequences(n) :
         /\ Elements(g) >= n
         /\ Returns([Granted(deque, g) EXCEPT !.capacity = Modulo(@ + n)], TRUE)
    /\ val' = NoValue /\ UNCHANGED intended

\* The heap refuses the next block.  The loop that should give the others back
\* steps on before it frees: with one, it frees the node behind it and goes on
\* using that, with more it then reads what it has freed.
ReserveFails ==
    /\ Called("reserve")
    /\ \E n \in Reservations : \E g \in GrantSequences(n) :
         /\ Elements(g) < n
         /\ LET d == Granted(deque, g)
                rest == d.nodes[d.reserved].next
                undone == IF g = <<>> THEN d
                          ELSE [Free(d, rest) EXCEPT !.reserved = rest]
            IN IF Len(g) <= 1
                 THEN /\ Returns([undone EXCEPT !.capacity = Modulo(@ + n)], FALSE)
                      /\ AsIntended(g = <<>>)
                 ELSE Undefined
    /\ val' = NoValue

Next ==
    \/ PushFront \/ PushBack
    \/ PopFront \/ PopFails("pop_front", deque.front)
    \/ PopBack \/ PopFails("pop_back", deque.back)
    \/ Reserve \/ ReserveFails

Spec == Init /\ [][Next]_vars

-----------------------------------------------------------------------------
(* Properties *)

TypeOK ==
    /\ Allocated(deque) \subseteq Id
    /\ \A id \in Allocated(deque) : deque.nodes[id] \in Node
    /\ {deque.front, deque.back, deque.reserved} \subseteq Id \cup {nullptr}
    /\ deque.count \in Nat /\ deque.capacity \in 0 .. SizeModulus - 1
    /\ op \in Operations \cup {"none"}
    /\ ok \in BOOLEAN /\ val \in Values \cup {NoValue}
    /\ intended \in BOOLEAN /\ undefined \in BOOLEAN

\* The nodes of d from a first one on, along next or prev, for as long as there
\* is one: the walk never comes back from where there is none.
Walk(d, first, following) ==
    LET C[k \in 1 .. MaxNodes] ==
          IF k = 1 THEN first
          ELSE IF C[k - 1] \in Allocated(d) THEN following[C[k - 1]]
          ELSE nullptr
    IN C

Chain(d, first, following) ==
    LET C == Walk(d, first, following)
    IN [k \in {i \in 1 .. MaxNodes : C[i] \in Allocated(d)} |-> C[k]]

FromFront(d) == Chain(d, d.front, [id \in Allocated(d) |-> d.nodes[id].prev])
FromBack(d) == Chain(d, d.back, [id \in Allocated(d) |-> d.nodes[id].next])
ReservedNodes(d) == Chain(d, d.reserved, [id \in Allocated(d) |-> d.nodes[id].next])

\* The elements of a node, the front one first.
ElementsOf(node) ==
    [i \in 1 .. node.front - node.back |-> node.vals[node.front - i]]

ElementsIn(d, ids) ==
    FlattenSeq([i \in DOMAIN ids |-> ElementsOf(d.nodes[ids[i]])])

Contents == ElementsIn(deque, FromFront(deque))

\* As long as no reserved node has been put to use, the blocks in the heap are
\* the deque's, the same in either direction, or reserved, and never both: a
\* failed push, a removed node or a reservation leaks nothing (as intended).
NothingLeaked ==
    intended /\ ~ undefined =>
      /\ FromBack(deque) = Reverse(FromFront(deque))
      /\ Allocated(deque) = ToSet(FromFront(deque)) \cup ToSet(ReservedNodes(deque))
      /\ ToSet(FromFront(deque)) \cap ToSet(ReservedNodes(deque)) = {}
      /\ deque.count = Len(Contents)

\* And it is a deque: what comes out, at which end, and when an operation may
\* fail, is what Deque says.
Promise == INSTANCE Deque WITH
    items <- IF intended THEN Contents ELSE <<>>,
    promised <- intended /\ ~ undefined
ImplementsDeque == Promise!DequeSpec

\* "Use of a variable-sized linked-array-based queue for pattern recognition":
\* what goes in at the back comes out at the front, in order.
Queue == INSTANCE Deque WITH items <- Contents, promised <- TRUE
ImplementsQueue == Queue!DequeSpec
=============================================================================
