------------------------- MODULE LinkedDequeProofs -------------------------
(***************************************************************************)
(* Proofs about LinkedDeque, for a heap and nodes of any size: the types   *)
(* of its members whatever is called, and, as long as the deque is used as *)
(* intended, that no block is leaked and that it implements Deque.         *)
(***************************************************************************)
EXTENDS LinkedDeque, FiniteSetTheorems, SequenceTheorems, WellFoundedInduction, TLAPS

-----------------------------------------------------------------------------
(* What is known of a deque whatever it was used for, and what             *)
(* allocate_node gives.                                                    *)

NodeMaps == UNION {[ids -> Node] : ids \in SUBSET Id}

\* A node that was allocated has room.
IsNode(n) == n \in Node /\ 1 <= n.size /\ n.front <= n.size

IsDeque(d) ==
    /\ d \in [nodes : NodeMaps, front : Id \cup {nullptr}, back : Id \cup {nullptr},
              reserved : Id \cup {nullptr}, count : Int, capacity : 0 .. SizeModulus - 1]
    /\ \A id \in Allocated(d) : IsNode(d.nodes[id])

\* The functions that can be the nodes of a deque.
LEMMA NodeMapsAre ==
    ASSUME NEW f
    PROVE  f \in NodeMaps <=>
             /\ f = [i \in DOMAIN f |-> f[i]]
             /\ DOMAIN f \subseteq Id
             /\ \A i \in DOMAIN f : f[i] \in Node
<1>1. ASSUME f \in NodeMaps
      PROVE  /\ f = [i \in DOMAIN f |-> f[i]]
             /\ DOMAIN f \subseteq Id
             /\ \A i \in DOMAIN f : f[i] \in Node
  <2>1. PICK ids \in SUBSET Id : f \in [ids -> Node] BY <1>1 DEF NodeMaps
  <2> QED BY <2>1
<1>2. ASSUME f = [i \in DOMAIN f |-> f[i]], DOMAIN f \subseteq Id,
             \A i \in DOMAIN f : f[i] \in Node
      PROVE  f \in NodeMaps
  <2>1. f \in [DOMAIN f -> Node] BY <1>2
  <2> QED BY <1>2, <2>1 DEF NodeMaps
<1> QED BY <1>1, <1>2

\* The heap has room: its next block is none of those allocated.
LEMMA NewIdFree ==
    ASSUME NEW d, Allocated(d) \subseteq Id, Allocated(d) # Id
    PROVE  NewId(d) \in Id \ Allocated(d)
<1> DEFINE S == Id \ Allocated(d)
<1>2. S # {} /\ S \subseteq Nat
  <2>1. S # {} OBVIOUS
  <2>2. S \subseteq Nat BY DEF Id
  <2> QED BY <2>1, <2>2
<1>3. \E x \in S : \A y \in S : x <= y
  <2> HIDE DEF S
  <2>1. PICK x \in S : \A y \in S : ~ (<<y, x>> \in OpToRel(<, Nat))
    BY <1>2, NatLessThanWellFounded, WFMin
  <2>2. \A y \in S : ~ (y < x) BY <1>2, <2>1 DEF OpToRel
  <2> QED BY <1>2, <2>2
<1> HIDE DEF S
<1>4. Min(S) \in S BY <1>3 DEF Min
<1> QED BY <1>4 DEF S, NewId

\* What is halved is halved once at least: the subsets of 1 .. n + 1 are 2 or
\* more.
LEMMA HalvedAtLeast ==
    ASSUME NEW n \in Nat
    PROVE  2 ^ (n + 1) \in Nat /\ 2 <= 2 ^ (n + 1)
<1> DEFINE S == 1 .. n + 1
<1>1. IsFiniteSet(S) /\ Cardinality(S) = n + 1
  <2>1. PICK m \in Nat \ {0} : m = n + 1 OBVIOUS
  <2>2. IsFiniteSet(1 .. m) /\ Cardinality(1 .. m) = m BY FS_Interval
  <2> QED BY <2>1, <2>2
<1>2. {{}, {1}} \subseteq SUBSET S OBVIOUS
<1> HIDE DEF S
<1>3. IsFiniteSet(SUBSET S) /\ Cardinality(SUBSET S) = 2 ^ (n + 1)
  BY <1>1, FS_SUBSET
<1>4. /\ IsFiniteSet({{}, {1}})
      /\ Cardinality({{}, {1}}) <= Cardinality(SUBSET S)
  BY <1>2, <1>3, FS_Subset
<1>5. Cardinality({{}, {1}}) = 2
  <2>1. IsFiniteSet({{}}) /\ Cardinality({{}}) = 1 BY FS_Singleton
  <2>2. {{}, {1}} = {{}} \cup {{1}} /\ {1} \notin {{}} OBVIOUS
  <2>3. PICK T : T = {{}} OBVIOUS
  <2>4. Cardinality(T \cup {{1}}) = Cardinality(T) + 1 /\ Cardinality(T) = 1
    BY <2>1, <2>2, <2>3, FS_AddElement
  <2>5. Cardinality(T \cup {{1}}) = 2 BY <2>4
  <2> QED BY <2>2, <2>3, <2>5, Zenon
<1>6. Cardinality(SUBSET S) \in Nat BY <1>3, FS_CardinalityType
<1> QED BY <1>3, <1>4, <1>5, <1>6

\* Blocks that are granted have room.
LEMMA GrantHasRoom ==
    ASSUME NEW d, NEW grant \in Grants(d), grant # 0
    PROVE  /\ Allocated(d) # Id
           /\ grant \in 1 .. BlockSize
<1>1. PICK i \in 0 .. BlockSize : grant = 2 * (BlockSize \div 2 ^ (i + 1))
  BY DEF Grants
<1>2. Allocated(d) # Id BY DEF Grants
<1>3. 2 ^ (i + 1) \in Nat /\ 2 <= 2 ^ (i + 1) BY HalvedAtLeast
<1>4. BlockSize \in Nat BY DequeAssumption
<1>5. PICK k : k = 2 ^ (i + 1) OBVIOUS
<1>6. PICK q : q = BlockSize \div k OBVIOUS
<1>7. q \in Nat /\ k * q <= BlockSize BY <1>3, <1>4, <1>5, <1>6
<1>8. 2 * q <= k * q BY <1>3, <1>5, <1>7
<1>9. 2 * q <= BlockSize
  <2>1. k * q \in Nat BY <1>3, <1>5, <1>7
  <2> QED BY <1>4, <1>7, <1>8, <2>1
<1>10. grant = 2 * q BY <1>1, <1>5, <1>6
<1> QED BY <1>2, <1>7, <1>9, <1>10

\* A node that was just made is well formed, from whichever end it is to be filled.
LEMMA BlankIsNode ==
    ASSUME NEW dir, NEW size \in 1 .. BlockSize
    PROVE  IsNode(Blank(dir, size))
<1>1. <<>> \in [{} -> Values] OBVIOUS
<1>2. <<>> \in UNION {[places -> Values] : places \in SUBSET Indices}
  BY <1>1
<1> QED BY <1>2, DequeAssumption DEF IsNode, Node, Blank, nullptr

\* allocate_node: one more node, a blank one, and nothing else is changed.
LEMMA AllocateNodeIs ==
    ASSUME NEW d, IsDeque(d), NEW dir, NEW grant \in 1 .. BlockSize,
           Allocated(d) # Id
    PROVE  LET new == NewId(d)  e == AllocateNode(d, dir, grant)
           IN  /\ IsDeque(e)
               /\ new \in Id /\ new \notin Allocated(d)
               /\ Allocated(e) = Allocated(d) \cup {new}
               /\ e.nodes[new] = Blank(dir, grant)
               /\ \A id \in Allocated(d) : e.nodes[id] = d.nodes[id]
               /\ e = [d EXCEPT !.nodes = e.nodes]
<1> DEFINE new == NewId(d)
           ns == Put(d.nodes, new, Blank(dir, grant))
           e == AllocateNode(d, dir, grant)
<1>1. d.nodes \in NodeMaps BY DEF IsDeque
<1>2. /\ d.nodes = [i \in Allocated(d) |-> d.nodes[i]] /\ Allocated(d) \subseteq Id
      /\ \A i \in Allocated(d) : IsNode(d.nodes[i])
  BY <1>1, NodeMapsAre, Zenon DEF IsDeque, Allocated
<1>3. new \in Id \ Allocated(d) BY <1>2, NewIdFree
<1>4. IsNode(Blank(dir, grant)) BY BlankIsNode
<1> HIDE DEF new
<1>5. /\ ns = [i \in Allocated(d) \cup {new} |->
                 IF i = new THEN Blank(dir, grant) ELSE d.nodes[i]]
  BY <1>2 DEF Allocated, Put
<1>6. e = [d EXCEPT !.nodes = ns] BY DEF AllocateNode, new
<1>7. e.nodes = ns BY <1>6 DEF IsDeque
<1>8. DOMAIN ns = Allocated(d) \cup {new} /\ Allocated(d) \cup {new} \subseteq Id
  BY <1>2, <1>3, <1>5
<1>9. \A i \in DOMAIN ns : IsNode(ns[i])
  BY <1>2, <1>4, <1>5, <1>8
<1>10. ns \in NodeMaps BY <1>5, <1>8, <1>9, NodeMapsAre DEF IsNode
<1>11. IsDeque(e) BY <1>6, <1>7, <1>9, <1>10 DEF IsDeque, Allocated
<1>12. Allocated(e) = Allocated(d) \cup {new} BY <1>7, <1>8 DEF Allocated
<1> QED BY <1>3, <1>5, <1>6, <1>7, <1>11, <1>12 DEF new

-----------------------------------------------------------------------------
(* A member of a node, or of the deque, is set.                            *)

\* A node of d is replaced.
WithNode(d, id, n) == [d EXCEPT !.nodes = [d.nodes EXCEPT ![id] = n]]

NodeReplaced(e, d, id, n) ==
    /\ IsDeque(e)
    /\ Allocated(e) = Allocated(d)
    /\ e.nodes[id] = n
    /\ \A i \in Allocated(d) \ {id} : e.nodes[i] = d.nodes[i]
    /\ e.front = d.front /\ e.back = d.back /\ e.reserved = d.reserved
    /\ e.count = d.count /\ e.capacity = d.capacity

\* Replacing a node by another leaves the rest.
LEMMA WithNodeIs ==
    ASSUME NEW d, IsDeque(d), NEW id \in Allocated(d), NEW n, IsNode(n)
    PROVE  NodeReplaced(WithNode(d, id, n), d, id, n)
<1> DEFINE ns == [d.nodes EXCEPT ![id] = n]
           e == WithNode(d, id, n)
<1>1. /\ d.nodes = [i \in Allocated(d) |-> d.nodes[i]] /\ Allocated(d) \subseteq Id
      /\ \A i \in Allocated(d) : IsNode(d.nodes[i])
  <2>1. d.nodes \in NodeMaps BY DEF IsDeque
  <2> QED BY <2>1, NodeMapsAre, Zenon DEF IsDeque, Allocated
<1>2. /\ ns = [i \in Allocated(d) |-> IF i = id THEN n ELSE d.nodes[i]]
  BY <1>1
<1>3. DOMAIN ns = Allocated(d) /\ \A i \in DOMAIN ns : IsNode(ns[i])
  BY <1>1, <1>2
<1>4. ns \in NodeMaps BY <1>1, <1>2, <1>3, NodeMapsAre DEF IsNode
<1>5. e = [d EXCEPT !.nodes = ns] BY DEF WithNode
<1>6. e.nodes = ns BY <1>5 DEF IsDeque
<1>7. IsDeque(e) BY <1>3, <1>4, <1>5, <1>6 DEF IsDeque, Allocated
<1>8. Allocated(e) = Allocated(d) BY <1>3, <1>6 DEF Allocated
<1>9. /\ e.front = d.front /\ e.back = d.back /\ e.reserved = d.reserved
      /\ e.count = d.count /\ e.capacity = d.capacity
  BY <1>5 DEF IsDeque
<1> QED BY <1>2, <1>6, <1>7, <1>8, <1>9 DEF NodeReplaced

\* The fields of a node, one at a time.
LEMMA NodeFields ==
    ASSUME NEW n, IsNode(n)
    PROVE  /\ \A x \in Id \cup {nullptr} : /\ IsNode([n EXCEPT !.next = x])
                                           /\ IsNode([n EXCEPT !.prev = x])
           /\ \A x \in 0 .. n.size : IsNode([n EXCEPT !.front = x])
           /\ \A x \in 0 .. BlockSize : IsNode([n EXCEPT !.back = x])
           /\ \A x \in Indices, v \in Values :
                 IsNode([n EXCEPT !.vals = Put(n.vals, x, v)])
           /\ \A x : IsNode([n EXCEPT !.vals = [i \in DOMAIN n.vals \ {x} |-> n.vals[i]]])
<1> USE DEF IsNode
<1>0. n \in Node /\ BlockSize \in Nat BY DequeAssumption
<1>1. PICK places \in SUBSET Indices : n.vals \in [places -> Values]
  BY DEF Node
<1>2. ASSUME NEW f, NEW s \in SUBSET Indices, f \in [s -> Values]
      PROVE  IsNode([n EXCEPT !.vals = f])
  <2>1. f \in UNION {[p -> Values] : p \in SUBSET Indices} BY <1>2
  <2> QED BY <1>0, <2>1 DEF Node
<1>3. ASSUME NEW x \in Indices, NEW v \in Values
      PROVE  IsNode([n EXCEPT !.vals = Put(n.vals, x, v)])
  <2>1. Put(n.vals, x, v) \in [places \cup {x} -> Values]
    BY <1>1 DEF Put
  <2>2. places \cup {x} \in SUBSET Indices OBVIOUS
  <2> QED BY <1>2, <2>1, <2>2
<1>4. ASSUME NEW x
      PROVE  IsNode([n EXCEPT !.vals = [i \in DOMAIN n.vals \ {x} |-> n.vals[i]]])
  <2> DEFINE f == [i \in DOMAIN n.vals \ {x} |-> n.vals[i]]
  <2>1. f \in [places \ {x} -> Values] BY <1>1
  <2>2. places \ {x} \in SUBSET Indices OBVIOUS
  <2> HIDE DEF f
  <2> QED BY <1>2, <2>1, <2>2 DEF f
<1>5. \A x \in Id \cup {nullptr} : /\ IsNode([n EXCEPT !.next = x])
                                   /\ IsNode([n EXCEPT !.prev = x])
  BY <1>0 DEF Node
<1>6. \A x \in 0 .. n.size : IsNode([n EXCEPT !.front = x])
  BY <1>0 DEF Node
<1>7. \A x \in 0 .. BlockSize : IsNode([n EXCEPT !.back = x])
  BY <1>0 DEF Node
<1> QED BY <1>3, <1>4, <1>5, <1>6, <1>7

\* Setting next of a node replaces it by one that differs in next.
LEMMA SetNext ==
    ASSUME NEW d, IsDeque(d), NEW id \in Allocated(d), NEW x \in Id \cup {nullptr}
    PROVE  /\ [d EXCEPT !.nodes[id].next = x]
                = WithNode(d, id, [d.nodes[id] EXCEPT !.next = x])
           /\ IsNode([d.nodes[id] EXCEPT !.next = x])
  BY NodeFields, Zenon DEF WithNode, IsDeque

\* Setting prev of a node replaces it by one that differs in prev.
LEMMA SetPrev ==
    ASSUME NEW d, IsDeque(d), NEW id \in Allocated(d), NEW x \in Id \cup {nullptr}
    PROVE  /\ [d EXCEPT !.nodes[id].prev = x]
                = WithNode(d, id, [d.nodes[id] EXCEPT !.prev = x])
           /\ IsNode([d.nodes[id] EXCEPT !.prev = x])
  BY NodeFields, Zenon DEF WithNode, IsDeque

-----------------------------------------------------------------------------
(* A node is linked at an end.                                             *)

\* What AddFrontNode and AddBackNode do with the node they have.
LinkFront(h, f, new) ==
    [h EXCEPT !.nodes[f].next = new, !.nodes[new].prev = f, !.front = new]
LinkBack(h, b, new) ==
    [h EXCEPT !.nodes[b].prev = new, !.nodes[new].next = b, !.back = new]

\* Everything but the ends of the deque and what its nodes hold.
SameStore(e, h) ==
    /\ Allocated(e) = Allocated(h)
    /\ e.reserved = h.reserved /\ e.count = h.count /\ e.capacity = h.capacity

SameElements(n, m) ==
    n.front = m.front /\ n.back = m.back /\ n.size = m.size /\ n.vals = m.vals

FrontLinked(e, h, f, new) ==
    /\ IsDeque(e) /\ SameStore(e, h)
    /\ e.front = new /\ e.back = h.back
    /\ SameElements(e.nodes[new], h.nodes[new])
    /\ f # new => /\ e.nodes[f] = [h.nodes[f] EXCEPT !.next = new]
                  /\ e.nodes[new] = [h.nodes[new] EXCEPT !.prev = f]
                  /\ \A i \in Allocated(h) \ {f, new} : e.nodes[i] = h.nodes[i]

\* The three assignments that link a node before the front one.
LEMMA LinkFrontIs ==
    ASSUME NEW h, IsDeque(h), NEW f \in Allocated(h), NEW new \in Allocated(h)
    PROVE  FrontLinked(LinkFront(h, f, new), h, f, new)
<1>1. Allocated(h) \subseteq Id
  <2>1. h.nodes \in NodeMaps BY DEF IsDeque
  <2> QED BY <2>1, NodeMapsAre, Zenon DEF Allocated
<1>2. f \in Id /\ new \in Id BY <1>1
<1>3. PICK n : n = [h.nodes[f] EXCEPT !.next = new] OBVIOUS
<1>4. PICK e : e = WithNode(h, f, n) OBVIOUS
<1>5. [h EXCEPT !.nodes[f].next = new] = e /\ IsNode(n)
  BY <1>2, <1>3, <1>4, SetNext
<1>6. /\ IsDeque(e) /\ Allocated(e) = Allocated(h) /\ e.nodes[f] = n
      /\ \A i \in Allocated(h) \ {f} : e.nodes[i] = h.nodes[i]
      /\ e.front = h.front /\ e.back = h.back /\ e.reserved = h.reserved
      /\ e.count = h.count /\ e.capacity = h.capacity
  <2>1. NodeReplaced(e, h, f, n) BY <1>4, <1>5, WithNodeIs, Zenon
  <2> QED BY <2>1 DEF NodeReplaced
<1>7. PICK m : m = [e.nodes[new] EXCEPT !.prev = f] OBVIOUS
<1>8. PICK g : g = WithNode(e, new, m) OBVIOUS
<1>9. [e EXCEPT !.nodes[new].prev = f] = g /\ IsNode(m)
  BY <1>2, <1>6, <1>7, <1>8, SetPrev
<1>10. /\ IsDeque(g) /\ Allocated(g) = Allocated(h) /\ g.nodes[new] = m
       /\ \A i \in Allocated(h) \ {new} : g.nodes[i] = e.nodes[i]
       /\ g.back = h.back /\ g.reserved = h.reserved
       /\ g.count = h.count /\ g.capacity = h.capacity
  <2>1. new \in Allocated(e) BY <1>6
  <2>2. IsDeque(e) /\ IsNode(m) BY <1>6, <1>9
  <2>3. NodeReplaced(g, e, new, m) BY <1>8, <2>1, <2>2, WithNodeIs, Zenon
  <2> QED BY <1>6, <2>3 DEF NodeReplaced
<1>11. PICK r : r = [g EXCEPT !.front = new] OBVIOUS
<1>12. LinkFront(h, f, new) = r
  BY <1>5, <1>9, <1>11 DEF LinkFront
<1>13. /\ IsDeque(r) /\ Allocated(r) = Allocated(h) /\ r.nodes = g.nodes
       /\ r.front = new /\ r.back = h.back /\ r.reserved = h.reserved
       /\ r.count = h.count /\ r.capacity = h.capacity
  BY <1>2, <1>10, <1>11 DEF IsDeque, Allocated
<1>14. SameElements(n, h.nodes[f]) /\ SameElements(m, e.nodes[new])
  BY <1>3, <1>7, <1>5, <1>9, <1>6 DEF SameElements, IsNode, Node, IsDeque
<1>15. SameElements(m, h.nodes[new])
  BY <1>6, <1>14 DEF SameElements
<1>16. ASSUME f # new
       PROVE  /\ r.nodes[f] = n
              /\ r.nodes[new] = [h.nodes[new] EXCEPT !.prev = f]
              /\ \A i \in Allocated(h) \ {f, new} : r.nodes[i] = h.nodes[i]
  <2>1. r.nodes[f] = n BY <1>6, <1>10, <1>13, <1>16
  <2>2. r.nodes[new] = [h.nodes[new] EXCEPT !.prev = f]
    BY <1>6, <1>7, <1>10, <1>13, <1>16
  <2>3. \A i \in Allocated(h) \ {f, new} : r.nodes[i] = h.nodes[i]
    BY <1>6, <1>10, <1>13
  <2> QED BY <2>1, <2>2, <2>3
<1>17. r.nodes[new] = m BY <1>10, <1>13
<1>18. FrontLinked(r, h, f, new)
  BY <1>3, <1>13, <1>15, <1>16, <1>17 DEF SameStore, FrontLinked
<1> QED BY <1>12, <1>18, Zenon

BackLinked(e, h, f, new) ==
    /\ IsDeque(e) /\ SameStore(e, h)
    /\ e.back = new /\ e.front = h.front
    /\ SameElements(e.nodes[new], h.nodes[new])
    /\ f # new => /\ e.nodes[f] = [h.nodes[f] EXCEPT !.prev = new]
                  /\ e.nodes[new] = [h.nodes[new] EXCEPT !.next = f]
                  /\ \A i \in Allocated(h) \ {f, new} : e.nodes[i] = h.nodes[i]

\* The three assignments that link a node behind the back one.
LEMMA LinkBackIs ==
    ASSUME NEW h, IsDeque(h), NEW f \in Allocated(h), NEW new \in Allocated(h)
    PROVE  BackLinked(LinkBack(h, f, new), h, f, new)
<1>1. Allocated(h) \subseteq Id
  <2>1. h.nodes \in NodeMaps BY DEF IsDeque
  <2> QED BY <2>1, NodeMapsAre, Zenon DEF Allocated
<1>2. f \in Id /\ new \in Id BY <1>1
<1>3. PICK n : n = [h.nodes[f] EXCEPT !.prev = new] OBVIOUS
<1>4. PICK e : e = WithNode(h, f, n) OBVIOUS
<1>5. [h EXCEPT !.nodes[f].prev = new] = e /\ IsNode(n)
  BY <1>2, <1>3, <1>4, SetPrev
<1>6. /\ IsDeque(e) /\ Allocated(e) = Allocated(h) /\ e.nodes[f] = n
      /\ \A i \in Allocated(h) \ {f} : e.nodes[i] = h.nodes[i]
      /\ e.front = h.front /\ e.back = h.back /\ e.reserved = h.reserved
      /\ e.count = h.count /\ e.capacity = h.capacity
  <2>1. NodeReplaced(e, h, f, n) BY <1>4, <1>5, WithNodeIs, Zenon
  <2> QED BY <2>1 DEF NodeReplaced
<1>7. PICK m : m = [e.nodes[new] EXCEPT !.next = f] OBVIOUS
<1>8. PICK g : g = WithNode(e, new, m) OBVIOUS
<1>9. [e EXCEPT !.nodes[new].next = f] = g /\ IsNode(m)
  BY <1>2, <1>6, <1>7, <1>8, SetNext
<1>10. /\ IsDeque(g) /\ Allocated(g) = Allocated(h) /\ g.nodes[new] = m
       /\ \A i \in Allocated(h) \ {new} : g.nodes[i] = e.nodes[i]
       /\ g.front = h.front /\ g.reserved = h.reserved
       /\ g.count = h.count /\ g.capacity = h.capacity
  <2>1. new \in Allocated(e) BY <1>6
  <2>2. IsDeque(e) /\ IsNode(m) BY <1>6, <1>9
  <2>3. NodeReplaced(g, e, new, m) BY <1>8, <2>1, <2>2, WithNodeIs, Zenon
  <2> QED BY <1>6, <2>3 DEF NodeReplaced
<1>11. PICK r : r = [g EXCEPT !.back = new] OBVIOUS
<1>12. LinkBack(h, f, new) = r
  BY <1>5, <1>9, <1>11 DEF LinkBack
<1>13. /\ IsDeque(r) /\ Allocated(r) = Allocated(h) /\ r.nodes = g.nodes
       /\ r.back = new /\ r.front = h.front /\ r.reserved = h.reserved
       /\ r.count = h.count /\ r.capacity = h.capacity
  BY <1>2, <1>10, <1>11 DEF IsDeque, Allocated
<1>14. SameElements(n, h.nodes[f]) /\ SameElements(m, e.nodes[new])
  BY <1>3, <1>7, <1>5, <1>9, <1>6 DEF SameElements, IsNode, Node, IsDeque
<1>15. SameElements(m, h.nodes[new])
  BY <1>6, <1>14 DEF SameElements
<1>16. ASSUME f # new
       PROVE  /\ r.nodes[f] = n
              /\ r.nodes[new] = [h.nodes[new] EXCEPT !.next = f]
              /\ \A i \in Allocated(h) \ {f, new} : r.nodes[i] = h.nodes[i]
  <2>1. r.nodes[f] = n BY <1>6, <1>10, <1>13, <1>16
  <2>2. r.nodes[new] = [h.nodes[new] EXCEPT !.next = f]
    BY <1>6, <1>7, <1>10, <1>13, <1>16
  <2>3. \A i \in Allocated(h) \ {f, new} : r.nodes[i] = h.nodes[i]
    BY <1>6, <1>10, <1>13
  <2> QED BY <2>1, <2>2, <2>3
<1>17. r.nodes[new] = m BY <1>10, <1>13
<1>18. BackLinked(r, h, f, new)
  BY <1>3, <1>13, <1>15, <1>16, <1>17 DEF SameStore, BackLinked
<1> QED BY <1>12, <1>18, Zenon

-----------------------------------------------------------------------------
(* add_front_node and add_back_node.                                       *)

\* The parts of a well formed deque.
LEMMA AllocatedIds ==
    ASSUME NEW d, IsDeque(d)
    PROVE  /\ Allocated(d) \subseteq Id /\ nullptr \notin Allocated(d)
           /\ \A i \in Allocated(d) : IsNode(d.nodes[i])
           /\ {d.front, d.back, d.reserved} \subseteq Id \cup {nullptr}
           /\ d.count \in Int /\ d.capacity \in 0 .. SizeModulus - 1
<1>1. d.nodes \in NodeMaps BY DEF IsDeque
<1>2. Allocated(d) \subseteq Id BY <1>1, NodeMapsAre, Zenon DEF Allocated
<1>3. nullptr \notin Id BY DequeAssumption DEF Id, nullptr
<1> QED BY <1>2, <1>3 DEF IsDeque

\* What size_t can hold.
LEMMA ModuloRange ==
    ASSUME NEW n \in Int
    PROVE  Modulo(n) \in 0 .. SizeModulus - 1
  BY DequeAssumption DEF Modulo

\* The members other than nodes.
LEMMA SetMembers ==
    ASSUME NEW d, IsDeque(d)
    PROVE  /\ \A x \in Id \cup {nullptr} : /\ IsDeque([d EXCEPT !.front = x])
                                           /\ IsDeque([d EXCEPT !.back = x])
                                           /\ IsDeque([d EXCEPT !.reserved = x])
           /\ \A x \in Int : IsDeque([d EXCEPT !.count = x])
           /\ \A x \in 0 .. SizeModulus - 1 : IsDeque([d EXCEPT !.capacity = x])
  BY DEF IsDeque, Allocated

\* A new node goes to the front, or to the back.
LEMMA AddFrontNodeIs ==
    ASSUME NEW d, IsDeque(d), d.front \in Allocated(d), d.reserved = nullptr,
           NEW grant \in 1 .. BlockSize, Allocated(d) # Id
    PROVE  /\ IsDeque(AllocateNode(d, "FRONT", grant))
           /\ AddFrontNode(d, grant)
                = LinkFront(AllocateNode(d, "FRONT", grant), d.front, NewId(d))
<1>1. PICK new : new = NewId(d) OBVIOUS
<1>2. PICK h : h = AllocateNode(d, "FRONT", grant) OBVIOUS
<1>3. AddFrontNode(d, grant) = LinkFront(h, d.front, new)
  BY <1>1, <1>2 DEF AddFrontNode, LinkFront
<1>4. IsDeque(h) BY <1>2, AllocateNodeIs
<1> QED BY <1>1, <1>2, <1>3, <1>4

\* add_back_node without a reserved node: allocate, then link.
LEMMA AddBackNodeIs ==
    ASSUME NEW d, IsDeque(d), d.back \in Allocated(d), d.reserved = nullptr,
           NEW grant \in 1 .. BlockSize, Allocated(d) # Id
    PROVE  /\ IsDeque(AllocateNode(d, "BACK", grant))
           /\ AddBackNode(d, grant)
                = LinkBack(AllocateNode(d, "BACK", grant), d.back, NewId(d))
<1>1. PICK new : new = NewId(d) OBVIOUS
<1>2. PICK h : h = AllocateNode(d, "BACK", grant) OBVIOUS
<1>3. AddBackNode(d, grant) = LinkBack(h, d.back, new)
  BY <1>1, <1>2 DEF AddBackNode, LinkBack
<1>4. IsDeque(h) BY <1>2, AllocateNodeIs
<1> QED BY <1>1, <1>2, <1>3, <1>4

\* There is a place for one more element at the end.
RoomInFront(d) ==
    d.front \in Allocated(d) /\ d.nodes[d.front].front < d.nodes[d.front].size
RoomInBack(d) ==
    d.back \in Allocated(d) /\ d.nodes[d.back].back # 0

\* A reserved node is put to use.
LEMMA ReuseFrontIs ==
    ASSUME NEW d, IsDeque(d), d.front \in Allocated(d), d.reserved \in Allocated(d),
           NEW grant
    PROVE  /\ IsDeque(AddFrontNode(d, grant))
           /\ RoomInFront(AddFrontNode(d, grant))
           /\ AddFrontNode(d, grant).count = d.count
<1>1. PICK new : new = d.reserved OBVIOUS
<1>2. new # nullptr /\ new \in Allocated(d) /\ IsNode(d.nodes[new])
  BY <1>1, AllocatedIds
<1>3. PICK size : size = d.nodes[new].size OBVIOUS
<1>4. size \in 1 .. BlockSize BY <1>2, <1>3 DEF IsNode, Node
<1>5. PICK n : n = Blank("FRONT", size) OBVIOUS
<1>6. IsNode(n) /\ n.front = 0 /\ n.size = size BY <1>4, <1>5, BlankIsNode DEF Blank
<1>7. PICK g : g = WithNode(d, new, n) OBVIOUS
<1>8. /\ IsDeque(g) /\ Allocated(g) = Allocated(d) /\ g.nodes[new] = n
      /\ g.count = d.count
  <2>1. NodeReplaced(g, d, new, n) BY <1>2, <1>6, <1>7, WithNodeIs, Zenon
  <2> QED BY <2>1 DEF NodeReplaced
<1>9. PICK c : c = Modulo(d.capacity - size) OBVIOUS
<1>10. c \in 0 .. SizeModulus - 1 BY <1>4, <1>9, ModuloRange, AllocatedIds
<1>11. PICK h : h = [g EXCEPT !.capacity = c] OBVIOUS
<1>12. /\ IsDeque(h) /\ Allocated(h) = Allocated(d) /\ h.nodes[new] = n
       /\ h.count = d.count
  <2>1. IsDeque(h) BY <1>8, <1>10, <1>11, SetMembers
  <2>2. h.nodes = g.nodes /\ h.count = g.count BY <1>8, <1>11 DEF IsDeque
  <2> QED BY <1>8, <2>1, <2>2 DEF Allocated
<1>13. h = [d EXCEPT !.nodes[new] = ReusedNode(d, "FRONT"),
                     !.capacity = Modulo(@ - d.nodes[new].size)]
  BY <1>1, <1>3, <1>5, <1>7, <1>9, <1>11 DEF ReusedNode, WithNode, IsDeque
<1>14. AddFrontNode(d, grant) = LinkFront(h, d.front, new)
  BY <1>1, <1>2, <1>13 DEF AddFrontNode, LinkFront
<1>15. PICK e : e = LinkFront(h, d.front, new) OBVIOUS
<1>16. /\ IsDeque(e) /\ SameStore(e, h) /\ e.front = new
       /\ SameElements(e.nodes[new], h.nodes[new])
  <2>1. d.front \in Allocated(h) /\ new \in Allocated(h) BY <1>2, <1>12
  <2>2. FrontLinked(e, h, d.front, new) BY <1>12, <1>15, <2>1, LinkFrontIs, Zenon
  <2> QED BY <2>2 DEF FrontLinked
<1>17. IsDeque(e) /\ RoomInFront(e) /\ e.count = d.count
  BY <1>2, <1>4, <1>6, <1>12, <1>16 DEF SameStore, SameElements, RoomInFront
<1> QED BY <1>14, <1>15, <1>17, Zenon

\* The same at the back.
LEMMA ReuseBackIs ==
    ASSUME NEW d, IsDeque(d), d.back \in Allocated(d), d.reserved \in Allocated(d),
           NEW grant
    PROVE  /\ IsDeque(AddBackNode(d, grant))
           /\ RoomInBack(AddBackNode(d, grant))
           /\ AddBackNode(d, grant).count = d.count
<1>1. PICK new : new = d.reserved OBVIOUS
<1>2. new # nullptr /\ new \in Allocated(d) /\ IsNode(d.nodes[new])
  BY <1>1, AllocatedIds
<1>3. PICK size : size = d.nodes[new].size OBVIOUS
<1>4. size \in 1 .. BlockSize /\ d.nodes[new].prev \in Id \cup {nullptr}
  BY <1>2, <1>3 DEF IsNode, Node
<1>5. PICK n : n = Blank("BACK", size) OBVIOUS
<1>6. IsNode(n) /\ n.back = size BY <1>4, <1>5, BlankIsNode DEF Blank
<1>7. PICK g : g = WithNode(d, new, n) OBVIOUS
<1>8. /\ IsDeque(g) /\ Allocated(g) = Allocated(d) /\ g.nodes[new] = n
      /\ g.count = d.count
  <2>1. NodeReplaced(g, d, new, n) BY <1>2, <1>6, <1>7, WithNodeIs, Zenon
  <2> QED BY <2>1 DEF NodeReplaced
<1>9. PICK c : c = Modulo(d.capacity - size) OBVIOUS
<1>10. c \in 0 .. SizeModulus - 1 BY <1>4, <1>9, ModuloRange, AllocatedIds
<1>11. PICK f : f = [g EXCEPT !.reserved = d.nodes[new].prev] OBVIOUS
<1>12. /\ IsDeque(f) /\ Allocated(f) = Allocated(d) /\ f.nodes[new] = n
       /\ f.count = d.count
  <2>1. IsDeque(f) BY <1>4, <1>8, <1>11, SetMembers
  <2>2. f.nodes = g.nodes /\ f.count = g.count BY <1>8, <1>11 DEF IsDeque
  <2> QED BY <1>8, <2>1, <2>2 DEF Allocated
<1>13. PICK h : h = [f EXCEPT !.capacity = c] OBVIOUS
<1>14. /\ IsDeque(h) /\ Allocated(h) = Allocated(d) /\ h.nodes[new] = n
       /\ h.count = d.count
  <2>1. IsDeque(h) BY <1>10, <1>12, <1>13, SetMembers
  <2>2. h.nodes = f.nodes /\ h.count = f.count BY <1>12, <1>13 DEF IsDeque
  <2> QED BY <1>12, <2>1, <2>2 DEF Allocated
<1>15. h = [d EXCEPT !.nodes[new] = ReusedNode(d, "BACK"),
                     !.reserved = d.nodes[new].prev,
                     !.capacity = Modulo(@ - d.nodes[new].size)]
  BY <1>1, <1>3, <1>5, <1>7, <1>9, <1>11, <1>13 DEF ReusedNode, WithNode, IsDeque
<1>16. AddBackNode(d, grant) = LinkBack(h, d.back, new)
  BY <1>1, <1>2, <1>15 DEF AddBackNode, LinkBack
<1>17. PICK e : e = LinkBack(h, d.back, new) OBVIOUS
<1>18. /\ IsDeque(e) /\ SameStore(e, h) /\ e.back = new
       /\ SameElements(e.nodes[new], h.nodes[new])
  <2>1. d.back \in Allocated(h) /\ new \in Allocated(h) BY <1>2, <1>14
  <2>2. BackLinked(e, h, d.back, new) BY <1>14, <1>17, <2>1, LinkBackIs, Zenon
  <2> QED BY <2>2 DEF BackLinked
<1>19. IsDeque(e) /\ RoomInBack(e) /\ e.count = d.count
  BY <1>2, <1>4, <1>6, <1>14, <1>18 DEF SameStore, SameElements, RoomInBack
<1> QED BY <1>16, <1>17, <1>19, Zenon

-----------------------------------------------------------------------------
(* An element is stored in a node, or taken from it.                       *)

\* A node that is replaced twice, the number of elements in between.
Counted(d, f, p, c) == [d EXCEPT !.nodes = [d.nodes EXCEPT ![f] = p], !.count = c]

\* A node is replaced, the count changed, and the node replaced again.
LEMMA ReplacedTwice ==
    ASSUME NEW d, IsDeque(d), NEW f \in Allocated(d), NEW p, NEW m, NEW c
    PROVE  /\ Counted(d, f, p, c).nodes[f] = p
           /\ WithNode(Counted(d, f, p, c), f, m) = [WithNode(d, f, m) EXCEPT !.count = c]
<1>1. PICK q : q = [d.nodes EXCEPT ![f] = p] OBVIOUS
<1>2. d.nodes = [i \in DOMAIN d.nodes |-> d.nodes[i]] /\ f \in DOMAIN d.nodes
  <2>1. d.nodes \in NodeMaps BY DEF IsDeque
  <2> QED BY <2>1, NodeMapsAre, Zenon DEF Allocated
<1>3. [q EXCEPT ![f] = m] = [d.nodes EXCEPT ![f] = m] /\ q[f] = p
  BY <1>1, <1>2
<1>4. PICK s : s = Counted(d, f, p, c) OBVIOUS
<1>5. s = [d EXCEPT !.nodes = q, !.count = c] /\ s.nodes = q
  BY <1>1, <1>4 DEF Counted, IsDeque
<1>6. WithNode(s, f, m) = [s EXCEPT !.nodes = [d.nodes EXCEPT ![f] = m]]
  BY <1>3, <1>5, Zenon DEF WithNode
<1>7. PICK ns : ns = [d.nodes EXCEPT ![f] = m] OBVIOUS
<1>8. [s EXCEPT !.nodes = ns] = [[d EXCEPT !.nodes = ns] EXCEPT !.count = c]
  BY <1>5 DEF IsDeque
<1>9. WithNode(s, f, m) = [WithNode(d, f, m) EXCEPT !.count = c]
  BY <1>6, <1>7, <1>8, Zenon DEF WithNode
<1> QED BY <1>3, <1>4, <1>5, <1>9, Zenon

\* An element comes, or goes.
FrontStored(e, d, v) ==
    LET f == d.front  n == d.nodes[f]
    IN  /\ IsDeque(e) /\ Allocated(e) = Allocated(d)
        /\ e.nodes[f] = [n EXCEPT !.vals = Put(n.vals, n.front, v),
                                  !.front = n.front + 1]
        /\ \A i \in Allocated(d) \ {f} : e.nodes[i] = d.nodes[i]
        /\ e.front = d.front /\ e.back = d.back /\ e.reserved = d.reserved
        /\ e.count = d.count + 1

\* The end of push_front: a place is filled, front and count go up by one.
LEMMA StoreFrontIs ==
    ASSUME NEW d, IsDeque(d), RoomInFront(d), NEW v \in Values
    PROVE  FrontStored(StoreFront(d, v), d, v)
<1>1. PICK f : f = d.front OBVIOUS
<1>2. PICK n : n = d.nodes[f] OBVIOUS
<1>3. f \in Allocated(d) /\ n.front < n.size BY <1>1, <1>2 DEF RoomInFront
<1>4. IsNode(n) BY <1>2, <1>3, AllocatedIds
<1>5. /\ n.front \in Indices /\ n.front + 1 \in 0 .. n.size /\ n.size \in 1 .. BlockSize
  BY <1>3, <1>4, DequeAssumption DEF IsNode, Node, Indices
<1>6. PICK p : p = [n EXCEPT !.vals = Put(n.vals, n.front, v)] OBVIOUS
<1>7. IsNode(p) /\ p.size = n.size
  <2>1. IsNode(p) BY <1>4, <1>5, <1>6, NodeFields
  <2>2. p.size = n.size BY <1>4, <1>6 DEF IsNode, Node
  <2> QED BY <2>1, <2>2
<1>8. PICK m : m = [p EXCEPT !.front = n.front + 1] OBVIOUS
<1>9. IsNode(m)
  <2>1. n.front + 1 \in 0 .. p.size BY <1>5, <1>7
  <2> QED BY <1>7, <1>8, <2>1, NodeFields
<1>10. PICK g : g = WithNode(d, f, m) OBVIOUS
<1>11. NodeReplaced(g, d, f, m) BY <1>3, <1>9, <1>10, WithNodeIs, Zenon
<1>12. PICK e : e = [g EXCEPT !.count = d.count + 1] OBVIOUS
<1>13. IsDeque(g) /\ d.count + 1 \in Int BY <1>11, AllocatedIds DEF NodeReplaced
<1>14. IsDeque(e) BY <1>12, <1>13, SetMembers
<1>15. /\ e.nodes = g.nodes /\ e.front = g.front /\ e.back = g.back
       /\ e.reserved = g.reserved /\ e.count = d.count + 1
  BY <1>12, <1>13 DEF IsDeque
<1>16. m = [n EXCEPT !.vals = Put(n.vals, n.front, v), !.front = n.front + 1]
  BY <1>6, <1>8
<1>17. FrontStored(e, d, v)
  BY <1>1, <1>2, <1>11, <1>14, <1>15, <1>16
  DEF FrontStored, NodeReplaced, Allocated
<1>18. StoreFront(d, v) = e
  <2>1. PICK c : c = d.count + 1 OBVIOUS
  <2>2. PICK s : s = Counted(d, f, p, c) OBVIOUS
  <2>3. Store(d, f, n.front, v) = s
    BY <1>2, <1>6, <2>1, <2>2 DEF Store, Counted
  <2>4. s.nodes[f] = p /\ WithNode(s, f, m) = [g EXCEPT !.count = c]
    <3>1. f \in Allocated(d) BY <1>3, <1>10
    <3>2. /\ Counted(d, f, p, c).nodes[f] = p
          /\ WithNode(Counted(d, f, p, c), f, m) = [WithNode(d, f, m) EXCEPT !.count = c]
      BY <3>1, ReplacedTwice
    <3> QED BY <1>10, <2>2, <3>2
  <2>5. [s EXCEPT !.nodes[f].front = n.front + 1] = WithNode(s, f, m)
    <3>1. s.nodes[f] = p BY <2>4
    <3>2. PICK x : x = n.front + 1 OBVIOUS
    <3>3. [s EXCEPT !.nodes[f].front = x] = WithNode(s, f, [p EXCEPT !.front = x])
      BY <3>1, Zenon DEF WithNode
    <3> QED BY <1>8, <3>2, <3>3
  <2> QED BY <1>1, <1>2, <1>12, <2>1, <2>3, <2>4, <2>5, Zenon DEF StoreFront
<1> QED BY <1>17, <1>18, Zenon

BackStored(e, d, v) ==
    LET b == d.back  n == d.nodes[b]
    IN  /\ IsDeque(e) /\ Allocated(e) = Allocated(d)
        /\ e.nodes[b] = [n EXCEPT !.vals = Put(n.vals, n.back - 1, v),
                                  !.back = n.back - 1]
        /\ \A i \in Allocated(d) \ {b} : e.nodes[i] = d.nodes[i]
        /\ e.front = d.front /\ e.back = d.back /\ e.reserved = d.reserved
        /\ e.count = d.count + 1

\* The end of push_back: a place is filled, back goes down, count up.
LEMMA StoreBackIs ==
    ASSUME NEW d, IsDeque(d), RoomInBack(d), NEW v \in Values
    PROVE  BackStored(StoreBack(d, v), d, v)
<1>1. PICK f : f = d.back OBVIOUS
<1>2. PICK n : n = d.nodes[f] OBVIOUS
<1>3. f \in Allocated(d) /\ n.back # 0 BY <1>1, <1>2 DEF RoomInBack
<1>4. IsNode(n) BY <1>2, <1>3, AllocatedIds
<1>5. n.back - 1 \in Indices /\ n.back - 1 \in 0 .. BlockSize
  BY <1>3, <1>4, DequeAssumption DEF IsNode, Node, Indices
<1>6. PICK p : p = [n EXCEPT !.vals = Put(n.vals, n.back - 1, v)] OBVIOUS
<1>7. IsNode(p) BY <1>4, <1>5, <1>6, NodeFields
<1>8. PICK m : m = [p EXCEPT !.back = n.back - 1] OBVIOUS
<1>9. IsNode(m) BY <1>5, <1>7, <1>8, NodeFields
<1>10. PICK g : g = WithNode(d, f, m) OBVIOUS
<1>11. NodeReplaced(g, d, f, m) BY <1>3, <1>9, <1>10, WithNodeIs, Zenon
<1>12. PICK e : e = [g EXCEPT !.count = d.count + 1] OBVIOUS
<1>13. IsDeque(g) /\ d.count + 1 \in Int BY <1>11, AllocatedIds DEF NodeReplaced
<1>14. IsDeque(e) BY <1>12, <1>13, SetMembers
<1>15. /\ e.nodes = g.nodes /\ e.front = g.front /\ e.back = g.back
       /\ e.reserved = g.reserved /\ e.count = d.count + 1
  BY <1>12, <1>13 DEF IsDeque
<1>16. m = [n EXCEPT !.vals = Put(n.vals, n.back - 1, v), !.back = n.back - 1]
  BY <1>6, <1>8
<1>17. BackStored(e, d, v)
  BY <1>1, <1>2, <1>11, <1>14, <1>15, <1>16
  DEF BackStored, NodeReplaced, Allocated
<1>18. StoreBack(d, v) = e
  <2>1. PICK c : c = d.count + 1 OBVIOUS
  <2>2. PICK s : s = Counted(d, f, p, c) OBVIOUS
  <2>3. Store(d, f, n.back - 1, v) = s
    BY <1>2, <1>6, <2>1, <2>2 DEF Store, Counted
  <2>4. s.nodes[f] = p /\ WithNode(s, f, m) = [g EXCEPT !.count = c]
    <3>1. f \in Allocated(d) BY <1>3, <1>10
    <3>2. /\ Counted(d, f, p, c).nodes[f] = p
          /\ WithNode(Counted(d, f, p, c), f, m) = [WithNode(d, f, m) EXCEPT !.count = c]
      BY <3>1, ReplacedTwice
    <3> QED BY <1>10, <2>2, <3>2
  <2>5. [s EXCEPT !.nodes[f].back = n.back - 1] = WithNode(s, f, m)
    <3>1. s.nodes[f] = p BY <2>4
    <3>2. PICK x : x = n.back - 1 OBVIOUS
    <3>3. [s EXCEPT !.nodes[f].back = x] = WithNode(s, f, [p EXCEPT !.back = x])
      BY <3>1, Zenon DEF WithNode
    <3> QED BY <1>8, <3>2, <3>3
  <2> QED BY <1>1, <1>2, <1>12, <2>1, <2>3, <2>4, <2>5, Zenon DEF StoreBack
<1> QED BY <1>17, <1>18, Zenon

\* What is left in a node when the element at a place is gone.
Without(n, index) ==
    [n EXCEPT !.vals = [i \in DOMAIN n.vals \ {index} |-> n.vals[i]]]

Taken(e, d, id, m) ==
    /\ IsDeque(e) /\ Allocated(e) = Allocated(d)
    /\ e.nodes[id] = m
    /\ \A i \in Allocated(d) \ {id} : e.nodes[i] = d.nodes[i]
    /\ e.front = d.front /\ e.back = d.back /\ e.reserved = d.reserved
    /\ e.count = d.count - 1

\* pop_front takes the element below front: front and count go down.
LEMMA TakeFrontIs ==
    ASSUME NEW d, IsDeque(d), NEW f \in Allocated(d),
           NEW index \in DOMAIN d.nodes[f].vals, index = d.nodes[f].front - 1
    PROVE  /\ Taken([Take(d, f, index) EXCEPT !.nodes[f].front = index], d, f,
                    [Without(d.nodes[f], index) EXCEPT !.front = index])
           /\ d.nodes[f].vals[index] \in Values
<1>1. PICK n : n = d.nodes[f] OBVIOUS
<1>2. IsNode(n) BY <1>1, AllocatedIds
<1>3. PICK places \in SUBSET Indices : n.vals \in [places -> Values]
  BY <1>2 DEF IsNode, Node
<1>4. index \in Indices /\ n.vals[index] \in Values BY <1>1, <1>3
<1>5. index \in 0 .. n.size
  BY <1>1, <1>2, <1>4, DequeAssumption DEF IsNode, Node, Indices
<1>6. PICK p : p = Without(n, index) OBVIOUS
<1>7. IsNode(p) /\ p.size = n.size
  <2>1. IsNode(p) BY <1>2, <1>6, NodeFields DEF Without
  <2>2. p.size = n.size BY <1>2, <1>6 DEF IsNode, Node, Without
  <2> QED BY <2>1, <2>2
<1>8. PICK m : m = [p EXCEPT !.front = index] OBVIOUS
<1>9. IsNode(m)
  <2>1. index \in 0 .. p.size BY <1>5, <1>7
  <2> QED BY <1>7, <1>8, <2>1, NodeFields
<1>10. PICK g : g = WithNode(d, f, m) OBVIOUS
<1>11. NodeReplaced(g, d, f, m) BY <1>9, <1>10, WithNodeIs, Zenon
<1>12. PICK e : e = [g EXCEPT !.count = d.count - 1] OBVIOUS
<1>13. IsDeque(g) /\ d.count - 1 \in Int BY <1>11, AllocatedIds DEF NodeReplaced
<1>14. IsDeque(e) BY <1>12, <1>13, SetMembers
<1>15. /\ e.nodes = g.nodes /\ e.front = g.front /\ e.back = g.back
       /\ e.reserved = g.reserved /\ e.count = d.count - 1
  BY <1>12, <1>13 DEF IsDeque
<1>16. Taken(e, d, f, m)
  BY <1>11, <1>14, <1>15 DEF Taken, NodeReplaced, Allocated
<1>17. [Take(d, f, index) EXCEPT !.nodes[f].front = index] = e
  <2>1. PICK c : c = d.count - 1 OBVIOUS
  <2>2. PICK s : s = Counted(d, f, p, c) OBVIOUS
  <2>3. Take(d, f, index) = s
    BY <1>1, <1>6, <2>1, <2>2 DEF Take, Without, Counted
  <2>4. s.nodes[f] = p /\ WithNode(s, f, m) = [g EXCEPT !.count = c]
    <3>1. f \in Allocated(d) BY <1>10
    <3>2. /\ Counted(d, f, p, c).nodes[f] = p
          /\ WithNode(Counted(d, f, p, c), f, m) = [WithNode(d, f, m) EXCEPT !.count = c]
      BY <3>1, ReplacedTwice
    <3> QED BY <1>10, <2>2, <3>2
  <2>5. [s EXCEPT !.nodes[f].front = index] = WithNode(s, f, m)
    <3>1. s.nodes[f] = p BY <2>4
    <3>2. PICK x : x = index OBVIOUS
    <3>3. [s EXCEPT !.nodes[f].front = x] = WithNode(s, f, [p EXCEPT !.front = x])
      BY <3>1, Zenon DEF WithNode
    <3> QED BY <1>8, <3>2, <3>3
  <2> QED BY <1>12, <2>1, <2>3, <2>4, <2>5, Zenon
<1> QED BY <1>1, <1>4, <1>6, <1>8, <1>16, <1>17, Zenon

\* pop_back takes the element at back: back goes up, count down.
LEMMA TakeBackIs ==
    ASSUME NEW d, IsDeque(d), NEW f \in Allocated(d),
           NEW index \in DOMAIN d.nodes[f].vals
    PROVE  /\ Taken([Take(d, f, index) EXCEPT !.nodes[f].back = index + 1], d, f,
                    [Without(d.nodes[f], index) EXCEPT !.back = index + 1])
           /\ d.nodes[f].vals[index] \in Values
<1>1. PICK n : n = d.nodes[f] OBVIOUS
<1>2. IsNode(n) BY <1>1, AllocatedIds
<1>3. PICK places \in SUBSET Indices : n.vals \in [places -> Values]
  BY <1>2 DEF IsNode, Node
<1>4. index \in Indices /\ n.vals[index] \in Values BY <1>1, <1>3
<1>5. index + 1 \in 0 .. BlockSize
  BY <1>4, DequeAssumption DEF Indices
<1>6. PICK p : p = Without(n, index) OBVIOUS
<1>7. IsNode(p) BY <1>2, <1>6, NodeFields DEF Without
<1>8. PICK m : m = [p EXCEPT !.back = index + 1] OBVIOUS
<1>9. IsNode(m) BY <1>5, <1>7, <1>8, NodeFields
<1>10. PICK g : g = WithNode(d, f, m) OBVIOUS
<1>11. NodeReplaced(g, d, f, m) BY <1>9, <1>10, WithNodeIs, Zenon
<1>12. PICK e : e = [g EXCEPT !.count = d.count - 1] OBVIOUS
<1>13. IsDeque(g) /\ d.count - 1 \in Int BY <1>11, AllocatedIds DEF NodeReplaced
<1>14. IsDeque(e) BY <1>12, <1>13, SetMembers
<1>15. /\ e.nodes = g.nodes /\ e.front = g.front /\ e.back = g.back
       /\ e.reserved = g.reserved /\ e.count = d.count - 1
  BY <1>12, <1>13 DEF IsDeque
<1>16. Taken(e, d, f, m)
  BY <1>11, <1>14, <1>15 DEF Taken, NodeReplaced, Allocated
<1>17. [Take(d, f, index) EXCEPT !.nodes[f].back = index + 1] = e
  <2>1. PICK c : c = d.count - 1 OBVIOUS
  <2>2. PICK s : s = Counted(d, f, p, c) OBVIOUS
  <2>3. Take(d, f, index) = s
    BY <1>1, <1>6, <2>1, <2>2 DEF Take, Without, Counted
  <2>4. s.nodes[f] = p /\ WithNode(s, f, m) = [g EXCEPT !.count = c]
    <3>1. f \in Allocated(d) BY <1>10
    <3>2. /\ Counted(d, f, p, c).nodes[f] = p
          /\ WithNode(Counted(d, f, p, c), f, m) = [WithNode(d, f, m) EXCEPT !.count = c]
      BY <3>1, ReplacedTwice
    <3> QED BY <1>10, <2>2, <3>2
  <2>5. [s EXCEPT !.nodes[f].back = index + 1] = WithNode(s, f, m)
    <3>1. s.nodes[f] = p BY <2>4
    <3>2. PICK x : x = index + 1 OBVIOUS
    <3>3. [s EXCEPT !.nodes[f].back = x] = WithNode(s, f, [p EXCEPT !.back = x])
      BY <3>1, Zenon DEF WithNode
    <3> QED BY <1>8, <3>2, <3>3
  <2> QED BY <1>12, <2>1, <2>3, <2>4, <2>5, Zenon
<1> QED BY <1>1, <1>4, <1>6, <1>8, <1>16, <1>17, Zenon

-----------------------------------------------------------------------------
(* remove_front_node and remove_back_node.                                 *)

\* The node at an end becomes a reserved one.
FrontRemoved(e, d) ==
    LET old == d.front  new == d.nodes[old].prev
    IN  /\ IsDeque(e) /\ Allocated(e) = Allocated(d)
        /\ e.front = new /\ e.reserved = old /\ e.count = d.count
        /\ new # old =>
             /\ e.nodes[old] = [d.nodes[old] EXCEPT !.next = d.reserved]
             /\ \A i \in Allocated(d) \ {old, new} : e.nodes[i] = d.nodes[i]
             /\ IF new = nullptr THEN e.back = nullptr
                ELSE /\ e.back = d.back
                     /\ e.nodes[new] = [d.nodes[new] EXCEPT !.next = nullptr]

\* remove_front_node: the front node is put before the reserved ones.
LEMMA RemoveFrontNodeIs ==
    ASSUME NEW d, IsDeque(d), d.front \in Allocated(d),
           d.nodes[d.front].prev \in Allocated(d) \cup {nullptr}
    PROVE  FrontRemoved(RemoveFrontNode(d), d)
<1>1. PICK old : old = d.front OBVIOUS
<1>2. PICK new : new = d.nodes[old].prev OBVIOUS
<1>3. PICK p : p = [d.nodes[old] EXCEPT !.next = d.reserved] OBVIOUS
<1>4. /\ old \in Allocated(d) /\ old \in Id /\ IsNode(d.nodes[old])
      /\ new \in Allocated(d) \cup {nullptr} /\ new \in Id \cup {nullptr}
      /\ d.reserved \in Id \cup {nullptr} /\ nullptr \notin Allocated(d)
  BY <1>1, <1>2, AllocatedIds
<1>5. PICK g : g = WithNode(d, old, p) OBVIOUS
<1>6. [d EXCEPT !.nodes[old].next = d.reserved] = g /\ IsNode(p)
  BY <1>3, <1>4, <1>5, SetNext
<1>7. /\ IsDeque(g) /\ Allocated(g) = Allocated(d) /\ g.nodes[old] = p
      /\ \A i \in Allocated(d) \ {old} : g.nodes[i] = d.nodes[i]
      /\ g.front = d.front /\ g.back = d.back /\ g.count = d.count
      /\ g.capacity = d.capacity
  <2>1. old \in Allocated(d) BY <1>4
  <2>2. IsNode(p) BY <1>6
  <2>3. NodeReplaced(g, d, old, p) BY <1>5, <2>1, <2>2, WithNodeIs, Zenon
  <2> QED BY <2>3 DEF NodeReplaced
<1>8. PICK c : c = Modulo(d.capacity + d.nodes[old].size) OBVIOUS
<1>9. c \in 0 .. SizeModulus - 1
  <2>1. d.nodes[old].size \in Int BY <1>4, DequeAssumption DEF IsNode, Node
  <2>2. d.capacity \in Int BY AllocatedIds
  <2> QED BY <1>8, <2>1, <2>2, ModuloRange
<1>10. PICK k : k = [g EXCEPT !.reserved = old, !.capacity = c, !.front = new] OBVIOUS
<1>11. /\ IsDeque(k) /\ k.nodes = g.nodes /\ Allocated(k) = Allocated(d)
       /\ k.front = new /\ k.back = d.back /\ k.reserved = old /\ k.count = d.count
  BY <1>4, <1>7, <1>9, <1>10 DEF IsDeque, Allocated
<1>12. k = [d EXCEPT !.nodes[old].next = d.reserved, !.reserved = old,
                     !.capacity = Modulo(@ + d.nodes[old].size), !.front = new]
  BY <1>3, <1>5, <1>8, <1>10 DEF WithNode, IsDeque
<1>13. ASSUME new = nullptr
       PROVE  FrontRemoved(RemoveFrontNode(d), d)
  <2>1. PICK e : e = [k EXCEPT !.back = nullptr] OBVIOUS
  <2>2. RemoveFrontNode(d) = e BY <1>1, <1>2, <1>12, <1>13, <2>1 DEF RemoveFrontNode
  <2>3. IsDeque(e) BY <1>11, <2>1, SetMembers
  <2>4. /\ e.nodes = g.nodes /\ e.front = new /\ e.back = nullptr
        /\ e.reserved = old /\ e.count = d.count
    BY <1>11, <2>1 DEF IsDeque
  <2>5. FrontRemoved(e, d)
    BY <1>1, <1>2, <1>3, <1>4, <1>7, <1>13, <2>3, <2>4 DEF FrontRemoved, Allocated
  <2> QED BY <2>2, <2>5
<1>14. ASSUME new # nullptr
       PROVE  FrontRemoved(RemoveFrontNode(d), d)
  <2>1. new \in Allocated(k) BY <1>4, <1>11, <1>14
  <2>2. PICK m : m = [k.nodes[new] EXCEPT !.next = nullptr] OBVIOUS
  <2>3. PICK e : e = WithNode(k, new, m) OBVIOUS
  <2>4. [k EXCEPT !.nodes[new].next = nullptr] = e /\ IsNode(m)
    BY <1>11, <2>1, <2>2, <2>3, SetNext
  <2>5. NodeReplaced(e, k, new, m)
    <3>1. IsDeque(k) /\ IsNode(m) BY <1>11, <2>4
    <3> QED BY <2>1, <2>3, <3>1, WithNodeIs, Zenon
  <2>6. RemoveFrontNode(d) = e BY <1>1, <1>2, <1>12, <1>14, <2>4 DEF RemoveFrontNode
  <2>7. /\ IsDeque(e) /\ Allocated(e) = Allocated(d) /\ e.nodes[new] = m
        /\ \A i \in Allocated(d) \ {new} : e.nodes[i] = g.nodes[i]
        /\ e.front = new /\ e.back = d.back /\ e.reserved = old /\ e.count = d.count
    BY <1>11, <2>5 DEF NodeReplaced
  <2>8. ASSUME new # old
        PROVE  /\ e.nodes[old] = p
               /\ e.nodes[new] = [d.nodes[new] EXCEPT !.next = nullptr]
               /\ \A i \in Allocated(d) \ {old, new} : e.nodes[i] = d.nodes[i]
    <3>1. e.nodes[old] = p BY <1>4, <1>7, <2>7, <2>8
    <3>2. k.nodes[new] = d.nodes[new] BY <1>7, <1>11, <2>1, <2>8
    <3>3. e.nodes[new] = [d.nodes[new] EXCEPT !.next = nullptr]
      BY <2>2, <2>7, <3>2
    <3>4. \A i \in Allocated(d) \ {old, new} : e.nodes[i] = d.nodes[i]
      BY <1>7, <2>7
    <3> QED BY <3>1, <3>3, <3>4
  <2>9. FrontRemoved(e, d)
    BY <1>1, <1>2, <1>3, <1>14, <2>7, <2>8 DEF FrontRemoved
  <2> QED BY <2>6, <2>9
<1> QED BY <1>13, <1>14

BackRemoved(e, d) ==
    LET old == d.back  new == d.nodes[old].next
    IN  /\ IsDeque(e) /\ Allocated(e) = Allocated(d)
        /\ e.back = new /\ e.reserved = old /\ e.count = d.count
        /\ new # old =>
             /\ e.nodes[old] = [d.nodes[old] EXCEPT !.next = d.reserved]
             /\ \A i \in Allocated(d) \ {old, new} : e.nodes[i] = d.nodes[i]
             /\ IF new = nullptr THEN e.front = nullptr
                ELSE /\ e.front = d.front
                     /\ e.nodes[new] = [d.nodes[new] EXCEPT !.prev = nullptr]

\* remove_back_node: the back node is put before the reserved ones.
LEMMA RemoveBackNodeIs ==
    ASSUME NEW d, IsDeque(d), d.back \in Allocated(d),
           d.nodes[d.back].next \in Allocated(d) \cup {nullptr}
    PROVE  BackRemoved(RemoveBackNode(d), d)
<1>1. PICK old : old = d.back OBVIOUS
<1>2. PICK new : new = d.nodes[old].next OBVIOUS
<1>3. PICK p : p = [d.nodes[old] EXCEPT !.next = d.reserved] OBVIOUS
<1>4. /\ old \in Allocated(d) /\ old \in Id /\ IsNode(d.nodes[old])
      /\ new \in Allocated(d) \cup {nullptr} /\ new \in Id \cup {nullptr}
      /\ d.reserved \in Id \cup {nullptr} /\ nullptr \notin Allocated(d)
  BY <1>1, <1>2, AllocatedIds
<1>5. PICK g : g = WithNode(d, old, p) OBVIOUS
<1>6. [d EXCEPT !.nodes[old].next = d.reserved] = g /\ IsNode(p)
  BY <1>3, <1>4, <1>5, SetNext
<1>7. /\ IsDeque(g) /\ Allocated(g) = Allocated(d) /\ g.nodes[old] = p
      /\ \A i \in Allocated(d) \ {old} : g.nodes[i] = d.nodes[i]
      /\ g.front = d.front /\ g.back = d.back /\ g.count = d.count
      /\ g.capacity = d.capacity
  <2>1. old \in Allocated(d) BY <1>4
  <2>2. IsNode(p) BY <1>6
  <2>3. NodeReplaced(g, d, old, p) BY <1>5, <2>1, <2>2, WithNodeIs, Zenon
  <2> QED BY <2>3 DEF NodeReplaced
<1>8. PICK c : c = Modulo(d.capacity - d.nodes[old].size) OBVIOUS
<1>9. c \in 0 .. SizeModulus - 1
  <2>1. d.nodes[old].size \in Int BY <1>4, DequeAssumption DEF IsNode, Node
  <2>2. d.capacity \in Int BY AllocatedIds
  <2> QED BY <1>8, <2>1, <2>2, ModuloRange
<1>10. PICK k : k = [g EXCEPT !.reserved = old, !.capacity = c, !.back = new] OBVIOUS
<1>11. /\ IsDeque(k) /\ k.nodes = g.nodes /\ Allocated(k) = Allocated(d)
       /\ k.back = new /\ k.front = d.front /\ k.reserved = old /\ k.count = d.count
  BY <1>4, <1>7, <1>9, <1>10 DEF IsDeque, Allocated
<1>12. k = [d EXCEPT !.nodes[old].next = d.reserved, !.reserved = old,
                     !.capacity = Modulo(@ - d.nodes[old].size), !.back = new]
  BY <1>3, <1>5, <1>8, <1>10 DEF WithNode, IsDeque
<1>13. ASSUME new = nullptr
       PROVE  BackRemoved(RemoveBackNode(d), d)
  <2>1. PICK e : e = [k EXCEPT !.front = nullptr] OBVIOUS
  <2>2. RemoveBackNode(d) = e BY <1>1, <1>2, <1>12, <1>13, <2>1 DEF RemoveBackNode
  <2>3. IsDeque(e) BY <1>11, <2>1, SetMembers
  <2>4. /\ e.nodes = g.nodes /\ e.back = new /\ e.front = nullptr
        /\ e.reserved = old /\ e.count = d.count
    BY <1>11, <2>1 DEF IsDeque
  <2>5. BackRemoved(e, d)
    BY <1>1, <1>2, <1>3, <1>4, <1>7, <1>13, <2>3, <2>4 DEF BackRemoved, Allocated
  <2> QED BY <2>2, <2>5
<1>14. ASSUME new # nullptr
       PROVE  BackRemoved(RemoveBackNode(d), d)
  <2>1. new \in Allocated(k) BY <1>4, <1>11, <1>14
  <2>2. PICK m : m = [k.nodes[new] EXCEPT !.prev = nullptr] OBVIOUS
  <2>3. PICK e : e = WithNode(k, new, m) OBVIOUS
  <2>4. [k EXCEPT !.nodes[new].prev = nullptr] = e /\ IsNode(m)
    BY <1>11, <2>1, <2>2, <2>3, SetPrev
  <2>5. NodeReplaced(e, k, new, m)
    <3>1. IsDeque(k) /\ IsNode(m) BY <1>11, <2>4
    <3> QED BY <2>1, <2>3, <3>1, WithNodeIs, Zenon
  <2>6. RemoveBackNode(d) = e BY <1>1, <1>2, <1>12, <1>14, <2>4 DEF RemoveBackNode
  <2>7. /\ IsDeque(e) /\ Allocated(e) = Allocated(d) /\ e.nodes[new] = m
        /\ \A i \in Allocated(d) \ {new} : e.nodes[i] = g.nodes[i]
        /\ e.back = new /\ e.front = d.front /\ e.reserved = old /\ e.count = d.count
    BY <1>11, <2>5 DEF NodeReplaced
  <2>8. ASSUME new # old
        PROVE  /\ e.nodes[old] = p
               /\ e.nodes[new] = [d.nodes[new] EXCEPT !.prev = nullptr]
               /\ \A i \in Allocated(d) \ {old, new} : e.nodes[i] = d.nodes[i]
    <3>1. e.nodes[old] = p BY <1>4, <1>7, <2>7, <2>8
    <3>2. k.nodes[new] = d.nodes[new] BY <1>7, <1>11, <2>1, <2>8
    <3>3. e.nodes[new] = [d.nodes[new] EXCEPT !.prev = nullptr]
      BY <2>2, <2>7, <3>2
    <3>4. \A i \in Allocated(d) \ {old, new} : e.nodes[i] = d.nodes[i]
      BY <1>7, <2>7
    <3> QED BY <3>1, <3>3, <3>4
  <2>9. BackRemoved(e, d)
    BY <1>1, <1>2, <1>3, <1>14, <2>7, <2>8 DEF BackRemoved
  <2> QED BY <2>6, <2>9
<1> QED BY <1>13, <1>14

-----------------------------------------------------------------------------
(* The nodes of a reservation.                                             *)

\* Induction, as the provers can use it: a set of numbers has a least one.
LEMMA LeastNatural ==
    ASSUME NEW T, T \subseteq Nat, T # {}
    PROVE  \E x \in T : \A y \in T : x <= y
<1>1. PICK x \in T : \A y \in T : ~ (<<y, x>> \in OpToRel(<, Nat))
  BY NatLessThanWellFounded, WFMin
<1>2. \A y \in T : ~ (y < x)
  BY <1>1 DEF OpToRel
<1> QED BY <1>2

\* One more reserved node.
NodeReserved(e, d, new, grant) ==
    /\ IsDeque(e)
    /\ Allocated(e) = Allocated(d) \cup {new}
    /\ e.nodes[new] = [Blank("FRONT", grant) EXCEPT !.next = d.reserved]
    /\ \A i \in Allocated(d) : e.nodes[i] = d.nodes[i]
    /\ e.front = d.front /\ e.back = d.back /\ e.reserved = new
    /\ e.count = d.count

\* A step of the loop of reserve adds a node to those reserved.
LEMMA ReserveNodeIs ==
    ASSUME NEW d, IsDeque(d), NEW grant \in 1 .. BlockSize, Allocated(d) # Id
    PROVE  /\ NewId(d) \in Id /\ NewId(d) \notin Allocated(d)
           /\ NodeReserved(ReserveNode(d, grant), d, NewId(d), grant)
<1>1. PICK new : new = NewId(d) OBVIOUS
<1>2. PICK h : h = AllocateNode(d, "FRONT", grant) OBVIOUS
<1>3. /\ IsDeque(h) /\ new \in Id /\ new \notin Allocated(d)
      /\ Allocated(h) = Allocated(d) \cup {new}
      /\ h.nodes[new] = Blank("FRONT", grant)
      /\ \A id \in Allocated(d) : h.nodes[id] = d.nodes[id]
      /\ h = [d EXCEPT !.nodes = h.nodes]
  BY <1>1, <1>2, AllocateNodeIs
<1>4. h.front = d.front /\ h.back = d.back /\ h.count = d.count
  <2>1. PICK ns : ns = h.nodes OBVIOUS
  <2>2. h = [d EXCEPT !.nodes = ns] BY <1>3, <2>1
  <2> QED BY <2>2 DEF IsDeque
<1>5. new \in Allocated(h) /\ d.reserved \in Id \cup {nullptr}
  BY <1>3, AllocatedIds
<1>6. PICK m : m = [h.nodes[new] EXCEPT !.next = d.reserved] OBVIOUS
<1>7. PICK g : g = WithNode(h, new, m) OBVIOUS
<1>8. [h EXCEPT !.nodes[new].next = d.reserved] = g /\ IsNode(m)
  BY <1>3, <1>5, <1>6, <1>7, SetNext
<1>9. NodeReplaced(g, h, new, m)
  <2>1. IsDeque(h) /\ new \in Allocated(h) BY <1>3, <1>5
  <2>2. IsNode(m) BY <1>8
  <2> QED BY <1>7, <2>1, <2>2, WithNodeIs, Zenon
<1>10. PICK e : e = [g EXCEPT !.reserved = new] OBVIOUS
<1>11. IsDeque(g) BY <1>9 DEF NodeReplaced
<1>12. IsDeque(e) BY <1>3, <1>10, <1>11, SetMembers
<1>13. /\ e.nodes = g.nodes /\ e.front = g.front /\ e.back = g.back
       /\ e.reserved = new /\ e.count = g.count
  BY <1>10, <1>11 DEF IsDeque
<1>14. NodeReserved(e, d, new, grant)
  <2>1. \A i \in Allocated(d) : i \in Allocated(h) \ {new} BY <1>3
  <2>2. \A i \in Allocated(d) : e.nodes[i] = d.nodes[i]
    BY <1>3, <1>9, <1>13, <2>1 DEF NodeReplaced
  <2>3. Allocated(e) = Allocated(d) \cup {new}
    BY <1>3, <1>9, <1>13 DEF NodeReplaced, Allocated
  <2>4. e.nodes[new] = [Blank("FRONT", grant) EXCEPT !.next = d.reserved]
    BY <1>3, <1>6, <1>9, <1>13 DEF NodeReplaced
  <2> QED BY <1>4, <1>9, <1>12, <1>13, <2>2, <2>3, <2>4
      DEF NodeReplaced, NodeReserved
<1>15. ReserveNode(d, grant) = e
  BY <1>1, <1>2, <1>8, <1>10 DEF ReserveNode
<1> QED BY <1>1, <1>3, <1>14, <1>15

\* The function Granted computes, on the first n grants.
Grantings(G, d, grants, n) ==
    G = [k \in 0 .. n |-> IF k = 0 THEN d ELSE ReserveNode(G[k - 1], grants[k])]

\* There is such a function.
LEMMA GrantingsExist ==
    ASSUME NEW d, NEW grants, NEW n \in Nat
    PROVE  \E G : Grantings(G, d, grants, n)
<1> DEFINE T == {k \in Nat : ~ \E G : Grantings(G, d, grants, k)}
<1> SUFFICES ASSUME T # {} PROVE FALSE OBVIOUS
<1>1. PICK k \in T : \A m \in T : k <= m
  <2>1. T \subseteq Nat OBVIOUS
  <2> HIDE DEF T
  <2> QED BY <2>1, LeastNatural
<1>2. k # 0
  <2> SUFFICES ASSUME k = 0 PROVE FALSE OBVIOUS
  <2> DEFINE G == [i \in 0 .. 0 |-> d]
  <2>1. \A i \in 0 .. 0 : i = 0 OBVIOUS
  <2>2. G = [i \in 0 .. 0 |-> IF i = 0 THEN d ELSE ReserveNode(G[i - 1], grants[i])]
    BY <2>1, Zenon
  <2>3. Grantings(G, d, grants, 0) BY <2>2, Zenon DEF Grantings
  <2> QED BY <1>1, <2>3
<1>3. k \in Nat /\ k - 1 \in Nat /\ ~(k <= k - 1) BY <1>1, <1>2
<1>4. PICK H : Grantings(H, d, grants, k - 1) BY <1>1, <1>3
<1> DEFINE G == [i \in 0 .. k |-> IF i = 0 THEN d ELSE ReserveNode(H[i - 1], grants[i])]
<1>5. \A i \in 0 .. k - 1 : G[i] = H[i]
  <2> SUFFICES ASSUME NEW i \in 0 .. k - 1 PROVE G[i] = H[i] OBVIOUS
  <2>1. i \in 0 .. k BY <1>3
  <2>2. G[i] = IF i = 0 THEN d ELSE ReserveNode(H[i - 1], grants[i])
    BY <2>1, Zenon
  <2>3. H[i] = IF i = 0 THEN d ELSE ReserveNode(H[i - 1], grants[i])
    BY <1>4, Zenon DEF Grantings
  <2> HIDE DEF G
  <2> QED BY <2>2, <2>3
<1>6. \A i \in 0 .. k : i = 0 \/ i - 1 \in 0 .. k - 1 BY <1>3
<1>7. \A i \in 0 .. k :
        (IF i = 0 THEN d ELSE ReserveNode(H[i - 1], grants[i]))
          = (IF i = 0 THEN d ELSE ReserveNode(G[i - 1], grants[i]))
  <2> HIDE DEF G
  <2> QED BY <1>5, <1>6, Zenon
<1>8. G = [i \in 0 .. k |-> IF i = 0 THEN d ELSE ReserveNode(H[i - 1], grants[i])]
  BY Zenon
<1>9. Grantings(G, d, grants, k)
  <2> HIDE DEF G
  <2> QED BY <1>7, <1>8, Zenon DEF Grantings
<1> QED BY <1>1, <1>9

GrantedBy(G, d, grants, n) ==
    /\ G[0] = d
    /\ \A k \in 1 .. n : G[k] = ReserveNode(G[k - 1], grants[k])
    /\ Granted(d, grants) = G[n]

\* And Granted is its last value.
LEMMA GrantedIs ==
    ASSUME NEW d, NEW grants, NEW n \in Nat, Len(grants) = n
    PROVE  \E G : GrantedBy(G, d, grants, n)
<1> DEFINE H == CHOOSE G : G = [k \in 0 .. n |->
                   IF k = 0 THEN d ELSE ReserveNode(G[k - 1], grants[k])]
<1>1. \E G : G = [k \in 0 .. n |->
                   IF k = 0 THEN d ELSE ReserveNode(G[k - 1], grants[k])]
  <2>1. PICK G : Grantings(G, d, grants, n) BY GrantingsExist
  <2> QED BY <2>1, Zenon DEF Grantings
<1>2. H = [k \in 0 .. n |-> IF k = 0 THEN d ELSE ReserveNode(H[k - 1], grants[k])]
  BY <1>1, Zenon
<1>3. Granted(d, grants) = H[n]
  BY Zenon DEF Granted
<1> HIDE DEF H
<1>4. 0 \in 0 .. n /\ \A k \in 1 .. n : k \in 0 .. n /\ k # 0 OBVIOUS
<1>5. H[0] = d BY <1>2, <1>4, Zenon
<1>6. \A k \in 1 .. n : H[k] = ReserveNode(H[k - 1], grants[k]) BY <1>2, <1>4, Zenon
<1> QED BY <1>3, <1>5, <1>6 DEF GrantedBy

\* The blocks the heap has left.
Left(d) == Id \ Allocated(d)

\* The heap has room as long as blocks are left.
LEMMA LeftIsFinite ==
    ASSUME NEW d, IsDeque(d)
    PROVE  /\ IsFiniteSet(Left(d)) /\ Cardinality(Left(d)) \in Nat
           /\ Cardinality(Left(d)) # 0 => Allocated(d) # Id
<1>1. IsFiniteSet(Id) BY FS_Interval, DequeAssumption DEF Id
<1>2. IsFiniteSet(Left(d)) BY <1>1, FS_Subset DEF Left
<1>3. Cardinality(Left(d)) # 0 => Left(d) # {} BY <1>2, FS_EmptySet
<1> QED BY <1>2, <1>3, FS_CardinalityType DEF Left

\* The nodes of a reservation are new ones, one after the other.
GrantsInTurn(G, d, grants, n) ==
    /\ G[0] = d
    /\ \A k \in 1 .. n :
         /\ IsDeque(G[k - 1])
         /\ NewId(G[k - 1]) \in Id /\ NewId(G[k - 1]) \notin Allocated(G[k - 1])
         /\ NodeReserved(G[k], G[k - 1], NewId(G[k - 1]), grants[k])

\* As long as the heap has blocks, every step of reserve adds a new one.
LEMMA GrantedNodes ==
    ASSUME NEW d, IsDeque(d), NEW n \in Nat, NEW grants, Len(grants) = n,
           \A k \in 1 .. n : grants[k] \in 1 .. BlockSize,
           n <= Cardinality(Left(d))
    PROVE  \E G : /\ GrantsInTurn(G, d, grants, n)
                  /\ IsDeque(G[n])
                  /\ Granted(d, grants) = G[n]
<1>0. PICK G : GrantedBy(G, d, grants, n) BY GrantedIs
<1>1. /\ G[0] = d
      /\ \A k \in 1 .. n : G[k] = ReserveNode(G[k - 1], grants[k])
      /\ Granted(d, grants) = G[n]
  BY <1>0 DEF GrantedBy
<1>2. PICK c : c = Cardinality(Left(d)) OBVIOUS
<1>3. c \in Nat /\ n <= c BY <1>2, LeftIsFinite
<1> DEFINE Good(k) == IsDeque(G[k]) /\ Cardinality(Left(G[k])) = c - k
<1>4. Good(0) BY <1>1, <1>2, <1>3
<1>5. ASSUME NEW k \in 1 .. n, Good(k - 1)
      PROVE  /\ Good(k)
             /\ NewId(G[k - 1]) \in Id /\ NewId(G[k - 1]) \notin Allocated(G[k - 1])
             /\ NodeReserved(G[k], G[k - 1], NewId(G[k - 1]), grants[k])
  <2>1. PICK e : e = G[k - 1] OBVIOUS
  <2>2. PICK f : f = G[k] OBVIOUS
  <2>3. PICK new : new = NewId(e) OBVIOUS
  <2>4. PICK grant : grant = grants[k] OBVIOUS
  <2>5. IsDeque(e) /\ Cardinality(Left(e)) = c - (k - 1) BY <1>5, <2>1
  <2>6. grant \in 1 .. BlockSize /\ f = ReserveNode(e, grant)
    BY <1>1, <2>1, <2>2, <2>4
  <2>7. Allocated(e) # Id /\ IsFiniteSet(Left(e)) BY <1>3, <2>5, LeftIsFinite
  <2>8. /\ new \in Id /\ new \notin Allocated(e)
        /\ NodeReserved(f, e, new, grant)
    BY <2>3, <2>5, <2>6, <2>7, ReserveNodeIs
  <2>9. IsDeque(f) /\ Left(f) = Left(e) \ {new} /\ new \in Left(e)
    BY <2>8 DEF NodeReserved, Left
  <2>10. Cardinality(Left(f)) = Cardinality(Left(e)) - 1
    <3>1. PICK S : S = Left(e) OBVIOUS
    <3>2. Cardinality(S \ {new}) = Cardinality(S) - 1
      BY <2>7, <2>9, <3>1, FS_RemoveElement
    <3> QED BY <2>9, <3>1, <3>2
  <2>11. Cardinality(Left(f)) = c - k BY <1>3, <2>5, <2>10
  <2> QED BY <2>1, <2>2, <2>3, <2>4, <2>8, <2>9, <2>11
<1> HIDE DEF Good
<1>6. \A k \in 0 .. n : Good(k)
  <2> DEFINE T == {k \in 0 .. n : ~ Good(k)}
  <2> SUFFICES ASSUME T # {} PROVE FALSE OBVIOUS
  <2>1. PICK k \in T : \A m \in T : k <= m
    <3>1. T \subseteq Nat OBVIOUS
    <3> HIDE DEF T
    <3> QED BY <3>1, LeastNatural
  <2>2. k # 0 BY <1>4, <2>1
  <2>3. k \in 1 .. n /\ k - 1 \in 0 .. n /\ ~(k <= k - 1) BY <2>1, <2>2
  <2>4. Good(k - 1) BY <2>1, <2>3
  <2> QED BY <1>5, <2>1, <2>3, <2>4
<1>7. GrantsInTurn(G, d, grants, n)
  <2>1. \A k \in 1 .. n : k - 1 \in 0 .. n OBVIOUS
  <2>2. \A k \in 1 .. n : Good(k - 1) BY <1>6, <2>1
  <2>3. \A k \in 1 .. n : IsDeque(G[k - 1]) BY <2>2 DEF Good
  <2> QED BY <1>1, <1>5, <2>2, <2>3 DEF GrantsInTurn
<1>8. IsDeque(G[n]) BY <1>6 DEF Good
<1> QED BY <1>1, <1>7, <1>8

-----------------------------------------------------------------------------
(* The type invariant, operation by operation.                             *)

TypeInv ==
    /\ IsDeque(deque) /\ deque.count \in Nat
    /\ op \in Operations \cup {"none"}
    /\ ok \in BOOLEAN /\ val \in Values \cup {NoValue}
    /\ intended \in BOOLEAN /\ undefined \in BOOLEAN

\* The deque a push finds its place in.
LEMMA FirstNodeIs ==
    ASSUME IsDeque(deque), deque.count \in Nat,
           NEW first \in FirstGrants, NEW dir
    PROVE  /\ IsDeque(WithFirstNode(dir, first))
           /\ WithFirstNode(dir, first).count \in Nat
<1>1. CASE deque.count > 0
  BY <1>1, Zenon DEF WithFirstNode
<1>2. CASE ~ (deque.count > 0) /\ first = 0
  <2>1. PICK e : e = [deque EXCEPT !.front = nullptr] OBVIOUS
  <2>2. IsDeque(e) BY <2>1, SetMembers
  <2>3. e.count = deque.count BY <2>1 DEF IsDeque
  <2>4. WithFirstNode(dir, first) = e BY <1>2, <2>1 DEF WithFirstNode
  <2> QED BY <2>2, <2>3, <2>4
<1>3. CASE ~ (deque.count > 0) /\ first # 0
  <2>1. deque.count = 0 BY <1>3
  <2>2. first \in Grants(deque) BY <2>1 DEF FirstGrants
  <2>3. first \in 1 .. BlockSize /\ Allocated(deque) # Id BY <1>3, <2>2, GrantHasRoom
  <2>4. PICK new : new = NewId(deque) OBVIOUS
  <2>5. PICK h : h = AllocateNode(deque, dir, first) OBVIOUS
  <2>6. /\ IsDeque(h) /\ new \in Id
        /\ h = [deque EXCEPT !.nodes = h.nodes]
    BY <2>3, <2>4, <2>5, AllocateNodeIs
  <2>7. h.count = deque.count
    <3>1. PICK ns : ns = h.nodes OBVIOUS
    <3>2. h = [deque EXCEPT !.nodes = ns] BY <2>6, <3>1
    <3> QED BY <3>2 DEF IsDeque
  <2>8. PICK e : e = [h EXCEPT !.front = new] OBVIOUS
  <2>9. PICK f : f = [e EXCEPT !.back = new] OBVIOUS
  <2>10. IsDeque(e) BY <2>6, <2>8, SetMembers
  <2>11. IsDeque(f) BY <2>6, <2>9, <2>10, SetMembers
  <2>12. f.count = deque.count BY <2>6, <2>7, <2>8, <2>9, <2>10 DEF IsDeque
  <2>13. WithFirstNode(dir, first) = f
    BY <1>3, <2>4, <2>5, <2>8, <2>9 DEF WithFirstNode
  <2> QED BY <2>11, <2>12, <2>13
<1> QED BY <1>1, <1>2, <1>3

\* A front node from the heap has room for an element.
LEMMA WithFrontNodeIs ==
    ASSUME NEW d, IsDeque(d), d.front \in Allocated(d), d.reserved = nullptr,
           NEW grant \in Grants(d), grant # 0
    PROVE  /\ IsDeque(AddFrontNode(d, grant))
           /\ RoomInFront(AddFrontNode(d, grant))
           /\ AddFrontNode(d, grant).count = d.count
<1>1. grant \in 1 .. BlockSize /\ Allocated(d) # Id BY GrantHasRoom
<1>2. PICK new : new = NewId(d) OBVIOUS
<1>3. PICK h : h = AllocateNode(d, "FRONT", grant) OBVIOUS
<1>4. PICK e : e = LinkFront(h, d.front, new) OBVIOUS
<1>5. AddFrontNode(d, grant) = e BY <1>1, <1>2, <1>3, <1>4, AddFrontNodeIs
<1>6. /\ IsDeque(h) /\ new \in Id /\ new \notin Allocated(d)
      /\ Allocated(h) = Allocated(d) \cup {new}
      /\ h.nodes[new] = Blank("FRONT", grant)
      /\ h = [d EXCEPT !.nodes = h.nodes]
  BY <1>1, <1>2, <1>3, AllocateNodeIs
<1>7. h.count = d.count
  <2>1. PICK ns : ns = h.nodes OBVIOUS
  <2>2. h = [d EXCEPT !.nodes = ns] BY <1>6, <2>1
  <2> QED BY <2>2 DEF IsDeque
<1>8. FrontLinked(e, h, d.front, new)
  <2>1. d.front \in Allocated(h) /\ new \in Allocated(h) BY <1>6
  <2>2. IsDeque(h) BY <1>6
  <2> QED BY <1>4, <2>1, <2>2, LinkFrontIs, Zenon
<1>9. IsDeque(e) /\ e.front = new /\ new \in Allocated(e) /\ e.count = d.count
  BY <1>6, <1>7, <1>8 DEF FrontLinked, SameStore
<1>10. e.nodes[new].front = 0 /\ e.nodes[new].size = grant
  BY <1>1, <1>6, <1>8 DEF FrontLinked, SameElements, Blank
<1>11. RoomInFront(e) BY <1>1, <1>9, <1>10 DEF RoomInFront
<1> QED BY <1>5, <1>9, <1>11

\* push_front keeps the types.
LEMMA PushFrontType == TypeInv /\ PushFront => TypeInv'
<1> SUFFICES ASSUME TypeInv, PushFront PROVE TypeInv' OBVIOUS
<1>1. PICK first \in FirstGrants, v \in Values :
         LET d == WithFirstNode("FRONT", first)
             usable == d.front \in Allocated(d)
             full == d.nodes[d.front].front = d.nodes[d.front].size
         IN \/ /\ NoNode(d)
               /\ Returns(d, FALSE) /\ AsIntended(TRUE)
            \/ /\ usable /\ ~ full
               /\ Returns(StoreFront(d, v), TRUE) /\ AsIntended(TRUE)
            \/ /\ usable /\ full /\ d.reserved = nullptr
               /\ \E grant \in Grants(d) :
                    IF grant = 0 THEN Returns(d, FALSE)
                    ELSE Returns(StoreFront(AddFrontNode(d, grant), v), TRUE)
               /\ AsIntended(TRUE)
            \/ /\ usable /\ full /\ d.reserved \in Allocated(d)
               /\ Returns(StoreFront(AddFrontNode(d, 0), v), TRUE)
               /\ AsIntended(FALSE)
            \/ /\ ~ NoNode(d)
               /\ usable => full /\ d.reserved \notin Allocated(d) \cup {nullptr}
               /\ Undefined
  BY Zenon DEF PushFront
<1>2. PICK d : d = WithFirstNode("FRONT", first) OBVIOUS
<1> DEFINE full == d.nodes[d.front].front = d.nodes[d.front].size
<1>4. \/ Returns(d, FALSE) /\ AsIntended(TRUE)
      \/ /\ d.front \in Allocated(d) /\ ~ full
         /\ Returns(StoreFront(d, v), TRUE) /\ AsIntended(TRUE)
      \/ /\ d.front \in Allocated(d) /\ d.reserved = nullptr
         /\ \E grant \in Grants(d) \ {0} :
               Returns(StoreFront(AddFrontNode(d, grant), v), TRUE)
         /\ AsIntended(TRUE)
      \/ /\ d.front \in Allocated(d) /\ d.reserved \in Allocated(d)
         /\ Returns(StoreFront(AddFrontNode(d, 0), v), TRUE)
         /\ AsIntended(FALSE)
      \/ Undefined
  BY <1>1, <1>2, Zenon
<1>5. IsDeque(d) /\ d.count \in Nat
  <2>1. IsDeque(deque) /\ deque.count \in Nat BY DEF TypeInv
  <2>2. first \in FirstGrants /\ "FRONT" \in {"FRONT", "BACK"} OBVIOUS
  <2> QED BY <1>2, <2>1, <2>2, FirstNodeIs, Zenon
<1>6. op' = "push_front" /\ op' \in Operations /\ val' = NoValue
  BY Zenon DEF PushFront, Called
<1>7. CASE Returns(d, FALSE) /\ AsIntended(TRUE)
  BY <1>5, <1>6, <1>7 DEF Returns, AsIntended, TypeInv
<1>8. ASSUME NEW e, IsDeque(e), RoomInFront(e), e.count = d.count,
             Returns(StoreFront(e, v), TRUE), NEW claim \in BOOLEAN, AsIntended(claim)
      PROVE  TypeInv'
  <2>1. PICK f : f = StoreFront(e, v) OBVIOUS
  <2>2. FrontStored(f, e, v) BY <1>8, <2>1, StoreFrontIs
  <2>3. IsDeque(f) /\ f.count \in Nat BY <1>5, <1>8, <2>2 DEF FrontStored
  <2>4. deque' = f /\ ok' = TRUE /\ undefined' = undefined BY <1>8, <2>1 DEF Returns
  <2> QED BY <1>6, <1>8, <2>3, <2>4 DEF AsIntended, TypeInv
<1>9. CASE /\ d.front \in Allocated(d) /\ ~ full
           /\ Returns(StoreFront(d, v), TRUE) /\ AsIntended(TRUE)
  <2>1. IsNode(d.nodes[d.front]) BY <1>5, <1>9, AllocatedIds
  <2>2. RoomInFront(d)
    BY <1>9, <2>1, DequeAssumption DEF RoomInFront, IsNode, Node
  <2> QED BY <1>5, <1>8, <1>9, <2>2
<1>10. CASE /\ d.front \in Allocated(d) /\ d.reserved = nullptr
            /\ \E grant \in Grants(d) \ {0} :
                  Returns(StoreFront(AddFrontNode(d, grant), v), TRUE)
            /\ AsIntended(TRUE)
  <2>1. PICK grant \in Grants(d) \ {0} :
                Returns(StoreFront(AddFrontNode(d, grant), v), TRUE)
    BY <1>10
  <2>2. PICK e : e = AddFrontNode(d, grant) OBVIOUS
  <2>3. IsDeque(e) /\ RoomInFront(e) /\ e.count = d.count
    BY <1>5, <1>10, <2>2, WithFrontNodeIs
  <2>4. Returns(StoreFront(e, v), TRUE) BY <2>1, <2>2
  <2> QED BY <1>8, <1>10, <2>3, <2>4
<1>11. CASE /\ d.front \in Allocated(d) /\ d.reserved \in Allocated(d)
            /\ Returns(StoreFront(AddFrontNode(d, 0), v), TRUE)
            /\ AsIntended(FALSE)
  <2>2. PICK e : e = AddFrontNode(d, 0) OBVIOUS
  <2>3. IsDeque(e) /\ RoomInFront(e) /\ e.count = d.count
    BY <1>5, <1>11, <2>2, ReuseFrontIs
  <2>4. Returns(StoreFront(e, v), TRUE) BY <1>11, <2>2
  <2> QED BY <1>8, <1>11, <2>3, <2>4
<1>12. CASE Undefined
  BY <1>6, <1>12 DEF Undefined, TypeInv
<1> QED BY <1>4, <1>7, <1>9, <1>10, <1>11, <1>12

\* pop_front keeps the types.
LEMMA PopFrontType == TypeInv /\ PopFront => TypeInv'
<1> SUFFICES ASSUME TypeInv, PopFront PROVE TypeInv' OBVIOUS
<1>1. PICK end : end = deque.front OBVIOUS
<1>2. PICK node : node = deque.nodes[end] OBVIOUS
<1>3. PICK index : index = node.front - 1 OBVIOUS
<1>4. PICK taken : taken = [Take(deque, end, index) EXCEPT !.nodes[end].front = index]
  OBVIOUS
<1>5. IF end \in Allocated(deque) /\ Poppable(end, node.prev, index)
        THEN /\ val' = node.vals[index]
             /\ \/ Returns(RemoveFrontNode(taken), TRUE)
                \/ Returns(taken, TRUE)
             /\ intended' = intended
        ELSE Undefined /\ val' = NoValue
  BY <1>1, <1>2, <1>3, <1>4, Zenon DEF PopFront
<1>6. op' = "pop_front" /\ op' \in Operations /\ deque.count > 0
  BY Zenon DEF PopFront, Called
<1>7. IsDeque(deque) /\ deque.count \in Nat BY DEF TypeInv
<1>8. CASE Undefined /\ val' = NoValue
  BY <1>6, <1>8 DEF Undefined, TypeInv
<1>9. CASE end \in Allocated(deque) /\ Poppable(end, node.prev, index)
  <2>1. /\ index \in DOMAIN deque.nodes[end].vals
        /\ node.prev \in Allocated(deque) \cup {nullptr}
    BY <1>2, <1>9 DEF Poppable
  <2>2. PICK m : m = [Without(node, index) EXCEPT !.front = index] OBVIOUS
  <2>3. Taken(taken, deque, end, m) /\ node.vals[index] \in Values
    BY <1>2, <1>3, <1>4, <1>7, <1>9, <2>1, <2>2, TakeFrontIs
  <2>4. IsNode(node) BY <1>2, <1>7, <1>9, AllocatedIds
  <2>5. m.prev = node.prev BY <2>2, <2>4 DEF Without, IsNode, Node
  <2>6. /\ IsDeque(taken) /\ taken.count \in Nat
        /\ taken.front \in Allocated(taken)
        /\ taken.nodes[taken.front].prev \in Allocated(taken) \cup {nullptr}
    BY <1>1, <1>6, <1>7, <1>9, <2>1, <2>3, <2>5 DEF Taken
  <2>7. PICK e : e = RemoveFrontNode(taken) OBVIOUS
  <2>8. IsDeque(e) /\ e.count = taken.count
    <3>1. FrontRemoved(e, taken) BY <2>6, <2>7, RemoveFrontNodeIs
    <3> QED BY <3>1 DEF FrontRemoved
  <2>9. \/ deque' = e \/ deque' = taken
    BY <1>5, <1>9, <2>7 DEF Returns
  <2>10. ok' = TRUE /\ undefined' = undefined /\ val' \in Values /\ intended' = intended
    BY <1>5, <1>9, <2>3 DEF Returns
  <2> QED BY <1>6, <2>6, <2>8, <2>9, <2>10 DEF TypeInv
<1> QED BY <1>5, <1>8, <1>9

\* A back node from the heap has room for an element.
LEMMA WithBackNodeIs ==
    ASSUME NEW d, IsDeque(d), d.back \in Allocated(d), d.reserved = nullptr,
           NEW grant \in Grants(d), grant # 0
    PROVE  /\ IsDeque(AddBackNode(d, grant))
           /\ RoomInBack(AddBackNode(d, grant))
           /\ AddBackNode(d, grant).count = d.count
<1>1. grant \in 1 .. BlockSize /\ Allocated(d) # Id BY GrantHasRoom
<1>2. PICK new : new = NewId(d) OBVIOUS
<1>3. PICK h : h = AllocateNode(d, "BACK", grant) OBVIOUS
<1>4. PICK e : e = LinkBack(h, d.back, new) OBVIOUS
<1>5. AddBackNode(d, grant) = e BY <1>1, <1>2, <1>3, <1>4, AddBackNodeIs
<1>6. /\ IsDeque(h) /\ new \in Id /\ new \notin Allocated(d)
      /\ Allocated(h) = Allocated(d) \cup {new}
      /\ h.nodes[new] = Blank("BACK", grant)
      /\ h = [d EXCEPT !.nodes = h.nodes]
  BY <1>1, <1>2, <1>3, AllocateNodeIs
<1>7. h.count = d.count
  <2>1. PICK ns : ns = h.nodes OBVIOUS
  <2>2. h = [d EXCEPT !.nodes = ns] BY <1>6, <2>1
  <2> QED BY <2>2 DEF IsDeque
<1>8. BackLinked(e, h, d.back, new)
  <2>1. d.back \in Allocated(h) /\ new \in Allocated(h) BY <1>6
  <2>2. IsDeque(h) BY <1>6
  <2> QED BY <1>4, <2>1, <2>2, LinkBackIs, Zenon
<1>9. IsDeque(e) /\ e.back = new /\ new \in Allocated(e) /\ e.count = d.count
  BY <1>6, <1>7, <1>8 DEF BackLinked, SameStore
<1>10. e.nodes[new].back = grant
  BY <1>1, <1>6, <1>8 DEF BackLinked, SameElements, Blank
<1>11. RoomInBack(e) BY <1>1, <1>9, <1>10 DEF RoomInBack
<1> QED BY <1>5, <1>9, <1>11

\* push_back keeps the types.
LEMMA PushBackType == TypeInv /\ PushBack => TypeInv'
<1> SUFFICES ASSUME TypeInv, PushBack PROVE TypeInv' OBVIOUS
<1>1. PICK first \in FirstGrants, v \in Values :
         LET d == WithFirstNode("BACK", first)
             usable == d.back \in Allocated(d)
             full == d.nodes[d.back].back = 0
         IN \/ /\ NoNode(d)
               /\ Returns(d, FALSE) /\ AsIntended(TRUE)
            \/ /\ usable /\ ~ full
               /\ Returns(StoreBack(d, v), TRUE) /\ AsIntended(TRUE)
            \/ /\ usable /\ full /\ d.reserved = nullptr
               /\ \E grant \in Grants(d) :
                    IF grant = 0 THEN Returns(d, FALSE)
                    ELSE Returns(StoreBack(AddBackNode(d, grant), v), TRUE)
               /\ AsIntended(TRUE)
            \/ /\ usable /\ full /\ d.reserved \in Allocated(d)
               /\ Returns(StoreBack(AddBackNode(d, 0), v), TRUE)
               /\ AsIntended(FALSE)
            \/ /\ ~ NoNode(d)
               /\ usable => full /\ d.reserved \notin Allocated(d) \cup {nullptr}
               /\ Undefined
  BY Zenon DEF PushBack
<1>2. PICK d : d = WithFirstNode("BACK", first) OBVIOUS
<1> DEFINE full == d.nodes[d.back].back = 0
<1>4. \/ Returns(d, FALSE) /\ AsIntended(TRUE)
      \/ /\ d.back \in Allocated(d) /\ ~ full
         /\ Returns(StoreBack(d, v), TRUE) /\ AsIntended(TRUE)
      \/ /\ d.back \in Allocated(d) /\ d.reserved = nullptr
         /\ \E grant \in Grants(d) \ {0} :
               Returns(StoreBack(AddBackNode(d, grant), v), TRUE)
         /\ AsIntended(TRUE)
      \/ /\ d.back \in Allocated(d) /\ d.reserved \in Allocated(d)
         /\ Returns(StoreBack(AddBackNode(d, 0), v), TRUE)
         /\ AsIntended(FALSE)
      \/ Undefined
  BY <1>1, <1>2, Zenon
<1>5. IsDeque(d) /\ d.count \in Nat
  <2>1. IsDeque(deque) /\ deque.count \in Nat BY DEF TypeInv
  <2>2. first \in FirstGrants /\ "BACK" \in {"FRONT", "BACK"} OBVIOUS
  <2> QED BY <1>2, <2>1, <2>2, FirstNodeIs, Zenon
<1>6. op' = "push_back" /\ op' \in Operations /\ val' = NoValue
  BY Zenon DEF PushBack, Called
<1>7. CASE Returns(d, FALSE) /\ AsIntended(TRUE)
  BY <1>5, <1>6, <1>7 DEF Returns, AsIntended, TypeInv
<1>8. ASSUME NEW e, IsDeque(e), RoomInBack(e), e.count = d.count,
             Returns(StoreBack(e, v), TRUE), NEW claim \in BOOLEAN, AsIntended(claim)
      PROVE  TypeInv'
  <2>1. PICK f : f = StoreBack(e, v) OBVIOUS
  <2>2. BackStored(f, e, v) BY <1>8, <2>1, StoreBackIs
  <2>3. IsDeque(f) /\ f.count \in Nat BY <1>5, <1>8, <2>2 DEF BackStored
  <2>4. deque' = f /\ ok' = TRUE /\ undefined' = undefined BY <1>8, <2>1 DEF Returns
  <2> QED BY <1>6, <1>8, <2>3, <2>4 DEF AsIntended, TypeInv
<1>9. CASE /\ d.back \in Allocated(d) /\ ~ full
           /\ Returns(StoreBack(d, v), TRUE) /\ AsIntended(TRUE)
  <2>1. IsNode(d.nodes[d.back]) BY <1>5, <1>9, AllocatedIds
  <2>2. RoomInBack(d)
    BY <1>9, <2>1, DequeAssumption DEF RoomInBack, IsNode, Node
  <2> QED BY <1>5, <1>8, <1>9, <2>2
<1>10. CASE /\ d.back \in Allocated(d) /\ d.reserved = nullptr
            /\ \E grant \in Grants(d) \ {0} :
                  Returns(StoreBack(AddBackNode(d, grant), v), TRUE)
            /\ AsIntended(TRUE)
  <2>1. PICK grant \in Grants(d) \ {0} :
                Returns(StoreBack(AddBackNode(d, grant), v), TRUE)
    BY <1>10
  <2>2. PICK e : e = AddBackNode(d, grant) OBVIOUS
  <2>3. IsDeque(e) /\ RoomInBack(e) /\ e.count = d.count
    BY <1>5, <1>10, <2>2, WithBackNodeIs
  <2>4. Returns(StoreBack(e, v), TRUE) BY <2>1, <2>2
  <2> QED BY <1>8, <1>10, <2>3, <2>4
<1>11. CASE /\ d.back \in Allocated(d) /\ d.reserved \in Allocated(d)
            /\ Returns(StoreBack(AddBackNode(d, 0), v), TRUE)
            /\ AsIntended(FALSE)
  <2>2. PICK e : e = AddBackNode(d, 0) OBVIOUS
  <2>3. IsDeque(e) /\ RoomInBack(e) /\ e.count = d.count
    BY <1>5, <1>11, <2>2, ReuseBackIs
  <2>4. Returns(StoreBack(e, v), TRUE) BY <1>11, <2>2
  <2> QED BY <1>8, <1>11, <2>3, <2>4
<1>12. CASE Undefined
  BY <1>6, <1>12 DEF Undefined, TypeInv
<1> QED BY <1>4, <1>7, <1>9, <1>10, <1>11, <1>12

\* pop_back keeps the types.
LEMMA PopBackType == TypeInv /\ PopBack => TypeInv'
<1> SUFFICES ASSUME TypeInv, PopBack PROVE TypeInv' OBVIOUS
<1>1. PICK end : end = deque.back OBVIOUS
<1>2. PICK node : node = deque.nodes[end] OBVIOUS
<1>3. PICK index : index = node.back OBVIOUS
<1>4. PICK taken : taken = [Take(deque, end, index) EXCEPT !.nodes[end].back = index + 1]
  OBVIOUS
<1>5. IF end \in Allocated(deque) /\ Poppable(end, node.next, index)
        THEN /\ val' = node.vals[index]
             /\ \/ Returns(RemoveBackNode(taken), TRUE)
                \/ Returns(taken, TRUE)
             /\ intended' = intended
        ELSE Undefined /\ val' = NoValue
  BY <1>1, <1>2, <1>3, <1>4, Zenon DEF PopBack
<1>6. op' = "pop_back" /\ op' \in Operations /\ deque.count > 0
  BY Zenon DEF PopBack, Called
<1>7. IsDeque(deque) /\ deque.count \in Nat BY DEF TypeInv
<1>8. CASE Undefined /\ val' = NoValue
  BY <1>6, <1>8 DEF Undefined, TypeInv
<1>9. CASE end \in Allocated(deque) /\ Poppable(end, node.next, index)
  <2>1. /\ index \in DOMAIN deque.nodes[end].vals
        /\ node.next \in Allocated(deque) \cup {nullptr}
    BY <1>2, <1>9 DEF Poppable
  <2>2. PICK m : m = [Without(node, index) EXCEPT !.back = index + 1] OBVIOUS
  <2>3. Taken(taken, deque, end, m) /\ node.vals[index] \in Values
    BY <1>2, <1>3, <1>4, <1>7, <1>9, <2>1, <2>2, TakeBackIs
  <2>4. IsNode(node) BY <1>2, <1>7, <1>9, AllocatedIds
  <2>5. m.next = node.next BY <2>2, <2>4 DEF Without, IsNode, Node
  <2>6. /\ IsDeque(taken) /\ taken.count \in Nat
        /\ taken.back \in Allocated(taken)
        /\ taken.nodes[taken.back].next \in Allocated(taken) \cup {nullptr}
    BY <1>1, <1>6, <1>7, <1>9, <2>1, <2>3, <2>5 DEF Taken
  <2>7. PICK e : e = RemoveBackNode(taken) OBVIOUS
  <2>8. IsDeque(e) /\ e.count = taken.count
    <3>1. BackRemoved(e, taken) BY <2>6, <2>7, RemoveBackNodeIs
    <3> QED BY <3>1 DEF BackRemoved
  <2>9. \/ deque' = e \/ deque' = taken
    BY <1>5, <1>9, <2>7 DEF Returns
  <2>10. ok' = TRUE /\ undefined' = undefined /\ val' \in Values /\ intended' = intended
    BY <1>5, <1>9, <2>3 DEF Returns
  <2> QED BY <1>6, <2>6, <2>8, <2>9, <2>10 DEF TypeInv
<1> QED BY <1>5, <1>8, <1>9

\* A pop that finds nothing keeps the types.
LEMMA PopFailsType ==
    ASSUME NEW name, NEW end
    PROVE  TypeInv /\ PopFails(name, end) => TypeInv'
  BY DEF TypeInv, PopFails, Called, Returns

\* The grants of a reservation are sizes of nodes, no more than there are blocks.
LEMMA GrantSequencesAre ==
    ASSUME IsDeque(deque), NEW n, NEW g \in GrantSequences(n)
    PROVE  /\ g \in Seq(1 .. BlockSize) /\ Len(g) \in Nat
           /\ \A k \in 1 .. Len(g) : g[k] \in 1 .. BlockSize
           /\ Len(g) <= Cardinality(Left(deque))
<1>1. PICK k \in 0 .. Cardinality(Left(deque)) : g \in [1 .. k -> Grants(deque) \ {0}]
  BY DEF GrantSequences, Left
<1>2. k \in Nat /\ k <= Cardinality(Left(deque)) BY LeftIsFinite
<1>3. \A x \in Grants(deque) \ {0} : x \in 1 .. BlockSize BY GrantHasRoom
<1>4. g \in [1 .. k -> 1 .. BlockSize] BY <1>1, <1>3
<1>5. PICK h : h = [i \in 1 .. k |-> g[i]] OBVIOUS
<1>6. g = h BY <1>4, <1>5
<1>7. h \in Seq(1 .. BlockSize) /\ Len(h) = k BY <1>2, <1>4, <1>5
<1> QED BY <1>2, <1>4, <1>6, <1>7

\* A block goes back to the heap.
LEMMA FreeIs ==
    ASSUME NEW d, IsDeque(d), NEW id
    PROVE  /\ IsDeque(Free(d, id))
           /\ Free(d, id).count = d.count
<1>1. PICK ns : ns = [i \in DOMAIN d.nodes \ {id} |-> d.nodes[i]] OBVIOUS
<1>2. DOMAIN ns = Allocated(d) \ {id} /\ \A i \in DOMAIN ns : ns[i] = d.nodes[i]
  BY <1>1 DEF Allocated
<1>3. Allocated(d) \subseteq Id /\ \A i \in Allocated(d) : IsNode(d.nodes[i])
  BY AllocatedIds
<1>4. ns \in NodeMaps BY <1>1, <1>2, <1>3, NodeMapsAre DEF IsNode
<1>5. PICK e : e = [d EXCEPT !.nodes = ns] OBVIOUS
<1>6. e.nodes = ns /\ e.count = d.count BY <1>5 DEF IsDeque
<1>7. IsDeque(e) BY <1>2, <1>3, <1>4, <1>5, <1>6 DEF IsDeque, Allocated
<1>8. Free(d, id) = e BY <1>1, <1>5 DEF Free
<1> QED BY <1>6, <1>7, <1>8

\* What was granted, and all of it.
LEMMA GrantedInTurn ==
    ASSUME NEW n, NEW g \in GrantSequences(n), IsDeque(deque)
    PROVE  \E G : /\ GrantsInTurn(G, deque, g, Len(g))
                  /\ IsDeque(G[Len(g)])
                  /\ Granted(deque, g) = G[Len(g)]
<1>1. PICK k : k = Len(g) OBVIOUS
<1>2. /\ k \in Nat /\ \A i \in 1 .. k : g[i] \in 1 .. BlockSize
      /\ k <= Cardinality(Left(deque))
  BY <1>1, GrantSequencesAre
<1>3. PICK d : d = deque OBVIOUS
<1>4. \E G : GrantsInTurn(G, d, g, k) /\ IsDeque(G[k]) /\ Granted(d, g) = G[k]
  BY <1>1, <1>2, <1>3, GrantedNodes
<1> QED BY <1>1, <1>3, <1>4

\* A reservation leaves a deque, with as many elements.
LEMMA GrantedType ==
    ASSUME NEW n, NEW g \in GrantSequences(n), IsDeque(deque)
    PROVE  IsDeque(Granted(deque, g)) /\ Granted(deque, g).count = deque.count
<1>1. PICK G : /\ GrantsInTurn(G, deque, g, Len(g))
               /\ IsDeque(G[Len(g)])
               /\ Granted(deque, g) = G[Len(g)]
  BY GrantedInTurn
<1>2. PICK k : k = Len(g) OBVIOUS
<1>3. k \in Nat BY <1>2, GrantSequencesAre
<1>4. /\ G[0] = deque
      /\ \A i \in 1 .. k : G[i].count = G[i - 1].count
  BY <1>1, <1>2 DEF GrantsInTurn, NodeReserved
<1> DEFINE T == {i \in 0 .. k : G[i].count # deque.count}
<1>5. T = {}
  <2> SUFFICES ASSUME T # {} PROVE FALSE OBVIOUS
  <2>1. PICK i \in T : \A m \in T : i <= m
    <3>1. T \subseteq Nat OBVIOUS
    <3> HIDE DEF T
    <3> QED BY <3>1, LeastNatural
  <2>2. i # 0 BY <1>4, <2>1
  <2>3. i \in 1 .. k /\ i - 1 \in 0 .. k /\ ~(i <= i - 1) BY <1>3, <2>1, <2>2
  <2>4. G[i - 1].count = deque.count BY <2>1, <2>3
  <2> QED BY <1>4, <2>1, <2>3, <2>4
<1>6. k \in 0 .. k BY <1>3
<1>7. G[k].count = deque.count BY <1>5, <1>6
<1> QED BY <1>1, <1>2, <1>7

\* A reservation of one block is one step.
LEMMA GrantedOne ==
    ASSUME NEW n, NEW g \in GrantSequences(n), IsDeque(deque), Len(g) = 1
    PROVE  \E new, grant : NodeReserved(Granted(deque, g), deque, new, grant)
<1>1. PICK G : /\ GrantsInTurn(G, deque, g, 1)
               /\ Granted(deque, g) = G[1]
  <2>1. PICK k : k = Len(g) OBVIOUS
  <2>2. \E G : GrantsInTurn(G, deque, g, k) /\ IsDeque(G[k]) /\ Granted(deque, g) = G[k]
    BY <2>1, GrantedInTurn
  <2> QED BY <2>1, <2>2
<1>2. G[0] = deque /\ NodeReserved(G[1], G[0], NewId(G[0]), g[1])
  <2>1. 1 \in 1 .. 1 /\ 1 - 1 = 0 OBVIOUS
  <2> QED BY <1>1, <2>1 DEF GrantsInTurn
<1> QED BY <1>1, <1>2

\* reserve keeps the types.
LEMMA ReserveType == TypeInv /\ Reserve => TypeInv'
<1> SUFFICES ASSUME TypeInv, Reserve PROVE TypeInv' OBVIOUS
<1>0. PICK n \in Reservations : \E g \in GrantSequences(n) :
         Returns([Granted(deque, g) EXCEPT !.capacity = Modulo(@ + n)], TRUE)
  BY Zenon DEF Reserve
<1>1. PICK g \in GrantSequences(n) :
         Returns([Granted(deque, g) EXCEPT !.capacity = Modulo(@ + n)], TRUE)
  BY <1>0
<1>2. IsDeque(deque) /\ deque.count \in Nat BY DEF TypeInv
<1>3. PICK e : e = Granted(deque, g) OBVIOUS
<1>4. IsDeque(e) /\ e.count = deque.count BY <1>2, <1>3, GrantedType
<1>5. Modulo(e.capacity + n) \in 0 .. SizeModulus - 1
  BY <1>4, AllocatedIds, ModuloRange, DequeAssumption
<1>6. PICK c : c = Modulo(e.capacity + n) OBVIOUS
<1>7. PICK f : f = [e EXCEPT !.capacity = c] OBVIOUS
<1>8. IsDeque(f) /\ f.count = e.count
  <2>1. IsDeque(f) BY <1>4, <1>5, <1>6, <1>7, SetMembers
  <2>2. f.count = e.count BY <1>4, <1>7 DEF IsDeque
  <2> QED BY <2>1, <2>2
<1>9. deque' = f /\ ok' = TRUE /\ undefined' = undefined
  BY <1>1, <1>3, <1>6, <1>7 DEF Returns
<1>10. op' \in Operations /\ val' = NoValue /\ intended' = intended
  BY Zenon DEF Reserve, Called
<1> QED BY <1>2, <1>4, <1>8, <1>9, <1>10 DEF TypeInv

\* A reservation that fails half-way keeps the types.
LEMMA ReserveFailsType == TypeInv /\ ReserveFails => TypeInv'
<1> SUFFICES ASSUME TypeInv, ReserveFails PROVE TypeInv' OBVIOUS
<1>0. PICK n \in Reservations : \E g \in GrantSequences(n) :
         LET d == Granted(deque, g)
             rest == d.nodes[d.reserved].next
             undone == IF g = <<>> THEN d
                       ELSE [Free(d, rest) EXCEPT !.reserved = rest]
         IN IF Len(g) <= 1
              THEN /\ Returns([undone EXCEPT !.capacity = Modulo(@ + n)], FALSE)
                   /\ AsIntended(g = <<>>)
              ELSE Undefined
  BY Zenon DEF ReserveFails
<1>1. PICK g \in GrantSequences(n) :
         LET d == Granted(deque, g)
             rest == d.nodes[d.reserved].next
             undone == IF g = <<>> THEN d
                       ELSE [Free(d, rest) EXCEPT !.reserved = rest]
         IN IF Len(g) <= 1
              THEN /\ Returns([undone EXCEPT !.capacity = Modulo(@ + n)], FALSE)
                   /\ AsIntended(g = <<>>)
              ELSE Undefined
  BY <1>0, Zenon
<1>2. IsDeque(deque) /\ deque.count \in Nat BY DEF TypeInv
<1>3. PICK d : d = Granted(deque, g) OBVIOUS
<1>4. IsDeque(d) /\ d.count = deque.count BY <1>2, <1>3, GrantedType
<1>5. PICK rest : rest = d.nodes[d.reserved].next OBVIOUS
<1>6. PICK undone : undone = IF g = <<>> THEN d
                             ELSE [Free(d, rest) EXCEPT !.reserved = rest]
  OBVIOUS
<1>7. \/ /\ Len(g) <= 1
         /\ Returns([undone EXCEPT !.capacity = Modulo(@ + n)], FALSE)
         /\ AsIntended(g = <<>>)
      \/ Undefined
  BY <1>1, <1>3, <1>5, <1>6, Zenon
<1>8. op' \in Operations /\ val' = NoValue
  BY Zenon DEF ReserveFails, Called
<1>9. CASE Undefined
  BY <1>8, <1>9 DEF Undefined, TypeInv
<1>10. CASE /\ Len(g) <= 1
            /\ Returns([undone EXCEPT !.capacity = Modulo(@ + n)], FALSE)
            /\ AsIntended(g = <<>>)
  <2>1. IsDeque(undone) /\ undone.count = deque.count
    <3>1. CASE g = <<>> BY <1>4, <1>6, <3>1
    <3>2. CASE g # <<>>
      <4>1. d.reserved \in Allocated(d)
        <5>1. g \in Seq(1 .. BlockSize) /\ Len(g) \in Nat
          BY <1>2, GrantSequencesAre
        <5>2. Len(g) = 1 BY <1>10, <3>2, <5>1, EmptySeq
        <5>3. PICK new, grant : NodeReserved(d, deque, new, grant)
          BY <1>2, <1>3, <5>2, GrantedOne
        <5> QED BY <5>3 DEF NodeReserved
      <4>2. rest \in Id \cup {nullptr}
        BY <1>4, <1>5, <4>1, AllocatedIds DEF IsNode, Node
      <4>3. PICK f : f = Free(d, rest) OBVIOUS
      <4>4. IsDeque(f) /\ f.count = d.count BY <1>4, <4>3, FreeIs
      <4>5. PICK h : h = [f EXCEPT !.reserved = rest] OBVIOUS
      <4>6. IsDeque(h) BY <4>2, <4>4, <4>5, SetMembers
      <4>7. h.count = f.count BY <4>4, <4>5 DEF IsDeque
      <4>8. undone = h BY <1>6, <3>2, <4>3, <4>5
      <4> QED BY <1>4, <4>4, <4>6, <4>7, <4>8
    <3> QED BY <3>1, <3>2
  <2>2. PICK c : c = Modulo(undone.capacity + n) OBVIOUS
  <2>3. c \in 0 .. SizeModulus - 1
    BY <2>1, <2>2, AllocatedIds, ModuloRange, DequeAssumption
  <2>4. PICK f : f = [undone EXCEPT !.capacity = c] OBVIOUS
  <2>5. IsDeque(f) BY <2>1, <2>3, <2>4, SetMembers
  <2>6. f.count = undone.count BY <2>1, <2>4 DEF IsDeque
  <2>7. deque' = f /\ ok' = FALSE /\ undefined' = undefined
    BY <1>10, <2>2, <2>4 DEF Returns
  <2> QED BY <1>2, <1>8, <1>10, <2>1, <2>5, <2>6, <2>7 DEF TypeInv, AsIntended
<1> QED BY <1>7, <1>9, <1>10

\* A new deque has the types.
LEMMA TypeInvInit == Init => TypeInv
<1> SUFFICES ASSUME Init PROVE TypeInv OBVIOUS
<1>1. deque.nodes \in NodeMaps /\ Allocated(deque) = {}
  <2>1. deque.nodes = [id \in {} |-> nullptr] BY DEF Init
  <2>2. deque.nodes \in [{} -> Node] BY <2>1
  <2> QED BY <2>1, <2>2 DEF NodeMaps, Allocated
<1>2. IsDeque(deque) /\ deque.count \in Nat
  BY <1>1, DequeAssumption DEF Init, IsDeque
<1> QED BY <1>2 DEF Init, TypeInv

\* Every operation keeps the types.
LEMMA TypeInvStep == TypeInv /\ [Next]_vars => TypeInv'
<1> SUFFICES ASSUME TypeInv, [Next]_vars PROVE TypeInv' OBVIOUS
<1>1. CASE UNCHANGED vars BY <1>1 DEF vars, TypeInv
<1>2. CASE PushFront BY <1>2, PushFrontType
<1>3. CASE PushBack BY <1>3, PushBackType
<1>4. CASE PopFront BY <1>4, PopFrontType
<1>5. CASE PopFails("pop_front", deque.front) BY <1>5, PopFailsType
<1>6. CASE PopBack BY <1>6, PopBackType
<1>7. CASE PopFails("pop_back", deque.back) BY <1>7, PopFailsType
<1>8. CASE Reserve BY <1>8, ReserveType
<1>9. CASE ReserveFails BY <1>9, ReserveFailsType
<1> QED BY <1>1, <1>2, <1>3, <1>4, <1>5, <1>6, <1>7, <1>8, <1>9 DEF Next

\* c_linked_deque.h: whatever is called, in whatever order, and even when reserved
\* nodes are put to use, the members keep their types: a link to a block of the
\* heap or to none, never a count below zero, and a front_index within the array
\* its own node was granted; back_index is within the greatest array only.
THEOREM DequeTypeCorrect ==
    Spec => [](TypeOK /\ \A id \in Allocated(deque) :
                            deque.nodes[id].front <= deque.nodes[id].size)
<1>1. Init => TypeInv BY TypeInvInit
<1>2. TypeInv /\ [Next]_vars => TypeInv' BY TypeInvStep
<1>3. TypeInv => TypeOK /\ \A id \in Allocated(deque) :
                              deque.nodes[id].front <= deque.nodes[id].size
  BY AllocatedIds DEF TypeInv, TypeOK, IsNode, IsDeque
<1> QED BY <1>1, <1>2, <1>3, PTL DEF Spec

-----------------------------------------------------------------------------
(* The chain of nodes from an end on, as FromFront, FromBack and           *)
(* ReservedNodes walk it.                                                  *)

\* The i-th node of a sequence, none outside it.
At(s, i) == IF i \in 1 .. Len(s) THEN s[i] ELSE nullptr

\* The function Walk computes.
Walks(C, d, first, following) ==
    C = [k \in 1 .. MaxNodes |->
           IF k = 1 THEN first
           ELSE IF C[k - 1] \in Allocated(d) THEN following[C[k - 1]]
           ELSE nullptr]

\* s is the chain of nodes of d from first on.
Leads(s, d, first, following) ==
    /\ s \in Seq(Id)
    /\ first = At(s, 1)
    /\ \A i \in 1 .. Len(s) : s[i] \in Allocated(d) /\ following[s[i]] = At(s, i + 1)

\* A step of the walk goes to the next node of the chain.
LEMMA WalkStep ==
    ASSUME NEW d, nullptr \notin Allocated(d), NEW first, NEW following,
           NEW s, Leads(s, d, first, following), NEW k \in Nat \ {0}
    PROVE  At(s, k) = IF k = 1 THEN first
                      ELSE IF At(s, k - 1) \in Allocated(d) THEN following[At(s, k - 1)]
                      ELSE nullptr
<1>1. Len(s) \in Nat BY LenProperties DEF Leads
<1>2. CASE k = 1 BY <1>2 DEF Leads
<1>3. CASE k # 1 /\ k - 1 \in 1 .. Len(s)
  <2>1. At(s, k - 1) = s[k - 1] BY <1>3 DEF At
  <2>2. PICK i : i = k - 1 OBVIOUS
  <2>3. i \in 1 .. Len(s) /\ i + 1 = k BY <1>3, <2>2
  <2>4. s[i] \in Allocated(d) /\ following[s[i]] = At(s, k) BY <2>3 DEF Leads
  <2> QED BY <1>3, <2>1, <2>2, <2>4
<1>4. CASE k # 1 /\ k - 1 \notin 1 .. Len(s)
  <2>1. k \notin 1 .. Len(s) BY <1>1, <1>4
  <2> QED BY <1>4, <2>1 DEF At
<1> QED BY <1>2, <1>3, <1>4

\* The walk visits the nodes of the chain, then stays where there is none.
LEMMA WalkIs ==
    ASSUME NEW d, nullptr \notin Allocated(d), NEW first, NEW following,
           NEW s, Leads(s, d, first, following)
    PROVE  /\ DOMAIN Walk(d, first, following) = 1 .. MaxNodes
           /\ \A k \in 1 .. MaxNodes : Walk(d, first, following)[k] = At(s, k)
<1> DEFINE W == [k \in 1 .. MaxNodes |-> At(s, k)]
<1>1. \A k \in 1 .. MaxNodes :
         At(s, k) = IF k = 1 THEN first
                    ELSE IF W[k - 1] \in Allocated(d) THEN following[W[k - 1]]
                    ELSE nullptr
  <2> SUFFICES ASSUME NEW k \in 1 .. MaxNodes
               PROVE  At(s, k) = IF k = 1 THEN first
                          ELSE IF W[k - 1] \in Allocated(d) THEN following[W[k - 1]]
                          ELSE nullptr
    OBVIOUS
  <2>1. k \in Nat \ {0} /\ (k = 1 \/ k - 1 \in 1 .. MaxNodes)
    BY DequeAssumption
  <2>2. k # 1 => W[k - 1] = At(s, k - 1) BY <2>1
  <2>3. At(s, k) = IF k = 1 THEN first
                   ELSE IF At(s, k - 1) \in Allocated(d) THEN following[At(s, k - 1)]
                   ELSE nullptr
    BY <2>1, WalkStep
  <2> HIDE DEF W
  <2> QED BY <2>2, <2>3
<1>2. W = [k \in 1 .. MaxNodes |-> At(s, k)] OBVIOUS
<1>3. Walks(W, d, first, following)
  <2> HIDE DEF W
  <2> QED BY <1>1, <1>2 DEF Walks
<1> DEFINE C == Walk(d, first, following)
<1>4. Walks(C, d, first, following)
  <2>1. C = CHOOSE D : D = [k \in 1 .. MaxNodes |->
                              IF k = 1 THEN first
                              ELSE IF D[k - 1] \in Allocated(d) THEN following[D[k - 1]]
                              ELSE nullptr]
    BY Zenon DEF Walk
  <2>2. \E D : D = [k \in 1 .. MaxNodes |->
                              IF k = 1 THEN first
                              ELSE IF D[k - 1] \in Allocated(d) THEN following[D[k - 1]]
                              ELSE nullptr]
    <3> HIDE DEF W
    <3> QED BY <1>3, Zenon DEF Walks
  <2> HIDE DEF C, W
  <2> QED BY <2>1, <2>2, Zenon DEF Walks
<1> HIDE DEF C, W
<1> DEFINE T == {k \in 1 .. MaxNodes : C[k] # At(s, k)}
<1>5. T = {}
  <2> SUFFICES ASSUME T # {} PROVE FALSE OBVIOUS
  <2>1. PICK k \in T : \A m \in T : k <= m
    <3>1. T \subseteq Nat OBVIOUS
    <3> HIDE DEF T
    <3> QED BY <3>1, LeastNatural
  <2>2. k \in Nat \ {0} /\ k \in 1 .. MaxNodes OBVIOUS
  <2>3. C[k] = IF k = 1 THEN first
               ELSE IF C[k - 1] \in Allocated(d) THEN following[C[k - 1]]
               ELSE nullptr
    BY <1>4, <2>2, Zenon DEF Walks
  <2>4. k # 1 => C[k - 1] = At(s, k - 1)
    <3> SUFFICES ASSUME k # 1 PROVE C[k - 1] = At(s, k - 1) OBVIOUS
    <3>1. k - 1 \in 1 .. MaxNodes /\ ~(k <= k - 1) BY <2>2, DequeAssumption
    <3> QED BY <2>1, <3>1
  <2>5. At(s, k) = IF k = 1 THEN first
                   ELSE IF At(s, k - 1) \in Allocated(d) THEN following[At(s, k - 1)]
                   ELSE nullptr
    BY <2>2, WalkStep
  <2>6. C[k] = At(s, k)
    <3> HIDE DEF T
    <3> QED BY <2>3, <2>4, <2>5
  <2> QED BY <2>6
<1>6. DOMAIN C = 1 .. MaxNodes BY <1>4, Zenon DEF Walks
<1> QED BY <1>5, <1>6 DEF C

\* No node twice.
Line(s) == s \in Seq(Id) /\ \A i, j \in 1 .. Len(s) : s[i] = s[j] => i = j

\* A sequence without repetition is no longer than there are nodes.
LEMMA LineIsShort ==
    ASSUME NEW s, Line(s)
    PROVE  Len(s) \in Nat /\ Len(s) <= MaxNodes
<1>1. PICK n : n = Len(s) OBVIOUS
<1>2. n \in Nat /\ s \in [1 .. n -> Id] BY <1>1, LenProperties DEF Line
<1>3. s \in Injection(1 .. n, Id) BY <1>1, <1>2 DEF Line, Injection, IsInjective
<1>4. IsFiniteSet(1 .. n) /\ Cardinality(1 .. n) = n BY <1>2, FS_Interval
<1>5. IsFiniteSet(Id) /\ Cardinality(Id) = MaxNodes
  BY FS_Interval, DequeAssumption DEF Id
<1>6. Cardinality(1 .. n) <= Cardinality(Id) BY <1>3, <1>5, FS_Injection
<1> QED BY <1>1, <1>2, <1>4, <1>5, <1>6

\* Chain finds the nodes that lead from one to the next.
LEMMA ChainIs ==
    ASSUME NEW d, nullptr \notin Allocated(d), NEW first, NEW following,
           NEW s, Line(s), Leads(s, d, first, following)
    PROVE  Chain(d, first, following) = s
<1>1. PICK C : C = Walk(d, first, following) OBVIOUS
<1>2. \A k \in 1 .. MaxNodes : C[k] = At(s, k) BY <1>1, WalkIs
<1>3. PICK n : n = Len(s) OBVIOUS
<1>4. n \in Nat /\ n <= MaxNodes /\ s \in [1 .. n -> Id]
  <2>1. s \in Seq(Id) BY DEF Line
  <2> QED BY <1>3, <2>1, LineIsShort, LenProperties
<1>5. {i \in 1 .. MaxNodes : C[i] \in Allocated(d)} = 1 .. n
  <2>1. ASSUME NEW i \in 1 .. MaxNodes PROVE C[i] \in Allocated(d) <=> i \in 1 .. n
    <3>1. CASE i \in 1 .. n
      BY <1>2, <1>3, <3>1 DEF At, Leads
    <3>2. CASE i \notin 1 .. n
      BY <1>2, <1>3, <3>2 DEF At
    <3> QED BY <3>1, <3>2
  <2>2. \A i \in 1 .. n : i \in 1 .. MaxNodes BY <1>4, DequeAssumption
  <2> QED BY <2>1, <2>2
<1>6. \A k \in 1 .. n : k \in 1 .. MaxNodes /\ C[k] = s[k]
  BY <1>2, <1>3, <1>4, DequeAssumption DEF At
<1>7. Chain(d, first, following) = [k \in {i \in 1 .. MaxNodes : C[i] \in Allocated(d)} |-> C[k]]
  BY <1>1, Zenon DEF Chain
<1>8. Chain(d, first, following) = [k \in 1 .. n |-> C[k]] BY <1>5, <1>7
<1>9. [k \in 1 .. n |-> C[k]] = [k \in 1 .. n |-> s[k]] BY <1>6
<1>10. s = [k \in 1 .. n |-> s[k]] BY <1>4
<1> QED BY <1>8, <1>9, <1>10

-----------------------------------------------------------------------------
(* Sequences of nodes that are one longer, or one shorter.                 *)

Holds(s, id) == \E i \in 1 .. Len(s) : s[i] = id

\* t is s with x before it, or behind it.
Prepended(t, s, x) ==
    /\ Line(t) /\ Line(s) /\ Len(s) \in Nat /\ Len(t) = Len(s) + 1
    /\ t[1] = x /\ \A i \in 1 .. Len(s) : t[i + 1] = s[i]
    /\ ~ Holds(s, x)
    /\ \A id : Holds(t, id) <=> id = x \/ Holds(s, id)

Appended(t, s, x) ==
    /\ Line(t) /\ Line(s) /\ Len(s) \in Nat /\ Len(t) = Len(s) + 1
    /\ t[Len(s) + 1] = x /\ \A i \in 1 .. Len(s) : t[i] = s[i]
    /\ ~ Holds(s, x)
    /\ \A id : Holds(t, id) <=> id = x \/ Holds(s, id)

\* A sequence with one element before it.
LEMMA ConsFacts ==
    ASSUME NEW S, NEW x \in S, NEW s \in Seq(S)
    PROVE  /\ <<x>> \o s \in Seq(S) /\ Len(s) \in Nat /\ Len(<<x>> \o s) = Len(s) + 1
           /\ (<<x>> \o s)[1] = x
           /\ \A i \in 1 .. Len(s) : (<<x>> \o s)[i + 1] = s[i]
<1>1. PICK h : h = <<x>> OBVIOUS
<1>2. h \in Seq(S) /\ Len(h) = 1 /\ h[1] = x BY <1>1
<1>3. PICK t : t = h \o s OBVIOUS
<1>4. Len(s) \in Nat BY LenProperties
<1>5. h \in Seq(S) BY <1>2
<1>6. /\ t \in Seq(S) /\ Len(t) = Len(h) + Len(s)
      /\ \A i \in 1 .. Len(h) + Len(s) :
            t[i] = IF i <= Len(h) THEN h[i] ELSE s[i - Len(h)]
  BY <1>3, <1>5, ConcatProperties
<1>7. \A i \in 1 .. 1 + Len(s) : t[i] = IF i <= 1 THEN h[i] ELSE s[i - 1]
  BY <1>2, <1>6
<1>8. Len(t) = Len(s) + 1 /\ t[1] = x BY <1>2, <1>4, <1>6, <1>7
<1>9. \A i \in 1 .. Len(s) : t[i + 1] = s[i]
  <2> SUFFICES ASSUME NEW i \in 1 .. Len(s) PROVE t[i + 1] = s[i] OBVIOUS
  <2>1. i + 1 \in 1 .. 1 + Len(s) /\ ~ (i + 1 <= 1) /\ (i + 1) - 1 = i BY <1>4
  <2> QED BY <1>7, <2>1
<1> QED BY <1>1, <1>3, <1>4, <1>6, <1>8, <1>9

\* What a sequence holds with one before it.
LEMMA HoldsPrepended ==
    ASSUME NEW s, NEW t, NEW x, Len(s) \in Nat, Len(t) = Len(s) + 1,
           t[1] = x, \A i \in 1 .. Len(s) : t[i + 1] = s[i]
    PROVE  \A id : Holds(t, id) <=> id = x \/ Holds(s, id)
<1> SUFFICES ASSUME NEW id PROVE Holds(t, id) <=> id = x \/ Holds(s, id) OBVIOUS
<1>1. ASSUME Holds(t, id) PROVE id = x \/ Holds(s, id)
  <2>1. PICK i \in 1 .. Len(s) + 1 : t[i] = id BY <1>1 DEF Holds
  <2>2. CASE i = 1 BY <2>1, <2>2
  <2>3. CASE i # 1
    <3>1. i - 1 \in 1 .. Len(s) /\ (i - 1) + 1 = i BY <2>3
    <3>2. s[i - 1] = id BY <2>1, <3>1
    <3> QED BY <3>1, <3>2 DEF Holds
  <2> QED BY <2>2, <2>3
<1>2. ASSUME id = x PROVE Holds(t, id)
  <2>1. 1 \in 1 .. Len(t) OBVIOUS
  <2> QED BY <1>2, <2>1 DEF Holds
<1>3. ASSUME Holds(s, id) PROVE Holds(t, id)
  <2>1. PICK i \in 1 .. Len(s) : s[i] = id BY <1>3 DEF Holds
  <2>2. i + 1 \in 1 .. Len(t) /\ t[i + 1] = id BY <2>1
  <2> QED BY <2>2 DEF Holds
<1> QED BY <1>1, <1>2, <1>3

\* What a sequence holds with one behind it.
LEMMA HoldsAppended ==
    ASSUME NEW s, NEW t, NEW x, Len(s) \in Nat, Len(t) = Len(s) + 1,
           t[Len(s) + 1] = x, \A i \in 1 .. Len(s) : t[i] = s[i]
    PROVE  \A id : Holds(t, id) <=> id = x \/ Holds(s, id)
<1> SUFFICES ASSUME NEW id PROVE Holds(t, id) <=> id = x \/ Holds(s, id) OBVIOUS
<1>1. ASSUME Holds(t, id) PROVE id = x \/ Holds(s, id)
  <2>1. PICK i \in 1 .. Len(s) + 1 : t[i] = id BY <1>1 DEF Holds
  <2>2. CASE i = Len(s) + 1 BY <2>1, <2>2
  <2>3. CASE i # Len(s) + 1
    <3>1. i \in 1 .. Len(s) BY <2>3
    <3>2. s[i] = id BY <2>1, <3>1
    <3> QED BY <3>1, <3>2 DEF Holds
  <2> QED BY <2>2, <2>3
<1>2. ASSUME id = x PROVE Holds(t, id)
  <2>1. Len(s) + 1 \in 1 .. Len(t) OBVIOUS
  <2> QED BY <1>2, <2>1 DEF Holds
<1>3. ASSUME Holds(s, id) PROVE Holds(t, id)
  <2>1. PICK i \in 1 .. Len(s) : s[i] = id BY <1>3 DEF Holds
  <2>2. i \in 1 .. Len(t) /\ t[i] = id BY <2>1
  <2> QED BY <2>2 DEF Holds
<1> QED BY <1>1, <1>2, <1>3

\* A node that is not among them, put before the others.
LEMMA PrependedIs ==
    ASSUME NEW s \in Seq(Id), NEW x \in Id,
           \/ Line(s) /\ ~ Holds(s, x)
           \/ Line(<<x>> \o s)
    PROVE  Prepended(<<x>> \o s, s, x)
<1>1. PICK t : t = <<x>> \o s OBVIOUS
<1>2. /\ t \in Seq(Id) /\ Len(s) \in Nat /\ Len(t) = Len(s) + 1
      /\ t[1] = x /\ \A i \in 1 .. Len(s) : t[i + 1] = s[i]
  BY <1>1, ConsFacts
<1>3. \A id : Holds(t, id) <=> id = x \/ Holds(s, id) BY <1>2, HoldsPrepended
<1>4. CASE Line(t)
  <2>1. ASSUME NEW i \in 1 .. Len(s), NEW j \in 1 .. Len(s), s[i] = s[j] PROVE i = j
    <3>1. i + 1 \in 1 .. Len(t) /\ j + 1 \in 1 .. Len(t) BY <1>2
    <3>2. t[i + 1] = t[j + 1] BY <1>2, <2>1
    <3>3. i + 1 = j + 1 BY <1>4, <3>1, <3>2 DEF Line
    <3> QED BY <3>3
  <2>2. Line(s) BY <2>1 DEF Line
  <2>3. ~ Holds(s, x)
    <3> SUFFICES ASSUME NEW i \in 1 .. Len(s), s[i] = x PROVE FALSE BY DEF Holds
    <3>1. i + 1 \in 1 .. Len(t) /\ 1 \in 1 .. Len(t) /\ i + 1 # 1 BY <1>2
    <3>2. t[i + 1] = t[1] BY <1>2
    <3> QED BY <1>4, <3>1, <3>2 DEF Line
  <2> QED BY <1>1, <1>2, <1>3, <1>4, <2>2, <2>3 DEF Prepended
<1>5. CASE Line(s) /\ ~ Holds(s, x)
  <2>1. ASSUME NEW i \in 1 .. Len(t), NEW j \in 1 .. Len(t), t[i] = t[j] PROVE i = j
    <3>1. \A k \in 1 .. Len(t) : k # 1 => /\ k - 1 \in 1 .. Len(s)
                                          /\ t[k] = s[k - 1] /\ s[k - 1] # x
      <4> SUFFICES ASSUME NEW k \in 1 .. Len(t), k # 1
                   PROVE  k - 1 \in 1 .. Len(s) /\ t[k] = s[k - 1] /\ s[k - 1] # x
        OBVIOUS
      <4>1. k - 1 \in 1 .. Len(s) /\ (k - 1) + 1 = k BY <1>2
      <4>2. t[k] = s[k - 1] BY <1>2, <4>1
      <4>3. s[k - 1] # x BY <1>5, <4>1 DEF Holds
      <4> QED BY <4>1, <4>2, <4>3
    <3>2. i = 1 <=> j = 1 BY <1>2, <2>1, <3>1
    <3>3. ASSUME i # 1, j # 1 PROVE i = j
      <4>1. s[i - 1] = s[j - 1] BY <2>1, <3>1, <3>3
      <4>2. i - 1 = j - 1 BY <1>5, <3>1, <3>3, <4>1 DEF Line
      <4> QED BY <1>2, <4>2
    <3> QED BY <3>2, <3>3
  <2>2. Line(t) BY <1>2, <2>1 DEF Line
  <2> QED BY <1>1, <1>2, <1>3, <1>5, <2>2 DEF Prepended
<1> QED BY <1>1, <1>4, <1>5

\* A node that is not among them, put behind the others.
LEMMA AppendedIs ==
    ASSUME NEW s \in Seq(Id), NEW x \in Id,
           \/ Line(s) /\ ~ Holds(s, x)
           \/ Line(Append(s, x))
    PROVE  Appended(Append(s, x), s, x)
<1>1. PICK t : t = Append(s, x) OBVIOUS
<1>2. /\ t \in Seq(Id) /\ Len(s) \in Nat /\ Len(t) = Len(s) + 1
      /\ t[Len(s) + 1] = x /\ \A i \in 1 .. Len(s) : t[i] = s[i]
  BY <1>1, AppendProperties, LenProperties
<1>3. \A id : Holds(t, id) <=> id = x \/ Holds(s, id) BY <1>2, HoldsAppended
<1>4. CASE Line(t)
  <2>1. ASSUME NEW i \in 1 .. Len(s), NEW j \in 1 .. Len(s), s[i] = s[j] PROVE i = j
    <3>1. i \in 1 .. Len(t) /\ j \in 1 .. Len(t) BY <1>2
    <3>2. t[i] = t[j] BY <1>2, <2>1
    <3> QED BY <1>4, <3>1, <3>2 DEF Line
  <2>2. Line(s) BY <2>1 DEF Line
  <2>3. ~ Holds(s, x)
    <3> SUFFICES ASSUME NEW i \in 1 .. Len(s), s[i] = x PROVE FALSE BY DEF Holds
    <3>1. i \in 1 .. Len(t) /\ Len(s) + 1 \in 1 .. Len(t) /\ i # Len(s) + 1 BY <1>2
    <3>2. t[i] = t[Len(s) + 1] BY <1>2
    <3> QED BY <1>4, <3>1, <3>2 DEF Line
  <2> QED BY <1>1, <1>2, <1>3, <1>4, <2>2, <2>3 DEF Appended
<1>5. CASE Line(s) /\ ~ Holds(s, x)
  <2>1. ASSUME NEW i \in 1 .. Len(t), NEW j \in 1 .. Len(t), t[i] = t[j] PROVE i = j
    <3>1. \A k \in 1 .. Len(t) : k # Len(s) + 1 => /\ k \in 1 .. Len(s)
                                          /\ t[k] = s[k] /\ s[k] # x
      <4> SUFFICES ASSUME NEW k \in 1 .. Len(t), k # Len(s) + 1
                   PROVE  k \in 1 .. Len(s) /\ t[k] = s[k] /\ s[k] # x
        OBVIOUS
      <4>1. k \in 1 .. Len(s) BY <1>2
      <4>2. t[k] = s[k] BY <1>2, <4>1
      <4>3. s[k] # x BY <1>5, <4>1 DEF Holds
      <4> QED BY <4>1, <4>2, <4>3
    <3>2. i = Len(s) + 1 <=> j = Len(s) + 1 BY <1>2, <2>1, <3>1
    <3>3. ASSUME i # Len(s) + 1, j # Len(s) + 1 PROVE i = j
      <4>1. s[i] = s[j] BY <2>1, <3>1, <3>3
      <4> QED BY <1>5, <3>1, <3>3, <4>1 DEF Line
    <3> QED BY <3>2, <3>3
  <2>2. Line(t) BY <1>2, <2>1 DEF Line
  <2> QED BY <1>1, <1>2, <1>3, <1>5, <2>2 DEF Appended
<1> QED BY <1>1, <1>4, <1>5

EndOf(s) == At(s, Len(s))

\* f leads from each node of s to the one behind it, or before it.
Forward(f, s) == \A i \in 1 .. Len(s) : f[s[i]] = At(s, i + 1)
Backward(f, s) == \A i \in 1 .. Len(s) : f[s[i]] = At(s, i - 1)

\* The places of a sequence with one before it.
LEMMA AtPrepended ==
    ASSUME NEW s, NEW t, NEW x, Prepended(t, s, x)
    PROVE  /\ At(t, 0) = nullptr /\ At(t, 1) = x
           /\ \A i \in Nat \ {0} : At(t, i + 1) = At(s, i)
           /\ EndOf(t) = IF Len(s) = 0 THEN x ELSE EndOf(s)
<1>1. Len(s) \in Nat /\ Len(t) = Len(s) + 1 /\ t[1] = x
  BY DEF Prepended
<1>2. At(t, 0) = nullptr /\ At(t, 1) = x
  BY <1>1 DEF At
<1>3. ASSUME NEW i \in Nat \ {0} PROVE At(t, i + 1) = At(s, i)
  <2>1. i + 1 \in 1 .. Len(t) <=> i \in 1 .. Len(s) BY <1>1
  <2>2. i \in 1 .. Len(s) => t[i + 1] = s[i] BY DEF Prepended
  <2> QED BY <2>1, <2>2 DEF At
<1>4. EndOf(t) = IF Len(s) = 0 THEN x ELSE EndOf(s)
  BY <1>1, <1>2, <1>3 DEF EndOf
<1> QED BY <1>2, <1>3, <1>4

\* The places of a sequence with one behind it.
LEMMA AtAppended ==
    ASSUME NEW s, NEW t, NEW x, Appended(t, s, x)
    PROVE  /\ \A i \in Int : i <= Len(s) => At(t, i) = At(s, i)
           /\ EndOf(t) = x /\ At(t, Len(s) + 2) = nullptr
           /\ At(t, Len(s) + 1) = x
           /\ At(t, 1) = IF Len(s) = 0 THEN x ELSE At(s, 1)
<1>1. Len(s) \in Nat /\ Len(t) = Len(s) + 1 /\ t[Len(s) + 1] = x
  BY DEF Appended
<1>2. ASSUME NEW i \in Int, i <= Len(s) PROVE At(t, i) = At(s, i)
  <2>1. i \in 1 .. Len(t) <=> i \in 1 .. Len(s) BY <1>1, <1>2
  <2>2. i \in 1 .. Len(s) => t[i] = s[i] BY DEF Appended
  <2> QED BY <2>1, <2>2 DEF At
<1>3. At(t, Len(s) + 1) = x /\ At(t, Len(s) + 2) = nullptr /\ EndOf(t) = x
  BY <1>1 DEF At, EndOf
<1>4. At(t, 1) = IF Len(s) = 0 THEN x ELSE At(s, 1)
  BY <1>1, <1>2, <1>3
<1> QED BY <1>2, <1>3, <1>4

\* Links from front to back, with a node before the others.
LEMMA ForwardPrepended ==
    ASSUME NEW s, NEW t, NEW x, Prepended(t, s, x), NEW f, Forward(f, s),
           NEW g, g[x] = At(s, 1), \A id : Holds(s, id) => g[id] = f[id]
    PROVE  Forward(g, t)
<1> SUFFICES ASSUME NEW i \in 1 .. Len(t) PROVE g[t[i]] = At(t, i + 1)
  BY DEF Forward
<1>1. Len(s) \in Nat /\ Len(t) = Len(s) + 1 /\ t[1] = x BY DEF Prepended
<1>2. At(t, i + 1) = At(s, i) BY AtPrepended
<1>3. CASE i = 1 BY <1>1, <1>2, <1>3
<1>4. CASE i # 1
  <2>1. PICK k : k = i - 1 OBVIOUS
  <2>2. k \in 1 .. Len(s) /\ k + 1 = i BY <1>1, <1>4, <2>1
  <2>3. t[i] = s[k] BY <2>2 DEF Prepended
  <2>4. g[s[k]] = f[s[k]] BY <2>2 DEF Holds
  <2>5. f[s[k]] = At(s, k + 1) BY <2>2 DEF Forward
  <2> QED BY <1>2, <2>2, <2>3, <2>4, <2>5
<1> QED BY <1>3, <1>4

\* Links from front to back, without the first node.
LEMMA ForwardRest ==
    ASSUME NEW s, NEW t, NEW x, Prepended(t, s, x), NEW f, Forward(f, t),
           NEW g, \A id : Holds(s, id) => g[id] = f[id]
    PROVE  f[x] = At(s, 1) /\ Forward(g, s)
<1>1. Len(s) \in Nat /\ Len(t) = Len(s) + 1 /\ t[1] = x BY DEF Prepended
<1>2. f[x] = At(s, 1)
  <2>1. 1 \in 1 .. Len(t) BY <1>1
  <2>2. f[t[1]] = At(t, 1 + 1) BY <2>1 DEF Forward
  <2>3. At(t, 1 + 1) = At(s, 1) BY AtPrepended
  <2> QED BY <1>1, <2>2, <2>3
<1>3. ASSUME NEW i \in 1 .. Len(s) PROVE g[s[i]] = At(s, i + 1)
  <2>1. PICK k : k = i + 1 OBVIOUS
  <2>2. k \in 1 .. Len(t) BY <1>1, <2>1
  <2>3. t[k] = s[i] BY <2>1 DEF Prepended
  <2>4. f[t[k]] = At(t, k + 1) BY <2>2 DEF Forward
  <2>5. At(t, k + 1) = At(s, i + 1) BY <2>1, AtPrepended
  <2>6. g[s[i]] = f[s[i]] BY DEF Holds
  <2> QED BY <2>3, <2>4, <2>5, <2>6
<1> QED BY <1>2, <1>3 DEF Forward

\* Links from back to front, with a node before the others.
LEMMA BackwardPrepended ==
    ASSUME NEW s, NEW t, NEW x, Prepended(t, s, x), NEW f, Backward(f, s),
           NEW g, g[x] = nullptr,
           \A id : Holds(s, id) => g[id] = IF id = At(s, 1) THEN x ELSE f[id]
    PROVE  Backward(g, t)
<1> SUFFICES ASSUME NEW i \in 1 .. Len(t) PROVE g[t[i]] = At(t, i - 1)
  BY DEF Backward
<1>1. Len(s) \in Nat /\ Len(t) = Len(s) + 1 /\ t[1] = x BY DEF Prepended
<1>2. CASE i = 1
  <2>1. At(t, i - 1) = nullptr BY <1>2, AtPrepended
  <2> QED BY <1>1, <1>2, <2>1
<1>3. CASE i # 1
  <2>1. PICK k : k = i - 1 OBVIOUS
  <2>2. k \in 1 .. Len(s) /\ k + 1 = i BY <1>1, <1>3, <2>1
  <2>3. t[i] = s[k] BY <2>2 DEF Prepended
  <2>4. g[s[k]] = IF s[k] = At(s, 1) THEN x ELSE f[s[k]] BY <2>2 DEF Holds
  <2>5. s[k] = At(s, 1) <=> k = 1
    <3>1. Line(s) /\ 1 \in 1 .. Len(s) /\ At(s, 1) = s[1] BY <2>2 DEF At, Prepended
    <3> QED BY <2>2, <3>1 DEF Line
  <2>6. CASE k = 1
    <3>1. At(t, k) = x BY <2>6, AtPrepended
    <3> QED BY <2>1, <2>3, <2>4, <2>5, <2>6, <3>1
  <2>7. CASE k # 1
    <3>1. f[s[k]] = At(s, k - 1) BY <2>2 DEF Backward
    <3>2. PICK l : l = k - 1 OBVIOUS
    <3>3. l \in Nat \ {0} /\ l + 1 = k BY <2>2, <2>7, <3>2
    <3>4. At(t, k) = At(s, k - 1) BY <3>2, <3>3, AtPrepended
    <3> QED BY <2>1, <2>3, <2>4, <2>5, <2>7, <3>1, <3>4
  <2> QED BY <2>6, <2>7
<1> QED BY <1>2, <1>3

\* Links from back to front, without the first node.
LEMMA BackwardRest ==
    ASSUME NEW s, NEW t, NEW x, Prepended(t, s, x), NEW f, Backward(f, t),
           NEW g,
           \A id : Holds(s, id) => g[id] = IF id = At(s, 1) THEN nullptr ELSE f[id]
    PROVE  Backward(g, s)
<1> SUFFICES ASSUME NEW i \in 1 .. Len(s) PROVE g[s[i]] = At(s, i - 1)
  BY DEF Backward
<1>1. Len(s) \in Nat /\ Len(t) = Len(s) + 1 /\ t[1] = x BY DEF Prepended
<1>2. g[s[i]] = IF s[i] = At(s, 1) THEN nullptr ELSE f[s[i]] BY DEF Holds
<1>3. s[i] = At(s, 1) <=> i = 1
  <2>1. Line(s) /\ 1 \in 1 .. Len(s) /\ At(s, 1) = s[1] BY <1>1 DEF At, Prepended
  <2> QED BY <2>1 DEF Line
<1>4. CASE i = 1 BY <1>2, <1>3, <1>4 DEF At
<1>5. CASE i # 1
  <2>1. PICK k : k = i + 1 OBVIOUS
  <2>2. k \in 1 .. Len(t) /\ k - 1 = i BY <1>1, <2>1
  <2>3. t[k] = s[i] BY <2>1 DEF Prepended
  <2>4. f[s[i]] = At(t, i)
    <3>1. f[t[k]] = At(t, k - 1) BY <2>2 DEF Backward
    <3> QED BY <2>2, <2>3, <3>1
  <2>5. PICK l : l = i - 1 OBVIOUS
  <2>6. l \in Nat \ {0} /\ l + 1 = i BY <1>5, <2>5
  <2>7. At(t, i) = At(s, i - 1) BY <2>5, <2>6, AtPrepended
  <2> QED BY <1>2, <1>3, <1>5, <2>4, <2>7
<1> QED BY <1>4, <1>5

\* Links from back to front, with a node behind the others.
LEMMA BackwardAppended ==
    ASSUME NEW s, NEW t, NEW x, Appended(t, s, x), NEW f, Backward(f, s),
           NEW g, g[x] = EndOf(s), \A id : Holds(s, id) => g[id] = f[id]
    PROVE  Backward(g, t)
<1> SUFFICES ASSUME NEW i \in 1 .. Len(t) PROVE g[t[i]] = At(t, i - 1)
  BY DEF Backward
<1>1. Len(s) \in Nat /\ Len(t) = Len(s) + 1 /\ t[Len(s) + 1] = x BY DEF Appended
<1>2. At(t, i - 1) = At(s, i - 1)
  <2>1. i - 1 \in Int /\ i - 1 <= Len(s) BY <1>1
  <2> QED BY <2>1, AtAppended
<1>3. CASE i = Len(s) + 1
  <2>1. i - 1 = Len(s) BY <1>1, <1>3
  <2> QED BY <1>1, <1>2, <1>3, <2>1 DEF EndOf
<1>4. CASE i # Len(s) + 1
  <2>1. i \in 1 .. Len(s) BY <1>1, <1>4
  <2>2. t[i] = s[i] BY <2>1 DEF Appended
  <2>3. g[s[i]] = f[s[i]] BY <2>1 DEF Holds
  <2>4. f[s[i]] = At(s, i - 1) BY <2>1 DEF Backward
  <2> QED BY <1>2, <2>2, <2>3, <2>4
<1> QED BY <1>3, <1>4

\* Links from back to front, without the last node.
LEMMA BackwardFront ==
    ASSUME NEW s, NEW t, NEW x, Appended(t, s, x), NEW f, Backward(f, t),
           NEW g, \A id : Holds(s, id) => g[id] = f[id]
    PROVE  f[x] = EndOf(s) /\ Backward(g, s)
<1>1. Len(s) \in Nat /\ Len(t) = Len(s) + 1 /\ t[Len(s) + 1] = x BY DEF Appended
<1>2. f[x] = EndOf(s)
  <2>1. PICK k : k = Len(s) + 1 OBVIOUS
  <2>2. k \in 1 .. Len(t) /\ k - 1 = Len(s) /\ t[k] = x BY <1>1, <2>1
  <2>3. f[t[k]] = At(t, k - 1) BY <2>2 DEF Backward
  <2>4. k - 1 \in Int /\ k - 1 <= Len(s) BY <1>1, <2>2
  <2>5. At(t, k - 1) = At(s, k - 1) BY <2>4, AtAppended
  <2> QED BY <2>2, <2>3, <2>5 DEF EndOf
<1>3. ASSUME NEW i \in 1 .. Len(s) PROVE g[s[i]] = At(s, i - 1)
  <2>1. i \in 1 .. Len(t) BY <1>1
  <2>2. t[i] = s[i] BY DEF Appended
  <2>3. f[t[i]] = At(t, i - 1) BY <2>1 DEF Backward
  <2>4. i - 1 \in Int /\ i - 1 <= Len(s) BY <1>1
  <2>5. At(t, i - 1) = At(s, i - 1) BY <2>4, AtAppended
  <2>6. g[s[i]] = f[s[i]] BY DEF Holds
  <2> QED BY <2>2, <2>3, <2>5, <2>6
<1> QED BY <1>2, <1>3 DEF Backward

\* Links from front to back, with a node behind the others.
LEMMA ForwardAppended ==
    ASSUME NEW s, NEW t, NEW x, Appended(t, s, x), NEW f, Forward(f, s),
           NEW g, g[x] = nullptr,
           \A id : Holds(s, id) => g[id] = IF id = EndOf(s) THEN x ELSE f[id]
    PROVE  Forward(g, t)
<1> SUFFICES ASSUME NEW i \in 1 .. Len(t) PROVE g[t[i]] = At(t, i + 1)
  BY DEF Forward
<1>1. Len(s) \in Nat /\ Len(t) = Len(s) + 1 /\ t[Len(s) + 1] = x BY DEF Appended
<1>2. CASE i = Len(s) + 1
  <2>1. i + 1 = Len(s) + 2 BY <1>1, <1>2
  <2>2. At(t, Len(s) + 2) = nullptr BY AtAppended
  <2> QED BY <1>1, <1>2, <2>1, <2>2
<1>3. CASE i # Len(s) + 1
  <2>1. i \in 1 .. Len(s) BY <1>1, <1>3
  <2>2. t[i] = s[i] BY <2>1 DEF Appended
  <2>3. g[s[i]] = IF s[i] = EndOf(s) THEN x ELSE f[s[i]] BY <2>1 DEF Holds
  <2>4. s[i] = EndOf(s) <=> i = Len(s)
    <3>1. Line(s) /\ Len(s) \in 1 .. Len(s) /\ EndOf(s) = s[Len(s)]
      BY <1>1, <2>1 DEF At, EndOf, Appended
    <3> QED BY <2>1, <3>1 DEF Line
  <2>5. CASE i = Len(s)
    <3>1. At(t, Len(s) + 1) = x BY AtAppended
    <3> QED BY <2>2, <2>3, <2>4, <2>5, <3>1
  <2>6. CASE i # Len(s)
    <3>1. f[s[i]] = At(s, i + 1) BY <2>1 DEF Forward
    <3>2. i + 1 \in Int /\ i + 1 <= Len(s) BY <1>1, <2>1, <2>6
    <3>3. At(t, i + 1) = At(s, i + 1) BY <3>2, AtAppended
    <3> QED BY <2>2, <2>3, <2>4, <2>6, <3>1, <3>3
  <2> QED BY <2>5, <2>6
<1> QED BY <1>2, <1>3

\* Links from front to back, without the last node.
LEMMA ForwardFront ==
    ASSUME NEW s, NEW t, NEW x, Appended(t, s, x), NEW f, Forward(f, t),
           NEW g,
           \A id : Holds(s, id) => g[id] = IF id = EndOf(s) THEN nullptr ELSE f[id]
    PROVE  Forward(g, s)
<1> SUFFICES ASSUME NEW i \in 1 .. Len(s) PROVE g[s[i]] = At(s, i + 1)
  BY DEF Forward
<1>1. Len(s) \in Nat /\ Len(t) = Len(s) + 1 /\ t[Len(s) + 1] = x BY DEF Appended
<1>2. g[s[i]] = IF s[i] = EndOf(s) THEN nullptr ELSE f[s[i]] BY DEF Holds
<1>3. s[i] = EndOf(s) <=> i = Len(s)
  <2>1. Line(s) /\ Len(s) \in 1 .. Len(s) /\ EndOf(s) = s[Len(s)]
    BY <1>1 DEF At, EndOf, Appended
  <2> QED BY <2>1 DEF Line
<1>4. CASE i = Len(s)
  <2>1. At(s, i + 1) = nullptr BY <1>1, <1>4 DEF At
  <2> QED BY <1>2, <1>3, <1>4, <2>1
<1>5. CASE i # Len(s)
  <2>1. i \in 1 .. Len(t) /\ i + 1 \in Int /\ i + 1 <= Len(s) BY <1>1, <1>5
  <2>2. t[i] = s[i] BY DEF Appended
  <2>3. f[t[i]] = At(t, i + 1) BY <2>1 DEF Forward
  <2>4. At(t, i + 1) = At(s, i + 1) BY <2>1, AtAppended
  <2> QED BY <1>2, <1>3, <1>5, <2>2, <2>3, <2>4
<1> QED BY <1>4, <1>5

-----------------------------------------------------------------------------
(* Nodes linked both ways, and those reserved.                             *)

PrevOf(d) == [id \in Allocated(d) |-> d.nodes[id].prev]
NextOf(d) == [id \in Allocated(d) |-> d.nodes[id].next]

\* The nodes of d are those of fs, linked either way from front to back, and
\* those of rs, which are reserved.
Chained(d, fs, rs) ==
    /\ Line(fs) /\ Line(rs)
    /\ \A id : id \in Allocated(d) <=> Holds(fs, id) \/ Holds(rs, id)
    /\ \A id : ~ (Holds(fs, id) /\ Holds(rs, id))
    /\ d.front = At(fs, 1) /\ d.back = EndOf(fs) /\ d.reserved = At(rs, 1)
    /\ Forward(PrevOf(d), fs) /\ Backward(NextOf(d), fs) /\ Forward(NextOf(d), rs)

\* The nodes of a line, and its ends.
LEMMA LineFacts ==
    ASSUME NEW s, Line(s)
    PROVE  /\ s \in Seq(Id) /\ Len(s) \in Nat
           /\ \A id : Holds(s, id) => id \in Id /\ id # nullptr
           /\ At(s, 1) = nullptr <=> Len(s) = 0
           /\ EndOf(s) = nullptr <=> Len(s) = 0
           /\ Len(s) # 0 => Holds(s, At(s, 1)) /\ Holds(s, EndOf(s))
<1>1. s \in Seq(Id) BY DEF Line
<1>2. Len(s) \in Nat /\ \A i \in 1 .. Len(s) : s[i] \in Id /\ s[i] # nullptr
  <2>1. nullptr \notin Id BY DEF Id, nullptr
  <2> QED BY <1>1, <2>1, LenProperties
<1>3. \A id : Holds(s, id) => id \in Id /\ id # nullptr BY <1>2 DEF Holds
<1>4. CASE Len(s) = 0 BY <1>1, <1>2, <1>3, <1>4 DEF At, EndOf
<1>5. CASE Len(s) # 0
  <2>1. 1 \in 1 .. Len(s) /\ Len(s) \in 1 .. Len(s) BY <1>2, <1>5
  <2>2. At(s, 1) = s[1] /\ EndOf(s) = s[Len(s)] BY <2>1 DEF At, EndOf
  <2>3. Holds(s, s[1]) /\ Holds(s, s[Len(s)]) BY <2>1, Zenon DEF Holds
  <2> QED BY <1>1, <1>2, <1>3, <1>5, <2>1, <2>2, <2>3
<1> QED BY <1>4, <1>5

\* The links are what they were.
SameLinks(e, d) ==
    /\ Allocated(e) = Allocated(d)
    /\ e.front = d.front /\ e.back = d.back /\ e.reserved = d.reserved
    /\ \A i \in Allocated(d) : /\ e.nodes[i].prev = d.nodes[i].prev
                               /\ e.nodes[i].next = d.nodes[i].next

\* What leaves the links leaves the chains.
LEMMA ChainedSame ==
    ASSUME NEW d, NEW e, SameLinks(e, d), NEW fs, NEW rs, Chained(d, fs, rs)
    PROVE  Chained(e, fs, rs)
<1>1. PrevOf(e) = PrevOf(d) /\ NextOf(e) = NextOf(d)
  BY DEF PrevOf, NextOf, SameLinks
<1> QED BY <1>1, Zenon DEF Chained, SameLinks

\* A new node at the front, at the back, or reserved.
FrontGrown(e, d, new) ==
    /\ Allocated(e) = Allocated(d) \cup {new}
    /\ e.front = new /\ e.reserved = d.reserved
    /\ e.back = IF d.back = nullptr THEN new ELSE d.back
    /\ e.nodes[new].prev = d.front /\ e.nodes[new].next = nullptr
    /\ \A i \in Allocated(d) :
          /\ e.nodes[i].prev = d.nodes[i].prev
          /\ e.nodes[i].next = IF i = d.front THEN new ELSE d.nodes[i].next

\* A new front node is the first of the chain.
LEMMA ChainedFrontGrown ==
    ASSUME NEW d, NEW fs, NEW rs, Chained(d, fs, rs),
           NEW new \in Id, new \notin Allocated(d), NEW e, FrontGrown(e, d, new)
    PROVE  Chained(e, <<new>> \o fs, rs)
<1>1. /\ Line(fs) /\ Line(rs) /\ fs \in Seq(Id) /\ ~ Holds(fs, new) /\ ~ Holds(rs, new)
      /\ \A id : Holds(fs, id) \/ Holds(rs, id) <=> id \in Allocated(d)
      /\ \A id : ~ (Holds(fs, id) /\ Holds(rs, id))
  BY LineFacts DEF Chained
<1>2. PICK t : t = <<new>> \o fs OBVIOUS
<1>3. Prepended(t, fs, new) BY <1>1, <1>2, PrependedIs
<1>4. Line(t) /\ \A id : Holds(t, id) <=> id = new \/ Holds(fs, id)
  BY <1>3 DEF Prepended
<1>5. /\ PrevOf(e)[new] = d.front /\ NextOf(e)[new] = nullptr
      /\ \A i \in Allocated(d) :
            /\ PrevOf(e)[i] = PrevOf(d)[i]
            /\ NextOf(e)[i] = IF i = d.front THEN new ELSE NextOf(d)[i]
  BY DEF FrontGrown, PrevOf, NextOf
<1>6. d.front = At(fs, 1) /\ d.back = EndOf(fs) /\ d.reserved = At(rs, 1)
  BY DEF Chained
<1>7. Forward(PrevOf(e), t)
  <2>1. Forward(PrevOf(d), fs) BY DEF Chained
  <2>2. \A id : Holds(fs, id) => PrevOf(e)[id] = PrevOf(d)[id] BY <1>1, <1>5
  <2>3. PrevOf(e)[new] = At(fs, 1) BY <1>5, <1>6
  <2> HIDE DEF PrevOf
  <2> QED BY <1>3, <2>1, <2>2, <2>3, ForwardPrepended
<1>8. Backward(NextOf(e), t)
  <2>1. Backward(NextOf(d), fs) BY DEF Chained
  <2>2. \A id : Holds(fs, id) =>
           NextOf(e)[id] = IF id = At(fs, 1) THEN new ELSE NextOf(d)[id]
    BY <1>1, <1>5, <1>6
  <2>3. NextOf(e)[new] = nullptr BY <1>5
  <2> QED BY <1>3, <2>1, <2>2, <2>3, BackwardPrepended
<1>9. Forward(NextOf(e), rs)
  <2>1. Forward(NextOf(d), rs) BY DEF Chained
  <2>2. \A i \in 1 .. Len(rs) : NextOf(e)[rs[i]] = NextOf(d)[rs[i]]
    <3> SUFFICES ASSUME NEW i \in 1 .. Len(rs)
                 PROVE  NextOf(e)[rs[i]] = NextOf(d)[rs[i]]
      OBVIOUS
    <3>1. Holds(rs, rs[i]) BY DEF Holds
    <3>2. rs[i] \in Allocated(d) /\ ~ Holds(fs, rs[i]) BY <1>1, <3>1
    <3>3. rs[i] # d.front
      <4>1. rs[i] # nullptr BY <1>1, <3>1, LineFacts
      <4>2. Holds(fs, At(fs, 1)) \/ At(fs, 1) = nullptr BY <1>1, LineFacts
      <4> QED BY <1>6, <3>2, <4>1, <4>2
    <3> QED BY <1>5, <3>2, <3>3
  <2> QED BY <2>1, <2>2 DEF Forward
<1>10. e.front = At(t, 1) /\ e.back = EndOf(t) /\ e.reserved = At(rs, 1)
  <2>1. At(t, 1) = new /\ EndOf(t) = IF Len(fs) = 0 THEN new ELSE EndOf(fs)
    BY <1>3, AtPrepended
  <2>2. EndOf(fs) = nullptr <=> Len(fs) = 0 BY <1>1, LineFacts
  <2> QED BY <1>6, <2>1, <2>2 DEF FrontGrown
<1>11. \A id : id \in Allocated(e) <=> Holds(t, id) \/ Holds(rs, id)
  BY <1>1, <1>4 DEF FrontGrown
<1>12. \A id : ~ (Holds(t, id) /\ Holds(rs, id)) BY <1>1, <1>4
<1>13. Chained(e, t, rs)
  BY <1>1, <1>4, <1>7, <1>8, <1>9, <1>10, <1>11, <1>12, Zenon DEF Chained
<1> QED BY <1>2, <1>13, Zenon

BackGrown(e, d, new) ==
    /\ Allocated(e) = Allocated(d) \cup {new}
    /\ e.back = new /\ e.reserved = d.reserved
    /\ e.front = IF d.front = nullptr THEN new ELSE d.front
    /\ e.nodes[new].next = d.back /\ e.nodes[new].prev = nullptr
    /\ \A i \in Allocated(d) :
          /\ e.nodes[i].next = d.nodes[i].next
          /\ e.nodes[i].prev = IF i = d.back THEN new ELSE d.nodes[i].prev

\* A new back node is the last of the chain.
LEMMA ChainedBackGrown ==
    ASSUME NEW d, NEW fs, NEW rs, Chained(d, fs, rs),
           NEW new \in Id, new \notin Allocated(d), NEW e, BackGrown(e, d, new)
    PROVE  Chained(e, Append(fs, new), rs)
<1>1. /\ Line(fs) /\ Line(rs) /\ fs \in Seq(Id) /\ ~ Holds(fs, new) /\ ~ Holds(rs, new)
      /\ \A id : Holds(fs, id) \/ Holds(rs, id) <=> id \in Allocated(d)
      /\ \A id : ~ (Holds(fs, id) /\ Holds(rs, id))
  BY LineFacts DEF Chained
<1>2. PICK t : t = Append(fs, new) OBVIOUS
<1>3. Appended(t, fs, new) BY <1>1, <1>2, AppendedIs
<1>4. Line(t) /\ \A id : Holds(t, id) <=> id = new \/ Holds(fs, id)
  BY <1>3 DEF Appended
<1>5. /\ NextOf(e)[new] = d.back /\ PrevOf(e)[new] = nullptr
      /\ \A i \in Allocated(d) :
            /\ NextOf(e)[i] = NextOf(d)[i]
            /\ PrevOf(e)[i] = IF i = d.back THEN new ELSE PrevOf(d)[i]
  BY DEF BackGrown, PrevOf, NextOf
<1>6. d.front = At(fs, 1) /\ d.back = EndOf(fs) /\ d.reserved = At(rs, 1)
  BY DEF Chained
<1>7. Backward(NextOf(e), t)
  <2>1. Backward(NextOf(d), fs) BY DEF Chained
  <2>2. \A id : Holds(fs, id) => NextOf(e)[id] = NextOf(d)[id] BY <1>1, <1>5
  <2>3. NextOf(e)[new] = EndOf(fs) BY <1>5, <1>6
  <2> QED BY <1>3, <2>1, <2>2, <2>3, BackwardAppended
<1>8. Forward(PrevOf(e), t)
  <2>1. Forward(PrevOf(d), fs) BY DEF Chained
  <2>2. \A id : Holds(fs, id) =>
           PrevOf(e)[id] = IF id = EndOf(fs) THEN new ELSE PrevOf(d)[id]
    BY <1>1, <1>5, <1>6
  <2>3. PrevOf(e)[new] = nullptr BY <1>5
  <2> QED BY <1>3, <2>1, <2>2, <2>3, ForwardAppended
<1>9. Forward(NextOf(e), rs)
  <2>1. Forward(NextOf(d), rs) BY DEF Chained
  <2>2. \A i \in 1 .. Len(rs) : NextOf(e)[rs[i]] = NextOf(d)[rs[i]]
    <3> SUFFICES ASSUME NEW i \in 1 .. Len(rs)
                 PROVE  NextOf(e)[rs[i]] = NextOf(d)[rs[i]]
      OBVIOUS
    <3>1. Holds(rs, rs[i]) BY DEF Holds
    <3> QED BY <1>1, <1>5, <3>1
  <2> QED BY <2>1, <2>2 DEF Forward
<1>10. e.front = At(t, 1) /\ e.back = EndOf(t) /\ e.reserved = At(rs, 1)
  <2>1. EndOf(t) = new /\ At(t, 1) = IF Len(fs) = 0 THEN new ELSE At(fs, 1)
    BY <1>3, AtAppended
  <2>2. At(fs, 1) = nullptr <=> Len(fs) = 0 BY <1>1, LineFacts
  <2> QED BY <1>6, <2>1, <2>2 DEF BackGrown
<1>11. \A id : id \in Allocated(e) <=> Holds(t, id) \/ Holds(rs, id)
  BY <1>1, <1>4 DEF BackGrown
<1>12. \A id : ~ (Holds(t, id) /\ Holds(rs, id)) BY <1>1, <1>4
<1>13. Chained(e, t, rs)
  BY <1>1, <1>4, <1>7, <1>8, <1>9, <1>10, <1>11, <1>12, Zenon DEF Chained
<1> QED BY <1>2, <1>13, Zenon

ReserveGrown(e, d, new) ==
    /\ Allocated(e) = Allocated(d) \cup {new}
    /\ e.front = d.front /\ e.back = d.back /\ e.reserved = new
    /\ e.nodes[new].next = d.reserved
    /\ \A i \in Allocated(d) : /\ e.nodes[i].prev = d.nodes[i].prev
                               /\ e.nodes[i].next = d.nodes[i].next

\* A new reserved node is the first of those reserved.
LEMMA ChainedReserveGrown ==
    ASSUME NEW d, NEW fs, NEW rs, Chained(d, fs, rs),
           NEW new \in Id, new \notin Allocated(d), NEW e, ReserveGrown(e, d, new)
    PROVE  Chained(e, fs, <<new>> \o rs)
<1>1. /\ Line(fs) /\ Line(rs) /\ rs \in Seq(Id) /\ ~ Holds(fs, new) /\ ~ Holds(rs, new)
      /\ \A id : Holds(fs, id) \/ Holds(rs, id) <=> id \in Allocated(d)
      /\ \A id : ~ (Holds(fs, id) /\ Holds(rs, id))
  BY LineFacts DEF Chained
<1>2. PICK t : t = <<new>> \o rs OBVIOUS
<1>3. Prepended(t, rs, new) BY <1>1, <1>2, PrependedIs
<1>4. Line(t) /\ \A id : Holds(t, id) <=> id = new \/ Holds(rs, id)
  BY <1>3 DEF Prepended
<1>5. /\ NextOf(e)[new] = d.reserved
      /\ \A i \in Allocated(d) : /\ PrevOf(e)[i] = PrevOf(d)[i]
                                 /\ NextOf(e)[i] = NextOf(d)[i]
  BY DEF ReserveGrown, PrevOf, NextOf
<1>6. d.front = At(fs, 1) /\ d.back = EndOf(fs) /\ d.reserved = At(rs, 1)
  BY DEF Chained
<1>7. \A i \in 1 .. Len(fs) : fs[i] \in Allocated(d)
  <2>1. \A i \in 1 .. Len(fs) : Holds(fs, fs[i]) BY DEF Holds
  <2> QED BY <1>1, <2>1
<1>8. Forward(PrevOf(e), fs) /\ Backward(NextOf(e), fs)
  <2>1. Forward(PrevOf(d), fs) /\ Backward(NextOf(d), fs) BY DEF Chained
  <2> QED BY <1>5, <1>7, <2>1 DEF Forward, Backward
<1>9. Forward(NextOf(e), t)
  <2>1. Forward(NextOf(d), rs) BY DEF Chained
  <2>2. \A id : Holds(rs, id) => NextOf(e)[id] = NextOf(d)[id] BY <1>1, <1>5
  <2>3. NextOf(e)[new] = At(rs, 1) BY <1>5, <1>6
  <2> QED BY <1>3, <2>1, <2>2, <2>3, ForwardPrepended
<1>10. e.front = At(fs, 1) /\ e.back = EndOf(fs) /\ e.reserved = At(t, 1)
  <2>1. At(t, 1) = new BY <1>3, AtPrepended
  <2> QED BY <1>6, <2>1 DEF ReserveGrown
<1>11. \A id : id \in Allocated(e) <=> Holds(fs, id) \/ Holds(t, id)
  BY <1>1, <1>4 DEF ReserveGrown
<1>12. \A id : ~ (Holds(fs, id) /\ Holds(t, id)) BY <1>1, <1>4
<1>13. Chained(e, fs, t)
  BY <1>1, <1>4, <1>8, <1>9, <1>10, <1>11, <1>12, Zenon DEF Chained
<1> QED BY <1>2, <1>13, Zenon

\* The node at an end becomes the first of those reserved.
FrontShrunk(e, d) ==
    LET old == d.front  new == d.nodes[old].prev
    IN  /\ Allocated(e) = Allocated(d)
        /\ e.front = new /\ e.reserved = old
        /\ e.back = IF new = nullptr THEN nullptr ELSE d.back
        /\ e.nodes[old].next = d.reserved
        /\ \A i \in Allocated(d) \ {old} :
              /\ e.nodes[i].prev = d.nodes[i].prev
              /\ e.nodes[i].next = IF i = new THEN nullptr ELSE d.nodes[i].next

\* The front node leaves the chain and is the first of those reserved.
LEMMA ChainedFrontShrunk ==
    ASSUME NEW d, NEW r \in Seq(Id), NEW old \in Id, NEW rs, Chained(d, <<old>> \o r, rs),
           NEW e, FrontShrunk(e, d)
    PROVE  Chained(e, r, <<old>> \o rs)
<1>1. PICK fs : fs = <<old>> \o r OBVIOUS
<1>2. Chained(d, fs, rs) BY <1>1
<1>3. /\ Line(fs) /\ Line(rs) /\ rs \in Seq(Id)
      /\ \A id : Holds(fs, id) \/ Holds(rs, id) <=> id \in Allocated(d)
      /\ \A id : ~ (Holds(fs, id) /\ Holds(rs, id))
      /\ Forward(PrevOf(d), fs) /\ Backward(NextOf(d), fs) /\ Forward(NextOf(d), rs)
      /\ d.front = At(fs, 1) /\ d.back = EndOf(fs) /\ d.reserved = At(rs, 1)
  BY <1>2, LineFacts DEF Chained
<1>4. Prepended(fs, r, old) BY <1>1, <1>3, PrependedIs
<1>5. /\ Line(r) /\ ~ Holds(r, old) /\ Len(r) \in Nat
      /\ \A id : Holds(fs, id) <=> id = old \/ Holds(r, id)
  BY <1>4 DEF Prepended
<1>6. ~ Holds(rs, old) /\ old \in Allocated(d) BY <1>3, <1>5
<1>7. PICK t : t = <<old>> \o rs OBVIOUS
<1>8. Prepended(t, rs, old) BY <1>3, <1>6, <1>7, PrependedIs
<1>9. Line(t) /\ \A id : Holds(t, id) <=> id = old \/ Holds(rs, id)
  BY <1>8 DEF Prepended
<1>10. d.front = old /\ d.back = IF Len(r) = 0 THEN old ELSE EndOf(r)
  BY <1>3, <1>4, AtPrepended
<1>11. PICK new : new = d.nodes[old].prev OBVIOUS
<1>12. /\ Allocated(e) = Allocated(d)
       /\ e.front = new /\ e.reserved = old
       /\ e.back = IF new = nullptr THEN nullptr ELSE d.back
       /\ NextOf(e)[old] = d.reserved
       /\ \A i \in Allocated(d) \ {old} :
             /\ PrevOf(e)[i] = PrevOf(d)[i]
             /\ NextOf(e)[i] = IF i = new THEN nullptr ELSE NextOf(d)[i]
  BY <1>6, <1>10, <1>11 DEF FrontShrunk, PrevOf, NextOf
<1>13. /\ PrevOf(d)[old] = new
       /\ PrevOf(d)[old] = At(r, 1) /\ Forward(PrevOf(e), r)
  <2>1. PrevOf(d)[old] = new BY <1>6, <1>11 DEF PrevOf
  <2>2. \A id : Holds(r, id) => PrevOf(e)[id] = PrevOf(d)[id] BY <1>3, <1>5, <1>12
  <2>3. PrevOf(d)[old] = At(r, 1) /\ Forward(PrevOf(e), r)
    BY <1>3, <1>4, <2>2, ForwardRest
  <2> QED BY <2>1, <2>3
<1>14. Backward(NextOf(e), r)
  <2>1. \A id : Holds(r, id) =>
           NextOf(e)[id] = IF id = At(r, 1) THEN nullptr ELSE NextOf(d)[id]
    BY <1>3, <1>5, <1>12, <1>13
  <2> QED BY <1>3, <1>4, <2>1, BackwardRest
<1>15. Forward(NextOf(e), t)
  <2>1. \A id : Holds(rs, id) => NextOf(e)[id] = NextOf(d)[id]
    <3> SUFFICES ASSUME NEW id, Holds(rs, id) PROVE NextOf(e)[id] = NextOf(d)[id]
      OBVIOUS
    <3>1. id \in Allocated(d) \ {old} /\ ~ Holds(r, id) BY <1>3, <1>5, <1>6
    <3>2. id # new
      <4>1. id # nullptr BY <1>3, LineFacts
      <4>2. Holds(r, At(r, 1)) \/ At(r, 1) = nullptr BY <1>5, LineFacts
      <4> QED BY <1>13, <3>1, <4>1, <4>2
    <3> QED BY <1>12, <3>1, <3>2
  <2>2. NextOf(e)[old] = At(rs, 1) BY <1>3, <1>12
  <2> QED BY <1>3, <1>8, <2>1, <2>2, ForwardPrepended
<1>16. e.front = At(r, 1) /\ e.back = EndOf(r) /\ e.reserved = At(t, 1)
  <2>1. At(t, 1) = old BY <1>8, AtPrepended
  <2>2. /\ At(r, 1) = nullptr <=> Len(r) = 0
        /\ EndOf(r) = nullptr <=> Len(r) = 0
    BY <1>5, LineFacts
  <2> QED BY <1>10, <1>12, <1>13, <2>1, <2>2
<1>17. \A id : id \in Allocated(e) <=> Holds(r, id) \/ Holds(t, id)
  BY <1>3, <1>5, <1>9, <1>12
<1>18. \A id : ~ (Holds(r, id) /\ Holds(t, id)) BY <1>3, <1>5, <1>9
<1>19. Chained(e, r, t)
  BY <1>5, <1>9, <1>13, <1>14, <1>15, <1>16, <1>17, <1>18, Zenon DEF Chained
<1> QED BY <1>7, <1>19, Zenon

BackShrunk(e, d) ==
    LET old == d.back  new == d.nodes[old].next
    IN  /\ Allocated(e) = Allocated(d)
        /\ e.back = new /\ e.reserved = old
        /\ e.front = IF new = nullptr THEN nullptr ELSE d.front
        /\ e.nodes[old].next = d.reserved
        /\ \A i \in Allocated(d) \ {old} :
              /\ e.nodes[i].next = d.nodes[i].next
              /\ e.nodes[i].prev = IF i = new THEN nullptr ELSE d.nodes[i].prev

\* The back node leaves the chain and is the first of those reserved.
LEMMA ChainedBackShrunk ==
    ASSUME NEW d, NEW r \in Seq(Id), NEW old \in Id, NEW rs, Chained(d, Append(r, old), rs),
           NEW e, BackShrunk(e, d)
    PROVE  Chained(e, r, <<old>> \o rs)
<1>1. PICK fs : fs = Append(r, old) OBVIOUS
<1>2. Chained(d, fs, rs) BY <1>1
<1>3. /\ Line(fs) /\ Line(rs) /\ rs \in Seq(Id)
      /\ \A id : Holds(fs, id) \/ Holds(rs, id) <=> id \in Allocated(d)
      /\ \A id : ~ (Holds(fs, id) /\ Holds(rs, id))
      /\ Forward(PrevOf(d), fs) /\ Backward(NextOf(d), fs) /\ Forward(NextOf(d), rs)
      /\ d.front = At(fs, 1) /\ d.back = EndOf(fs) /\ d.reserved = At(rs, 1)
  BY <1>2, LineFacts DEF Chained
<1>4. Appended(fs, r, old) BY <1>1, <1>3, AppendedIs
<1>5. /\ Line(r) /\ ~ Holds(r, old) /\ Len(r) \in Nat
      /\ \A id : Holds(fs, id) <=> id = old \/ Holds(r, id)
  BY <1>4 DEF Appended
<1>6. ~ Holds(rs, old) /\ old \in Allocated(d) BY <1>3, <1>5
<1>7. PICK t : t = <<old>> \o rs OBVIOUS
<1>8. Prepended(t, rs, old) BY <1>3, <1>6, <1>7, PrependedIs
<1>9. Line(t) /\ \A id : Holds(t, id) <=> id = old \/ Holds(rs, id)
  BY <1>8 DEF Prepended
<1>10. d.back = old /\ d.front = IF Len(r) = 0 THEN old ELSE At(r, 1)
  BY <1>3, <1>4, AtAppended
<1>11. PICK new : new = d.nodes[old].next OBVIOUS
<1>12. /\ Allocated(e) = Allocated(d)
       /\ e.back = new /\ e.reserved = old
       /\ e.front = IF new = nullptr THEN nullptr ELSE d.front
       /\ NextOf(e)[old] = d.reserved
       /\ \A i \in Allocated(d) \ {old} :
             /\ NextOf(e)[i] = NextOf(d)[i]
             /\ PrevOf(e)[i] = IF i = new THEN nullptr ELSE PrevOf(d)[i]
  BY <1>6, <1>10, <1>11 DEF BackShrunk, PrevOf, NextOf
<1>13. /\ NextOf(d)[old] = new
       /\ NextOf(d)[old] = EndOf(r) /\ Backward(NextOf(e), r)
  <2>1. NextOf(d)[old] = new BY <1>6, <1>11 DEF NextOf
  <2>2. \A id : Holds(r, id) => NextOf(e)[id] = NextOf(d)[id] BY <1>3, <1>5, <1>12
  <2>3. NextOf(d)[old] = EndOf(r) /\ Backward(NextOf(e), r)
    BY <1>3, <1>4, <2>2, BackwardFront
  <2> QED BY <2>1, <2>3
<1>14. Forward(PrevOf(e), r)
  <2>1. \A id : Holds(r, id) =>
           PrevOf(e)[id] = IF id = EndOf(r) THEN nullptr ELSE PrevOf(d)[id]
    BY <1>3, <1>5, <1>12, <1>13
  <2> QED BY <1>3, <1>4, <2>1, ForwardFront
<1>15. Forward(NextOf(e), t)
  <2>1. \A id : Holds(rs, id) => NextOf(e)[id] = NextOf(d)[id]
    BY <1>3, <1>6, <1>12
  <2>2. NextOf(e)[old] = At(rs, 1) BY <1>3, <1>12
  <2> QED BY <1>3, <1>8, <2>1, <2>2, ForwardPrepended
<1>16. e.front = At(r, 1) /\ e.back = EndOf(r) /\ e.reserved = At(t, 1)
  <2>1. At(t, 1) = old BY <1>8, AtPrepended
  <2>2. /\ At(r, 1) = nullptr <=> Len(r) = 0
        /\ EndOf(r) = nullptr <=> Len(r) = 0
    BY <1>5, LineFacts
  <2> QED BY <1>10, <1>12, <1>13, <2>1, <2>2
<1>17. \A id : id \in Allocated(e) <=> Holds(r, id) \/ Holds(t, id)
  BY <1>3, <1>5, <1>9, <1>12
<1>18. \A id : ~ (Holds(r, id) /\ Holds(t, id)) BY <1>3, <1>5, <1>9
<1>19. Chained(e, r, t)
  BY <1>5, <1>9, <1>13, <1>14, <1>15, <1>16, <1>17, <1>18, Zenon DEF Chained
<1> QED BY <1>7, <1>19, Zenon

-----------------------------------------------------------------------------
(* The elements of the nodes of a sequence.                                *)

\* Induction on sequences, as the provers can use it: among some sequences
\* there is one that is empty, or that loses its last element to leave them.
LEMMA LeastSequence ==
    ASSUME NEW S, NEW T, T \subseteq Seq(S), T # {}
    PROVE  \E s \in T : \/ s = <<>>
                        \/ \E t \in Seq(S) \ T, b \in S : s = Append(t, b)
<1> DEFINE L == {Len(s) : s \in T}
<1>1. L \subseteq Nat /\ L # {}
  <2>1. \A s \in T : Len(s) \in Nat BY LenProperties
  <2> QED BY <2>1
<1>2. PICK n \in L : \A m \in L : n <= m
  <2> HIDE DEF L
  <2> QED BY <1>1, LeastNatural
<1>3. PICK s \in T : Len(s) = n OBVIOUS
<1>4. s \in Seq(S) OBVIOUS
<1>5. CASE s = <<>> BY <1>5
<1>6. CASE s # <<>>
  <2>1. PICK t \in Seq(S), b \in S : s = Append(t, b)
    BY <1>4, <1>6, SequenceEmptyOrAppend
  <2>2. Len(t) \in Nat /\ n = Len(t) + 1 BY <1>3, <2>1
  <2>3. t \notin T
    <3> SUFFICES ASSUME t \in T PROVE FALSE OBVIOUS
    <3>1. Len(t) \in L OBVIOUS
    <3>2. n <= Len(t) BY <1>2, <3>1
    <3> HIDE DEF L
    <3> QED BY <2>2, <3>2
  <2> QED BY <2>1, <2>3
<1> QED BY <1>5, <1>6

\* f is the function FlattenSeq computes, on the first n sequences of ss.
Flattens(f, ss, n) ==
    f = [i \in 1 .. n |-> IF i = 1 THEN ss[i] ELSE f[i - 1] \o ss[i]]

\* There is such a function.
LEMMA FlattenExists ==
    ASSUME NEW ss, NEW n \in Nat
    PROVE  \E f : Flattens(f, ss, n)
<1> DEFINE T == {k \in Nat : ~ \E f : Flattens(f, ss, k)}
<1> SUFFICES ASSUME T # {} PROVE FALSE OBVIOUS
<1>1. PICK k \in T : \A m \in T : k <= m
  <2>1. T \subseteq Nat OBVIOUS
  <2> HIDE DEF T
  <2> QED BY <2>1, LeastNatural
<1>2. k # 0
  <2> SUFFICES ASSUME k = 0 PROVE FALSE OBVIOUS
  <2> DEFINE f == [i \in 1 .. 0 |-> <<>>]
  <2>1. f = [i \in 1 .. 0 |-> IF i = 1 THEN ss[i] ELSE f[i - 1] \o ss[i]]
    <3>1. 1 .. 0 = {} OBVIOUS
    <3> QED BY <3>1, Zenon
  <2>2. Flattens(f, ss, 0) BY <2>1 DEF Flattens
  <2> QED BY <1>1, <2>2
<1>3. k - 1 \in Nat /\ ~(k <= k - 1) BY <1>1, <1>2
<1>4. PICK g : Flattens(g, ss, k - 1) BY <1>1, <1>3
<1> DEFINE f == [i \in 1 .. k |-> IF i = 1 THEN ss[i] ELSE g[i - 1] \o ss[i]]
<1>5. \A i \in 1 .. k - 1 : f[i] = g[i]
  <2> SUFFICES ASSUME NEW i \in 1 .. k - 1 PROVE f[i] = g[i] OBVIOUS
  <2>1. f[i] = IF i = 1 THEN ss[i] ELSE g[i - 1] \o ss[i]
    BY <1>3
  <2>2. g[i] = IF i = 1 THEN ss[i] ELSE g[i - 1] \o ss[i]
    BY <1>4, Zenon DEF Flattens
  <2> QED BY <2>1, <2>2
<1>6. \A i \in 1 .. k : i = 1 \/ i - 1 \in 1 .. k - 1 OBVIOUS
<1>7. \A i \in 1 .. k : (IF i = 1 THEN ss[i] ELSE g[i - 1] \o ss[i])
                           = (IF i = 1 THEN ss[i] ELSE f[i - 1] \o ss[i])
  <2> HIDE DEF f
  <2> QED BY <1>5, <1>6, Zenon
<1>8. f = [i \in 1 .. k |-> IF i = 1 THEN ss[i] ELSE f[i - 1] \o ss[i]]
  <2>1. f = [i \in 1 .. k |-> IF i = 1 THEN ss[i] ELSE g[i - 1] \o ss[i]]
    BY Zenon
  <2> HIDE DEF f
  <2> QED BY <1>7, <2>1
<1>9. Flattens(f, ss, k) 
  <2> HIDE DEF f
  <2> QED BY <1>8 DEF Flattens
<1> QED BY <1>1, <1>9

\* There is one such function, and it is the same on a longer sequence.
LEMMA FlattenUnique ==
    ASSUME NEW f, NEW ss, NEW n \in Nat, Flattens(f, ss, n),
           NEW g, NEW tt, NEW m \in Nat, Flattens(g, tt, m),
           n <= m, \A i \in 1 .. n : ss[i] = tt[i]
    PROVE  \A i \in 1 .. n : f[i] = g[i]
<1> DEFINE T == {i \in 1 .. n : f[i] # g[i]}
<1> SUFFICES ASSUME T # {} PROVE FALSE OBVIOUS
<1>1. PICK k \in T : \A i \in T : k <= i
  <2>1. T \subseteq Nat OBVIOUS
  <2> HIDE DEF T
  <2> QED BY <2>1, LeastNatural
<1>2. k \in 1 .. n /\ k \in 1 .. m OBVIOUS
<1>3. f[k] = IF k = 1 THEN ss[k] ELSE f[k - 1] \o ss[k]
  BY <1>2, Zenon DEF Flattens
<1>4. g[k] = IF k = 1 THEN tt[k] ELSE g[k - 1] \o tt[k]
  BY <1>2, Zenon DEF Flattens
<1>5. k # 1 => k - 1 \in 1 .. n /\ ~(k <= k - 1) BY <1>2
<1>6. k # 1 => f[k - 1] = g[k - 1] BY <1>1, <1>5
<1>7. f[k] = g[k]
  <2> HIDE DEF T
  <2> QED BY <1>2, <1>3, <1>4, <1>6, Zenon
<1> QED BY <1>1, <1>7

\* FlattenSeq of nothing.
LEMMA FlattenEmpty == FlattenSeq(<<>>) = <<>>
  BY DEF FlattenSeq

\* Such a function ends in the flattened sequence.
LEMMA FlattenIs ==
    ASSUME NEW S, NEW ss \in Seq(S), ss # <<>>, NEW f, Flattens(f, ss, Len(ss))
    PROVE  FlattenSeq(ss) = f[Len(ss)]
<1> DEFINE n == Len(ss)
           h == CHOOSE h : h = [i \in 1 .. n |->
                                  IF i = 1 THEN ss[i] ELSE h[i - 1] \o ss[i]]
<1>1. n \in Nat \ {0} BY EmptySeq
<1>2. Flattens(h, ss, n) BY Zenon DEF Flattens
<1>3. FlattenSeq(ss) = h[n] BY <1>1, Zenon DEF FlattenSeq
<1> HIDE DEF h
<1>4. \A i \in 1 .. n : h[i] = f[i]
  <2> HIDE DEF n
  <2>1. n \in Nat /\ n <= n BY <1>1
  <2>2. Flattens(f, ss, n) BY DEF n
  <2> QED BY <1>2, <2>1, <2>2, FlattenUnique
<1> QED BY <1>1, <1>3, <1>4

\* One sequence more.
LEMMA FlattenAppend ==
    ASSUME NEW S, NEW ss \in Seq(Seq(S)), NEW s \in Seq(S)
    PROVE  FlattenSeq(Append(ss, s)) = FlattenSeq(ss) \o s
<1> DEFINE n == Len(ss)
           tt == Append(ss, s)
<1>1. /\ n \in Nat /\ tt \in Seq(Seq(S)) /\ tt # <<>> /\ Len(tt) = n + 1
      /\ n + 1 \in Nat /\ n <= n + 1 /\ n + 1 \in 1 .. n + 1
      /\ \A i \in 1 .. n : tt[i] = ss[i]
      /\ tt[n + 1] = s
  BY AppendProperties
<1> HIDE DEF tt
<1>2. PICK f : Flattens(f, tt, n + 1) BY <1>1, FlattenExists
<1>3. FlattenSeq(tt) = f[n + 1]
  BY <1>1, <1>2, FlattenIs, Zenon
<1>4. /\ n = 0 => f[n + 1] = s
      /\ n # 0 => f[n + 1] = f[n] \o s
  <2> HIDE DEF n
  <2> DEFINE k == n + 1
  <2>0. k \in 1 .. k /\ tt[k] = s /\ (k = 1 <=> n = 0) /\ k - 1 = n BY <1>1
  <2>1. Flattens(f, tt, k) BY <1>2
  <2> HIDE DEF k
  <2>2. f[k] = IF k = 1 THEN tt[k] ELSE f[k - 1] \o tt[k]
    BY <2>0, <2>1, Zenon DEF Flattens
  <2>3. n = 0 => f[k] = s BY <2>0, <2>2, Zenon
  <2>4. n # 0 => f[k] = f[n] \o s BY <2>0, <2>2, Zenon
  <2> QED BY <2>3, <2>4 DEF k
<1>5. CASE n = 0
  <2>1. ss = <<>> BY <1>5, EmptySeq
  <2>2. FlattenSeq(ss) \o s = s BY <2>1, FlattenEmpty, ConcatEmptySeq
  <2> QED BY <1>3, <1>4, <1>5, <2>2 DEF tt
<1>6. CASE n # 0
  <2>1. n \in 1 .. n BY <1>1, <1>6
  <2>2. PICK g : Flattens(g, ss, n) BY <1>1, FlattenExists
  <2>3. FlattenSeq(ss) = g[n]
    <3>1. ss # <<>> BY <1>6
    <3> QED BY <2>2, <3>1, FlattenIs, Zenon
  <2>4. g[n] = f[n]
    <3> HIDE DEF n
    <3>1. \A i \in 1 .. n : ss[i] = tt[i] BY <1>1
    <3>2. \A i \in 1 .. n : g[i] = f[i]
      <4> DEFINE m == n + 1
      <4>1. n \in Nat /\ m \in Nat /\ n <= m /\ Flattens(f, tt, m)
        BY <1>1, <1>2
      <4> HIDE DEF m
      <4> QED BY <2>2, <3>1, <4>1, FlattenUnique
    <3> QED BY <2>1, <3>2
  <2> QED BY <1>3, <1>4, <1>6, <2>3, <2>4, Zenon DEF tt
<1> QED BY <1>5, <1>6

\* FlattenSeq of sequences with one before them.
LEMMA FlattenPrepend ==
    ASSUME NEW S, NEW ss \in Seq(Seq(S)), NEW s \in Seq(S)
    PROVE  /\ FlattenSeq(ss) \in Seq(S)
           /\ FlattenSeq(<<s>> \o ss) = s \o FlattenSeq(ss)
<1> DEFINE Good(tt) == /\ FlattenSeq(tt) \in Seq(S)
                       /\ FlattenSeq(<<s>> \o tt) = s \o FlattenSeq(tt)
           T == {tt \in Seq(Seq(S)) : ~ Good(tt)}
<1>1. Good(<<>>)
  <2>1. <<s>> = Append(<<>>, s) /\ <<>> \in Seq(Seq(S)) OBVIOUS
  <2>2. FlattenSeq(Append(<<>>, s)) = FlattenSeq(<<>>) \o s BY <2>1, FlattenAppend
  <2>3. FlattenSeq(<<>>) = <<>> /\ <<>> \in Seq(S) BY FlattenEmpty
  <2>4. <<>> \o s = s /\ s \o <<>> = s BY ConcatEmptySeq
  <2>5. <<s>> \o <<>> = <<s>> OBVIOUS
  <2> QED BY <2>1, <2>2, <2>3, <2>4, <2>5
<1>2. ASSUME NEW tt \in Seq(Seq(S)), NEW t \in Seq(S), Good(tt)
      PROVE  Good(Append(tt, t))
  <2>1. FlattenSeq(Append(tt, t)) = FlattenSeq(tt) \o t BY FlattenAppend
  <2>2. PICK h : h = <<s>> OBVIOUS
  <2>3. h \in Seq(Seq(S)) BY <2>2
  <2>4. h \o tt \in Seq(Seq(S)) BY <2>3, ConcatProperties
  <2>5. h \o Append(tt, t) = Append(h \o tt, t) BY <2>3
  <2>6. FlattenSeq(Append(h \o tt, t)) = FlattenSeq(h \o tt) \o t
    BY <2>4, FlattenAppend
  <2>7. PICK r : r = FlattenSeq(tt) OBVIOUS
  <2>8. r \in Seq(S) /\ FlattenSeq(h \o tt) = s \o r BY <1>2, <2>2, <2>7
  <2>9. (s \o r) \o t = s \o (r \o t) BY <2>8
  <2>10. r \o t \in Seq(S) BY <2>8, ConcatProperties
  <2>11. FlattenSeq(h \o Append(tt, t)) = s \o FlattenSeq(Append(tt, t))
    BY <2>1, <2>5, <2>6, <2>7, <2>8, <2>9
  <2> QED BY <2>1, <2>2, <2>7, <2>10, <2>11
<1> HIDE DEF Good
<1>3. T = {}
  <2> SUFFICES ASSUME T # {} PROVE FALSE OBVIOUS
  <2>1. PICK tt \in T : \/ tt = <<>>
                        \/ \E t \in Seq(Seq(S)) \ T, b \in Seq(S) : tt = Append(t, b)
    <3>1. T \subseteq Seq(Seq(S)) OBVIOUS
    <3> HIDE DEF T
    <3> QED BY <3>1, LeastSequence
  <2>2. CASE tt = <<>> BY <1>1, <2>2
  <2>3. CASE \E t \in Seq(Seq(S)) \ T, b \in Seq(S) : tt = Append(t, b)
    <3>1. PICK t \in Seq(Seq(S)) \ T, b \in Seq(S) : tt = Append(t, b) BY <2>3
    <3>2. Good(t) OBVIOUS
    <3>3. Good(tt) BY <1>2, <3>1, <3>2
    <3> QED BY <3>3
  <2> QED BY <2>1, <2>2, <2>3
<1> QED BY <1>3 DEF Good

\* The elements of a node lie between its ends.
Fits(n) == IsNode(n) /\ n.back <= n.front /\ DOMAIN n.vals = n.back .. n.front - 1

\* The members of a node whose elements fill the places between its indices.
LEMMA FitsAre ==
    ASSUME NEW n, Fits(n)
    PROVE  /\ n.front \in Nat /\ n.back \in Nat /\ n.size \in Nat
           /\ n.back <= n.front /\ n.front <= n.size /\ n.size <= BlockSize
           /\ n.vals \in [n.back .. n.front - 1 -> Values]
           /\ ElementsOf(n) \in Seq(Values) /\ Len(ElementsOf(n)) = n.front - n.back
           /\ \A i \in 1 .. n.front - n.back : ElementsOf(n)[i] = n.vals[n.front - i]
<1>1. n \in Node /\ 1 <= n.size /\ n.front <= n.size BY DEF Fits, IsNode
<1>2. /\ n.front \in Nat /\ n.back \in Nat /\ n.size \in Nat
      /\ n.back <= n.front /\ n.front <= n.size /\ n.size <= BlockSize
  BY <1>1, DequeAssumption DEF Node, Fits
<1>3. n.vals \in [n.back .. n.front - 1 -> Values]
  <2>1. PICK places \in SUBSET Indices : n.vals \in [places -> Values] BY <1>1 DEF Node
  <2>2. DOMAIN n.vals = places BY <2>1
  <2> QED BY <2>1, <2>2 DEF Fits
<1>4. PICK k : k = n.front - n.back OBVIOUS
<1>5. k \in Nat /\ \A i \in 1 .. k : n.vals[n.front - i] \in Values
  <2>1. k \in Nat BY <1>2, <1>4
  <2>2. \A i \in 1 .. k : n.front - i \in n.back .. n.front - 1 BY <1>2, <1>4
  <2> QED BY <1>3, <2>1, <2>2
<1>6. PICK s : s = [i \in 1 .. k |-> n.vals[n.front - i]] OBVIOUS
<1>7. s \in Seq(Values) /\ Len(s) = k /\ \A i \in 1 .. k : s[i] = n.vals[n.front - i]
  BY <1>5, <1>6
<1>8. ElementsOf(n) = s BY <1>4, <1>6 DEF ElementsOf
<1> QED BY <1>2, <1>3, <1>4, <1>7, <1>8

\* The elements of several nodes.
NodesFit(d, s) == \A i \in 1 .. Len(s) : Fits(d.nodes[s[i]])

\* ElementsIn, as the flattening of what each node holds.
LEMMA ElementsInIs ==
    ASSUME NEW d, NEW s \in Seq(Id), NodesFit(d, s)
    PROVE  \E ss \in Seq(Seq(Values)) :
              /\ ElementsIn(d, s) = FlattenSeq(ss) /\ Len(ss) = Len(s)
              /\ \A i \in 1 .. Len(s) : ss[i] = ElementsOf(d.nodes[s[i]])
<1>1. PICK n : n = Len(s) OBVIOUS
<1>2. n \in Nat /\ DOMAIN s = 1 .. n BY <1>1, LenProperties
<1>3. PICK ss : ss = [i \in 1 .. n |-> ElementsOf(d.nodes[s[i]])] OBVIOUS
<1>4. \A i \in 1 .. n : ElementsOf(d.nodes[s[i]]) \in Seq(Values)
  BY <1>1, FitsAre DEF NodesFit
<1>5. ss \in Seq(Seq(Values)) /\ Len(ss) = n
      /\ \A i \in 1 .. n : ss[i] = ElementsOf(d.nodes[s[i]])
  BY <1>2, <1>3, <1>4
<1>6. ElementsIn(d, s) = FlattenSeq(ss) BY <1>2, <1>3 DEF ElementsIn
<1> QED BY <1>1, <1>5, <1>6

\* The elements of a front node come before those of the others.
LEMMA ElementsPrepend ==
    ASSUME NEW d, NEW s \in Seq(Id), NodesFit(d, s), NEW id \in Id, Fits(d.nodes[id])
    PROVE  /\ ElementsIn(d, s) \in Seq(Values)
           /\ ElementsIn(d, <<id>> \o s) = ElementsOf(d.nodes[id]) \o ElementsIn(d, s)
<1>1. PICK t : t = <<id>> \o s OBVIOUS
<1>2. /\ t \in Seq(Id) /\ Len(s) \in Nat /\ Len(t) = Len(s) + 1
      /\ t[1] = id /\ \A i \in 1 .. Len(s) : t[i + 1] = s[i]
  BY <1>1, ConsFacts
<1>3. \A i \in 1 .. Len(t) : t[i] = IF i = 1 THEN id ELSE s[i - 1]
  <2> SUFFICES ASSUME NEW i \in 1 .. Len(t) PROVE t[i] = IF i = 1 THEN id ELSE s[i - 1]
    OBVIOUS
  <2>1. CASE i = 1 BY <1>2, <2>1
  <2>2. CASE i # 1
    <3>1. i - 1 \in 1 .. Len(s) /\ (i - 1) + 1 = i BY <1>2, <2>2
    <3> QED BY <1>2, <2>2, <3>1
  <2> QED BY <2>1, <2>2
<1>4. NodesFit(d, t)
  <2> SUFFICES ASSUME NEW i \in 1 .. Len(t) PROVE Fits(d.nodes[t[i]]) BY DEF NodesFit
  <2>1. CASE i = 1 BY <1>3, <2>1
  <2>2. CASE i # 1
    <3>1. i - 1 \in 1 .. Len(s) BY <1>2, <2>2
    <3> QED BY <1>3, <2>2, <3>1 DEF NodesFit
  <2> QED BY <2>1, <2>2
<1>5. PICK ss \in Seq(Seq(Values)) :
              /\ ElementsIn(d, s) = FlattenSeq(ss) /\ Len(ss) = Len(s)
              /\ \A i \in 1 .. Len(s) : ss[i] = ElementsOf(d.nodes[s[i]])
  BY ElementsInIs
<1>6. PICK tt \in Seq(Seq(Values)) :
              /\ ElementsIn(d, t) = FlattenSeq(tt) /\ Len(tt) = Len(t)
              /\ \A i \in 1 .. Len(t) : tt[i] = ElementsOf(d.nodes[t[i]])
  BY <1>2, <1>4, ElementsInIs
<1>7. PICK e : e = ElementsOf(d.nodes[id]) OBVIOUS
<1>8. e \in Seq(Values) BY <1>7, FitsAre
<1>9. PICK uu : uu = <<e>> \o ss OBVIOUS
<1>10. /\ uu \in Seq(Seq(Values)) /\ Len(uu) = Len(s) + 1
       /\ \A i \in 1 .. Len(s) + 1 : uu[i] = IF i = 1 THEN e ELSE ss[i - 1]
  <2>1. PICK h : h = <<e>> OBVIOUS
  <2>2. h \in Seq(Seq(Values)) /\ Len(h) = 1 /\ h[1] = e BY <1>8, <2>1
  <2>3. uu = h \o ss BY <1>9, <2>1
  <2>4. /\ h \o ss \in Seq(Seq(Values)) /\ Len(h \o ss) = Len(h) + Len(ss)
        /\ \A i \in 1 .. Len(h) + Len(ss) :
              (h \o ss)[i] = IF i <= Len(h) THEN h[i] ELSE ss[i - Len(h)]
    BY <2>2, ConcatProperties, Zenon
  <2>5. /\ uu \in Seq(Seq(Values)) /\ Len(uu) = 1 + Len(s)
        /\ \A i \in 1 .. 1 + Len(s) : uu[i] = IF i <= 1 THEN h[i] ELSE ss[i - 1]
    BY <1>5, <2>2, <2>3, <2>4
  <2> QED BY <1>2, <2>2, <2>5
<1>11. tt = uu
  <2>1. Len(tt) = Len(s) + 1 BY <1>2, <1>6
  <2>2. \A i \in 1 .. Len(s) + 1 : tt[i] = uu[i]
    <3> SUFFICES ASSUME NEW i \in 1 .. Len(s) + 1 PROVE tt[i] = uu[i] OBVIOUS
    <3>1. tt[i] = ElementsOf(d.nodes[t[i]]) BY <1>2, <1>6
    <3>2. CASE i = 1 BY <1>2, <1>7, <1>10, <3>1, <3>2
    <3>3. CASE i # 1
      <4>1. i - 1 \in 1 .. Len(s) BY <1>2, <3>3
      <4>2. t[i] = s[i - 1] BY <1>2, <1>3, <3>3
      <4>3. ss[i - 1] = ElementsOf(d.nodes[s[i - 1]]) BY <1>5, <4>1
      <4> QED BY <1>10, <3>1, <3>3, <4>2, <4>3
    <3> QED BY <3>2, <3>3
  <2> QED BY <1>6, <1>10, <2>1, <2>2, SeqEqual
<1>12. /\ FlattenSeq(ss) \in Seq(Values)
       /\ FlattenSeq(uu) = e \o FlattenSeq(ss)
  BY <1>8, <1>9, FlattenPrepend
<1> QED BY <1>1, <1>5, <1>6, <1>7, <1>11, <1>12

\* The elements of a back node come behind those of the others.
LEMMA ElementsAppend ==
    ASSUME NEW d, NEW s \in Seq(Id), NodesFit(d, s), NEW id \in Id, Fits(d.nodes[id])
    PROVE  ElementsIn(d, Append(s, id)) = ElementsIn(d, s) \o ElementsOf(d.nodes[id])
<1>1. PICK t : t = Append(s, id) OBVIOUS
<1>2. /\ t \in Seq(Id) /\ Len(s) \in Nat /\ Len(t) = Len(s) + 1
      /\ t[Len(s) + 1] = id /\ \A i \in 1 .. Len(s) : t[i] = s[i]
  BY <1>1, AppendProperties, LenProperties
<1>3. NodesFit(d, t)
  <2> SUFFICES ASSUME NEW i \in 1 .. Len(t) PROVE Fits(d.nodes[t[i]]) BY DEF NodesFit
  <2>1. CASE i = Len(s) + 1 BY <1>2, <2>1
  <2>2. CASE i # Len(s) + 1
    <3>1. i \in 1 .. Len(s) BY <1>2, <2>2
    <3> QED BY <1>2, <3>1 DEF NodesFit
  <2> QED BY <2>1, <2>2
<1>4. PICK ss \in Seq(Seq(Values)) :
              /\ ElementsIn(d, s) = FlattenSeq(ss) /\ Len(ss) = Len(s)
              /\ \A i \in 1 .. Len(s) : ss[i] = ElementsOf(d.nodes[s[i]])
  BY ElementsInIs
<1>5. PICK tt \in Seq(Seq(Values)) :
              /\ ElementsIn(d, t) = FlattenSeq(tt) /\ Len(tt) = Len(t)
              /\ \A i \in 1 .. Len(t) : tt[i] = ElementsOf(d.nodes[t[i]])
  BY <1>2, <1>3, ElementsInIs
<1>6. PICK e : e = ElementsOf(d.nodes[id]) OBVIOUS
<1>7. e \in Seq(Values) BY <1>6, FitsAre
<1>8. PICK uu : uu = Append(ss, e) OBVIOUS
<1>9. /\ uu \in Seq(Seq(Values)) /\ Len(uu) = Len(s) + 1
      /\ uu[Len(s) + 1] = e /\ \A i \in 1 .. Len(s) : uu[i] = ss[i]
  BY <1>4, <1>7, <1>8, AppendProperties
<1>10. tt = uu
  <2>1. Len(tt) = Len(s) + 1 BY <1>2, <1>5
  <2>2. \A i \in 1 .. Len(s) + 1 : tt[i] = uu[i]
    <3> SUFFICES ASSUME NEW i \in 1 .. Len(s) + 1 PROVE tt[i] = uu[i] OBVIOUS
    <3>1. tt[i] = ElementsOf(d.nodes[t[i]]) BY <1>2, <1>5
    <3>2. CASE i = Len(s) + 1 BY <1>2, <1>6, <1>9, <3>1, <3>2
    <3>3. CASE i # Len(s) + 1
      <4>1. i \in 1 .. Len(s) BY <1>2, <3>3
      <4> QED BY <1>2, <1>4, <1>9, <3>1, <4>1
    <3> QED BY <3>2, <3>3
  <2> QED BY <1>5, <1>9, <2>1, <2>2, SeqEqual
<1>11. FlattenSeq(uu) = FlattenSeq(ss) \o e BY <1>7, <1>8, FlattenAppend
<1> QED BY <1>1, <1>4, <1>5, <1>6, <1>10, <1>11

\* What holds the same elements.
LEMMA ElementsSame ==
    ASSUME NEW d, NEW e, NEW s \in Seq(Id),
           \A i \in 1 .. Len(s) : ElementsOf(e.nodes[s[i]]) = ElementsOf(d.nodes[s[i]])
    PROVE  ElementsIn(e, s) = ElementsIn(d, s)
<1>1. DOMAIN s = 1 .. Len(s) BY LenProperties
<1>2. PICK x : x = [i \in DOMAIN s |-> ElementsOf(e.nodes[s[i]])] OBVIOUS
<1>3. PICK y : y = [i \in DOMAIN s |-> ElementsOf(d.nodes[s[i]])] OBVIOUS
<1>4. x = y BY <1>1, <1>2, <1>3
<1> QED BY <1>2, <1>3, <1>4 DEF ElementsIn

-----------------------------------------------------------------------------
(* A node with one more element, or one less.                              *)

\* A node with one element more, or one less: its links are the same.
NodeGrown(m, n) ==
    /\ Fits(m) /\ m.back < m.front
    /\ m.prev = n.prev /\ m.next = n.next /\ m.size = n.size

FrontPut(n, v) == [n EXCEPT !.vals = Put(n.vals, n.front, v), !.front = n.front + 1]
BackPut(n, v) == [n EXCEPT !.vals = Put(n.vals, n.back - 1, v), !.back = n.back - 1]
FrontLess(n, index) == [Without(n, index) EXCEPT !.front = index]
BackLess(n, index) == [Without(n, index) EXCEPT !.back = index + 1]

\* A value stored in front of a node is its first element.
LEMMA FrontStoredNode ==
    ASSUME NEW n, Fits(n), n.front < n.size, NEW v \in Values, NEW m,
           m = FrontPut(n, v)
    PROVE  NodeGrown(m, n) /\ ElementsOf(m) = <<v>> \o ElementsOf(n)
<1>1. /\ n.front \in Nat /\ n.back \in Nat /\ n.size \in Nat
      /\ n.back <= n.front /\ n.size <= BlockSize
      /\ n.vals \in [n.back .. n.front - 1 -> Values]
  BY FitsAre
<1>2. IsNode(n) BY DEF Fits
<1>3. PICK p : p = [n EXCEPT !.vals = Put(n.vals, n.front, v)] OBVIOUS
<1>4. n.front \in Indices /\ n.front + 1 \in 0 .. n.size
  BY <1>1, DequeAssumption DEF Indices
<1>5. IsNode(p) BY <1>2, <1>3, <1>4, NodeFields
<1>6. p.size = n.size BY <1>2, <1>3 DEF IsNode, Node
<1>7. m = [p EXCEPT !.front = n.front + 1] BY <1>3 DEF FrontPut
<1>8. IsNode(m)
  <2>1. n.front + 1 \in 0 .. p.size BY <1>4, <1>6
  <2> QED BY <1>5, <1>7, <2>1, NodeFields
<1>9. /\ m.front = n.front + 1 /\ m.back = n.back /\ m.size = n.size
      /\ m.prev = n.prev /\ m.next = n.next /\ m.vals = Put(n.vals, n.front, v)
  BY <1>2 DEF IsNode, Node, FrontPut
<1>10. /\ DOMAIN m.vals = m.back .. m.front - 1
       /\ m.vals[n.front] = v
       /\ \A i \in n.back .. n.front - 1 : m.vals[i] = n.vals[i]
  <2>1. m.vals = [z \in (n.back .. n.front - 1) \cup {n.front} |->
                    IF z = n.front THEN v ELSE n.vals[z]]
    BY <1>1, <1>9 DEF Put
  <2>2. (n.back .. n.front - 1) \cup {n.front} = m.back .. m.front - 1 BY <1>1, <1>9
  <2>3. n.front \notin n.back .. n.front - 1 BY <1>1
  <2> QED BY <2>1, <2>2, <2>3
<1>11. Fits(m) BY <1>1, <1>8, <1>9, <1>10 DEF Fits
<1>12. PICK s : s = ElementsOf(n) OBVIOUS
<1>13. PICK t : t = ElementsOf(m) OBVIOUS
<1>14. /\ s \in Seq(Values) /\ Len(s) = n.front - n.back
       /\ \A i \in 1 .. n.front - n.back : s[i] = n.vals[n.front - i]
  BY <1>12, FitsAre
<1>15. /\ t \in Seq(Values) /\ Len(t) = m.front - m.back
       /\ \A i \in 1 .. m.front - m.back : t[i] = m.vals[m.front - i]
  BY <1>11, <1>13, FitsAre
<1>16. PICK k : k = n.front - n.back OBVIOUS
<1>17. k \in Nat /\ Len(s) = k /\ Len(t) = k + 1 BY <1>1, <1>9, <1>14, <1>15, <1>16
<1>18. PICK u : u = <<v>> \o s OBVIOUS
<1>19. /\ u \in Seq(Values) /\ Len(u) = Len(s) + 1 /\ u[1] = v
       /\ \A i \in 1 .. Len(s) : u[i + 1] = s[i]
  BY <1>14, <1>18, ConsFacts
<1>20. Len(u) = Len(t) BY <1>17, <1>19
<1>21. \A i \in 1 .. Len(t) : t[i] = u[i]
  <2> SUFFICES ASSUME NEW i \in 1 .. Len(t) PROVE t[i] = u[i] OBVIOUS
  <2>1. i \in 1 .. m.front - m.back BY <1>15
  <2>2. t[i] = m.vals[m.front - i] BY <1>15, <2>1
  <2>3. CASE i = 1
    <3>1. m.front - i = n.front BY <1>1, <1>9, <2>3
    <3> QED BY <1>10, <1>19, <2>2, <2>3, <3>1
  <2>4. CASE i # 1
    <3>1. PICK j : j = i - 1 OBVIOUS
    <3>2. j \in 1 .. k /\ j + 1 = i BY <1>17, <2>4, <3>1
    <3>3. u[i] = s[j] BY <1>17, <1>19, <3>2
    <3>4. s[j] = n.vals[n.front - j] BY <1>14, <1>16, <3>2
    <3>5. m.front - i = n.front - j /\ n.front - j \in n.back .. n.front - 1
      <4>1. n.front \in Nat /\ n.back \in Nat /\ m.front = n.front + 1 BY <1>1, <1>9
      <4>2. k = n.front - n.back /\ j \in 1 .. k /\ j + 1 = i BY <1>16, <3>2
      <4> QED BY <4>1, <4>2
    <3> QED BY <1>10, <2>2, <3>3, <3>4, <3>5
  <2> QED BY <2>3, <2>4
<1>22. t = u BY <1>15, <1>19, <1>20, <1>21, SeqEqual
<1>23. NodeGrown(m, n) BY <1>1, <1>9, <1>11 DEF NodeGrown
<1> QED BY <1>12, <1>13, <1>18, <1>22, <1>23

\* A value stored behind a node is its last element.
LEMMA BackStoredNode ==
    ASSUME NEW n, Fits(n), n.back # 0, NEW v \in Values, NEW m,
           m = BackPut(n, v)
    PROVE  NodeGrown(m, n) /\ ElementsOf(m) = Append(ElementsOf(n), v)
<1>1. /\ n.front \in Nat /\ n.back \in Nat /\ n.size \in Nat
      /\ n.back <= n.front /\ n.front <= n.size /\ n.size <= BlockSize
      /\ n.vals \in [n.back .. n.front - 1 -> Values]
  BY FitsAre
<1>2. IsNode(n) BY DEF Fits
<1>3. PICK b : b = n.back - 1 OBVIOUS
<1>4. b \in Indices /\ b \in 0 .. BlockSize /\ b \in Nat /\ b + 1 = n.back
  BY <1>1, <1>3, DequeAssumption DEF Indices
<1>5. PICK p : p = [n EXCEPT !.vals = Put(n.vals, b, v)] OBVIOUS
<1>6. IsNode(p) BY <1>2, <1>4, <1>5, NodeFields
<1>7. m = [p EXCEPT !.back = b] BY <1>3, <1>5 DEF BackPut
<1>8. IsNode(m) BY <1>4, <1>6, <1>7, NodeFields
<1>9. /\ m.front = n.front /\ m.back = b /\ m.size = n.size
      /\ m.prev = n.prev /\ m.next = n.next /\ m.vals = Put(n.vals, b, v)
  BY <1>2, <1>3 DEF IsNode, Node, BackPut
<1>10. /\ DOMAIN m.vals = m.back .. m.front - 1
       /\ m.vals[b] = v
       /\ \A i \in n.back .. n.front - 1 : m.vals[i] = n.vals[i]
  <2>1. m.vals = [z \in (n.back .. n.front - 1) \cup {b} |->
                    IF z = b THEN v ELSE n.vals[z]]
    BY <1>1, <1>9 DEF Put
  <2>2. (n.back .. n.front - 1) \cup {b} = m.back .. m.front - 1 BY <1>1, <1>4, <1>9
  <2>3. b \notin n.back .. n.front - 1 BY <1>1, <1>4
  <2> QED BY <2>1, <2>2, <2>3
<1>11. Fits(m) BY <1>1, <1>4, <1>8, <1>9, <1>10 DEF Fits
<1>12. PICK s : s = ElementsOf(n) OBVIOUS
<1>13. PICK t : t = ElementsOf(m) OBVIOUS
<1>14. /\ s \in Seq(Values) /\ Len(s) = n.front - n.back
       /\ \A i \in 1 .. n.front - n.back : s[i] = n.vals[n.front - i]
  BY <1>12, FitsAre
<1>15. /\ t \in Seq(Values) /\ Len(t) = m.front - m.back
       /\ \A i \in 1 .. m.front - m.back : t[i] = m.vals[m.front - i]
  BY <1>11, <1>13, FitsAre
<1>16. PICK u : u = Append(s, v) OBVIOUS
<1>17. /\ u \in Seq(Values) /\ Len(u) = Len(s) + 1
       /\ u[Len(s) + 1] = v /\ \A i \in 1 .. Len(s) : u[i] = s[i]
  BY <1>14, <1>16, AppendProperties
<1>18. Len(u) = Len(t) BY <1>1, <1>4, <1>9, <1>14, <1>15, <1>17
<1>19. \A i \in 1 .. Len(t) : t[i] = u[i]
  <2> SUFFICES ASSUME NEW i \in 1 .. Len(t) PROVE t[i] = u[i] OBVIOUS
  <2>1. t[i] = m.vals[n.front - i] BY <1>9, <1>15
  <2>2. CASE i = Len(s) + 1
    <3>1. n.front - i = b BY <1>1, <1>4, <1>14, <2>2
    <3> QED BY <1>10, <1>17, <2>1, <2>2, <3>1
  <2>3. CASE i # Len(s) + 1
    <3>1. i \in 1 .. Len(s) /\ i \in 1 .. n.front - n.back
      BY <1>1, <1>14, <1>17, <1>18, <2>3
    <3>2. n.front - i \in n.back .. n.front - 1 BY <1>1, <3>1
    <3>3. u[i] = s[i] /\ s[i] = n.vals[n.front - i] BY <1>14, <1>17, <3>1
    <3> QED BY <1>10, <2>1, <3>2, <3>3
  <2> QED BY <2>2, <2>3
<1>20. t = u BY <1>15, <1>17, <1>18, <1>19, SeqEqual
<1>21. NodeGrown(m, n) BY <1>1, <1>4, <1>9, <1>11 DEF NodeGrown
<1> QED BY <1>12, <1>13, <1>16, <1>20, <1>21

\* A node is as it was, but for one element.
NodeLeft(m, n) ==
    /\ Fits(m) /\ m.prev = n.prev /\ m.next = n.next /\ m.size = n.size

\* A node seen from the one it came from, with an element put back.
LEMMA FrontTakenNode ==
    ASSUME NEW n, Fits(n), n.back < n.front, NEW index, index = n.front - 1, NEW m,
           m = FrontLess(n, index)
    PROVE  /\ NodeLeft(m, n) /\ m.front = index /\ m.back = n.back
           /\ n.vals[index] \in Values
           /\ ElementsOf(n) = <<n.vals[index]>> \o ElementsOf(m)
<1>1. /\ n.front \in Nat /\ n.back \in Nat /\ n.size \in Nat
      /\ n.front <= n.size /\ n.size <= BlockSize
      /\ n.vals \in [n.back .. n.front - 1 -> Values]
  BY FitsAre
<1>2. IsNode(n) BY DEF Fits
<1>3. index \in n.back .. n.front - 1 /\ index \in 0 .. n.size BY <1>1
<1>4. n.vals[index] \in Values BY <1>1, <1>3
<1>5. PICK p : p = Without(n, index) OBVIOUS
<1>6. IsNode(p) BY <1>2, <1>5, NodeFields DEF Without
<1>7. p.size = n.size BY <1>2, <1>5 DEF IsNode, Node, Without
<1>8. m = [p EXCEPT !.front = index] BY <1>5 DEF FrontLess
<1>9. IsNode(m)
  <2>1. index \in 0 .. p.size BY <1>3, <1>7
  <2> QED BY <1>6, <1>8, <2>1, NodeFields
<1>10. /\ m.front = index /\ m.back = n.back /\ m.size = n.size
       /\ m.prev = n.prev /\ m.next = n.next
       /\ m.vals = [i \in DOMAIN n.vals \ {index} |-> n.vals[i]]
  BY <1>2 DEF IsNode, Node, Without, FrontLess
<1>11. /\ DOMAIN m.vals = m.back .. m.front - 1
       /\ \A i \in m.back .. m.front - 1 : m.vals[i] = n.vals[i]
  <2>1. DOMAIN n.vals = n.back .. n.front - 1 BY <1>1
  <2>2. (n.back .. n.front - 1) \ {index} = m.back .. m.front - 1 BY <1>1, <1>10
  <2> QED BY <1>10, <2>1, <2>2
<1>12. Fits(m) BY <1>1, <1>3, <1>9, <1>10, <1>11 DEF Fits
<1>13. PICK s : s = ElementsOf(m) OBVIOUS
<1>14. PICK t : t = ElementsOf(n) OBVIOUS
<1>15. PICK v : v = n.vals[index] OBVIOUS
<1>16. /\ s \in Seq(Values) /\ Len(s) = m.front - m.back
       /\ \A i \in 1 .. m.front - m.back : s[i] = m.vals[m.front - i]
  BY <1>12, <1>13, FitsAre
<1>17. /\ t \in Seq(Values) /\ Len(t) = n.front - n.back
       /\ \A i \in 1 .. n.front - n.back : t[i] = n.vals[n.front - i]
  BY <1>14, FitsAre
<1>18. PICK k : k = m.front - m.back OBVIOUS
<1>19. k \in Nat /\ Len(s) = k /\ Len(t) = k + 1 BY <1>1, <1>3, <1>10, <1>16, <1>17, <1>18
<1>20. PICK u : u = <<v>> \o s OBVIOUS
<1>21. v \in Values BY <1>4, <1>15
<1>22. /\ u \in Seq(Values) /\ Len(u) = Len(s) + 1 /\ u[1] = v
       /\ \A i \in 1 .. Len(s) : u[i + 1] = s[i]
  BY <1>16, <1>20, <1>21, ConsFacts
<1>23. \A i \in 1 .. Len(t) : t[i] = u[i]
  <2> SUFFICES ASSUME NEW i \in 1 .. Len(t) PROVE t[i] = u[i] OBVIOUS
  <2>1. i \in 1 .. n.front - n.back BY <1>17
  <2>2. t[i] = n.vals[n.front - i] BY <1>17, <2>1
  <2>3. CASE i = 1
    <3>1. n.front - i = index BY <1>1, <2>3
    <3> QED BY <1>15, <1>22, <2>2, <2>3, <3>1
  <2>4. CASE i # 1
    <3>1. PICK j : j = i - 1 OBVIOUS
    <3>2. j \in 1 .. k /\ j + 1 = i BY <1>19, <2>4, <3>1
    <3>3. u[i] = s[j] BY <1>19, <1>22, <3>2
    <3>4. s[j] = m.vals[m.front - j] BY <1>16, <1>18, <3>2
    <3>5. n.front - i = m.front - j
      <4>1. m.front = n.front - 1 /\ n.front \in Int /\ j \in Int /\ i = j + 1
        BY <1>1, <1>10, <1>19, <3>1, <3>2
      <4> QED BY <4>1
    <3>6. m.front - j \in m.back .. m.front - 1
      <4>1. m.front \in Int /\ m.back \in Int BY <1>1, <1>3, <1>10
      <4> QED BY <1>18, <3>2, <4>1
    <3> QED BY <1>11, <2>2, <3>3, <3>4, <3>5, <3>6
  <2> QED BY <2>3, <2>4
<1>24. t = u
  <2>1. Len(u) = Len(t) BY <1>19, <1>22
  <2> QED BY <1>17, <1>22, <1>23, <2>1, SeqEqual
<1>25. NodeLeft(m, n) BY <1>10, <1>12 DEF NodeLeft
<1> QED BY <1>4, <1>10, <1>13, <1>14, <1>15, <1>20, <1>24, <1>25

\* The element at the back of a node was its last.
LEMMA BackTakenNode ==
    ASSUME NEW n, Fits(n), n.back < n.front, NEW index, index = n.back, NEW m,
           m = BackLess(n, index)
    PROVE  /\ NodeLeft(m, n) /\ m.front = n.front /\ m.back = index + 1
           /\ n.vals[index] \in Values
           /\ ElementsOf(n) = Append(ElementsOf(m), n.vals[index])
<1>1. /\ n.front \in Nat /\ n.back \in Nat /\ n.size \in Nat
      /\ n.front <= n.size /\ n.size <= BlockSize
      /\ n.vals \in [n.back .. n.front - 1 -> Values]
  BY FitsAre
<1>2. IsNode(n) BY DEF Fits
<1>3. index \in n.back .. n.front - 1 /\ index + 1 \in 0 .. BlockSize
  BY <1>1, DequeAssumption
<1>4. n.vals[index] \in Values BY <1>1, <1>3
<1>5. PICK p : p = Without(n, index) OBVIOUS
<1>6. IsNode(p) BY <1>2, <1>5, NodeFields DEF Without
<1>7. m = [p EXCEPT !.back = index + 1] BY <1>5 DEF BackLess
<1>8. IsNode(m) BY <1>3, <1>6, <1>7, NodeFields
<1>9. /\ m.front = n.front /\ m.back = index + 1 /\ m.size = n.size
      /\ m.prev = n.prev /\ m.next = n.next
      /\ m.vals = [i \in DOMAIN n.vals \ {index} |-> n.vals[i]]
  BY <1>2 DEF IsNode, Node, Without, BackLess
<1>10. /\ DOMAIN m.vals = m.back .. m.front - 1
       /\ \A i \in m.back .. m.front - 1 : m.vals[i] = n.vals[i]
  <2>1. DOMAIN n.vals = n.back .. n.front - 1 BY <1>1
  <2>2. (n.back .. n.front - 1) \ {index} = m.back .. m.front - 1 BY <1>1, <1>9
  <2> QED BY <1>9, <2>1, <2>2
<1>11. Fits(m) BY <1>1, <1>3, <1>8, <1>9, <1>10 DEF Fits
<1>12. PICK s : s = ElementsOf(m) OBVIOUS
<1>13. PICK t : t = ElementsOf(n) OBVIOUS
<1>14. PICK v : v = n.vals[index] OBVIOUS
<1>15. /\ s \in Seq(Values) /\ Len(s) = m.front - m.back
       /\ \A i \in 1 .. m.front - m.back : s[i] = m.vals[m.front - i]
  BY <1>11, <1>12, FitsAre
<1>16. /\ t \in Seq(Values) /\ Len(t) = n.front - n.back
       /\ \A i \in 1 .. n.front - n.back : t[i] = n.vals[n.front - i]
  BY <1>13, FitsAre
<1>17. PICK u : u = Append(s, v) OBVIOUS
<1>18. v \in Values BY <1>4, <1>14
<1>19. /\ u \in Seq(Values) /\ Len(u) = Len(s) + 1
       /\ u[Len(s) + 1] = v /\ \A i \in 1 .. Len(s) : u[i] = s[i]
  BY <1>15, <1>17, <1>18, AppendProperties
<1>20. Len(u) = Len(t) BY <1>1, <1>9, <1>15, <1>16, <1>19
<1>21. \A i \in 1 .. Len(t) : t[i] = u[i]
  <2> SUFFICES ASSUME NEW i \in 1 .. Len(t) PROVE t[i] = u[i] OBVIOUS
  <2>1. t[i] = n.vals[n.front - i] BY <1>16
  <2>2. CASE i = Len(s) + 1
    <3>1. n.front - i = index BY <1>1, <1>9, <1>15, <2>2
    <3> QED BY <1>14, <1>19, <2>1, <2>2, <3>1
  <2>3. CASE i # Len(s) + 1
    <3>1. i \in 1 .. Len(s) /\ i \in 1 .. m.front - m.back
      BY <1>1, <1>9, <1>15, <1>19, <1>20, <2>3
    <3>2. m.front - i \in m.back .. m.front - 1 BY <1>1, <1>9, <3>1
    <3>3. u[i] = s[i] /\ s[i] = m.vals[m.front - i] BY <1>15, <1>19, <3>1
    <3>4. m.vals[m.front - i] = n.vals[m.front - i] BY <1>10, <3>2
    <3>5. m.front - i = n.front - i BY <1>9
    <3> QED BY <2>1, <3>3, <3>4, <3>5
  <2> QED BY <2>2, <2>3
<1>22. t = u BY <1>16, <1>19, <1>20, <1>21, SeqEqual
<1>23. NodeLeft(m, n) BY <1>9, <1>11 DEF NodeLeft
<1> QED BY <1>4, <1>9, <1>12, <1>13, <1>14, <1>17, <1>22, <1>23

-----------------------------------------------------------------------------
(* A deque whose nodes, links and elements agree.                          *)

\* A sequence that is not empty has a first element, and a last.
LEMMA ConsSplit ==
    ASSUME NEW S, NEW s \in Seq(S), s # <<>>
    PROVE  \E x \in S, r \in Seq(S) : s = <<x>> \o r
<1>1. PICK x \in S : x = Head(s) BY HeadTailProperties
<1>2. PICK r \in Seq(S) : r = Tail(s) BY HeadTailProperties
<1>3. /\ Len(s) \in Nat /\ Len(r) = Len(s) - 1 /\ s[1] = x
      /\ \A i \in 1 .. Len(r) : r[i] = s[i + 1]
  BY <1>1, <1>2, HeadTailProperties
<1>4. PICK t : t = <<x>> \o r OBVIOUS
<1>5. /\ t \in Seq(S) /\ Len(r) \in Nat /\ Len(t) = Len(r) + 1 /\ t[1] = x
      /\ \A i \in 1 .. Len(r) : t[i + 1] = r[i]
  BY <1>4, ConsFacts
<1>6. \A i \in 1 .. Len(s) : s[i] = t[i]
  <2> SUFFICES ASSUME NEW i \in 1 .. Len(s) PROVE s[i] = t[i] OBVIOUS
  <2>1. CASE i = 1 BY <1>3, <1>5, <2>1
  <2>2. CASE i # 1
    <3>1. i - 1 \in 1 .. Len(r) /\ (i - 1) + 1 = i BY <1>3, <2>2
    <3> QED BY <1>3, <1>5, <3>1
  <2> QED BY <2>1, <2>2
<1>7. s = t
  <2>1. Len(s) = Len(t) BY <1>3, <1>5
  <2> QED BY <1>5, <1>6, <2>1, SeqEqual
<1> QED BY <1>4, <1>7

\* Every node in use holds an element.
Filled(d, s) == \A i \in 1 .. Len(s) : d.nodes[s[i]].back < d.nodes[s[i]].front

\* fs are the nodes in use, from the front, and rs those reserved.
Whole(d, fs, rs) ==
    /\ IsDeque(d) /\ Chained(d, fs, rs)
    /\ NodesFit(d, fs) /\ Filled(d, fs)
    /\ d.count = Len(ElementsIn(d, fs))

\* s is what the deque holds.
Holding(d, s) == \E fs, rs : Whole(d, fs, rs) /\ s = ElementsIn(d, fs)

\* The elements of nodes are values.
LEMMA ElementsType ==
    ASSUME NEW d, NEW s \in Seq(Id), NodesFit(d, s)
    PROVE  ElementsIn(d, s) \in Seq(Values)
<1>1. PICK ss \in Seq(Seq(Values)) : ElementsIn(d, s) = FlattenSeq(ss) BY ElementsInIs
<1>2. <<>> \in Seq(Values) OBVIOUS
<1>3. FlattenSeq(ss) \in Seq(Values) BY <1>2, FlattenPrepend
<1> QED BY <1>1, <1>3

\* No nodes hold no elements.
LEMMA ElementsNone ==
    ASSUME NEW d
    PROVE  ElementsIn(d, <<>>) = <<>>
<1>1. PICK f : f = [i \in DOMAIN <<>> |-> ElementsOf(d.nodes[<<>>[i]])] OBVIOUS
<1>2. f = <<>> BY <1>1
<1> QED BY <1>1, <1>2, FlattenEmpty DEF ElementsIn

\* The nodes of a sequence, one by one.
LEMMA NodesFitCons ==
    ASSUME NEW d, NEW s \in Seq(Id), NEW id \in Id
    PROVE  /\ NodesFit(d, <<id>> \o s) <=> Fits(d.nodes[id]) /\ NodesFit(d, s)
           /\ Filled(d, <<id>> \o s) <=>
                 d.nodes[id].back < d.nodes[id].front /\ Filled(d, s)
<1>1. PICK t : t = <<id>> \o s OBVIOUS
<1>2. /\ Len(s) \in Nat /\ Len(t) = Len(s) + 1 /\ t[1] = id
      /\ \A i \in 1 .. Len(s) : t[i + 1] = s[i]
  BY <1>1, ConsFacts
<1>3. ASSUME NEW P, P \subseteq Id
      PROVE  (\A i \in 1 .. Len(t) : t[i] \in P)
               <=> id \in P /\ \A i \in 1 .. Len(s) : s[i] \in P
  <2>1. ASSUME \A i \in 1 .. Len(t) : t[i] \in P
        PROVE  id \in P /\ \A i \in 1 .. Len(s) : s[i] \in P
    <3>1. id \in P BY <1>2, <2>1
    <3>2. ASSUME NEW i \in 1 .. Len(s) PROVE s[i] \in P
      <4>1. i + 1 \in 1 .. Len(t) BY <1>2
      <4> QED BY <1>2, <2>1, <4>1
    <3> QED BY <3>1, <3>2
  <2>2. ASSUME id \in P, \A i \in 1 .. Len(s) : s[i] \in P, NEW i \in 1 .. Len(t)
        PROVE  t[i] \in P
    <3>1. CASE i = 1 BY <1>2, <2>2, <3>1
    <3>2. CASE i # 1
      <4>1. i - 1 \in 1 .. Len(s) /\ (i - 1) + 1 = i BY <1>2, <3>2
      <4>2. t[i] = s[i - 1] BY <1>2, <4>1
      <4> QED BY <2>2, <4>1, <4>2
    <3> QED BY <3>1, <3>2
  <2> QED BY <2>1, <2>2
<1>4. PICK A : A = {i \in Id : Fits(d.nodes[i])} OBVIOUS
<1>5. PICK B : B = {i \in Id : d.nodes[i].back < d.nodes[i].front} OBVIOUS
<1>6. /\ \A i \in 1 .. Len(s) : s[i] \in Id
      /\ \A i \in 1 .. Len(t) : t[i] \in Id
  BY <1>1, <1>2, ConsFacts, ElementOfSeq
<1>7. /\ NodesFit(d, t) <=> \A i \in 1 .. Len(t) : t[i] \in A
      /\ NodesFit(d, s) <=> \A i \in 1 .. Len(s) : s[i] \in A
      /\ Fits(d.nodes[id]) <=> id \in A
  BY <1>4, <1>6 DEF NodesFit
<1>8. /\ Filled(d, t) <=> \A i \in 1 .. Len(t) : t[i] \in B
      /\ Filled(d, s) <=> \A i \in 1 .. Len(s) : s[i] \in B
      /\ d.nodes[id].back < d.nodes[id].front <=> id \in B
  BY <1>5, <1>6 DEF Filled
<1>9. A \subseteq Id /\ B \subseteq Id BY <1>4, <1>5
<1> QED BY <1>1, <1>3, <1>7, <1>8, <1>9

\* The same with a node behind the others.
LEMMA NodesFitAppend ==
    ASSUME NEW d, NEW s \in Seq(Id), NEW id \in Id
    PROVE  /\ NodesFit(d, Append(s, id)) <=> Fits(d.nodes[id]) /\ NodesFit(d, s)
           /\ Filled(d, Append(s, id)) <=>
                 d.nodes[id].back < d.nodes[id].front /\ Filled(d, s)
<1>1. PICK t : t = Append(s, id) OBVIOUS
<1>2. /\ Len(s) \in Nat /\ Len(t) = Len(s) + 1 /\ t[Len(s) + 1] = id
      /\ t \in Seq(Id) /\ \A i \in 1 .. Len(s) : t[i] = s[i]
  BY <1>1, AppendProperties, LenProperties
<1>3. ASSUME NEW P, P \subseteq Id
      PROVE  (\A i \in 1 .. Len(t) : t[i] \in P)
               <=> id \in P /\ \A i \in 1 .. Len(s) : s[i] \in P
  <2>1. ASSUME \A i \in 1 .. Len(t) : t[i] \in P
        PROVE  id \in P /\ \A i \in 1 .. Len(s) : s[i] \in P
    <3>1. id \in P
      <4>1. Len(s) + 1 \in 1 .. Len(t) BY <1>2
      <4> QED BY <1>2, <2>1, <4>1
    <3>2. ASSUME NEW i \in 1 .. Len(s) PROVE s[i] \in P
      <4>1. i \in 1 .. Len(t) BY <1>2
      <4> QED BY <1>2, <2>1, <4>1
    <3> QED BY <3>1, <3>2
  <2>2. ASSUME id \in P, \A i \in 1 .. Len(s) : s[i] \in P, NEW i \in 1 .. Len(t)
        PROVE  t[i] \in P
    <3>1. CASE i = Len(s) + 1 BY <1>2, <2>2, <3>1
    <3>2. CASE i # Len(s) + 1
      <4>1. i \in 1 .. Len(s) BY <1>2, <3>2
      <4> QED BY <1>2, <2>2, <4>1
    <3> QED BY <3>1, <3>2
  <2> QED BY <2>1, <2>2
<1>4. PICK A : A = {i \in Id : Fits(d.nodes[i])} OBVIOUS
<1>5. PICK B : B = {i \in Id : d.nodes[i].back < d.nodes[i].front} OBVIOUS
<1>6. /\ \A i \in 1 .. Len(s) : s[i] \in Id
      /\ \A i \in 1 .. Len(t) : t[i] \in Id
  BY <1>2, ElementOfSeq
<1>7. /\ NodesFit(d, t) <=> \A i \in 1 .. Len(t) : t[i] \in A
      /\ NodesFit(d, s) <=> \A i \in 1 .. Len(s) : s[i] \in A
      /\ Fits(d.nodes[id]) <=> id \in A
  BY <1>4, <1>6 DEF NodesFit
<1>8. /\ Filled(d, t) <=> \A i \in 1 .. Len(t) : t[i] \in B
      /\ Filled(d, s) <=> \A i \in 1 .. Len(s) : s[i] \in B
      /\ d.nodes[id].back < d.nodes[id].front <=> id \in B
  BY <1>5, <1>6 DEF Filled
<1>9. A \subseteq Id /\ B \subseteq Id BY <1>4, <1>5
<1> QED BY <1>1, <1>3, <1>7, <1>8, <1>9

\* What holds the same elements in the same places.
SameNodes(e, d, s) ==
    \A i \in 1 .. Len(s) : SameElements(e.nodes[s[i]], d.nodes[s[i]])

\* Nodes with the same places filled hold the same elements.
LEMMA HeldSame ==
    ASSUME NEW d, NEW e, NEW s \in Seq(Id), SameNodes(e, d, s),
           IsDeque(e), \A i \in 1 .. Len(s) : s[i] \in Allocated(e),
           NodesFit(d, s)
    PROVE  /\ NodesFit(e, s) /\ ElementsIn(e, s) = ElementsIn(d, s)
           /\ Filled(d, s) => Filled(e, s)
<1>1. \A i \in 1 .. Len(s) : IsNode(e.nodes[s[i]]) BY AllocatedIds
<1>2. NodesFit(e, s) BY <1>1 DEF NodesFit, SameNodes, SameElements, Fits
<1>3. \A i \in 1 .. Len(s) : ElementsOf(e.nodes[s[i]]) = ElementsOf(d.nodes[s[i]])
  BY DEF SameNodes, SameElements, ElementsOf
<1>4. ElementsIn(e, s) = ElementsIn(d, s) BY <1>3, ElementsSame
<1>5. Filled(d, s) => Filled(e, s) BY DEF Filled, SameNodes, SameElements
<1> QED BY <1>2, <1>4, <1>5

\* The parts of a deque that is whole.
LEMMA WholeFacts ==
    ASSUME NEW d, NEW fs, NEW rs, Whole(d, fs, rs)
    PROVE  /\ fs \in Seq(Id) /\ rs \in Seq(Id) /\ Line(fs) /\ Line(rs)
           /\ \A id : id \in Allocated(d) <=> Holds(fs, id) \/ Holds(rs, id)
           /\ \A i \in 1 .. Len(fs) : fs[i] \in Allocated(d)
           /\ ElementsIn(d, fs) \in Seq(Values)
           /\ nullptr \notin Allocated(d)
           /\ d.front = At(fs, 1) /\ d.back = EndOf(fs) /\ d.reserved = At(rs, 1)
<1>1. IsDeque(d) /\ Chained(d, fs, rs) /\ NodesFit(d, fs) BY DEF Whole
<1>2. /\ Line(fs) /\ Line(rs)
      /\ \A id : id \in Allocated(d) <=> Holds(fs, id) \/ Holds(rs, id)
      /\ d.front = At(fs, 1) /\ d.back = EndOf(fs) /\ d.reserved = At(rs, 1)
  BY <1>1, Zenon DEF Chained
<1>3. fs \in Seq(Id) /\ rs \in Seq(Id) BY <1>2 DEF Line
<1>4. \A i \in 1 .. Len(fs) : Holds(fs, fs[i]) BY DEF Holds
<1>5. ElementsIn(d, fs) \in Seq(Values) BY <1>1, <1>3, ElementsType
<1>6. nullptr \notin Allocated(d) BY <1>1, AllocatedIds
<1> QED BY <1>2, <1>3, <1>4, <1>5, <1>6

\* There is an element where there is a node, and none without.
LEMMA EmptyIsBare ==
    ASSUME NEW d, NEW fs, NEW rs, Whole(d, fs, rs)
    PROVE  /\ d.count \in Nat
           /\ d.count = 0 <=> fs = <<>>
           /\ ElementsIn(d, fs) = <<>> <=> fs = <<>>
<1>1. PICK s : s = ElementsIn(d, fs) OBVIOUS
<1>2. fs \in Seq(Id) /\ s \in Seq(Values) BY <1>1, WholeFacts
<1>3. NodesFit(d, fs) /\ Filled(d, fs) /\ d.count = Len(s) BY <1>1 DEF Whole
<1>4. Len(s) \in Nat /\ (Len(s) = 0 <=> s = <<>>) BY <1>2, EmptySeq, LenProperties
<1>5. CASE fs = <<>>
  <2>1. s = <<>> BY <1>1, <1>5, ElementsNone
  <2> QED BY <1>1, <1>3, <1>4, <1>5, <2>1
<1>6. CASE fs # <<>>
  <2>1. PICK f \in Id, r \in Seq(Id) : fs = <<f>> \o r BY <1>2, <1>6, ConsSplit
  <2>2. /\ Fits(d.nodes[f]) /\ NodesFit(d, r)
        /\ d.nodes[f].back < d.nodes[f].front
    BY <1>3, <2>1, NodesFitCons
  <2>3. PICK h : h = ElementsOf(d.nodes[f]) OBVIOUS
  <2>4. PICK t : t = ElementsIn(d, r) OBVIOUS
  <2>5. s = h \o t /\ t \in Seq(Values)
    BY <1>1, <2>1, <2>2, <2>3, <2>4, ElementsPrepend
  <2>6. h \in Seq(Values) /\ Len(h) \in Nat /\ Len(h) # 0
    <3>1. PICK n : n = d.nodes[f] OBVIOUS
    <3>2. n.front \in Nat /\ n.back \in Nat /\ h \in Seq(Values) /\ Len(h) = n.front - n.back
      BY <2>2, <2>3, <3>1, FitsAre
    <3>3. n.back < n.front BY <2>2, <3>1
    <3> QED BY <3>2, <3>3
  <2>7. Len(s) = Len(h) + Len(t) /\ Len(t) \in Nat
    BY <2>5, <2>6, ConcatProperties, LenProperties
  <2>8. Len(s) # 0 BY <2>6, <2>7
  <2> QED BY <1>1, <1>3, <1>4, <1>6, <2>8
<1> QED BY <1>5, <1>6

\* The elements and the nodes, as the properties look at them.
LEMMA WholeIs ==
    ASSUME NEW d, NEW fs, NEW rs, Whole(d, fs, rs)
    PROVE  /\ FromFront(d) = fs
           /\ FromBack(d) = Reverse(fs)
           /\ ReservedNodes(d) = rs
           /\ Allocated(d) = ToSet(fs) \cup ToSet(rs)
           /\ ToSet(fs) \cap ToSet(rs) = {}
<1>1. Chained(d, fs, rs) /\ nullptr \notin Allocated(d) BY WholeFacts DEF Whole
<1>2. /\ Line(fs) /\ Line(rs)
      /\ \A id : id \in Allocated(d) <=> Holds(fs, id) \/ Holds(rs, id)
      /\ \A id : ~ (Holds(fs, id) /\ Holds(rs, id))
      /\ d.front = At(fs, 1) /\ d.back = EndOf(fs) /\ d.reserved = At(rs, 1)
      /\ Forward(PrevOf(d), fs) /\ Backward(NextOf(d), fs) /\ Forward(NextOf(d), rs)
  BY <1>1, Zenon DEF Chained
<1>3. /\ \A i \in 1 .. Len(fs) : fs[i] \in Allocated(d)
      /\ \A i \in 1 .. Len(rs) : rs[i] \in Allocated(d)
  BY <1>2 DEF Holds
<1>4. fs \in Seq(Id) /\ rs \in Seq(Id) BY <1>2 DEF Line
<1>5. Leads(fs, d, d.front, PrevOf(d)) BY <1>2, <1>3, <1>4 DEF Leads, Forward
<1>6. Leads(rs, d, d.reserved, NextOf(d)) BY <1>2, <1>3, <1>4 DEF Leads, Forward
<1>7. FromFront(d) = fs BY <1>1, <1>2, <1>5, ChainIs DEF FromFront, PrevOf
<1>8. ReservedNodes(d) = rs BY <1>1, <1>2, <1>6, ChainIs DEF ReservedNodes, NextOf
<1>9. PICK n : n = Len(fs) OBVIOUS
<1>10. n \in Nat /\ \A i \in 1 .. n : fs[i] \in Id BY <1>4, <1>9, LenProperties, ElementOfSeq
<1>11. PICK t : t = [i \in 1 .. n |-> fs[(n - i) + 1]] OBVIOUS
<1>12. \A i \in 1 .. n : (n - i) + 1 \in 1 .. n BY <1>10
<1>13. t \in Seq(Id) /\ Len(t) = n /\ \A i \in 1 .. n : t[i] = fs[(n - i) + 1]
  BY <1>10, <1>11, <1>12
<1>14. t = Reverse(fs) BY <1>9, <1>11 DEF Reverse
<1>15. Line(t)
  <2> SUFFICES ASSUME NEW i \in 1 .. n, NEW j \in 1 .. n, t[i] = t[j] PROVE i = j
    BY <1>13 DEF Line
  <2>1. fs[(n - i) + 1] = fs[(n - j) + 1] BY <1>13
  <2>2. (n - i) + 1 = (n - j) + 1 BY <1>2, <1>9, <1>12, <2>1 DEF Line
  <2> QED BY <1>10, <2>2
<1>16. Leads(t, d, d.back, NextOf(d))
  <2>1. d.back = At(t, 1)
    <3>1. CASE n = 0 BY <1>2, <1>9, <1>13, <3>1 DEF EndOf, At
    <3>2. CASE n # 0
      <4>1. 1 \in 1 .. n /\ n \in 1 .. n /\ (n - 1) + 1 = n BY <1>10, <3>2
      <4> QED BY <1>2, <1>9, <1>13, <4>1 DEF EndOf, At
    <3> QED BY <3>1, <3>2
  <2>2. ASSUME NEW i \in 1 .. n
        PROVE  t[i] \in Allocated(d) /\ NextOf(d)[t[i]] = At(t, i + 1)
    <3>1. PICK j : j = (n - i) + 1 OBVIOUS
    <3>2. j \in 1 .. n /\ t[i] = fs[j] BY <1>12, <1>13, <3>1
    <3>3. t[i] \in Allocated(d) /\ NextOf(d)[t[i]] = At(fs, j - 1)
      BY <1>2, <1>3, <1>9, <3>2 DEF Backward
    <3>4. At(fs, j - 1) = At(t, i + 1)
      <4>1. CASE i = n
        <5>1. j - 1 \notin 1 .. n /\ i + 1 \notin 1 .. n BY <1>10, <3>1, <4>1
        <5> QED BY <1>9, <1>13, <5>1 DEF At
      <4>2. CASE i # n
        <5>1. j - 1 \in 1 .. n /\ i + 1 \in 1 .. n /\ (n - (i + 1)) + 1 = j - 1
          BY <1>10, <3>1, <4>2
        <5> QED BY <1>9, <1>13, <5>1 DEF At
      <4> QED BY <4>1, <4>2
    <3> QED BY <3>3, <3>4
  <2> QED BY <1>13, <2>1, <2>2 DEF Leads
<1>17. FromBack(d) = t BY <1>1, <1>15, <1>16, ChainIs DEF FromBack, NextOf
<1>18. /\ \A id : id \in ToSet(fs) <=> Holds(fs, id)
       /\ \A id : id \in ToSet(rs) <=> Holds(rs, id)
  <2>1. DOMAIN fs = 1 .. Len(fs) /\ DOMAIN rs = 1 .. Len(rs) BY <1>4, LenProperties
  <2> QED BY <2>1 DEF ToSet, Holds
<1> QED BY <1>2, <1>7, <1>8, <1>14, <1>17, <1>18

\* What the deque holds is what is found from the front on.
LEMMA HoldingIs ==
    ASSUME NEW d, NEW s, Holding(d, s)
    PROVE  /\ s \in Seq(Values) /\ s = ElementsIn(d, FromFront(d)) /\ d.count = Len(s)
           /\ FromBack(d) = Reverse(FromFront(d))
           /\ Allocated(d) = ToSet(FromFront(d)) \cup ToSet(ReservedNodes(d))
           /\ ToSet(FromFront(d)) \cap ToSet(ReservedNodes(d)) = {}
<1>1. PICK fs, rs : Whole(d, fs, rs) /\ s = ElementsIn(d, fs) BY DEF Holding
<1>2. d.count = Len(s) BY <1>1 DEF Whole
<1> QED BY <1>1, <1>2, WholeFacts, WholeIs

-----------------------------------------------------------------------------
(* push_front and push_back where there is room.                           *)

\* A deque as a push leaves it before it stores: the node at the end may be empty.
FrontReady(d, f, r, rs) ==
    /\ IsDeque(d) /\ f \in Id /\ r \in Seq(Id) /\ Chained(d, <<f>> \o r, rs)
    /\ Fits(d.nodes[f]) /\ NodesFit(d, r) /\ Filled(d, r)
    /\ d.count = Len(ElementsIn(d, <<f>> \o r))

BackReady(d, b, r, rs) ==
    /\ IsDeque(d) /\ b \in Id /\ r \in Seq(Id) /\ Chained(d, Append(r, b), rs)
    /\ Fits(d.nodes[b]) /\ NodesFit(d, r) /\ Filled(d, r)
    /\ d.count = Len(ElementsIn(d, Append(r, b)))

\* The node at the end, and the others.
LEMMA FrontAndRest ==
    ASSUME NEW d, NEW f \in Id, NEW r \in Seq(Id), NEW rs, Chained(d, <<f>> \o r, rs)
    PROVE  /\ f \in Allocated(d) /\ d.front = f
           /\ \A i \in 1 .. Len(r) : r[i] \in Allocated(d) /\ r[i] # f
<1>1. PICK t : t = <<f>> \o r OBVIOUS
<1>2. Chained(d, t, rs) BY <1>1
<1>3. /\ Line(t) /\ d.front = At(t, 1)
      /\ \A id : id \in Allocated(d) <=> Holds(t, id) \/ Holds(rs, id)
  BY <1>2, Zenon DEF Chained
<1>4. Prepended(t, r, f) BY <1>1, <1>3, PrependedIs
<1>5. /\ \A id : Holds(t, id) <=> id = f \/ Holds(r, id)
      /\ ~ Holds(r, f)
  BY <1>4 DEF Prepended
<1>6. At(t, 1) = f BY <1>4, AtPrepended
<1>7. \A i \in 1 .. Len(r) : Holds(r, r[i]) BY DEF Holds
<1> QED BY <1>3, <1>5, <1>6, <1>7

\* The back node is none of the others.
LEMMA BackAndRest ==
    ASSUME NEW d, NEW f \in Id, NEW r \in Seq(Id), NEW rs, Chained(d, Append(r, f), rs)
    PROVE  /\ f \in Allocated(d) /\ d.back = f
           /\ \A i \in 1 .. Len(r) : r[i] \in Allocated(d) /\ r[i] # f
<1>1. PICK t : t = Append(r, f) OBVIOUS
<1>2. Chained(d, t, rs) BY <1>1
<1>3. /\ Line(t) /\ d.back = EndOf(t)
      /\ \A id : id \in Allocated(d) <=> Holds(t, id) \/ Holds(rs, id)
  BY <1>2, Zenon DEF Chained
<1>4. Appended(t, r, f) BY <1>1, <1>3, AppendedIs
<1>5. /\ \A id : Holds(t, id) <=> id = f \/ Holds(r, id)
      /\ ~ Holds(r, f)
  BY <1>4 DEF Appended
<1>6. EndOf(t) = f BY <1>4, AtAppended
<1>7. \A i \in 1 .. Len(r) : Holds(r, r[i]) BY DEF Holds
<1> QED BY <1>3, <1>5, <1>6, <1>7

\* A front node, and the others.
LEMMA WholeFrontReady ==
    ASSUME NEW d, NEW f \in Id, NEW r \in Seq(Id), NEW rs, Whole(d, <<f>> \o r, rs)
    PROVE  FrontReady(d, f, r, rs) /\ d.nodes[f].back < d.nodes[f].front
  BY NodesFitCons, Zenon DEF Whole, FrontReady

\* A back node, and the others.
LEMMA WholeBackReady ==
    ASSUME NEW d, NEW f \in Id, NEW r \in Seq(Id), NEW rs, Whole(d, Append(r, f), rs)
    PROVE  BackReady(d, f, r, rs) /\ d.nodes[f].back < d.nodes[f].front
  BY NodesFitAppend, Zenon DEF Whole, BackReady

\* push_front, given a front node with room: the value is the first element.
LEMMA FrontPushed ==
    ASSUME NEW d, NEW f, NEW r, NEW rs, FrontReady(d, f, r, rs), RoomInFront(d),
           NEW v \in Values
    PROVE  Holding(StoreFront(d, v), <<v>> \o ElementsIn(d, <<f>> \o r))
<1>1. PICK e : e = StoreFront(d, v) OBVIOUS
<1>2. PICK fs : fs = <<f>> \o r OBVIOUS
<1>3. /\ IsDeque(d) /\ f \in Id /\ r \in Seq(Id) /\ Chained(d, fs, rs)
      /\ Fits(d.nodes[f]) /\ NodesFit(d, r) /\ Filled(d, r)
      /\ d.count = Len(ElementsIn(d, fs))
  BY <1>2 DEF FrontReady
<1>4. /\ f \in Allocated(d) /\ d.front = f
      /\ \A i \in 1 .. Len(r) : r[i] \in Allocated(d) /\ r[i] # f
  BY <1>2, <1>3, FrontAndRest
<1>5. PICK n : n = d.nodes[f] OBVIOUS
<1>6. PICK m : m = FrontPut(n, v) OBVIOUS
<1>7. FrontStored(e, d, v) BY <1>1, <1>3, StoreFrontIs
<1>8. /\ IsDeque(e) /\ Allocated(e) = Allocated(d) /\ e.nodes[f] = m
      /\ \A i \in Allocated(d) \ {f} : e.nodes[i] = d.nodes[i]
      /\ e.front = d.front /\ e.back = d.back /\ e.reserved = d.reserved
      /\ e.count = d.count + 1
  BY <1>4, <1>5, <1>6, <1>7 DEF FrontStored, FrontPut
<1>9. Fits(n) /\ n.front < n.size BY <1>3, <1>4, <1>5 DEF RoomInFront
<1>10. NodeGrown(m, n) /\ ElementsOf(m) = <<v>> \o ElementsOf(n)
  BY <1>6, <1>9, FrontStoredNode
<1>11. SameLinks(e, d) BY <1>5, <1>8, <1>10 DEF SameLinks, NodeGrown
<1>12. Chained(e, fs, rs) BY <1>3, <1>11, ChainedSame
<1>13. SameNodes(e, d, r) BY <1>4, <1>8 DEF SameNodes, SameElements
<1>14. /\ NodesFit(e, r) /\ ElementsIn(e, r) = ElementsIn(d, r) /\ Filled(e, r)
  BY <1>3, <1>4, <1>8, <1>13, HeldSame
<1>15. Fits(e.nodes[f]) /\ e.nodes[f].back < e.nodes[f].front
  BY <1>8, <1>10 DEF NodeGrown
<1>16. NodesFit(e, fs) /\ Filled(e, fs) BY <1>2, <1>3, <1>14, <1>15, NodesFitCons
<1>17. PICK p : p = ElementsOf(n) OBVIOUS
<1>18. PICK q : q = ElementsIn(d, r) OBVIOUS
<1>19. PICK h : h = <<v>> OBVIOUS
<1>20. p \in Seq(Values) BY <1>9, <1>17, FitsAre
<1>21. /\ q \in Seq(Values) /\ ElementsIn(d, fs) = p \o q
  BY <1>2, <1>3, <1>5, <1>17, <1>18, ElementsPrepend
<1>22. ElementsIn(e, fs) = (h \o p) \o q
  <2>1. ElementsIn(e, fs) = ElementsOf(e.nodes[f]) \o ElementsIn(e, r)
    BY <1>2, <1>3, <1>14, <1>15, ElementsPrepend
  <2> QED BY <1>8, <1>10, <1>14, <1>17, <1>18, <1>19, <2>1
<1>23. h \in Seq(Values) /\ Len(h) = 1 BY <1>19
<1>24. (h \o p) \o q = h \o (p \o q)
  <2>1. h \in Seq(Values) /\ p \in Seq(Values) /\ q \in Seq(Values)
    BY <1>20, <1>21, <1>23
  <2> QED BY <2>1, ConcatAssociative
<1>25. PICK s : s = p \o q OBVIOUS
<1>26. s \in Seq(Values) BY <1>20, <1>21, <1>25, ConcatProperties
<1>27. Len(h \o s) = Len(s) + 1 BY <1>19, <1>26, ConsFacts
<1>28. ElementsIn(e, fs) = h \o s /\ ElementsIn(d, fs) = s
  BY <1>21, <1>22, <1>24, <1>25
<1>29. e.count = Len(ElementsIn(e, fs))
  <2>1. Len(s) \in Nat BY <1>26, LenProperties
  <2> QED BY <1>3, <1>8, <1>27, <1>28, <2>1
<1>30. Whole(e, fs, rs) BY <1>8, <1>12, <1>16, <1>29 DEF Whole
<1> QED BY <1>1, <1>2, <1>19, <1>28, <1>30 DEF Holding

\* push_back, given a back node with room: the value is the last element.
LEMMA BackPushed ==
    ASSUME NEW d, NEW f, NEW r, NEW rs, BackReady(d, f, r, rs), RoomInBack(d),
           NEW v \in Values
    PROVE  Holding(StoreBack(d, v), Append(ElementsIn(d, Append(r, f)), v))
<1>1. PICK e : e = StoreBack(d, v) OBVIOUS
<1>2. PICK fs : fs = Append(r, f) OBVIOUS
<1>3. /\ IsDeque(d) /\ f \in Id /\ r \in Seq(Id) /\ Chained(d, fs, rs)
      /\ Fits(d.nodes[f]) /\ NodesFit(d, r) /\ Filled(d, r)
      /\ d.count = Len(ElementsIn(d, fs))
  BY <1>2 DEF BackReady
<1>4. /\ f \in Allocated(d) /\ d.back = f
      /\ \A i \in 1 .. Len(r) : r[i] \in Allocated(d) /\ r[i] # f
  BY <1>2, <1>3, BackAndRest
<1>5. PICK n : n = d.nodes[f] OBVIOUS
<1>6. PICK m : m = BackPut(n, v) OBVIOUS
<1>7. BackStored(e, d, v) BY <1>1, <1>3, StoreBackIs
<1>8. /\ IsDeque(e) /\ Allocated(e) = Allocated(d) /\ e.nodes[f] = m
      /\ \A i \in Allocated(d) \ {f} : e.nodes[i] = d.nodes[i]
      /\ e.front = d.front /\ e.back = d.back /\ e.reserved = d.reserved
      /\ e.count = d.count + 1
  BY <1>4, <1>5, <1>6, <1>7 DEF BackStored, BackPut
<1>9. Fits(n) /\ n.back # 0 BY <1>3, <1>4, <1>5 DEF RoomInBack
<1>10. NodeGrown(m, n) /\ ElementsOf(m) = Append(ElementsOf(n), v)
  BY <1>6, <1>9, BackStoredNode
<1>11. SameLinks(e, d) BY <1>5, <1>8, <1>10 DEF SameLinks, NodeGrown
<1>12. Chained(e, fs, rs) BY <1>3, <1>11, ChainedSame
<1>13. SameNodes(e, d, r) BY <1>4, <1>8 DEF SameNodes, SameElements
<1>14. /\ NodesFit(e, r) /\ ElementsIn(e, r) = ElementsIn(d, r) /\ Filled(e, r)
  BY <1>3, <1>4, <1>8, <1>13, HeldSame
<1>15. Fits(e.nodes[f]) /\ e.nodes[f].back < e.nodes[f].front
  BY <1>8, <1>10 DEF NodeGrown
<1>16. NodesFit(e, fs) /\ Filled(e, fs) BY <1>2, <1>3, <1>14, <1>15, NodesFitAppend
<1>17. PICK p : p = ElementsOf(n) OBVIOUS
<1>18. PICK q : q = ElementsIn(d, r) OBVIOUS
<1>19. PICK h : h = <<v>> OBVIOUS
<1>20. p \in Seq(Values) BY <1>9, <1>17, FitsAre
<1>21. q \in Seq(Values) BY <1>3, <1>18, ElementsType
<1>22. ElementsIn(d, fs) = q \o p
  BY <1>2, <1>3, <1>5, <1>17, <1>18, ElementsAppend
<1>23. h \in Seq(Values) /\ Len(h) = 1 BY <1>19
<1>24. ElementsIn(e, fs) = q \o (p \o h)
  <2>1. ElementsIn(e, fs) = ElementsIn(e, r) \o ElementsOf(e.nodes[f])
    BY <1>2, <1>3, <1>14, <1>15, ElementsAppend
  <2>2. Append(p, v) = p \o h BY <1>19, <1>20, AppendIsConcat
  <2> QED BY <1>8, <1>10, <1>14, <1>17, <1>18, <2>1, <2>2
<1>25. (q \o p) \o h = q \o (p \o h) BY <1>20, <1>21, <1>23, ConcatAssociative
<1>26. PICK s : s = q \o p OBVIOUS
<1>27. s \in Seq(Values) BY <1>20, <1>21, <1>26, ConcatProperties
<1>28. s \o h = Append(s, v) BY <1>19, <1>27, AppendIsConcat
<1>29. ElementsIn(e, fs) = Append(s, v) /\ ElementsIn(d, fs) = s
  BY <1>22, <1>24, <1>25, <1>26, <1>28
<1>30. e.count = Len(ElementsIn(e, fs))
  <2>1. Len(Append(s, v)) = Len(s) + 1 BY <1>27, AppendProperties
  <2> QED BY <1>3, <1>8, <1>29, <2>1
<1>31. Whole(e, fs, rs) BY <1>8, <1>12, <1>16, <1>30 DEF Whole
<1> QED BY <1>1, <1>2, <1>29, <1>31 DEF Holding

-----------------------------------------------------------------------------
(* push_front and push_back where a node is needed.                        *)

\* A new node that holds nothing.
Bare(n) == IsNode(n) /\ n.front = n.back /\ n.vals = <<>>

\* A node without an element.
LEMMA BareFits ==
    ASSUME NEW n, Bare(n)
    PROVE  Fits(n) /\ ElementsOf(n) = <<>>
<1>1. IsNode(n) /\ n.front = n.back /\ n.vals = <<>> BY DEF Bare
<1>2. n.front \in Nat /\ n.back \in Nat BY <1>1, DequeAssumption DEF IsNode, Node
<1>3. PICK f : f = n.front OBVIOUS
<1>4. f \in Nat /\ n.back = f BY <1>1, <1>2, <1>3
<1>5. f .. f - 1 = {} /\ f <= f /\ f - f = 0 BY <1>4
<1>6. Fits(n) BY <1>1, <1>3, <1>4, <1>5 DEF Fits
<1>7. ElementsOf(n) = [i \in 1 .. 0 |-> n.vals[n.front - i]]
  BY <1>3, <1>4, <1>5 DEF ElementsOf
<1> QED BY <1>6, <1>7

\* A node that was just made holds nothing.
LEMMA BlankIsBare ==
    ASSUME NEW dir, NEW size \in 1 .. BlockSize
    PROVE  Bare(Blank(dir, size))
  BY BlankIsNode DEF Bare, Blank

\* A new node at an end makes the deque ready for a push there.
LEMMA FrontGrownReady ==
    ASSUME NEW d, NEW fs, NEW rs, Whole(d, fs, rs),
           NEW e, IsDeque(e), NEW new \in Id, new \notin Allocated(d),
           FrontGrown(e, d, new), Bare(e.nodes[new]), e.count = d.count,
           \A i \in Allocated(d) : SameElements(e.nodes[i], d.nodes[i])
    PROVE  /\ FrontReady(e, new, fs, rs)
           /\ ElementsIn(e, <<new>> \o fs) = ElementsIn(d, fs)
<1>1. /\ IsDeque(d) /\ Chained(d, fs, rs)
      /\ NodesFit(d, fs) /\ Filled(d, fs) /\ d.count = Len(ElementsIn(d, fs))
  BY DEF Whole
<1>2. fs \in Seq(Id) /\ \A i \in 1 .. Len(fs) : fs[i] \in Allocated(d) BY WholeFacts
<1>3. Chained(e, <<new>> \o fs, rs) BY <1>1, ChainedFrontGrown
<1>4. SameNodes(e, d, fs) BY <1>2 DEF SameNodes
<1>5. \A i \in 1 .. Len(fs) : fs[i] \in Allocated(e) BY <1>2 DEF FrontGrown
<1>6. NodesFit(e, fs) /\ ElementsIn(e, fs) = ElementsIn(d, fs) /\ Filled(e, fs)
  BY <1>1, <1>2, <1>4, <1>5, HeldSame
<1>7. Fits(e.nodes[new]) /\ ElementsOf(e.nodes[new]) = <<>> BY BareFits
<1>8. PICK s : s = ElementsIn(d, fs) OBVIOUS
<1>9. s \in Seq(Values) BY <1>1, <1>2, <1>8, ElementsType
<1>10. ElementsIn(e, <<new>> \o fs) = <<>> \o s
  BY <1>2, <1>6, <1>7, <1>8, ElementsPrepend
<1>11. <<>> \o s = s BY <1>9, ConcatEmptySeq
<1> QED BY <1>1, <1>2, <1>3, <1>6, <1>7, <1>8, <1>10, <1>11 DEF FrontReady

\* The same at the back.
LEMMA BackGrownReady ==
    ASSUME NEW d, NEW fs, NEW rs, Whole(d, fs, rs),
           NEW e, IsDeque(e), NEW new \in Id, new \notin Allocated(d),
           BackGrown(e, d, new), Bare(e.nodes[new]), e.count = d.count,
           \A i \in Allocated(d) : SameElements(e.nodes[i], d.nodes[i])
    PROVE  /\ BackReady(e, new, fs, rs)
           /\ ElementsIn(e, Append(fs, new)) = ElementsIn(d, fs)
<1>1. /\ IsDeque(d) /\ Chained(d, fs, rs)
      /\ NodesFit(d, fs) /\ Filled(d, fs) /\ d.count = Len(ElementsIn(d, fs))
  BY DEF Whole
<1>2. fs \in Seq(Id) /\ \A i \in 1 .. Len(fs) : fs[i] \in Allocated(d) BY WholeFacts
<1>3. Chained(e, Append(fs, new), rs) BY <1>1, ChainedBackGrown
<1>4. SameNodes(e, d, fs) BY <1>2 DEF SameNodes
<1>5. \A i \in 1 .. Len(fs) : fs[i] \in Allocated(e) BY <1>2 DEF BackGrown
<1>6. NodesFit(e, fs) /\ ElementsIn(e, fs) = ElementsIn(d, fs) /\ Filled(e, fs)
  BY <1>1, <1>2, <1>4, <1>5, HeldSame
<1>7. Fits(e.nodes[new]) /\ ElementsOf(e.nodes[new]) = <<>> BY BareFits
<1>8. PICK s : s = ElementsIn(d, fs) OBVIOUS
<1>9. s \in Seq(Values) BY <1>1, <1>2, <1>8, ElementsType
<1>10. ElementsIn(e, Append(fs, new)) = s \o <<>>
  BY <1>2, <1>6, <1>7, <1>8, ElementsAppend
<1>11. s \o <<>> = s BY <1>9, ConcatEmptySeq
<1> QED BY <1>1, <1>2, <1>3, <1>6, <1>7, <1>8, <1>10, <1>11 DEF BackReady

\* A node from the heap, linked at the front.
LEMMA AddedFront ==
    ASSUME NEW d, NEW fs, NEW rs, Whole(d, fs, rs), fs # <<>>, d.reserved = nullptr,
           NEW grant \in Grants(d), grant # 0
    PROVE  \E new : /\ FrontReady(AddFrontNode(d, grant), new, fs, rs)
                    /\ ElementsIn(AddFrontNode(d, grant), <<new>> \o fs)
                         = ElementsIn(d, fs)
<1>1. grant \in 1 .. BlockSize /\ Allocated(d) # Id BY GrantHasRoom
<1>2. PICK new : new = NewId(d) OBVIOUS
<1>3. PICK h : h = AllocateNode(d, "FRONT", grant) OBVIOUS
<1>4. PICK f : f = d.front OBVIOUS
<1>5. PICK e : e = LinkFront(h, f, new) OBVIOUS
<1>6. IsDeque(d) BY DEF Whole
<1>7. f \in Allocated(d) /\ nullptr \notin Allocated(d)
  <2>1. /\ Line(fs) /\ d.front = At(fs, 1) /\ nullptr \notin Allocated(d)
        /\ \A id : id \in Allocated(d) <=> Holds(fs, id) \/ Holds(rs, id)
    BY WholeFacts
  <2>2. Len(fs) # 0 BY <2>1, EmptySeq DEF Line
  <2> QED BY <1>4, <2>1, <2>2, LineFacts
<1>8. AddFrontNode(d, grant) = e BY <1>1, <1>2, <1>3, <1>4, <1>5, <1>6, <1>7, AddFrontNodeIs
<1>9. /\ IsDeque(h) /\ new \in Id /\ new \notin Allocated(d)
      /\ Allocated(h) = Allocated(d) \cup {new}
      /\ h.nodes[new] = Blank("FRONT", grant)
      /\ \A i \in Allocated(d) : h.nodes[i] = d.nodes[i]
      /\ h = [d EXCEPT !.nodes = h.nodes]
  BY <1>1, <1>2, <1>3, <1>6, AllocateNodeIs
<1>10. /\ h.count = d.count /\ h.front = d.front /\ h.back = d.back
       /\ h.reserved = d.reserved
  <2>1. PICK ns : ns = h.nodes OBVIOUS
  <2>2. h = [d EXCEPT !.nodes = ns] BY <1>9, <2>1
  <2> QED BY <1>6, <2>2 DEF IsDeque
<1>11. FrontLinked(e, h, f, new)
  <2>1. f \in Allocated(h) /\ new \in Allocated(h) BY <1>7, <1>9
  <2>2. IsDeque(h) BY <1>9
  <2> QED BY <1>5, <2>1, <2>2, LinkFrontIs, Zenon
<1>12. f # new BY <1>7, <1>9
<1>13. /\ IsDeque(e) /\ Allocated(e) = Allocated(d) \cup {new}
       /\ e.reserved = d.reserved /\ e.count = d.count
       /\ e.front = new /\ e.back = d.back
       /\ SameElements(e.nodes[new], Blank("FRONT", grant))
       /\ e.nodes[f] = [d.nodes[f] EXCEPT !.next = new]
       /\ e.nodes[new] = [Blank("FRONT", grant) EXCEPT !.prev = f]
       /\ \A i \in Allocated(d) \ {f} : e.nodes[i] = d.nodes[i]
  BY <1>7, <1>9, <1>10, <1>11, <1>12 DEF FrontLinked, SameStore
<1>14. /\ SameElements(e.nodes[f], d.nodes[f]) /\ e.nodes[f].prev = d.nodes[f].prev
       /\ e.nodes[f].next = new
  BY <1>6, <1>7, <1>13, AllocatedIds DEF SameElements, IsNode, Node
<1>15. e.nodes[new].prev = f /\ e.nodes[new].next = nullptr BY <1>13 DEF Blank
<1>16. Bare(e.nodes[new])
  <2>1. IsNode(e.nodes[new]) BY <1>13, AllocatedIds
  <2> QED BY <1>13, <2>1 DEF Bare, SameElements, Blank
<1>17. \A i \in Allocated(d) : SameElements(e.nodes[i], d.nodes[i])
  BY <1>13, <1>14 DEF SameElements
<1>18. d.back # nullptr
  <2>1. Line(fs) /\ d.back = EndOf(fs) BY WholeFacts
  <2>2. Len(fs) # 0 BY <2>1, EmptySeq DEF Line
  <2> QED BY <2>1, <2>2, LineFacts
<1>19. FrontGrown(e, d, new)
  BY <1>4, <1>13, <1>14, <1>15, <1>18 DEF FrontGrown
<1>20. FrontReady(e, new, fs, rs) /\ ElementsIn(e, <<new>> \o fs) = ElementsIn(d, fs)
  BY <1>9, <1>13, <1>16, <1>17, <1>19, FrontGrownReady
<1> QED BY <1>8, <1>20

\* The same at the back.
LEMMA AddedBack ==
    ASSUME NEW d, NEW fs, NEW rs, Whole(d, fs, rs), fs # <<>>, d.reserved = nullptr,
           NEW grant \in Grants(d), grant # 0
    PROVE  \E new : /\ BackReady(AddBackNode(d, grant), new, fs, rs)
                    /\ ElementsIn(AddBackNode(d, grant), Append(fs, new))
                         = ElementsIn(d, fs)
<1>1. grant \in 1 .. BlockSize /\ Allocated(d) # Id BY GrantHasRoom
<1>2. PICK new : new = NewId(d) OBVIOUS
<1>3. PICK h : h = AllocateNode(d, "BACK", grant) OBVIOUS
<1>4. PICK f : f = d.back OBVIOUS
<1>5. PICK e : e = LinkBack(h, f, new) OBVIOUS
<1>6. IsDeque(d) BY DEF Whole
<1>7. f \in Allocated(d) /\ nullptr \notin Allocated(d)
  <2>1. /\ Line(fs) /\ d.back = EndOf(fs) /\ nullptr \notin Allocated(d)
        /\ \A id : id \in Allocated(d) <=> Holds(fs, id) \/ Holds(rs, id)
    BY WholeFacts
  <2>2. Len(fs) # 0 BY <2>1, EmptySeq DEF Line
  <2> QED BY <1>4, <2>1, <2>2, LineFacts
<1>8. AddBackNode(d, grant) = e BY <1>1, <1>2, <1>3, <1>4, <1>5, <1>6, <1>7, AddBackNodeIs
<1>9. /\ IsDeque(h) /\ new \in Id /\ new \notin Allocated(d)
      /\ Allocated(h) = Allocated(d) \cup {new}
      /\ h.nodes[new] = Blank("BACK", grant)
      /\ \A i \in Allocated(d) : h.nodes[i] = d.nodes[i]
      /\ h = [d EXCEPT !.nodes = h.nodes]
  BY <1>1, <1>2, <1>3, <1>6, AllocateNodeIs
<1>10. /\ h.count = d.count /\ h.front = d.front /\ h.back = d.back
       /\ h.reserved = d.reserved
  <2>1. PICK ns : ns = h.nodes OBVIOUS
  <2>2. h = [d EXCEPT !.nodes = ns] BY <1>9, <2>1
  <2> QED BY <1>6, <2>2 DEF IsDeque
<1>11. BackLinked(e, h, f, new)
  <2>1. f \in Allocated(h) /\ new \in Allocated(h) BY <1>7, <1>9
  <2>2. IsDeque(h) BY <1>9
  <2> QED BY <1>5, <2>1, <2>2, LinkBackIs, Zenon
<1>12. f # new BY <1>7, <1>9
<1>13. /\ IsDeque(e) /\ Allocated(e) = Allocated(d) \cup {new}
       /\ e.reserved = d.reserved /\ e.count = d.count
       /\ e.back = new /\ e.front = d.front
       /\ SameElements(e.nodes[new], Blank("BACK", grant))
       /\ e.nodes[f] = [d.nodes[f] EXCEPT !.prev = new]
       /\ e.nodes[new] = [Blank("BACK", grant) EXCEPT !.next = f]
       /\ \A i \in Allocated(d) \ {f} : e.nodes[i] = d.nodes[i]
  BY <1>7, <1>9, <1>10, <1>11, <1>12 DEF BackLinked, SameStore
<1>14. /\ SameElements(e.nodes[f], d.nodes[f]) /\ e.nodes[f].next = d.nodes[f].next
       /\ e.nodes[f].prev = new
  BY <1>6, <1>7, <1>13, AllocatedIds DEF SameElements, IsNode, Node
<1>15. e.nodes[new].next = f /\ e.nodes[new].prev = nullptr BY <1>13 DEF Blank
<1>16. Bare(e.nodes[new])
  <2>1. IsNode(e.nodes[new]) BY <1>13, AllocatedIds
  <2> QED BY <1>13, <2>1 DEF Bare, SameElements, Blank
<1>17. \A i \in Allocated(d) : SameElements(e.nodes[i], d.nodes[i])
  BY <1>13, <1>14 DEF SameElements
<1>18. d.front # nullptr
  <2>1. Line(fs) /\ d.front = At(fs, 1) BY WholeFacts
  <2>2. Len(fs) # 0 BY <2>1, EmptySeq DEF Line
  <2> QED BY <2>1, <2>2, LineFacts
<1>19. BackGrown(e, d, new)
  BY <1>4, <1>13, <1>14, <1>15, <1>18 DEF BackGrown
<1>20. BackReady(e, new, fs, rs) /\ ElementsIn(e, Append(fs, new)) = ElementsIn(d, fs)
  BY <1>9, <1>13, <1>16, <1>17, <1>19, BackGrownReady
<1> QED BY <1>8, <1>20

\* The first node of a deque that holds nothing.
LEMMA FirstNode ==
    ASSUME NEW fs, NEW rs, Whole(deque, fs, rs), deque.count = 0, NEW dir,
           NEW first \in Grants(deque), first # 0, NEW d, d = WithFirstNode(dir, first)
    PROVE  \E new \in Id :
              /\ IsDeque(d) /\ new \notin Allocated(deque)
              /\ FrontGrown(d, deque, new) /\ BackGrown(d, deque, new)
              /\ d.nodes[new] = Blank(dir, first) /\ Bare(d.nodes[new])
              /\ d.front = new /\ d.back = new /\ new \in Allocated(d)
              /\ d.count = deque.count
              /\ \A i \in Allocated(deque) : SameElements(d.nodes[i], deque.nodes[i])
<1>1. first \in 1 .. BlockSize /\ Allocated(deque) # Id BY GrantHasRoom
<1>2. PICK new : new = NewId(deque) OBVIOUS
<1>3. PICK h : h = AllocateNode(deque, dir, first) OBVIOUS
<1>4. IsDeque(deque) BY DEF Whole
<1>5. /\ IsDeque(h) /\ new \in Id /\ new \notin Allocated(deque)
      /\ Allocated(h) = Allocated(deque) \cup {new}
      /\ h.nodes[new] = Blank(dir, first)
      /\ \A i \in Allocated(deque) : h.nodes[i] = deque.nodes[i]
      /\ h = [deque EXCEPT !.nodes = h.nodes]
  BY <1>1, <1>2, <1>3, <1>4, AllocateNodeIs
<1>6. h.count = deque.count /\ h.reserved = deque.reserved
  <2>1. PICK ns : ns = h.nodes OBVIOUS
  <2>2. h = [deque EXCEPT !.nodes = ns] BY <1>5, <2>1
  <2> QED BY <1>4, <2>2 DEF IsDeque
<1>7. PICK e : e = [h EXCEPT !.front = new] OBVIOUS
<1>8. PICK g : g = [e EXCEPT !.back = new] OBVIOUS
<1>9. IsDeque(e) BY <1>5, <1>7, SetMembers
<1>10. IsDeque(g) BY <1>5, <1>8, <1>9, SetMembers
<1>11. d = g BY <1>2, <1>3, <1>7, <1>8 DEF WithFirstNode
<1>12. /\ d.front = new /\ d.back = new /\ d.reserved = deque.reserved
       /\ d.count = deque.count /\ d.nodes = h.nodes
  BY <1>5, <1>6, <1>7, <1>8, <1>9, <1>11 DEF IsDeque
<1>13. /\ Allocated(d) = Allocated(deque) \cup {new}
       /\ d.nodes[new] = Blank(dir, first)
       /\ \A i \in Allocated(deque) : d.nodes[i] = deque.nodes[i]
  BY <1>5, <1>12 DEF Allocated
<1>14. deque.front = nullptr /\ deque.back = nullptr /\ nullptr \notin Allocated(deque)
  <2>1. /\ Line(fs) /\ deque.front = At(fs, 1) /\ deque.back = EndOf(fs)
        /\ nullptr \notin Allocated(deque)
    BY WholeFacts
  <2>2. Len(fs) = 0
    <3>1. fs = <<>> BY EmptyIsBare
    <3> QED BY <3>1
  <2> QED BY <2>1, <2>2, LineFacts
<1>15. d.nodes[new].prev = nullptr /\ d.nodes[new].next = nullptr
  BY <1>13 DEF Blank
<1>16. FrontGrown(d, deque, new)
  BY <1>12, <1>13, <1>14, <1>15 DEF FrontGrown
<1>17. BackGrown(d, deque, new)
  BY <1>12, <1>13, <1>14, <1>15 DEF BackGrown
<1>18. Bare(d.nodes[new]) BY <1>1, <1>13, BlankIsBare
<1>19. \A i \in Allocated(deque) : SameElements(d.nodes[i], deque.nodes[i])
  BY <1>13 DEF SameElements
<1> QED BY <1>5, <1>10, <1>11, <1>12, <1>13, <1>16, <1>17, <1>18, <1>19

\* What a push leaves the deque with.
LEMMA PushFrontHolds ==
    ASSUME NEW s, Holding(deque, s), PushFront
    PROVE  \/ undefined' = TRUE
           \/ intended' = FALSE
           \/ ok' = TRUE /\ \E v \in Values : Holding(deque', <<v>> \o s)
           \/ ok' = FALSE /\ Holding(deque', s)
<1>1. PICK first \in FirstGrants, v \in Values :
         LET d == WithFirstNode("FRONT", first)
             usable == d.front \in Allocated(d)
             full == d.nodes[d.front].front = d.nodes[d.front].size
         IN \/ /\ NoNode(d)
               /\ Returns(d, FALSE) /\ AsIntended(TRUE)
            \/ /\ usable /\ ~ full
               /\ Returns(StoreFront(d, v), TRUE) /\ AsIntended(TRUE)
            \/ /\ usable /\ full /\ d.reserved = nullptr
               /\ \E grant \in Grants(d) :
                    IF grant = 0 THEN Returns(d, FALSE)
                    ELSE Returns(StoreFront(AddFrontNode(d, grant), v), TRUE)
               /\ AsIntended(TRUE)
            \/ /\ usable /\ full /\ d.reserved \in Allocated(d)
               /\ Returns(StoreFront(AddFrontNode(d, 0), v), TRUE)
               /\ AsIntended(FALSE)
            \/ /\ ~ NoNode(d)
               /\ usable => full /\ d.reserved \notin Allocated(d) \cup {nullptr}
               /\ Undefined
  BY Zenon DEF PushFront
<1>2. PICK d : d = WithFirstNode("FRONT", first) OBVIOUS
<1> DEFINE usable == d.front \in Allocated(d)
           full == d.nodes[d.front].front = d.nodes[d.front].size
<1>3. \/ NoNode(d) /\ Returns(d, FALSE)
      \/ usable /\ ~ full /\ Returns(StoreFront(d, v), TRUE)
      \/ usable /\ full /\ Returns(d, FALSE)
      \/ /\ usable /\ full /\ d.reserved = nullptr
         /\ \E grant \in Grants(d) \ {0} :
               Returns(StoreFront(AddFrontNode(d, grant), v), TRUE)
      \/ AsIntended(FALSE)
      \/ Undefined
  BY <1>1, <1>2, Zenon
<1>4. PICK fs, rs : Whole(deque, fs, rs) /\ s = ElementsIn(deque, fs) BY DEF Holding
<1>5. /\ IsDeque(deque) /\ fs \in Seq(Id)
      /\ deque.count \in Nat /\ (deque.count = 0 <=> fs = <<>>)
  BY <1>4, WholeFacts, EmptyIsBare DEF Whole
<1>6. CASE Undefined BY <1>6 DEF Undefined
<1>7. CASE AsIntended(FALSE) BY <1>7 DEF AsIntended
<1>8. CASE deque.count > 0 /\ ~ Undefined /\ ~ AsIntended(FALSE)
  <2>1. d = deque BY <1>2, <1>8, Zenon DEF WithFirstNode
  <2>2. fs # <<>> BY <1>5, <1>8
  <2>3. PICK f \in Id, r \in Seq(Id) : fs = <<f>> \o r BY <1>5, <2>2, ConsSplit
  <2>4. FrontReady(d, f, r, rs) BY <1>4, <2>1, <2>3, WholeFrontReady
  <2>5. CASE Returns(d, FALSE) BY <1>4, <2>1, <2>5 DEF Returns, Holding
  <2>6. CASE usable /\ ~ full /\ Returns(StoreFront(d, v), TRUE)
    <3>1. IsNode(d.nodes[d.front]) BY <1>5, <2>1, <2>6, AllocatedIds
    <3>2. RoomInFront(d) BY <2>6, <3>1, DequeAssumption DEF RoomInFront, IsNode, Node
    <3>3. Holding(StoreFront(d, v), <<v>> \o ElementsIn(d, fs))
      BY <2>3, <2>4, <3>2, FrontPushed
    <3>4. deque' = StoreFront(d, v) /\ ok' = TRUE BY <2>6 DEF Returns
    <3>5. ElementsIn(d, fs) = s BY <1>4, <2>1
    <3> QED BY <3>3, <3>4, <3>5
  <2>7. CASE /\ usable /\ full /\ d.reserved = nullptr
             /\ \E grant \in Grants(d) \ {0} :
                   Returns(StoreFront(AddFrontNode(d, grant), v), TRUE)
    <3>1. PICK grant \in Grants(d) \ {0} :
                   Returns(StoreFront(AddFrontNode(d, grant), v), TRUE)
      BY <2>7
    <3>2. PICK e : e = AddFrontNode(d, grant) OBVIOUS
    <3>3. Whole(d, fs, rs) /\ d.reserved = nullptr /\ grant \in Grants(d) /\ grant # 0
      BY <1>4, <2>1, <2>7
    <3>4. PICK new : /\ FrontReady(e, new, fs, rs)
                     /\ ElementsIn(e, <<new>> \o fs) = ElementsIn(d, fs)
      BY <2>2, <3>2, <3>3, AddedFront
    <3>5. RoomInFront(e)
      <4>1. d.front \in Allocated(d) BY <2>7
      <4>2. IsDeque(d) BY <1>5, <2>1
      <4> QED BY <3>2, <3>3, <4>1, <4>2, WithFrontNodeIs
    <3>6. Holding(StoreFront(e, v), <<v>> \o ElementsIn(e, <<new>> \o fs))
      BY <3>4, <3>5, FrontPushed
    <3>7. deque' = StoreFront(e, v) /\ ok' = TRUE BY <3>1, <3>2 DEF Returns
    <3>8. ElementsIn(d, fs) = s BY <1>4, <2>1
    <3> QED BY <3>4, <3>6, <3>7, <3>8
  <2> QED BY <1>3, <1>8, <2>5, <2>6, <2>7
<1>9. CASE /\ deque.count = 0 /\ first # 0 /\ ~ Undefined /\ ~ AsIntended(FALSE)
  <2>1. first \in Grants(deque) BY <1>9 DEF FirstGrants
  <2>2. PICK new \in Id :
              /\ IsDeque(d) /\ new \notin Allocated(deque)
              /\ FrontGrown(d, deque, new) /\ BackGrown(d, deque, new)
              /\ d.nodes[new] = Blank("FRONT", first) /\ Bare(d.nodes[new])
              /\ d.front = new /\ d.back = new /\ new \in Allocated(d)
              /\ d.count = deque.count
              /\ \A i \in Allocated(deque) : SameElements(d.nodes[i], deque.nodes[i])
    <3>1. "FRONT" \in {"FRONT", "BACK"} OBVIOUS
    <3> QED BY <1>2, <1>4, <1>9, <2>1, <3>1, FirstNode
  <2>3. FrontReady(d, new, fs, rs) /\ ElementsIn(d, <<new>> \o fs) = ElementsIn(deque, fs)
    BY <1>4, <2>2, FrontGrownReady
  <2>4. first \in 1 .. BlockSize BY <1>9, <2>1, GrantHasRoom
  <2>5. d.nodes[new].front = 0 /\ d.nodes[new].size = first /\ d.nodes[new].back = 0
    BY <2>2 DEF Blank
  <2>6. RoomInFront(d) /\ ~ full
    BY <2>2, <2>4, <2>5, DequeAssumption DEF RoomInFront
  <2>7. ~ NoNode(d)
    <3>1. new # nullptr BY <2>2, DequeAssumption DEF Id, nullptr
    <3> QED BY <2>2, <3>1 DEF NoNode
  <2>8. Returns(StoreFront(d, v), TRUE) BY <1>3, <1>9, <2>6, <2>7
  <2>9. Holding(StoreFront(d, v), <<v>> \o ElementsIn(d, <<new>> \o fs))
    BY <2>3, <2>6, FrontPushed
  <2>10. deque' = StoreFront(d, v) /\ ok' = TRUE BY <2>8 DEF Returns
  <2> QED BY <1>4, <2>3, <2>9, <2>10
<1>10. CASE /\ deque.count = 0 /\ first = 0 /\ ~ Undefined /\ ~ AsIntended(FALSE)
  <2>1. deque.front = nullptr /\ deque.back = nullptr /\ nullptr \notin Allocated(deque)
    <3>1. /\ Line(fs) /\ deque.front = At(fs, 1) /\ deque.back = EndOf(fs)
          /\ nullptr \notin Allocated(deque)
      BY <1>4, WholeFacts
    <3>2. Len(fs) = 0
      <4>1. fs = <<>> BY <1>5, <1>10
      <4> QED BY <4>1
    <3> QED BY <3>1, <3>2, LineFacts
  <2>2. d = [deque EXCEPT !.front = nullptr] BY <1>2, <1>10 DEF WithFirstNode
  <2>3. d = deque BY <1>5, <2>1, <2>2 DEF IsDeque
  <2>4. ~ usable BY <2>1, <2>3
  <2>5. Returns(d, FALSE) BY <1>3, <1>10, <2>4
  <2> QED BY <1>4, <2>3, <2>5 DEF Returns, Holding
<1>11. \/ deque.count > 0
       \/ deque.count = 0 /\ first # 0
       \/ deque.count = 0 /\ first = 0
  BY <1>5
<1> QED BY <1>6, <1>7, <1>8, <1>9, <1>10, <1>11, Zenon

\* What a push leaves the deque with.
LEMMA PushBackHolds ==
    ASSUME NEW s, Holding(deque, s), PushBack
    PROVE  \/ undefined' = TRUE
           \/ intended' = FALSE
           \/ ok' = TRUE /\ \E v \in Values : Holding(deque', Append(s, v))
           \/ ok' = FALSE /\ Holding(deque', s)
<1>1. PICK first \in FirstGrants, v \in Values :
         LET d == WithFirstNode("BACK", first)
             usable == d.back \in Allocated(d)
             full == d.nodes[d.back].back = 0
         IN \/ /\ NoNode(d)
               /\ Returns(d, FALSE) /\ AsIntended(TRUE)
            \/ /\ usable /\ ~ full
               /\ Returns(StoreBack(d, v), TRUE) /\ AsIntended(TRUE)
            \/ /\ usable /\ full /\ d.reserved = nullptr
               /\ \E grant \in Grants(d) :
                    IF grant = 0 THEN Returns(d, FALSE)
                    ELSE Returns(StoreBack(AddBackNode(d, grant), v), TRUE)
               /\ AsIntended(TRUE)
            \/ /\ usable /\ full /\ d.reserved \in Allocated(d)
               /\ Returns(StoreBack(AddBackNode(d, 0), v), TRUE)
               /\ AsIntended(FALSE)
            \/ /\ ~ NoNode(d)
               /\ usable => full /\ d.reserved \notin Allocated(d) \cup {nullptr}
               /\ Undefined
  BY Zenon DEF PushBack
<1>2. PICK d : d = WithFirstNode("BACK", first) OBVIOUS
<1> DEFINE usable == d.back \in Allocated(d)
           full == d.nodes[d.back].back = 0
<1>3. \/ NoNode(d) /\ Returns(d, FALSE)
      \/ usable /\ ~ full /\ Returns(StoreBack(d, v), TRUE)
      \/ usable /\ full /\ Returns(d, FALSE)
      \/ /\ usable /\ full /\ d.reserved = nullptr
         /\ \E grant \in Grants(d) \ {0} :
               Returns(StoreBack(AddBackNode(d, grant), v), TRUE)
      \/ AsIntended(FALSE)
      \/ Undefined
  BY <1>1, <1>2, Zenon
<1>4. PICK fs, rs : Whole(deque, fs, rs) /\ s = ElementsIn(deque, fs) BY DEF Holding
<1>5. /\ IsDeque(deque) /\ fs \in Seq(Id)
      /\ deque.count \in Nat /\ (deque.count = 0 <=> fs = <<>>)
  BY <1>4, WholeFacts, EmptyIsBare DEF Whole
<1>6. CASE Undefined BY <1>6 DEF Undefined
<1>7. CASE AsIntended(FALSE) BY <1>7 DEF AsIntended
<1>8. CASE deque.count > 0 /\ ~ Undefined /\ ~ AsIntended(FALSE)
  <2>1. d = deque BY <1>2, <1>8, Zenon DEF WithFirstNode
  <2>2. fs # <<>> BY <1>5, <1>8
  <2>3. PICK f \in Id, r \in Seq(Id) : fs = Append(r, f) BY <1>5, <2>2, SequenceEmptyOrAppend
  <2>4. BackReady(d, f, r, rs) BY <1>4, <2>1, <2>3, WholeBackReady
  <2>5. CASE Returns(d, FALSE) BY <1>4, <2>1, <2>5 DEF Returns, Holding
  <2>6. CASE usable /\ ~ full /\ Returns(StoreBack(d, v), TRUE)
    <3>1. IsNode(d.nodes[d.back]) BY <1>5, <2>1, <2>6, AllocatedIds
    <3>2. RoomInBack(d) BY <2>6, <3>1, DequeAssumption DEF RoomInBack, IsNode, Node
    <3>3. Holding(StoreBack(d, v), Append(ElementsIn(d, fs), v))
      BY <2>3, <2>4, <3>2, BackPushed
    <3>4. deque' = StoreBack(d, v) /\ ok' = TRUE BY <2>6 DEF Returns
    <3>5. ElementsIn(d, fs) = s BY <1>4, <2>1
    <3> QED BY <3>3, <3>4, <3>5
  <2>7. CASE /\ usable /\ full /\ d.reserved = nullptr
             /\ \E grant \in Grants(d) \ {0} :
                   Returns(StoreBack(AddBackNode(d, grant), v), TRUE)
    <3>1. PICK grant \in Grants(d) \ {0} :
                   Returns(StoreBack(AddBackNode(d, grant), v), TRUE)
      BY <2>7
    <3>2. PICK e : e = AddBackNode(d, grant) OBVIOUS
    <3>3. Whole(d, fs, rs) /\ d.reserved = nullptr /\ grant \in Grants(d) /\ grant # 0
      BY <1>4, <2>1, <2>7
    <3>4. PICK new : /\ BackReady(e, new, fs, rs)
                     /\ ElementsIn(e, Append(fs, new)) = ElementsIn(d, fs)
      BY <2>2, <3>2, <3>3, AddedBack
    <3>5. RoomInBack(e)
      <4>1. d.back \in Allocated(d) BY <2>7
      <4>2. IsDeque(d) BY <1>5, <2>1
      <4> QED BY <3>2, <3>3, <4>1, <4>2, WithBackNodeIs
    <3>6. Holding(StoreBack(e, v), Append(ElementsIn(e, Append(fs, new)), v))
      BY <3>4, <3>5, BackPushed
    <3>7. deque' = StoreBack(e, v) /\ ok' = TRUE BY <3>1, <3>2 DEF Returns
    <3>8. ElementsIn(d, fs) = s BY <1>4, <2>1
    <3> QED BY <3>4, <3>6, <3>7, <3>8
  <2> QED BY <1>3, <1>8, <2>5, <2>6, <2>7
<1>9. CASE /\ deque.count = 0 /\ first # 0 /\ ~ Undefined /\ ~ AsIntended(FALSE)
  <2>1. first \in Grants(deque) BY <1>9 DEF FirstGrants
  <2>2. PICK new \in Id :
              /\ IsDeque(d) /\ new \notin Allocated(deque)
              /\ FrontGrown(d, deque, new) /\ BackGrown(d, deque, new)
              /\ d.nodes[new] = Blank("BACK", first) /\ Bare(d.nodes[new])
              /\ d.front = new /\ d.back = new /\ new \in Allocated(d)
              /\ d.count = deque.count
              /\ \A i \in Allocated(deque) : SameElements(d.nodes[i], deque.nodes[i])
    <3>1. "BACK" \in {"FRONT", "BACK"} OBVIOUS
    <3> QED BY <1>2, <1>4, <1>9, <2>1, <3>1, FirstNode
  <2>3. BackReady(d, new, fs, rs) /\ ElementsIn(d, Append(fs, new)) = ElementsIn(deque, fs)
    BY <1>4, <2>2, BackGrownReady
  <2>4. first \in 1 .. BlockSize BY <1>9, <2>1, GrantHasRoom
  <2>5. d.nodes[new].front = first /\ d.nodes[new].size = first /\ d.nodes[new].back = first
    BY <2>2 DEF Blank
  <2>6. RoomInBack(d) /\ ~ full
    BY <2>2, <2>4, <2>5, DequeAssumption DEF RoomInBack
  <2>7. ~ NoNode(d)
    <3>1. new # nullptr BY <2>2, DequeAssumption DEF Id, nullptr
    <3> QED BY <2>2, <3>1 DEF NoNode
  <2>8. Returns(StoreBack(d, v), TRUE) BY <1>3, <1>9, <2>6, <2>7
  <2>9. Holding(StoreBack(d, v), Append(ElementsIn(d, Append(fs, new)), v))
    BY <2>3, <2>6, BackPushed
  <2>10. deque' = StoreBack(d, v) /\ ok' = TRUE BY <2>8 DEF Returns
  <2> QED BY <1>4, <2>3, <2>9, <2>10
<1>10. CASE /\ deque.count = 0 /\ first = 0 /\ ~ Undefined /\ ~ AsIntended(FALSE)
  <2>1. deque.front = nullptr /\ deque.back = nullptr /\ nullptr \notin Allocated(deque)
    <3>1. /\ Line(fs) /\ deque.front = At(fs, 1) /\ deque.back = EndOf(fs)
          /\ nullptr \notin Allocated(deque)
      BY <1>4, WholeFacts
    <3>2. Len(fs) = 0
      <4>1. fs = <<>> BY <1>5, <1>10
      <4> QED BY <4>1
    <3> QED BY <3>1, <3>2, LineFacts
  <2>2. d = [deque EXCEPT !.front = nullptr] BY <1>2, <1>10 DEF WithFirstNode
  <2>3. d = deque BY <1>5, <2>1, <2>2 DEF IsDeque
  <2>4. ~ usable BY <2>1, <2>3
  <2>5. Returns(d, FALSE) BY <1>3, <1>10, <2>4
  <2> QED BY <1>4, <2>3, <2>5 DEF Returns, Holding
<1>11. \/ deque.count > 0
       \/ deque.count = 0 /\ first # 0
       \/ deque.count = 0 /\ first = 0
  BY <1>5
<1> QED BY <1>6, <1>7, <1>8, <1>9, <1>10, <1>11, Zenon

-----------------------------------------------------------------------------
(* pop_front and pop_back.                                                 *)

\* s is t with x before it.
ConsOf(s, x, t) == s = <<x>> \o t

FrontTakenBy(e, d, f, index) ==
    index = d.nodes[f].front - 1 /\ Taken(e, d, f, FrontLess(d.nodes[f], index))

FrontHeld(d, f, r, rs, fs) == fs = <<f>> \o r /\ Whole(d, fs, rs)

FrontTakenAs(e, d, f, r, rs, fs, index) ==
    /\ FrontReady(e, f, r, rs)
    /\ d.nodes[f].vals[index] \in Values
    /\ ConsOf(ElementsIn(d, fs), d.nodes[f].vals[index], ElementsIn(e, fs))
    /\ ElementsIn(e, fs) \in Seq(Values)
    /\ e.nodes[f].front = index /\ e.nodes[f].back = d.nodes[f].back

\* An element is taken from the front; its node may be left empty.
LEMMA FrontTaken ==
    ASSUME NEW d, NEW f \in Id, NEW r \in Seq(Id), NEW rs,
           NEW fs, FrontHeld(d, f, r, rs, fs), NEW e, NEW index,
           FrontTakenBy(e, d, f, index)
    PROVE  FrontTakenAs(e, d, f, r, rs, fs, index)
<1>0. index = d.nodes[f].front - 1 /\ Taken(e, d, f, FrontLess(d.nodes[f], index))
  BY DEF FrontTakenBy
<1>1. fs = <<f>> \o r /\ Whole(d, fs, rs) BY DEF FrontHeld
<1>2. PICK n : n = d.nodes[f] OBVIOUS
<1>3. PICK m : m = FrontLess(n, index) OBVIOUS
<1>4. /\ Chained(d, fs, rs) /\ d.count = Len(ElementsIn(d, fs))
      /\ Fits(n) /\ n.back < n.front /\ NodesFit(d, r) /\ Filled(d, r)
  <2>1. FrontReady(d, f, r, rs) /\ n.back < n.front BY <1>1, <1>2, WholeFrontReady
  <2> QED BY <1>1, <1>2, <2>1 DEF FrontReady
<1>4a. index = n.front - 1 BY <1>0, <1>2
<1>5. /\ NodeLeft(m, n) /\ m.front = index /\ m.back = n.back
      /\ n.vals[index] \in Values
      /\ ElementsOf(n) = <<n.vals[index]>> \o ElementsOf(m)
  BY <1>3, <1>4, <1>4a, FrontTakenNode
<1>6. /\ IsDeque(e) /\ Allocated(e) = Allocated(d) /\ e.nodes[f] = m
      /\ \A i \in Allocated(d) \ {f} : e.nodes[i] = d.nodes[i]
      /\ e.front = d.front /\ e.back = d.back /\ e.reserved = d.reserved
      /\ e.count = d.count - 1
  BY <1>0, <1>2, <1>3 DEF Taken
<1>7. /\ f \in Allocated(d)
      /\ \A i \in 1 .. Len(r) : r[i] \in Allocated(d) /\ r[i] # f
  BY <1>1, <1>4, FrontAndRest
<1>8. SameLinks(e, d) BY <1>2, <1>5, <1>6 DEF SameLinks, NodeLeft
<1>9. Chained(e, fs, rs) BY <1>4, <1>8, ChainedSame
<1>10. SameNodes(e, d, r) BY <1>6, <1>7 DEF SameNodes, SameElements
<1>11. NodesFit(e, r) /\ ElementsIn(e, r) = ElementsIn(d, r) /\ Filled(e, r)
  BY <1>4, <1>6, <1>7, <1>10, HeldSame
<1>12. Fits(e.nodes[f]) BY <1>5, <1>6 DEF NodeLeft
<1>13. PICK v : v = n.vals[index] OBVIOUS
<1>14. PICK h : h = <<v>> OBVIOUS
<1>15. PICK p : p = ElementsOf(m) OBVIOUS
<1>16. PICK q : q = ElementsIn(d, r) OBVIOUS
<1>17. v \in Values /\ h \in Seq(Values) BY <1>5, <1>13, <1>14
<1>18. p \in Seq(Values) BY <1>6, <1>12, <1>15, FitsAre
<1>19. q \in Seq(Values) BY <1>4, <1>16, ElementsType
<1>20. ElementsIn(d, fs) = (h \o p) \o q
  <2>1. ElementsIn(d, fs) = ElementsOf(n) \o q
    BY <1>1, <1>2, <1>4, <1>16, ElementsPrepend
  <2> QED BY <1>5, <1>13, <1>14, <1>15, <2>1
<1>21. PICK t : t = p \o q OBVIOUS
<1>22. t \in Seq(Values) BY <1>18, <1>19, <1>21, ConcatProperties
<1>23. (h \o p) \o q = h \o t
  <2>1. h \in Seq(Values) /\ p \in Seq(Values) /\ q \in Seq(Values)
    BY <1>17, <1>18, <1>19
  <2>2. (h \o p) \o q = h \o (p \o q) BY <2>1, ConcatAssociative
  <2> QED BY <1>21, <2>2
<1>24. ElementsIn(e, fs) = t
  <2>1. ElementsIn(e, fs) = ElementsOf(e.nodes[f]) \o ElementsIn(e, r)
    BY <1>1, <1>11, <1>12, ElementsPrepend
  <2> QED BY <1>6, <1>11, <1>15, <1>16, <1>21, <2>1
<1>25. Len(h \o t) = Len(t) + 1 /\ Len(t) \in Nat
  BY <1>14, <1>17, <1>22, ConsFacts
<1>26. e.count = Len(ElementsIn(e, fs))
  <2>1. d.count = Len(t) + 1 BY <1>4, <1>20, <1>23, <1>25
  <2> QED BY <1>6, <1>24, <1>25, <2>1
<1>27. FrontReady(e, f, r, rs)
  BY <1>1, <1>6, <1>9, <1>11, <1>12, <1>26 DEF FrontReady
<1>28. ConsOf(ElementsIn(d, fs), v, ElementsIn(e, fs))
  BY <1>14, <1>20, <1>23, <1>24 DEF ConsOf
<1> QED BY <1>2, <1>5, <1>6, <1>13, <1>17, <1>22, <1>24, <1>27, <1>28 DEF FrontTakenAs

\* The front node has elements left: it stays.
LEMMA FrontStays ==
    ASSUME NEW e, NEW f, NEW r, NEW rs, FrontReady(e, f, r, rs),
           e.nodes[f].back < e.nodes[f].front
    PROVE  Holding(e, ElementsIn(e, <<f>> \o r))
<1>1. PICK fs : fs = <<f>> \o r OBVIOUS
<1>2. /\ IsDeque(e) /\ f \in Id /\ r \in Seq(Id) /\ Chained(e, fs, rs)
      /\ Fits(e.nodes[f]) /\ NodesFit(e, r) /\ Filled(e, r)
      /\ e.count = Len(ElementsIn(e, fs))
  BY <1>1 DEF FrontReady
<1>3. NodesFit(e, fs) /\ Filled(e, fs) BY <1>1, <1>2, NodesFitCons
<1>4. Whole(e, fs, rs) BY <1>2, <1>3 DEF Whole
<1> QED BY <1>1, <1>4 DEF Holding

\* The empty node becomes a reserved one.
LEMMA FrontDropped ==
    ASSUME NEW d, NEW f, NEW r, NEW rs, FrontReady(d, f, r, rs),
           d.nodes[f].back = d.nodes[f].front
    PROVE  Holding(RemoveFrontNode(d), ElementsIn(d, <<f>> \o r))
<1>1. PICK fs : fs = <<f>> \o r OBVIOUS
<1>2. /\ IsDeque(d) /\ f \in Id /\ r \in Seq(Id) /\ Chained(d, fs, rs)
      /\ Fits(d.nodes[f]) /\ NodesFit(d, r) /\ Filled(d, r)
      /\ d.count = Len(ElementsIn(d, fs))
  BY <1>1 DEF FrontReady
<1>3. /\ f \in Allocated(d) /\ d.front = f
      /\ \A i \in 1 .. Len(r) : r[i] \in Allocated(d) /\ r[i] # f
  BY <1>1, <1>2, FrontAndRest
<1>4. PICK new : new = d.nodes[f].prev OBVIOUS
<1>5. new = At(r, 1)
  <2>1. Line(fs) /\ Forward(PrevOf(d), fs) BY <1>2, Zenon DEF Chained
  <2>2. Prepended(fs, r, f) BY <1>1, <1>2, <2>1, PrependedIs
  <2>3. PrevOf(d)[f] = At(r, 1) BY <2>1, <2>2, ForwardRest
  <2> QED BY <1>3, <1>4, <2>3 DEF PrevOf
<1>6. nullptr \notin Allocated(d) BY <1>2, AllocatedIds
<1>7. new \in Allocated(d) \cup {nullptr} /\ new # f
  BY <1>2, <1>3, <1>5, <1>6, LenProperties DEF At
<1>8. PICK e : e = RemoveFrontNode(d) OBVIOUS
<1>9. FrontRemoved(e, d) BY <1>2, <1>3, <1>4, <1>7, <1>8, RemoveFrontNodeIs
<1>10. /\ IsDeque(e) /\ Allocated(e) = Allocated(d)
       /\ e.front = new /\ e.reserved = f /\ e.count = d.count
       /\ e.nodes[f] = [d.nodes[f] EXCEPT !.next = d.reserved]
       /\ \A i \in Allocated(d) \ {f, new} : e.nodes[i] = d.nodes[i]
       /\ e.back = IF new = nullptr THEN nullptr ELSE d.back
       /\ new # nullptr => e.nodes[new] = [d.nodes[new] EXCEPT !.next = nullptr]
  BY <1>3, <1>4, <1>7, <1>9, Zenon DEF FrontRemoved
<1>11. \A i \in Allocated(d) : IsNode(d.nodes[i]) BY <1>2, AllocatedIds
<1>12. e.nodes[f].next = d.reserved BY <1>3, <1>10, <1>11 DEF IsNode, Node
<1>13. ASSUME NEW i \in Allocated(d) \ {f}
       PROVE  /\ e.nodes[i].prev = d.nodes[i].prev
              /\ e.nodes[i].next = IF i = new THEN nullptr ELSE d.nodes[i].next
              /\ SameElements(e.nodes[i], d.nodes[i])
  <2>1. CASE i = new
    <3>1. e.nodes[i] = [d.nodes[i] EXCEPT !.next = nullptr] BY <1>6, <1>10, <2>1
    <3>2. IsNode(d.nodes[i]) BY <1>11
    <3> QED BY <2>1, <3>1, <3>2 DEF IsNode, Node, SameElements
  <2>2. CASE i # new BY <1>10, <2>2 DEF SameElements
  <2> QED BY <2>1, <2>2
<1>14. FrontShrunk(e, d)
  BY <1>3, <1>4, <1>10, <1>12, <1>13 DEF FrontShrunk
<1>15. Chained(e, r, <<f>> \o rs) BY <1>1, <1>2, <1>14, ChainedFrontShrunk
<1>16. SameNodes(e, d, r) BY <1>3, <1>13 DEF SameNodes
<1>17. NodesFit(e, r) /\ ElementsIn(e, r) = ElementsIn(d, r) /\ Filled(e, r)
  BY <1>2, <1>3, <1>10, <1>16, HeldSame
<1>18. ElementsIn(d, fs) = ElementsIn(d, r)
  <2>1. ElementsOf(d.nodes[f]) = <<>>
    <3>1. /\ d.nodes[f].front \in Nat
          /\ ElementsOf(d.nodes[f]) \in Seq(Values)
          /\ Len(ElementsOf(d.nodes[f])) = d.nodes[f].front - d.nodes[f].back
      BY <1>2, FitsAre
    <3>2. Len(ElementsOf(d.nodes[f])) = 0 BY <3>1
    <3> QED BY <3>1, <3>2, EmptySeq
  <2>2. PICK q : q = ElementsIn(d, r) OBVIOUS
  <2>3. q \in Seq(Values) BY <1>2, <2>2, ElementsType
  <2>4. ElementsIn(d, fs) = <<>> \o q BY <1>1, <1>2, <2>1, <2>2, ElementsPrepend
  <2> QED BY <2>2, <2>3, <2>4, ConcatEmptySeq
<1>19. Whole(e, r, <<f>> \o rs) BY <1>2, <1>10, <1>15, <1>17, <1>18 DEF Whole
<1> QED BY <1>1, <1>8, <1>17, <1>18, <1>19 DEF Holding

\* What a pop finds, and what it leaves.
LEMMA PopFrontHolds ==
    ASSUME NEW s, Holding(deque, s), PopFront
    PROVE  \/ undefined' = TRUE
           \/ ok' = TRUE /\ \E t : s = <<val'>> \o t /\ Holding(deque', t)
<1>1. PICK end : end = deque.front OBVIOUS
<1>2. PICK node : node = deque.nodes[end] OBVIOUS
<1>3. PICK index : index = node.front - 1 OBVIOUS
<1>4. PICK taken : taken = [Take(deque, end, index) EXCEPT !.nodes[end].front = index]
  OBVIOUS
<1>5. \/ Undefined
      \/ /\ val' = node.vals[index]
         /\ Returns(IF index \in {0, node.back} THEN RemoveFrontNode(taken) ELSE taken,
                    TRUE)
  BY <1>1, <1>2, <1>3, <1>4, Zenon DEF PopFront
<1>6. CASE Undefined BY <1>6 DEF Undefined
<1>7. CASE /\ val' = node.vals[index]
           /\ Returns(IF index \in {0, node.back} THEN RemoveFrontNode(taken) ELSE taken,
                      TRUE)
  <2>1. deque.count > 0 BY Zenon DEF PopFront
  <2>2. PICK fs, rs : Whole(deque, fs, rs) /\ s = ElementsIn(deque, fs) BY DEF Holding
  <2>3. IsDeque(deque) /\ fs \in Seq(Id) BY <2>2, WholeFacts DEF Whole
  <2>4. fs # <<>>
    <3>1. deque.count \in Nat /\ (deque.count = 0 <=> fs = <<>>) BY <2>2, EmptyIsBare
    <3> QED BY <2>1, <3>1
  <2>5. PICK f \in Id, r \in Seq(Id) : fs = <<f>> \o r BY <2>3, <2>4, ConsSplit
  <2>6. Whole(deque, <<f>> \o r, rs) BY <2>2, <2>5
  <2>7. f \in Allocated(deque) /\ end = f
    <3>1. Chained(deque, <<f>> \o r, rs) BY <2>6 DEF Whole
    <3> QED BY <1>1, <3>1, FrontAndRest
  <2>8. Fits(node) /\ node.back < node.front
    BY <1>2, <2>6, <2>7, WholeFrontReady DEF FrontReady
  <2>9. /\ node.front \in Nat /\ node.back \in Nat /\ index \in node.back .. node.front - 1
        /\ DOMAIN node.vals = node.back .. node.front - 1
    BY <1>3, <2>8, FitsAre DEF Fits
  <2>10. Taken(taken, deque, f, FrontLess(node, index))
    <3>1. index \in DOMAIN deque.nodes[f].vals BY <1>2, <2>7, <2>9
    <3>2. Taken(taken, deque, f, [Without(deque.nodes[f], index) EXCEPT !.front = index])
      BY <1>2, <1>3, <1>4, <2>3, <2>7, <3>1, TakeFrontIs
    <3> QED BY <1>2, <2>7, <3>2 DEF FrontLess
  <2>11. PICK x : x = node.vals[index] OBVIOUS
  <2>12. PICK t : t = ElementsIn(taken, fs) OBVIOUS
  <2>13. /\ FrontReady(taken, f, r, rs) /\ x \in Values
         /\ s = <<x>> \o t /\ t \in Seq(Values)
         /\ taken.nodes[f].front = index /\ taken.nodes[f].back = node.back
    <3>1. node = deque.nodes[f] BY <1>2, <2>7
    <3>2. index = deque.nodes[f].front - 1 BY <1>3, <3>1
    <3>3. FrontTakenBy(taken, deque, f, index) BY <2>10, <3>1, <3>2 DEF FrontTakenBy
    <3>4. FrontHeld(deque, f, r, rs, fs) BY <2>2, <2>5 DEF FrontHeld
    <3>5. FrontTakenAs(taken, deque, f, r, rs, fs, index)
      BY <2>5, <3>3, <3>4, FrontTaken, Zenon
    <3>6. /\ FrontReady(taken, f, r, rs) /\ x \in Values
          /\ ConsOf(s, x, t) /\ t \in Seq(Values)
          /\ taken.nodes[f].front = index /\ taken.nodes[f].back = node.back
      BY <2>2, <2>11, <2>12, <3>1, <3>5, Zenon DEF FrontTakenAs
    <3>7. s = <<x>> \o t BY <3>6 DEF ConsOf
    <3> QED BY <3>6, <3>7
  <2>14. s = <<val'>> \o t BY <1>7, <2>11, <2>13
  <2>15. ok' = TRUE BY <1>7 DEF Returns
  <2>16. Holding(deque', t)
    <3>1. CASE index \in {0, node.back}
      <4>1. index = node.back BY <2>8, <2>9, <3>1
      <4>2. deque' = RemoveFrontNode(taken) BY <1>7, <3>1 DEF Returns
      <4>3. Holding(RemoveFrontNode(taken), t)
        BY <2>5, <2>12, <2>13, <4>1, FrontDropped
      <4> QED BY <4>2, <4>3
    <3>2. CASE index \notin {0, node.back}
      <4>1. node.back < index BY <2>8, <2>9, <3>2
      <4>2. deque' = taken BY <1>7, <3>2 DEF Returns
      <4>3. Holding(taken, t) BY <2>5, <2>12, <2>13, <4>1, FrontStays
      <4> QED BY <4>2, <4>3
    <3> QED BY <3>1, <3>2
  <2> QED BY <2>14, <2>15, <2>16
<1> QED BY <1>5, <1>6, <1>7

\* s is t with x behind it.
AppendOf(s, x, t) == s = Append(t, x)

BackTakenBy(e, d, f, index) ==
    index = d.nodes[f].back /\ Taken(e, d, f, BackLess(d.nodes[f], index))

BackHeld(d, f, r, rs, fs) == fs = Append(r, f) /\ Whole(d, fs, rs)

BackTakenAs(e, d, f, r, rs, fs, index) ==
    /\ BackReady(e, f, r, rs)
    /\ d.nodes[f].vals[index] \in Values
    /\ AppendOf(ElementsIn(d, fs), d.nodes[f].vals[index], ElementsIn(e, fs))
    /\ ElementsIn(e, fs) \in Seq(Values)
    /\ e.nodes[f].back = index + 1 /\ e.nodes[f].front = d.nodes[f].front

\* The same at the back.
LEMMA BackTaken ==
    ASSUME NEW d, NEW f \in Id, NEW r \in Seq(Id), NEW rs,
           NEW fs, BackHeld(d, f, r, rs, fs), NEW e, NEW index,
           BackTakenBy(e, d, f, index)
    PROVE  BackTakenAs(e, d, f, r, rs, fs, index)
<1>0. index = d.nodes[f].back /\ Taken(e, d, f, BackLess(d.nodes[f], index))
  BY DEF BackTakenBy
<1>1. fs = Append(r, f) /\ Whole(d, fs, rs) BY DEF BackHeld
<1>2. PICK n : n = d.nodes[f] OBVIOUS
<1>3. PICK m : m = BackLess(n, index) OBVIOUS
<1>4. /\ Chained(d, fs, rs) /\ d.count = Len(ElementsIn(d, fs))
      /\ Fits(n) /\ n.back < n.front /\ NodesFit(d, r) /\ Filled(d, r)
  <2>1. BackReady(d, f, r, rs) /\ n.back < n.front BY <1>1, <1>2, WholeBackReady
  <2> QED BY <1>1, <1>2, <2>1 DEF BackReady
<1>4a. index = n.back BY <1>0, <1>2
<1>5. /\ NodeLeft(m, n) /\ m.front = n.front /\ m.back = index + 1
      /\ n.vals[index] \in Values
      /\ ElementsOf(n) = Append(ElementsOf(m), n.vals[index])
  BY <1>3, <1>4, <1>4a, BackTakenNode
<1>6. /\ IsDeque(e) /\ Allocated(e) = Allocated(d) /\ e.nodes[f] = m
      /\ \A i \in Allocated(d) \ {f} : e.nodes[i] = d.nodes[i]
      /\ e.front = d.front /\ e.back = d.back /\ e.reserved = d.reserved
      /\ e.count = d.count - 1
  BY <1>0, <1>2, <1>3 DEF Taken
<1>7. /\ f \in Allocated(d)
      /\ \A i \in 1 .. Len(r) : r[i] \in Allocated(d) /\ r[i] # f
  BY <1>1, <1>4, BackAndRest
<1>8. SameLinks(e, d) BY <1>2, <1>5, <1>6 DEF SameLinks, NodeLeft
<1>9. Chained(e, fs, rs) BY <1>4, <1>8, ChainedSame
<1>10. SameNodes(e, d, r) BY <1>6, <1>7 DEF SameNodes, SameElements
<1>11. NodesFit(e, r) /\ ElementsIn(e, r) = ElementsIn(d, r) /\ Filled(e, r)
  BY <1>4, <1>6, <1>7, <1>10, HeldSame
<1>12. Fits(e.nodes[f]) BY <1>5, <1>6 DEF NodeLeft
<1>13. PICK v : v = n.vals[index] OBVIOUS
<1>14. PICK h : h = <<v>> OBVIOUS
<1>15. PICK p : p = ElementsOf(m) OBVIOUS
<1>16. PICK q : q = ElementsIn(d, r) OBVIOUS
<1>17. v \in Values /\ h \in Seq(Values) BY <1>5, <1>13, <1>14
<1>18. p \in Seq(Values) BY <1>6, <1>12, <1>15, FitsAre
<1>19. q \in Seq(Values) BY <1>4, <1>16, ElementsType
<1>20. ElementsIn(d, fs) = q \o (p \o h)
  <2>1. ElementsIn(d, fs) = q \o ElementsOf(n)
    BY <1>1, <1>2, <1>4, <1>16, ElementsAppend
  <2>2. Append(p, v) = p \o h BY <1>14, <1>17, <1>18, AppendIsConcat
  <2> QED BY <1>5, <1>13, <1>15, <2>1, <2>2
<1>21. PICK t : t = q \o p OBVIOUS
<1>22. t \in Seq(Values) BY <1>18, <1>19, <1>21, ConcatProperties
<1>23. q \o (p \o h) = Append(t, v)
  <2>1. h \in Seq(Values) /\ p \in Seq(Values) /\ q \in Seq(Values)
    BY <1>17, <1>18, <1>19
  <2>2. (q \o p) \o h = q \o (p \o h) BY <2>1, ConcatAssociative
  <2>3. t \o h = Append(t, v) BY <1>14, <1>17, <1>22, AppendIsConcat
  <2> QED BY <1>21, <2>2, <2>3
<1>24. ElementsIn(e, fs) = t
  <2>1. ElementsIn(e, fs) = ElementsIn(e, r) \o ElementsOf(e.nodes[f])
    BY <1>1, <1>11, <1>12, ElementsAppend
  <2> QED BY <1>6, <1>11, <1>15, <1>16, <1>21, <2>1
<1>25. Len(Append(t, v)) = Len(t) + 1 /\ Len(t) \in Nat
  BY <1>17, <1>22, AppendProperties, LenProperties
<1>26. e.count = Len(ElementsIn(e, fs))
  <2>1. d.count = Len(t) + 1 BY <1>4, <1>20, <1>23, <1>25
  <2> QED BY <1>6, <1>24, <1>25, <2>1
<1>27. BackReady(e, f, r, rs)
  BY <1>1, <1>6, <1>9, <1>11, <1>12, <1>26 DEF BackReady
<1>28. AppendOf(ElementsIn(d, fs), v, ElementsIn(e, fs))
  BY <1>14, <1>20, <1>23, <1>24 DEF AppendOf
<1> QED BY <1>2, <1>5, <1>6, <1>13, <1>17, <1>22, <1>24, <1>27, <1>28 DEF BackTakenAs

\* The back node has elements left: it stays.
LEMMA BackStays ==
    ASSUME NEW e, NEW f, NEW r, NEW rs, BackReady(e, f, r, rs),
           e.nodes[f].back < e.nodes[f].front
    PROVE  Holding(e, ElementsIn(e, Append(r, f)))
<1>1. PICK fs : fs = Append(r, f) OBVIOUS
<1>2. /\ IsDeque(e) /\ f \in Id /\ r \in Seq(Id) /\ Chained(e, fs, rs)
      /\ Fits(e.nodes[f]) /\ NodesFit(e, r) /\ Filled(e, r)
      /\ e.count = Len(ElementsIn(e, fs))
  BY <1>1 DEF BackReady
<1>3. NodesFit(e, fs) /\ Filled(e, fs) BY <1>1, <1>2, NodesFitAppend
<1>4. Whole(e, fs, rs) BY <1>2, <1>3 DEF Whole
<1> QED BY <1>1, <1>4 DEF Holding

\* The same at the back.
LEMMA BackDropped ==
    ASSUME NEW d, NEW f, NEW r, NEW rs, BackReady(d, f, r, rs),
           d.nodes[f].back = d.nodes[f].front
    PROVE  Holding(RemoveBackNode(d), ElementsIn(d, Append(r, f)))
<1>1. PICK fs : fs = Append(r, f) OBVIOUS
<1>2. /\ IsDeque(d) /\ f \in Id /\ r \in Seq(Id) /\ Chained(d, fs, rs)
      /\ Fits(d.nodes[f]) /\ NodesFit(d, r) /\ Filled(d, r)
      /\ d.count = Len(ElementsIn(d, fs))
  BY <1>1 DEF BackReady
<1>3. /\ f \in Allocated(d) /\ d.back = f
      /\ \A i \in 1 .. Len(r) : r[i] \in Allocated(d) /\ r[i] # f
  BY <1>1, <1>2, BackAndRest
<1>4. PICK new : new = d.nodes[f].next OBVIOUS
<1>5. new = EndOf(r)
  <2>1. Line(fs) /\ Backward(NextOf(d), fs) BY <1>2, Zenon DEF Chained
  <2>2. Appended(fs, r, f) BY <1>1, <1>2, <2>1, AppendedIs
  <2>3. NextOf(d)[f] = EndOf(r) BY <2>1, <2>2, BackwardFront
  <2> QED BY <1>3, <1>4, <2>3 DEF NextOf
<1>6. nullptr \notin Allocated(d) BY <1>2, AllocatedIds
<1>7. new \in Allocated(d) \cup {nullptr} /\ new # f
  BY <1>2, <1>3, <1>5, <1>6, LenProperties DEF At, EndOf
<1>8. PICK e : e = RemoveBackNode(d) OBVIOUS
<1>9. BackRemoved(e, d) BY <1>2, <1>3, <1>4, <1>7, <1>8, RemoveBackNodeIs
<1>10. /\ IsDeque(e) /\ Allocated(e) = Allocated(d)
       /\ e.back = new /\ e.reserved = f /\ e.count = d.count
       /\ e.nodes[f] = [d.nodes[f] EXCEPT !.next = d.reserved]
       /\ \A i \in Allocated(d) \ {f, new} : e.nodes[i] = d.nodes[i]
       /\ e.front = IF new = nullptr THEN nullptr ELSE d.front
       /\ new # nullptr => e.nodes[new] = [d.nodes[new] EXCEPT !.prev = nullptr]
  BY <1>3, <1>4, <1>7, <1>9, Zenon DEF BackRemoved
<1>11. \A i \in Allocated(d) : IsNode(d.nodes[i]) BY <1>2, AllocatedIds
<1>12. e.nodes[f].next = d.reserved BY <1>3, <1>10, <1>11 DEF IsNode, Node
<1>13. ASSUME NEW i \in Allocated(d) \ {f}
       PROVE  /\ e.nodes[i].next = d.nodes[i].next
              /\ e.nodes[i].prev = IF i = new THEN nullptr ELSE d.nodes[i].prev
              /\ SameElements(e.nodes[i], d.nodes[i])
  <2>1. CASE i = new
    <3>1. e.nodes[i] = [d.nodes[i] EXCEPT !.prev = nullptr] BY <1>6, <1>10, <2>1
    <3>2. IsNode(d.nodes[i]) BY <1>11
    <3> QED BY <2>1, <3>1, <3>2 DEF IsNode, Node, SameElements
  <2>2. CASE i # new BY <1>10, <2>2 DEF SameElements
  <2> QED BY <2>1, <2>2
<1>14. BackShrunk(e, d)
  BY <1>3, <1>4, <1>10, <1>12, <1>13 DEF BackShrunk
<1>15. Chained(e, r, <<f>> \o rs) BY <1>1, <1>2, <1>14, ChainedBackShrunk
<1>16. SameNodes(e, d, r) BY <1>3, <1>13 DEF SameNodes
<1>17. NodesFit(e, r) /\ ElementsIn(e, r) = ElementsIn(d, r) /\ Filled(e, r)
  BY <1>2, <1>3, <1>10, <1>16, HeldSame
<1>18. ElementsIn(d, fs) = ElementsIn(d, r)
  <2>1. ElementsOf(d.nodes[f]) = <<>>
    <3>1. /\ d.nodes[f].front \in Nat
          /\ ElementsOf(d.nodes[f]) \in Seq(Values)
          /\ Len(ElementsOf(d.nodes[f])) = d.nodes[f].front - d.nodes[f].back
      BY <1>2, FitsAre
    <3>2. Len(ElementsOf(d.nodes[f])) = 0 BY <3>1
    <3> QED BY <3>1, <3>2, EmptySeq
  <2>2. PICK q : q = ElementsIn(d, r) OBVIOUS
  <2>3. q \in Seq(Values) BY <1>2, <2>2, ElementsType
  <2>4. ElementsIn(d, fs) = q \o <<>> BY <1>1, <1>2, <2>1, <2>2, ElementsAppend
  <2> QED BY <2>2, <2>3, <2>4, ConcatEmptySeq
<1>19. Whole(e, r, <<f>> \o rs) BY <1>2, <1>10, <1>15, <1>17, <1>18 DEF Whole
<1> QED BY <1>1, <1>8, <1>17, <1>18, <1>19 DEF Holding

\* pop_back hands out the last element, and leaves the others.
LEMMA PopBackHolds ==
    ASSUME NEW s, Holding(deque, s), PopBack
    PROVE  \/ undefined' = TRUE
           \/ ok' = TRUE /\ \E t : s = Append(t, val') /\ Holding(deque', t)
<1>1. PICK end : end = deque.back OBVIOUS
<1>2. PICK node : node = deque.nodes[end] OBVIOUS
<1>3. PICK index : index = node.back OBVIOUS
<1>4. PICK taken : taken = [Take(deque, end, index) EXCEPT !.nodes[end].back = index + 1]
  OBVIOUS
<1>5. \/ Undefined
      \/ /\ val' = node.vals[index]
         /\ Returns(IF index + 1 \in {node.size, node.front}
                      THEN RemoveBackNode(taken) ELSE taken,
                    TRUE)
  BY <1>1, <1>2, <1>3, <1>4, Zenon DEF PopBack
<1>6. CASE Undefined BY <1>6 DEF Undefined
<1>7. CASE /\ val' = node.vals[index]
           /\ Returns(IF index + 1 \in {node.size, node.front}
                      THEN RemoveBackNode(taken) ELSE taken,
                      TRUE)
  <2>1. deque.count > 0 BY Zenon DEF PopBack
  <2>2. PICK fs, rs : Whole(deque, fs, rs) /\ s = ElementsIn(deque, fs) BY DEF Holding
  <2>3. IsDeque(deque) /\ fs \in Seq(Id) BY <2>2, WholeFacts DEF Whole
  <2>4. fs # <<>>
    <3>1. deque.count \in Nat /\ (deque.count = 0 <=> fs = <<>>) BY <2>2, EmptyIsBare
    <3> QED BY <2>1, <3>1
  <2>5. PICK f \in Id, r \in Seq(Id) : fs = Append(r, f) BY <2>3, <2>4, SequenceEmptyOrAppend
  <2>6. Whole(deque, Append(r, f), rs) BY <2>2, <2>5
  <2>7. f \in Allocated(deque) /\ end = f
    <3>1. Chained(deque, Append(r, f), rs) BY <2>6 DEF Whole
    <3> QED BY <1>1, <3>1, BackAndRest
  <2>8. Fits(node) /\ node.back < node.front
    BY <1>2, <2>6, <2>7, WholeBackReady DEF BackReady
  <2>9. /\ node.front \in Nat /\ node.back \in Nat /\ index \in node.back .. node.front - 1
        /\ DOMAIN node.vals = node.back .. node.front - 1
        /\ node.size \in Nat /\ node.front <= node.size
    BY <1>3, <2>8, FitsAre DEF Fits
  <2>10. Taken(taken, deque, f, BackLess(node, index))
    <3>1. index \in DOMAIN deque.nodes[f].vals BY <1>2, <2>7, <2>9
    <3>2. Taken(taken, deque, f, [Without(deque.nodes[f], index) EXCEPT !.back = index + 1])
      BY <1>2, <1>3, <1>4, <2>3, <2>7, <3>1, TakeBackIs
    <3> QED BY <1>2, <2>7, <3>2 DEF BackLess
  <2>11. PICK x : x = node.vals[index] OBVIOUS
  <2>12. PICK t : t = ElementsIn(taken, fs) OBVIOUS
  <2>13. /\ BackReady(taken, f, r, rs) /\ x \in Values
         /\ s = Append(t, x) /\ t \in Seq(Values)
         /\ taken.nodes[f].back = index + 1 /\ taken.nodes[f].front = node.front
    <3>1. node = deque.nodes[f] BY <1>2, <2>7
    <3>2. index = deque.nodes[f].back BY <1>3, <3>1
    <3>3. BackTakenBy(taken, deque, f, index) BY <2>10, <3>1, <3>2 DEF BackTakenBy
    <3>4. BackHeld(deque, f, r, rs, fs) BY <2>2, <2>5 DEF BackHeld
    <3>5. BackTakenAs(taken, deque, f, r, rs, fs, index)
      BY <2>5, <3>3, <3>4, BackTaken, Zenon
    <3>6. /\ BackReady(taken, f, r, rs) /\ x \in Values
          /\ AppendOf(s, x, t) /\ t \in Seq(Values)
          /\ taken.nodes[f].back = index + 1 /\ taken.nodes[f].front = node.front
      BY <2>2, <2>11, <2>12, <3>1, <3>5, Zenon DEF BackTakenAs
    <3>7. s = Append(t, x) BY <3>6 DEF AppendOf
    <3> QED BY <3>6, <3>7
  <2>14. s = Append(t, val') BY <1>7, <2>11, <2>13
  <2>15. ok' = TRUE BY <1>7 DEF Returns
  <2>16. Holding(deque', t)
    <3>1. CASE index + 1 \in {node.size, node.front}
      <4>1. index + 1 = node.front BY <2>8, <2>9, <3>1
      <4>2. deque' = RemoveBackNode(taken) BY <1>7, <3>1 DEF Returns
      <4>3. Holding(RemoveBackNode(taken), t)
        BY <2>5, <2>12, <2>13, <4>1, BackDropped
      <4> QED BY <4>2, <4>3
    <3>2. CASE index + 1 \notin {node.size, node.front}
      <4>1. index + 1 < node.front BY <2>8, <2>9, <3>2
      <4>2. deque' = taken BY <1>7, <3>2 DEF Returns
      <4>3. Holding(taken, t) BY <2>5, <2>12, <2>13, <4>1, BackStays
      <4> QED BY <4>2, <4>3
    <3> QED BY <3>1, <3>2
  <2> QED BY <2>14, <2>15, <2>16
<1> QED BY <1>5, <1>6, <1>7

-----------------------------------------------------------------------------
(* reserve, and pops that fail.                                            *)

\* One more reserved node changes nothing that is held.
LEMMA ReservedHolds ==
    ASSUME NEW d, NEW s, Holding(d, s), NEW new \in Id, new \notin Allocated(d),
           NEW grant, NEW e, NodeReserved(e, d, new, grant)
    PROVE  Holding(e, s)
<1>1. PICK fs, rs : Whole(d, fs, rs) /\ s = ElementsIn(d, fs) BY DEF Holding
<1>2. /\ Chained(d, fs, rs) /\ NodesFit(d, fs) /\ Filled(d, fs)
      /\ d.count = Len(ElementsIn(d, fs))
  BY <1>1 DEF Whole
<1>3. fs \in Seq(Id) /\ \A i \in 1 .. Len(fs) : fs[i] \in Allocated(d)
  BY <1>1, WholeFacts
<1>4. /\ IsDeque(e) /\ Allocated(e) = Allocated(d) \cup {new}
      /\ e.nodes[new] = [Blank("FRONT", grant) EXCEPT !.next = d.reserved]
      /\ \A i \in Allocated(d) : e.nodes[i] = d.nodes[i]
      /\ e.front = d.front /\ e.back = d.back /\ e.reserved = new
      /\ e.count = d.count
  BY DEF NodeReserved
<1>5. e.nodes[new].next = d.reserved BY <1>4 DEF Blank
<1>6. ReserveGrown(e, d, new) BY <1>4, <1>5 DEF ReserveGrown
<1>7. Chained(e, fs, <<new>> \o rs) BY <1>2, <1>6, ChainedReserveGrown
<1>8. SameNodes(e, d, fs) BY <1>3, <1>4 DEF SameNodes, SameElements
<1>9. \A i \in 1 .. Len(fs) : fs[i] \in Allocated(e) BY <1>3, <1>4
<1>10. NodesFit(e, fs) /\ ElementsIn(e, fs) = ElementsIn(d, fs) /\ Filled(e, fs)
  BY <1>2, <1>3, <1>4, <1>8, <1>9, HeldSame
<1>11. PICK q : q = <<new>> \o rs OBVIOUS
<1>12. Chained(e, fs, q) BY <1>7, <1>11
<1>13. Whole(e, fs, q) BY <1>2, <1>4, <1>10, <1>12 DEF Whole
<1> QED BY <1>1, <1>10, <1>13 DEF Holding

\* Nor does a new capacity.
LEMMA CapacityHolds ==
    ASSUME NEW d, NEW s, Holding(d, s), NEW c \in 0 .. SizeModulus - 1, NEW e,
           e = [d EXCEPT !.capacity = c]
    PROVE  Holding(e, s)
<1>1. PICK fs, rs : Whole(d, fs, rs) /\ s = ElementsIn(d, fs) BY DEF Holding
<1>2. /\ IsDeque(d) /\ Chained(d, fs, rs) /\ NodesFit(d, fs) /\ Filled(d, fs)
      /\ d.count = Len(ElementsIn(d, fs))
  BY <1>1 DEF Whole
<1>3. fs \in Seq(Id) /\ \A i \in 1 .. Len(fs) : fs[i] \in Allocated(d)
  BY <1>1, WholeFacts
<1>4. IsDeque(e) BY <1>2, SetMembers
<1>5. /\ e.nodes = d.nodes /\ e.front = d.front /\ e.back = d.back
      /\ e.reserved = d.reserved /\ e.count = d.count
  BY <1>2 DEF IsDeque
<1>6. Allocated(e) = Allocated(d) BY <1>5 DEF Allocated
<1>7. SameLinks(e, d) BY <1>5, <1>6 DEF SameLinks
<1>8. Chained(e, fs, rs) BY <1>2, <1>7, ChainedSame
<1>9. SameNodes(e, d, fs) BY <1>5 DEF SameNodes, SameElements
<1>10. NodesFit(e, fs) /\ ElementsIn(e, fs) = ElementsIn(d, fs) /\ Filled(e, fs)
  BY <1>2, <1>3, <1>4, <1>6, <1>9, HeldSame
<1>11. Whole(e, fs, rs) BY <1>2, <1>4, <1>5, <1>8, <1>10 DEF Whole
<1> QED BY <1>1, <1>10, <1>11 DEF Holding

\* A reservation changes nothing that is held.
LEMMA GrantedHolds ==
    ASSUME NEW s, Holding(deque, s), NEW n, NEW g \in GrantSequences(n)
    PROVE  Holding(Granted(deque, g), s)
<1>0. IsDeque(deque) BY DEF Holding, Whole
<1>1. PICK G : /\ GrantsInTurn(G, deque, g, Len(g))
               /\ Granted(deque, g) = G[Len(g)]
  BY <1>0, GrantedInTurn
<1>2. PICK k : k = Len(g) OBVIOUS
<1>3. k \in Nat BY <1>0, <1>2, GrantSequencesAre
<1>4. /\ G[0] = deque
      /\ \A i \in 1 .. k :
           /\ NewId(G[i - 1]) \in Id /\ NewId(G[i - 1]) \notin Allocated(G[i - 1])
           /\ NodeReserved(G[i], G[i - 1], NewId(G[i - 1]), g[i])
  BY <1>1, <1>2 DEF GrantsInTurn
<1>5. ASSUME NEW i \in 1 .. k, Holding(G[i - 1], s) PROVE Holding(G[i], s)
  <2>1. PICK d, e, new : d = G[i - 1] /\ e = G[i] /\ new = NewId(G[i - 1]) OBVIOUS
  <2>2. /\ new \in Id /\ new \notin Allocated(d)
        /\ NodeReserved(e, d, new, g[i]) /\ Holding(d, s)
    BY <1>4, <1>5, <2>1
  <2>3. Holding(e, s) BY <2>2, ReservedHolds
  <2> QED BY <2>1, <2>3
<1> DEFINE T == {i \in 0 .. k : ~ Holding(G[i], s)}
<1>6. T = {}
  <2> SUFFICES ASSUME T # {} PROVE FALSE OBVIOUS
  <2>1. PICK i \in T : \A m \in T : i <= m
    <3>1. T \subseteq Nat OBVIOUS
    <3> HIDE DEF T
    <3> QED BY <3>1, LeastNatural
  <2>2. i # 0 BY <1>4, <2>1
  <2>3. i \in 1 .. k /\ i - 1 \in 0 .. k /\ ~(i <= i - 1) BY <1>3, <2>1, <2>2
  <2>4. Holding(G[i - 1], s) BY <2>1, <2>3
  <2>5. Holding(G[i], s) BY <1>5, <2>3, <2>4
  <2> QED BY <2>1, <2>5
<1>7. k \in 0 .. k BY <1>3
<1>8. Holding(G[k], s) BY <1>6, <1>7
<1> QED BY <1>1, <1>2, <1>8

\* reserve changes nothing that is held.
LEMMA ReserveHolds ==
    ASSUME NEW s, Holding(deque, s), Reserve
    PROVE  Holding(deque', s)
<1>0. PICK n \in Reservations : \E g \in GrantSequences(n) :
         Returns([Granted(deque, g) EXCEPT !.capacity = Modulo(@ + n)], TRUE)
  BY Zenon DEF Reserve
<1>1. PICK g \in GrantSequences(n) :
         Returns([Granted(deque, g) EXCEPT !.capacity = Modulo(@ + n)], TRUE)
  BY <1>0
<1>2. PICK e : e = Granted(deque, g) OBVIOUS
<1>3. Holding(e, s) BY <1>2, GrantedHolds
<1>4. IsDeque(e) BY <1>3 DEF Holding, Whole
<1>5. PICK c : c = Modulo(e.capacity + n) OBVIOUS
<1>6. c \in 0 .. SizeModulus - 1
  BY <1>4, <1>5, AllocatedIds, ModuloRange, DequeAssumption
<1>7. PICK f : f = [e EXCEPT !.capacity = c] OBVIOUS
<1>8. Holding(f, s) BY <1>3, <1>6, <1>7, CapacityHolds
<1>9. deque' = f BY <1>1, <1>2, <1>5, <1>7 DEF Returns
<1> QED BY <1>8, <1>9

\* A reservation that fails changes nothing, or the deque is no longer used as intended.
LEMMA ReserveFailsHolds ==
    ASSUME NEW s, Holding(deque, s), ReserveFails
    PROVE  \/ undefined' = TRUE
           \/ intended' = FALSE
           \/ Holding(deque', s)
<1>0. PICK n \in Reservations : \E g \in GrantSequences(n) :
         LET d == Granted(deque, g)
             rest == d.nodes[d.reserved].next
             undone == IF g = <<>> THEN d
                       ELSE [Free(d, rest) EXCEPT !.reserved = rest]
         IN IF Len(g) <= 1
              THEN /\ Returns([undone EXCEPT !.capacity = Modulo(@ + n)], FALSE)
                   /\ AsIntended(g = <<>>)
              ELSE Undefined
  BY Zenon DEF ReserveFails
<1>1. PICK g \in GrantSequences(n) :
         LET d == Granted(deque, g)
             rest == d.nodes[d.reserved].next
             undone == IF g = <<>> THEN d
                       ELSE [Free(d, rest) EXCEPT !.reserved = rest]
         IN IF Len(g) <= 1
              THEN /\ Returns([undone EXCEPT !.capacity = Modulo(@ + n)], FALSE)
                   /\ AsIntended(g = <<>>)
              ELSE Undefined
  BY <1>0, Zenon
<1>2. PICK e : e = Granted(deque, g) OBVIOUS
<1>3. PICK undone : undone = IF g = <<>> THEN e
         ELSE [Free(e, e.nodes[e.reserved].next) EXCEPT !.reserved = e.nodes[e.reserved].next]
  OBVIOUS
<1>4. \/ /\ Returns([undone EXCEPT !.capacity = Modulo(@ + n)], FALSE)
         /\ AsIntended(g = <<>>)
      \/ Undefined
  BY <1>1, <1>2, <1>3, Zenon
<1>5. CASE Undefined BY <1>5 DEF Undefined
<1>6. CASE g # <<>> /\ AsIntended(g = <<>>) BY <1>6 DEF AsIntended
<1>7. CASE g = <<>> /\ Returns([undone EXCEPT !.capacity = Modulo(@ + n)], FALSE)
  <2>1. Holding(e, s) BY <1>2, GrantedHolds
  <2>2. IsDeque(e) BY <2>1 DEF Holding, Whole
  <2>3. PICK c : c = Modulo(e.capacity + n) OBVIOUS
  <2>4. c \in 0 .. SizeModulus - 1
    BY <2>2, <2>3, AllocatedIds, ModuloRange, DequeAssumption
  <2>5. PICK f : f = [e EXCEPT !.capacity = c] OBVIOUS
  <2>6. Holding(f, s) BY <2>1, <2>4, <2>5, CapacityHolds
  <2>7. undone = e BY <1>3, <1>7
  <2>8. deque' = f BY <1>7, <2>3, <2>5, <2>7 DEF Returns
  <2> QED BY <2>6, <2>8
<1> QED BY <1>4, <1>5, <1>6, <1>7

\* A pop fails on an empty deque only: a node at an end holds an element.
LEMMA PopFailsHolds ==
    ASSUME NEW s, Holding(deque, s), NEW name, NEW end,
           end \in {deque.front, deque.back}, PopFails(name, end)
    PROVE  s = <<>> /\ Holding(deque', s) /\ ok' = FALSE
<1>1. PICK fs, rs : Whole(deque, fs, rs) /\ s = ElementsIn(deque, fs) BY DEF Holding
<1>2. /\ deque.count \in Nat /\ (deque.count = 0 <=> fs = <<>>)
      /\ (ElementsIn(deque, fs) = <<>> <=> fs = <<>>)
  BY <1>1, EmptyIsBare
<1>3. /\ IsDeque(deque) /\ Line(fs) /\ Filled(deque, fs)
      /\ deque.front = At(fs, 1) /\ deque.back = EndOf(fs)
  BY <1>1, WholeFacts DEF Whole
<1>4. \/ deque.count = 0
      \/ /\ end \in Allocated(deque)
         /\ deque.nodes[end].front = deque.nodes[end].back
  BY DEF PopFails
<1>5. fs = <<>>
  <2> SUFFICES ASSUME fs # <<>> PROVE FALSE OBVIOUS
  <2>1. /\ end \in Allocated(deque)
        /\ deque.nodes[end].front = deque.nodes[end].back
    BY <1>2, <1>4
  <2>2. IsNode(deque.nodes[end]) BY <1>3, <2>1, AllocatedIds
  <2>3. Len(fs) \in Nat /\ Len(fs) # 0 BY <1>3, LineFacts, EmptySeq
  <2>4. PICK i \in 1 .. Len(fs) : end = fs[i]
    <3>1. 1 \in 1 .. Len(fs) /\ Len(fs) \in 1 .. Len(fs) BY <2>3
    <3> QED BY <1>3, <3>1 DEF At, EndOf
  <2>5. deque.nodes[end].back < deque.nodes[end].front BY <1>3, <2>4 DEF Filled
  <2> QED BY <2>1, <2>2, <2>5 DEF IsNode, Node
<1>6. deque' = deque /\ ok' = FALSE BY DEF PopFails, Returns
<1> QED BY <1>1, <1>2, <1>5, <1>6

-----------------------------------------------------------------------------
(* The invariant of a deque used as intended, and what follows from it.    *)

\* What an operation may do to the elements s, as Deque says it.
Moves(s, t) ==
    \/ /\ op' = "push_front" /\ ok' = TRUE /\ val' = NoValue
       /\ \E v \in Values : t = <<v>> \o s
    \/ /\ op' = "push_back" /\ ok' = TRUE /\ val' = NoValue
       /\ \E v \in Values : t = Append(s, v)
    \/ op' \in {"push_front", "push_back"} /\ ok' = FALSE /\ val' = NoValue /\ t = s
    \/ op' = "pop_front" /\ ok' = TRUE /\ s = <<val'>> \o t
    \/ op' = "pop_back" /\ ok' = TRUE /\ s = Append(t, val')
    \/ /\ op' \in {"pop_front", "pop_back"} /\ ok' = FALSE /\ s = <<>>
       /\ val' = NoValue /\ t = s
    \/ op' = "reserve" /\ ok' \in BOOLEAN /\ val' = NoValue /\ t = s

MovesFrom(s) == \E t : Holding(deque', t) /\ Moves(s, t)

\* Every operation does to the elements what Deque allows, as long as the deque is
\* used as intended.
LEMMA HeldStep ==
    ASSUME NEW s, Holding(deque, s), Next, ok' \in BOOLEAN
    PROVE  \/ undefined' = TRUE
           \/ intended' = FALSE
           \/ MovesFrom(s)
<1>1. CASE PushFront
  <2>1. op' = "push_front" /\ val' = NoValue BY <1>1, Zenon DEF PushFront, Called
  <2>2. \/ undefined' = TRUE
        \/ intended' = FALSE
        \/ ok' = TRUE /\ \E v \in Values : Holding(deque', <<v>> \o s)
        \/ ok' = FALSE /\ Holding(deque', s)
    BY <1>1, PushFrontHolds
  <2>3. ASSUME ok' = TRUE, \E v \in Values : Holding(deque', <<v>> \o s)
        PROVE  MovesFrom(s)
    <3>1. PICK v \in Values : Holding(deque', <<v>> \o s) BY <2>3
    <3>2. PICK t : t = <<v>> \o s OBVIOUS
    <3>3. Holding(deque', t) BY <3>1, <3>2
    <3>4. Moves(s, t) BY <2>1, <2>3, <3>2, Zenon DEF Moves
    <3> QED BY <3>3, <3>4 DEF MovesFrom
  <2>4. ASSUME ok' = FALSE, Holding(deque', s) PROVE MovesFrom(s)
    <3>1. Moves(s, s) BY <2>1, <2>4 DEF Moves
    <3> QED BY <2>4, <3>1 DEF MovesFrom
  <2> QED BY <2>2, <2>3, <2>4
<1>2. CASE PushBack
  <2>1. op' = "push_back" /\ val' = NoValue BY <1>2, Zenon DEF PushBack, Called
  <2>2. \/ undefined' = TRUE
        \/ intended' = FALSE
        \/ ok' = TRUE /\ \E v \in Values : Holding(deque', Append(s, v))
        \/ ok' = FALSE /\ Holding(deque', s)
    BY <1>2, PushBackHolds
  <2>3. ASSUME ok' = TRUE, \E v \in Values : Holding(deque', Append(s, v))
        PROVE  MovesFrom(s)
    <3>1. PICK v \in Values : Holding(deque', Append(s, v)) BY <2>3
    <3>2. PICK t : t = Append(s, v) OBVIOUS
    <3>3. Holding(deque', t) BY <3>1, <3>2
    <3>4. Moves(s, t) BY <2>1, <2>3, <3>2, Zenon DEF Moves
    <3> QED BY <3>3, <3>4 DEF MovesFrom
  <2>4. ASSUME ok' = FALSE, Holding(deque', s) PROVE MovesFrom(s)
    <3>1. Moves(s, s) BY <2>1, <2>4 DEF Moves
    <3> QED BY <2>4, <3>1 DEF MovesFrom
  <2> QED BY <2>2, <2>3, <2>4
<1>3. CASE PopFront
  <2>1. op' = "pop_front" BY <1>3, Zenon DEF PopFront, Called
  <2>2. \/ undefined' = TRUE
        \/ ok' = TRUE /\ \E t : s = <<val'>> \o t /\ Holding(deque', t)
    BY <1>3, PopFrontHolds
  <2>3. ASSUME ok' = TRUE, NEW t, s = <<val'>> \o t, Holding(deque', t)
        PROVE  MovesFrom(s)
    <3>1. Moves(s, t) BY <2>1, <2>3, Zenon DEF Moves
    <3> QED BY <2>3, <3>1 DEF MovesFrom
  <2> QED BY <2>2, <2>3
<1>4. CASE PopBack
  <2>1. op' = "pop_back" BY <1>4, Zenon DEF PopBack, Called
  <2>2. \/ undefined' = TRUE
        \/ ok' = TRUE /\ \E t : s = Append(t, val') /\ Holding(deque', t)
    BY <1>4, PopBackHolds
  <2>3. ASSUME ok' = TRUE, NEW t, s = Append(t, val'), Holding(deque', t)
        PROVE  MovesFrom(s)
    <3>1. Moves(s, t) BY <2>1, <2>3, Zenon DEF Moves
    <3> QED BY <2>3, <3>1 DEF MovesFrom
  <2> QED BY <2>2, <2>3
<1>5. ASSUME NEW name \in {"pop_front", "pop_back"}, NEW end \in {deque.front, deque.back},
             PopFails(name, end)
      PROVE  MovesFrom(s)
  <2>1. op' = name /\ val' = NoValue BY <1>5 DEF PopFails, Called
  <2>2. s = <<>> /\ Holding(deque', s) /\ ok' = FALSE BY <1>5, PopFailsHolds
  <2>3. Moves(s, s) BY <2>1, <2>2 DEF Moves
  <2> QED BY <2>2, <2>3 DEF MovesFrom
<1>6. CASE Reserve \/ ReserveFails
  <2>1. op' = "reserve" /\ val' = NoValue BY <1>6, Zenon DEF Reserve, ReserveFails, Called
  <2>2. \/ undefined' = TRUE
        \/ intended' = FALSE
        \/ Holding(deque', s)
    BY <1>6, ReserveHolds, ReserveFailsHolds
  <2>3. Moves(s, s) BY <2>1 DEF Moves
  <2> QED BY <2>2, <2>3 DEF MovesFrom
<1> QED BY <1>1, <1>2, <1>3, <1>4, <1>5, <1>6 DEF Next

\* Without a first node, and with nothing in the heap.
LEMMA InitHolds == Init => Holding(deque, <<>>)
<1> SUFFICES ASSUME Init PROVE Holding(deque, <<>>) OBVIOUS
<1>1. IsDeque(deque) BY TypeInvInit DEF TypeInv
<1>2. /\ Allocated(deque) = {} /\ deque.front = nullptr /\ deque.back = nullptr
      /\ deque.reserved = nullptr /\ deque.count = 0
  BY DEF Init, Allocated
<1>3. PICK e : e = <<>> OBVIOUS
<1>4. e \in Seq(Id) /\ Len(e) = 0 BY <1>3
<1>5. Line(e) /\ \A id : ~ Holds(e, id) BY <1>4 DEF Line, Holds
<1>6. At(e, 1) = nullptr /\ EndOf(e) = nullptr BY <1>4 DEF At, EndOf
<1>7. /\ Forward(PrevOf(deque), e) /\ Backward(NextOf(deque), e)
      /\ Forward(NextOf(deque), e)
  BY <1>4 DEF Forward, Backward
<1>8. Chained(deque, e, e) BY <1>2, <1>5, <1>6, <1>7 DEF Chained
<1>9. NodesFit(deque, e) /\ Filled(deque, e) BY <1>4 DEF NodesFit, Filled
<1>10. ElementsIn(deque, e) = e BY <1>3, ElementsNone
<1>11. Whole(deque, e, e) BY <1>1, <1>2, <1>4, <1>8, <1>9, <1>10 DEF Whole
<1> QED BY <1>3, <1>10, <1>11 DEF Holding

\* The invariant: used as intended, the deque holds something.
HoldInv == TypeInv /\ (intended /\ ~ undefined => \E s : Holding(deque, s))

\* Once not used as intended, for ever so.
LEMMA WithdrawnStays ==
    ASSUME TypeInv, Next
    PROVE  undefined = FALSE /\ (intended = FALSE => intended' = FALSE)
<1>1. intended \in BOOLEAN /\ undefined \in BOOLEAN BY DEF TypeInv
<1>2. ASSUME NEW name, Called(name) PROVE undefined = FALSE
  BY <1>1, <1>2 DEF Called
<1>3. \E name : Called(name)
  BY Zenon DEF Next, PushFront, PushBack, PopFront, PopBack, PopFails, Reserve,
               ReserveFails
<1>4. CASE PushFront
  <2>1. (\E claim \in BOOLEAN : AsIntended(claim)) \/ Undefined
    BY <1>4, Zenon DEF PushFront
  <2> QED BY <1>2, <1>3, <2>1 DEF AsIntended, Undefined
<1>5. CASE PushBack
  <2>1. (\E claim \in BOOLEAN : AsIntended(claim)) \/ Undefined
    BY <1>5, Zenon DEF PushBack
  <2> QED BY <1>2, <1>3, <2>1 DEF AsIntended, Undefined
<1>6. CASE PopFront
  <2>1. intended' = intended BY <1>6, Zenon DEF PopFront, Undefined
  <2> QED BY <1>2, <1>3, <2>1
<1>7. CASE PopBack
  <2>1. intended' = intended BY <1>7, Zenon DEF PopBack, Undefined
  <2> QED BY <1>2, <1>3, <2>1
<1>8. ASSUME NEW name, NEW end, PopFails(name, end)
      PROVE  undefined = FALSE /\ (intended = FALSE => intended' = FALSE)
  BY <1>2, <1>3, <1>8 DEF PopFails
<1>9. CASE Reserve
  <2>1. intended' = intended BY <1>9, Zenon DEF Reserve
  <2> QED BY <1>2, <1>3, <2>1
<1>10. CASE ReserveFails
  <2>1. (\E claim : AsIntended(claim)) \/ Undefined
    BY <1>10, Zenon DEF ReserveFails
  <2> QED BY <1>2, <1>3, <2>1 DEF AsIntended, Undefined
<1> QED BY <1>4, <1>5, <1>6, <1>7, <1>8, <1>9, <1>10 DEF Next

\* Every operation keeps the invariant.
LEMMA HoldInvStep == HoldInv /\ [Next]_vars => HoldInv'
<1> SUFFICES ASSUME HoldInv, [Next]_vars PROVE HoldInv' OBVIOUS
<1>1. TypeInv' BY TypeInvStep DEF HoldInv
<1>2. ASSUME intended' /\ ~ undefined' PROVE \E s : Holding(deque', s)
  <2>1. CASE UNCHANGED vars
    <3>1. /\ deque' = deque /\ intended' = intended /\ undefined' = undefined
      BY <2>1 DEF vars
    <3>2. PICK s : Holding(deque, s) BY <1>2, <3>1 DEF HoldInv
    <3> QED BY <3>1, <3>2
  <2>2. CASE Next
    <3>1. intended \in BOOLEAN BY DEF HoldInv, TypeInv
    <3>2. undefined = FALSE /\ intended = TRUE
      BY <1>2, <2>2, <3>1, WithdrawnStays DEF HoldInv
    <3>3. PICK s : Holding(deque, s) BY <3>2 DEF HoldInv
    <3>4. ok' \in BOOLEAN BY <1>1 DEF TypeInv
    <3>5. MovesFrom(s) BY <1>2, <2>2, <3>3, <3>4, HeldStep
    <3> QED BY <3>5 DEF MovesFrom
  <2> QED BY <2>1, <2>2
<1> QED BY <1>1, <1>2 DEF HoldInv

\* A deque used as intended holds a sequence of elements.
LEMMA HoldInvariant == Spec => []HoldInv
<1>1. Init => HoldInv
  <2>1. Init => TypeInv BY TypeInvInit
  <2> QED BY <2>1, InitHolds DEF HoldInv
<1>2. HoldInv /\ [Next]_vars => HoldInv' BY HoldInvStep
<1> QED BY <1>1, <1>2, PTL DEF Spec

\* c_linked_deque.h: as long as no reserved node is put to use and no reservation
\* fails half-way, the chain from the back is the one from the front reversed,
\* every block of the heap is in that chain or reserved and never in both, and
\* size counts the elements.
THEOREM NothingIsLeaked == Spec => []NothingLeaked
<1>1. HoldInv => NothingLeaked
  <2> SUFFICES ASSUME HoldInv, intended, ~ undefined PROVE NothingLeaked
    BY DEF NothingLeaked
  <2>1. PICK s : Holding(deque, s) BY DEF HoldInv
  <2>2. /\ s = Contents /\ deque.count = Len(s)
        /\ FromBack(deque) = Reverse(FromFront(deque))
        /\ Allocated(deque) = ToSet(FromFront(deque)) \cup ToSet(ReservedNodes(deque))
        /\ ToSet(FromFront(deque)) \cap ToSet(ReservedNodes(deque)) = {}
    BY <2>1, HoldingIs DEF Contents
  <2> QED BY <2>2 DEF NothingLeaked
<1> QED BY <1>1, HoldInvariant, PTL

\* c_linked_deque.h implements a double-ended queue: values come out at either end
\* as they lie, a push fails for want of memory only and changes nothing then, a
\* pop fails on an empty deque only.
THEOREM DequeImplemented == Spec => ImplementsDeque
<1>1. Init => Promise!DequeInit
  <2> SUFFICES ASSUME Init PROVE Promise!DequeInit OBVIOUS
  <2>1. Contents = <<>> BY InitHolds, HoldingIs DEF Contents
  <2>2. op = "none" /\ ok = TRUE /\ val = NoValue /\ intended = TRUE /\ undefined = FALSE
    BY DEF Init
  <2> QED BY <2>1, <2>2 DEF Promise!DequeInit
<1>2. HoldInv /\ HoldInv' /\ [Next]_vars => [Promise!DequeNext]_Promise!dequeVars
  <2> SUFFICES ASSUME HoldInv, HoldInv', [Next]_vars
      PROVE  Promise!DequeNext \/ UNCHANGED Promise!dequeVars
    BY DEF Promise!DequeNext
  <2>1. CASE UNCHANGED vars
    <3>1. deque' = deque /\ op' = op /\ ok' = ok /\ val' = val
          /\ intended' = intended /\ undefined' = undefined
      BY <2>1 DEF vars
    <3>2. Contents' = Contents BY <3>1 DEF Contents
    <3> QED BY <3>1, <3>2 DEF Promise!dequeVars
  <2>2. CASE Next /\ ~ (intended' /\ ~ undefined')
    BY <2>2 DEF Promise!DequeNext, Promise!Withdraw
  <2>3. CASE Next /\ intended' /\ ~ undefined'
    <3>1. /\ intended \in BOOLEAN /\ intended' \in BOOLEAN
          /\ undefined' \in BOOLEAN /\ ok' \in BOOLEAN
      BY DEF HoldInv, TypeInv
    <3>2. /\ undefined = FALSE /\ intended = TRUE
          /\ undefined' = FALSE /\ intended' = TRUE
      BY <2>3, <3>1, WithdrawnStays DEF HoldInv
    <3>3. PICK s : Holding(deque, s) BY <3>2 DEF HoldInv
    <3>4. PICK t : Holding(deque', t) /\ Moves(s, t)
      BY <2>3, <3>1, <3>3, HeldStep DEF MovesFrom
    <3>5. Contents = s BY <3>3, HoldingIs DEF Contents
    <3>6. Contents' = t BY <3>4, HoldingIs DEF Contents
    <3>7. Promise!Operation
      <4>1. (IF intended THEN Contents ELSE <<>>) = s BY <3>2, <3>5
      <4>2. (IF intended' THEN Contents' ELSE <<>>) = t BY <3>2, <3>6
      <4>3. (intended /\ ~ undefined) = TRUE /\ (intended' /\ ~ undefined') = TRUE BY <3>2
      <4>4. CASE /\ op' = "push_front" /\ ok' = TRUE /\ val' = NoValue
                 /\ \E v \in Values : t = <<v>> \o s
        <5>1. Promise!PushedFront
          BY <4>1, <4>2, <4>4, Zenon DEF Promise!PushedFront
        <5> QED BY <4>3, <5>1, Zenon DEF Promise!Operation
      <4>5. CASE /\ op' = "push_back" /\ ok' = TRUE /\ val' = NoValue
                 /\ \E v \in Values : t = Append(s, v)
        <5>1. Promise!PushedBack
          BY <4>1, <4>2, <4>5, Zenon DEF Promise!PushedBack
        <5> QED BY <4>3, <5>1, Zenon DEF Promise!Operation
      <4>6. CASE op' \in {"push_front", "push_back"} /\ ok' = FALSE /\ val' = NoValue /\ t = s
        <5>1. Promise!NotPushed BY <4>1, <4>2, <4>6 DEF Promise!NotPushed
        <5> QED BY <4>3, <5>1, Zenon DEF Promise!Operation
      <4>7. CASE op' = "pop_front" /\ ok' = TRUE /\ s = <<val'>> \o t
        <5>1. Promise!PoppedFront
          BY <4>1, <4>2, <4>7, Zenon DEF Promise!PoppedFront
        <5> QED BY <4>3, <5>1, Zenon DEF Promise!Operation
      <4>8. CASE op' = "pop_back" /\ ok' = TRUE /\ s = Append(t, val')
        <5>1. Promise!PoppedBack
          BY <4>1, <4>2, <4>8, Zenon DEF Promise!PoppedBack
        <5> QED BY <4>3, <5>1, Zenon DEF Promise!Operation
      <4>9. CASE /\ op' \in {"pop_front", "pop_back"} /\ ok' = FALSE /\ s = <<>>
                 /\ val' = NoValue /\ t = s
        <5>1. Promise!NotPopped BY <4>1, <4>2, <4>9 DEF Promise!NotPopped
        <5> QED BY <4>3, <5>1, Zenon DEF Promise!Operation
      <4>10. CASE op' = "reserve" /\ ok' \in BOOLEAN /\ val' = NoValue /\ t = s
        <5>1. Promise!ReservedSpace BY <4>1, <4>2, <4>10 DEF Promise!ReservedSpace
        <5> QED BY <4>3, <5>1, Zenon DEF Promise!Operation
      <4> QED BY <3>4, <4>4, <4>5, <4>6, <4>7, <4>8, <4>9, <4>10 DEF Moves
    <3> QED BY <3>7 DEF Promise!DequeNext
  <2> QED BY <2>1, <2>2, <2>3
<1> QED BY <1>1, <1>2, HoldInvariant, PTL DEF Spec, ImplementsDeque, Promise!DequeSpec
=============================================================================
