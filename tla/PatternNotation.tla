-------------------------- MODULE PatternNotation --------------------------
(***************************************************************************)
(* The notation of patterns (PatternMatcher/src/pattern.cpp):              *)
(* compile_pattern reads the bytes a shell command defines a pattern with, *)
(* match_pattern evaluates the pattern on a packet with a stack.           *)
(*                                                                         *)
(*    number of conditions                                                 *)
(*    (type, start_range, end_range, [number of values], values)*          *)
(*    number of operations  operation*                                     *)
(*                                                                         *)
(* A number has two bytes, a type and an operation one.  The notation      *)
(* reveals its contents as they are read: so does memory behind its end.   *)
(***************************************************************************)
EXTENDS PatternMeaning, Integers, FiniteSets

CONSTANTS
    Lengths,        \* lengths a notation may have
    Offered,        \* [number of conditions -> conditions it may announce]
    MaxOps,         \* [number of conditions -> bound on the operations]
    Packets,        \* packets a pattern is matched with
    MaxStackSize,   \* PrimaryPatternConfig::max_stack_size
    SizeModulus     \* 2^32: size_t of the device

ConditionTypes ==
    {"FIXED", "RANGE", "SELECTION", "NFIXED", "NRANGE", "NSELECTION", "UNKNOWN"}
OperationTypes ==
    {"PUSH", "OR", "AND", "NOR", "NAND", "XOR", "XNOR", "UNKNOWN"}

\* The numbers of a notation have two bytes, size_t four: the values of a range
\* that is not inverted never wrap around.
ASSUME NotationAssumption ==
    /\ Lengths \subseteq Nat /\ MaxStackSize \in Nat /\ SizeModulus \in Nat \ {0}
    /\ Packets \subseteq Seq(Nat)
    /\ Cardinality(DOMAIN Offered) \in Nat \ {0}
    /\ DOMAIN Offered = 0 .. Cardinality(DOMAIN Offered) - 1
    /\ \A n \in DOMAIN Offered : MaxOps[n] \in Nat
    /\ \A n \in DOMAIN Offered : \A c \in Offered[n] :
          /\ c.type \in ConditionTypes /\ c.vals \in Seq(Nat)
          /\ {c.start_range, c.end_range, c.num_vals} \subseteq Nat
          /\ c.end_range * c.num_vals < SizeModulus
          /\ c.end_range * 2 < SizeModulus

VARIABLES
    phase,
    len,            \* notation.len()
    curr_ind,
    num_conds,
    num_operands,
    stack_size,
    conditions,     \* pattern.conditions
    operations,     \* pattern.operations
    allocated,      \* blocks of pattern_heap the pattern holds
    seen,           \* history: the operations read
    data,           \* the packet
    op_index,       \* operations evaluated
    cond_index,
    stack,
    result

compiling == <<len, curr_ind, num_conds, num_operands, stack_size, conditions,
               operations, allocated, seen>>
matching == <<data, op_index, cond_index, stack, result>>
vars == <<phase, compiling, matching>>

Block == {<<"conditions", 0>>, <<"operations", 0>>}
             \cup ({"vals"} \X (1 .. Cardinality(DOMAIN Offered)))

-----------------------------------------------------------------------------
Init ==
    /\ phase = "start"
    /\ len \in Lengths
    /\ curr_ind = 0
    /\ num_conds = 0 /\ num_operands = 0
    /\ stack_size = 0
    /\ conditions = <<>> /\ operations = <<>>
    /\ allocated = {}
    /\ seen = <<>>
    /\ data = <<>>
    /\ op_index = 0 /\ cond_index = 0
    /\ stack = <<>>
    /\ result = FALSE

\* HeapVector::realloc of a new vector: a block of no bytes is never given.
Allocate(block, size) ==
    allocated' = IF size = 0 THEN allocated ELSE allocated \cup {block}

\* Pattern::free_memory, then nullopt.
Reject ==
    /\ phase' = "rejected"
    /\ allocated' = allocated \ ({<<"conditions", 0>>, <<"operations", 0>>}
                                   \cup ({"vals"} \X DOMAIN conditions))
    /\ conditions' = <<>>
    /\ operations' = <<>>

ReadNumConds ==
    /\ phase = "start"
    /\ \E n \in DOMAIN Offered :
         /\ num_conds' = n
         /\ Allocate(<<"conditions", 0>>, n)
    /\ curr_ind' = 2
    /\ phase' = "conditions"
    /\ UNCHANGED <<len, num_operands, stack_size, conditions, operations, seen,
                   matching>>

-----------------------------------------------------------------------------
(* One round of the loop over the conditions.  The range is subtracted in   *)
(* size_t; the type decides how many values of its size follow.             *)

HasCount(c) == c.type \in {"SELECTION", "NSELECTION"}

ValsSize(c) ==
    LET size == (c.end_range + SizeModulus - c.start_range) % SizeModulus
        factor == CASE c.type \in {"RANGE", "NRANGE"} -> 2
                    [] HasCount(c) -> c.num_vals
                    [] OTHER -> 1
    IN (size * factor) % SizeModulus

AfterRange == curr_ind + 5

AfterCount(c) == AfterRange + (IF HasCount(c) THEN 2 ELSE 0)

ValsFit(c) == (AfterCount(c) + ValsSize(c)) % SizeModulus < len

\* Mutant: one condition more than announced.
MoreConditionsByOne == phase = "conditions" /\ Len(conditions) <= num_conds

MoreConditions == phase = "conditions" /\ Len(conditions) < num_conds

ConditionBehindEnd ==
    /\ MoreConditions
    /\ AfterRange >= len
    /\ curr_ind' = AfterRange
    /\ Reject
    /\ UNCHANGED <<len, num_conds, num_operands, stack_size, seen, matching>>

ValsBehindEnd ==
    /\ MoreConditions
    /\ AfterRange < len
    /\ \E c \in Offered[num_conds] :
         /\ ~ ValsFit(c)
         /\ curr_ind' = AfterCount(c)
    /\ Reject
    /\ UNCHANGED <<len, num_conds, num_operands, stack_size, seen, matching>>

ReadCondition ==
    /\ MoreConditions
    /\ AfterRange < len
    /\ \E c \in Offered[num_conds] :
         /\ ValsFit(c)
         /\ ValsSize(c) = Len(c.vals)
         /\ curr_ind' = AfterCount(c) + ValsSize(c)
         /\ conditions' = Append(conditions, c)
         /\ Allocate(<<"vals", Len(conditions) + 1>>, ValsSize(c))
    /\ UNCHANGED <<phase, len, num_conds, num_operands, stack_size, operations,
                   seen, matching>>

\* end_range before start_range: the size has wrapped around, and so has its
\* sum with curr_ind. No heap has such a block, and push_back does not look.
ReadInvertedRange ==
    /\ MoreConditions
    /\ AfterRange < len
    /\ \E c \in Offered[num_conds] :
         /\ c.start_range > c.end_range
         /\ ValsSize(c) > 0
         /\ ValsFit(c)
    /\ phase' = "undefined"
    /\ UNCHANGED <<compiling, matching>>

\* The heap is full: push_back writes to a vector that has no block.
AllocationFails ==
    /\ \/ phase = "start" /\ \E n \in DOMAIN Offered : n > 0
       \/ MoreConditions /\ AfterRange < len
            /\ \E c \in Offered[num_conds] : ValsFit(c) /\ ValsSize(c) > 0
       \/ phase = "conditions" /\ Len(conditions) = num_conds
            /\ MaxOps[num_conds] > 0
    /\ phase' = "undefined"
    /\ UNCHANGED <<compiling, matching>>

-----------------------------------------------------------------------------
ReadNumOperands ==
    /\ phase = "conditions"
    /\ Len(conditions) = num_conds
    /\ \E n \in 0 .. MaxOps[num_conds] :
         /\ num_operands' = n
         /\ Allocate(<<"operations", 0>>, n)
    /\ curr_ind' = curr_ind + 2
    /\ phase' = "operations"
    /\ UNCHANGED <<len, num_conds, stack_size, conditions, operations, seen,
                   matching>>

StackSizeAfter(op) == IF op = "PUSH" THEN stack_size + 1 ELSE stack_size - 1

\* Mutant: an operation may leave the stack empty.
StackRunsDryBelowZero(size) == size < 0

StackRunsDry(size) == size <= 0

ReadOperation ==
    /\ phase = "operations"
    /\ Len(seen) < num_operands
    /\ curr_ind' = curr_ind + 1
    /\ \E op \in OperationTypes :
         /\ seen' = Append(seen, op)
         /\ stack_size' = StackSizeAfter(op)
         /\ \/ StackRunsDry(stack_size') /\ Reject
            \/ /\ ~ StackRunsDry(stack_size')
               /\ operations' = Append(operations, op)
               /\ UNCHANGED <<phase, conditions, allocated>>
    /\ UNCHANGED <<len, num_conds, num_operands, matching>>

\* Mutant: one value too many is let through.
ValuesLeftOverByTwo == stack_size > 2

ValuesLeftOver == stack_size > 1

\* Mutant: the last way out forgets free_memory.
FinishCompileLeaks ==
    /\ phase = "operations"
    /\ Len(seen) = num_operands
    /\ phase' = IF ValuesLeftOver THEN "rejected" ELSE "compiled"
    /\ UNCHANGED <<compiling, matching>>

FinishCompile ==
    /\ phase = "operations"
    /\ Len(seen) = num_operands
    /\ \/ ValuesLeftOver /\ Reject
       \/ /\ ~ ValuesLeftOver
          /\ phase' = "compiled"
          /\ UNCHANGED <<conditions, operations, allocated>>
    /\ UNCHANGED <<len, curr_ind, num_conds, num_operands, stack_size, seen,
                   matching>>

-----------------------------------------------------------------------------
(* evaluate_condition *)

Mismatch(packet, c, offset) ==
    LET size == c.end_range - c.start_range
        differs == {i \in 0 .. size - 1 :
                      packet[c.start_range + i + 1] # c.vals[i + offset + 1]}
    IN CHOOSE i \in 0 .. size : /\ i \in differs \cup {size}
                                /\ \A j \in differs : i <= j

MatchFixed(packet, c, offset) ==
    Mismatch(packet, c, offset) = c.end_range - c.start_range

\* Mutant: the second bound is compared where the first one differs.
LexicalBetweenOneScan(packet, c) ==
    LET size == c.end_range - c.start_range
        low == Mismatch(packet, c, 0)
    IN low < size => /\ packet[c.start_range + low + 1] >= c.vals[low + 1]
                     /\ packet[c.start_range + low + 1] <= c.vals[low + size + 1]

LexicalBetween(packet, c) ==
    LET size == c.end_range - c.start_range
        low == Mismatch(packet, c, 0)
        high == Mismatch(packet, c, size)
    IN /\ low < size => packet[c.start_range + low + 1] >= c.vals[low + 1]
       /\ high = size \/ packet[c.start_range + high + 1] <= c.vals[high + size + 1]

MatchSelection(packet, c) ==
    \E offset \in 0 .. Len(c.vals) - 1 :
      /\ offset % (c.end_range - c.start_range) = 0
      /\ MatchFixed(packet, c, offset)

EvaluateCondition(packet, c) ==
    /\ c.end_range <= Len(packet)
    /\ c.start_range <= c.end_range
    /\ CASE c.type = "FIXED"      -> MatchFixed(packet, c, 0)
         [] c.type = "RANGE"      -> LexicalBetween(packet, c)
         [] c.type = "SELECTION"  -> MatchSelection(packet, c)
         [] c.type = "NFIXED"     -> ~ MatchSelection(packet, c)
         [] c.type = "NRANGE"     -> ~ LexicalBetween(packet, c)
         [] c.type = "NSELECTION" -> ~ MatchSelection(packet, c)
         [] OTHER                 -> FALSE

-----------------------------------------------------------------------------
(* match_pattern *)

StartMatch ==
    /\ phase = "compiled"
    /\ data' \in Packets
    /\ phase' = "matching"
    /\ UNCHANGED <<compiling, op_index, cond_index, stack, result>>

NextOperation(op) ==
    /\ phase = "matching"
    /\ op_index < Len(operations)
    /\ operations[op_index + 1] = op

PushCondition ==
    /\ NextOperation("PUSH")
    /\ cond_index < Len(conditions)
    /\ Len(stack) < MaxStackSize
    /\ stack' = Append(stack, EvaluateCondition(data, conditions[cond_index + 1]))
    /\ cond_index' = cond_index + 1
    /\ op_index' = op_index + 1
    /\ UNCHANGED <<phase, compiling, data, result>>

\* A PUSH for which there is no condition or no place: compile_pattern compares
\* the operations neither with num_conds nor with max_stack_size.
PushOutOfBounds ==
    /\ NextOperation("PUSH")
    /\ cond_index >= Len(conditions) \/ Len(stack) >= MaxStackSize
    /\ phase' = "undefined"
    /\ UNCHANGED <<compiling, matching>>

\* Mutant: the negation of NOR binds to its first operand.
OperatePrecedence(op, left, val) ==
    CASE op = "OR"   -> left \/ val
      [] op = "AND"  -> left /\ val
      [] op = "NOR"  -> (~ left) \/ val
      [] op = "NAND" -> ~ (left /\ val)
      [] op = "XOR"  -> left # val
      [] op = "XNOR" -> left = val
      [] OTHER       -> left

\* val is the last value, taken off; left the one before, changed in place.
Operate(op, left, val) ==
    CASE op = "OR"   -> left \/ val
      [] op = "AND"  -> left /\ val
      [] op = "NOR"  -> ~ (left \/ val)
      [] op = "NAND" -> ~ (left /\ val)
      [] op = "XOR"  -> (left /\ ~ val) \/ (~ left /\ val)
      [] op = "XNOR" -> (left /\ val) \/ (~ left /\ ~ val)
      [] OTHER       -> left

Enough == Len(stack) >= 2

ApplyOperation ==
    /\ \E op \in OperationTypes \ {"PUSH"} :
         /\ NextOperation(op)
         /\ Enough
         /\ stack' = LET n == Len(stack)
                     IN Append(SubSeq(stack, 1, n - 2),
                               Operate(op, stack[n - 1], stack[n]))
    /\ op_index' = op_index + 1
    /\ UNCHANGED <<phase, compiling, data, cond_index, result>>

\* back() of an empty stack, when there is no operation at all, is whatever
\* precedes the stack in memory.
FinishMatch ==
    /\ phase = "matching"
    /\ op_index = Len(operations)
    /\ \/ stack # <<>> /\ result' = stack[Len(stack)]
       \/ stack = <<>> /\ result' \in BOOLEAN
    /\ phase' = "matched"
    /\ UNCHANGED <<compiling, data, op_index, cond_index, stack>>

\* The processing task has another packet.
NextPacket ==
    /\ phase = "matched"
    /\ phase' = "compiled"
    /\ data' = <<>>
    /\ op_index' = 0 /\ cond_index' = 0
    /\ stack' = <<>>
    /\ result' = FALSE
    /\ UNCHANGED compiling

Compile ==
    \/ ReadNumConds
    \/ ConditionBehindEnd \/ ValsBehindEnd \/ ReadCondition \/ ReadInvertedRange
    \/ AllocationFails
    \/ ReadNumOperands \/ ReadOperation \/ FinishCompile

Match ==
    \/ StartMatch
    \/ PushCondition \/ PushOutOfBounds \/ ApplyOperation
    \/ FinishMatch
    \/ NextPacket

Next == Compile \/ Match

Spec == Init /\ [][Next]_vars

-----------------------------------------------------------------------------
(* Properties *)

TypeOK ==
    /\ phase \in {"start", "conditions", "operations", "compiled", "rejected",
                  "matching", "matched", "undefined"}
    /\ len \in Lengths /\ curr_ind \in Nat
    /\ num_conds \in DOMAIN Offered
    /\ num_operands \in 0 .. MaxOps[num_conds]
    /\ stack_size \in -1 .. num_operands
    /\ Len(conditions) <= num_conds
    /\ \A i \in DOMAIN conditions : conditions[i].type \in ConditionTypes
    /\ operations \in Seq(OperationTypes) /\ seen \in Seq(OperationTypes)
    /\ allocated \subseteq Block
    /\ data \in Packets \cup {<<>>}
    /\ op_index \in 0 .. Len(operations) /\ cond_index \in 0 .. Len(conditions)
    /\ stack \in Seq(BOOLEAN) /\ result \in BOOLEAN

\* A condition of a range that is not empty holds for the packets it means:
\* comparison byte by byte is the order of a dictionary, for both bounds, and
\* values are found wherever they are in vals (evaluate_condition).
ConditionAsMeant ==
    phase = "conditions" /\ conditions # <<>> =>
      LET c == conditions[Len(conditions)]
      IN c.start_range < c.end_range =>
           \A packet \in Packets :
             EvaluateCondition(packet, c) <=> Satisfies(packet, c)

\* compile_pattern accepts the postfix notation of one formula (and, beside it,
\* the empty notation), and gives up early only on a sequence of operations no
\* formula begins with.
AcceptsFormulas ==
    /\ phase \in {"compiled", "matching", "matched"} =>
         seen = <<>> \/ IsFormula(seen)
    /\ phase = "rejected" /\ seen # <<>> =>
         IF Len(seen) = num_operands THEN ~ IsFormula(seen)
                                     ELSE ~ IsBeginning(seen)

\* match_pattern takes back() and pop_back() on trust: each operation of a
\* compiled pattern finds its two values on the stack.
OperandsThere ==
    phase = "matching" /\ op_index < Len(operations) =>
      operations[op_index + 1] = "PUSH" \/ Enough

\* What match_pattern answers is the truth of the formula for the packet, the
\* n-th PUSH being the n-th condition.  Nothing is said of a pattern with more
\* PUSHes than conditions or places on the stack: it never gets to an answer.
MatchIsFormula ==
    phase = "matched" /\ seen # <<>> =>
      /\ Len(stack) = 1
      /\ result <=> Truth(seen, [n \in DOMAIN conditions |->
                                   EvaluateCondition(data, conditions[n])])

\* A notation that is refused, at whatever point, has given back every block
\* it had from pattern_heap (free_memory).
RejectedLeavesNothing == phase = "rejected" => allocated = {}
=============================================================================
