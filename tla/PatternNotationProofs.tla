----------------------- MODULE PatternNotationProofs -----------------------
(***************************************************************************)
(* What compile_pattern and match_pattern do with any notation: for every  *)
(* length, any conditions, any number of operations and any packet.        *)
(*                                                                         *)
(*  - A refused notation gives its memory back (OwnedInv).                 *)
(*  - Types, and the values a condition has got (NotationInv).             *)
(*  - Conditions: the loops over bytes find the first difference, which    *)
(*    decides the order of a dictionary.                                   *)
(*  - Formulas: a postfix notation is a formula exactly if a stack that    *)
(*    follows it never runs dry and one value is left (Height, Rises).     *)
(*  - What is compiled is a formula (HeightInv), and what a match leaves   *)
(*    on the stack is its truth (ValuesInv).                               *)
(***************************************************************************)
EXTENDS PatternNotation, FiniteSetTheorems, SequenceTheorems,
        WellFoundedInduction, TLAPS

AnyCondition == UNION {Offered[n] : n \in DOMAIN Offered}

Vectors == {<<"conditions", 0>>, <<"operations", 0>>}

\* The blocks free_memory gives back.
Owned == Vectors \cup ({"vals"} \X DOMAIN conditions)

\* The pattern holds only blocks that free_memory finds: those of its two
\* vectors, and of the values of conditions it has already appended.
OwnedInv ==
    /\ conditions \in Seq(AnyCondition)
    /\ phase = "conditions" => num_conds \in DOMAIN Offered
    /\ allocated \subseteq Owned
    /\ RejectedLeavesNothing

-----------------------------------------------------------------------------
\* A longer list of conditions owns what the shorter one did, and the values
\* of the new condition.
LEMMA AppendOwns ==
    ASSUME NEW c \in AnyCondition, conditions \in Seq(AnyCondition),
           conditions' = Append(conditions, c)
    PROVE  /\ conditions' \in Seq(AnyCondition)
           /\ Owned \subseteq Owned'
           /\ <<"vals", Len(conditions) + 1>> \in Owned'
<1>1. /\ Len(conditions) \in Nat
      /\ DOMAIN conditions = 1 .. Len(conditions)
      /\ conditions' \in Seq(AnyCondition)
      /\ Len(conditions') = Len(conditions) + 1
      /\ DOMAIN conditions' = 1 .. Len(conditions) + 1
  OBVIOUS
<1>2. DOMAIN conditions \subseteq DOMAIN conditions'
  BY <1>1
<1>3. Len(conditions) + 1 \in DOMAIN conditions'
  BY <1>1
<1> QED
  BY <1>1, <1>2, <1>3 DEF Owned, Vectors

\* free_memory, wherever it is called, leaves no block.
LEMMA RejectEmpties ==
    ASSUME OwnedInv, Reject
    PROVE  OwnedInv'
<1>1. allocated' = {}
  BY DEF Reject, OwnedInv, Owned, Vectors
<1>2. conditions' = <<>> /\ phase' = "rejected"
  BY DEF Reject
<1> QED
  BY <1>1, <1>2 DEF OwnedInv, RejectedLeavesNothing

\* A step that touches neither the pattern nor, unless to another phase than
\* these two, the phase.
LEMMA PatternUntouched ==
    ASSUME OwnedInv,
           UNCHANGED <<conditions, allocated>>,
           \/ UNCHANGED <<phase, num_conds>>
           \/ phase' \notin {"conditions", "rejected"}
    PROVE  OwnedInv'
  BY DEF OwnedInv, Owned, RejectedLeavesNothing

LEMMA InitOwned == Init => OwnedInv
  BY DEF Init, OwnedInv, RejectedLeavesNothing, Owned

-----------------------------------------------------------------------------
LEMMA StepOwned == OwnedInv /\ [Next]_vars => OwnedInv'
<1> SUFFICES ASSUME OwnedInv, [Next]_vars
             PROVE  OwnedInv'
  OBVIOUS
<1> USE DEF compiling, matching
<1>1. CASE ReadNumConds
  <2>1. /\ phase' = "conditions"
        /\ UNCHANGED conditions
        /\ num_conds' \in DOMAIN Offered
        /\ allocated' \subseteq allocated \cup Vectors
    BY <1>1 DEF ReadNumConds, Allocate, Vectors
  <2> QED
    BY <2>1 DEF OwnedInv, Owned, RejectedLeavesNothing
<1>2. CASE ConditionBehindEnd
  BY <1>2, RejectEmpties DEF ConditionBehindEnd
<1>3. CASE ValsBehindEnd
  BY <1>3, RejectEmpties DEF ValsBehindEnd
<1>4. CASE ReadCondition
  <2>1. phase = "conditions" /\ UNCHANGED <<phase, num_conds>>
    BY <1>4 DEF ReadCondition, MoreConditions
  <2>2. PICK c \in Offered[num_conds] :
          /\ conditions' = Append(conditions, c)
          /\ Allocate(<<"vals", Len(conditions) + 1>>, ValsSize(c))
    BY <1>4 DEF ReadCondition
  <2>3. c \in AnyCondition
    BY <2>1 DEF OwnedInv, AnyCondition
  <2>4. /\ conditions' \in Seq(AnyCondition)
        /\ Owned \subseteq Owned'
        /\ <<"vals", Len(conditions) + 1>> \in Owned'
    BY <2>2, <2>3, AppendOwns DEF OwnedInv
  <2>5. allocated' \subseteq Owned'
    BY <2>2, <2>4 DEF Allocate, OwnedInv
  <2> QED
    BY <2>1, <2>4, <2>5 DEF OwnedInv, RejectedLeavesNothing
<1>5. CASE ReadInvertedRange
  BY <1>5, PatternUntouched DEF ReadInvertedRange
<1>6. CASE AllocationFails
  BY <1>6, PatternUntouched DEF AllocationFails
<1>7. CASE ReadNumOperands
  <2>1. /\ phase' = "operations"
        /\ UNCHANGED conditions
        /\ allocated' \subseteq allocated \cup Vectors
    BY <1>7 DEF ReadNumOperands, Allocate, Vectors
  <2> QED
    BY <2>1 DEF OwnedInv, Owned, RejectedLeavesNothing
<1>8. CASE ReadOperation
  <2>1. \/ Reject
        \/ UNCHANGED <<phase, num_conds, conditions, allocated>>
    BY <1>8 DEF ReadOperation
  <2> QED
    BY <2>1, RejectEmpties, PatternUntouched
<1>9. CASE FinishCompile
  <2>1. \/ Reject
        \/ phase' = "compiled" /\ UNCHANGED <<conditions, allocated>>
    BY <1>9 DEF FinishCompile
  <2> QED
    BY <2>1, RejectEmpties, PatternUntouched
<1>10. CASE Match
  <2>1. /\ UNCHANGED <<num_conds, conditions, allocated>>
        /\ UNCHANGED phase
             \/ phase' \in {"matching", "undefined", "matched", "compiled"}
    BY <1>10 DEF Match, StartMatch, PushCondition, PushOutOfBounds,
                 ApplyOperation, FinishMatch, NextPacket
  <2> QED
    BY <2>1, PatternUntouched
<1>11. CASE UNCHANGED vars
  BY <1>11, PatternUntouched DEF vars
<1> QED
  BY <1>1, <1>2, <1>3, <1>4, <1>5, <1>6, <1>7, <1>8, <1>9, <1>10, <1>11
     DEF Next, Compile

\* compile_pattern refuses a notation at three places, each in the middle of
\* what it has built so far; the heap then holds nothing of it, whatever the
\* notation says and wherever it ends.
THEOREM RefusalFreesAll == Spec => []RejectedLeavesNothing
<1>1. OwnedInv => RejectedLeavesNothing
  BY DEF OwnedInv
<1> QED
  BY InitOwned, StepOwned, <1>1, PTL DEF Spec

-----------------------------------------------------------------------------
(* What a notation can say *)

\* The fields of a condition, and the size of its values.
LEMMA ConditionFields ==
    ASSUME NEW c \in AnyCondition
    PROVE  /\ c.type \in ConditionTypes /\ c.vals \in Seq(Nat)
           /\ c.start_range \in Nat /\ c.end_range \in Nat /\ c.num_vals \in Nat
           /\ ValsSize(c) \in Nat
<1>1. /\ c.type \in ConditionTypes /\ c.vals \in Seq(Nat)
      /\ c.start_range \in Nat /\ c.end_range \in Nat /\ c.num_vals \in Nat
      /\ SizeModulus \in Nat \ {0}
  BY NotationAssumption DEF AnyCondition
<1> DEFINE size == (c.end_range + SizeModulus - c.start_range) % SizeModulus
           factor == CASE c.type \in {"RANGE", "NRANGE"} -> 2
                       [] HasCount(c) -> c.num_vals
                       [] OTHER -> 1
<1>2. size \in Nat /\ factor \in Nat
  BY <1>1
<1> HIDE DEF size, factor
<1>3. size * factor \in Nat
  BY <1>2
<1>4. (size * factor) % SizeModulus \in Nat
  BY <1>1, <1>3
<1> QED BY <1>1, <1>4 DEF ValsSize, size, factor

\* A condition answers with a truth value.
LEMMA ConditionIsTrueOrFalse ==
    ASSUME NEW packet, NEW c
    PROVE  EvaluateCondition(packet, c) \in BOOLEAN
BY DEF EvaluateCondition

\* The operations are truth functions.
LEMMA OperateIsTrueOrFalse ==
    ASSUME NEW op, NEW left \in BOOLEAN, NEW val \in BOOLEAN
    PROVE  Operate(op, left, val) \in BOOLEAN
BY DEF Operate

\* Nothing is read or matched before its turn.
PhaseInv ==
    /\ phase \in {"start", "conditions"} =>
          num_operands = 0 /\ stack_size = 0 /\ seen = <<>> /\ operations = <<>>
    /\ phase = "start" => conditions = <<>>
    /\ phase \in {"start", "conditions", "operations", "compiled"} =>
          op_index = 0 /\ cond_index = 0 /\ stack = <<>>
    /\ phase = "operations" =>
          Len(seen) <= num_operands /\ stack_size \in 0 .. Len(seen)
    /\ phase \in {"operations", "compiled", "matching", "matched"} => operations = seen

\* The values a condition has got are as many as its type and range announce.
MeasuredInv ==
    /\ conditions \in Seq(AnyCondition)
    /\ \A i \in DOMAIN conditions :
          ValsSize(conditions[i]) = Len(conditions[i].vals)

NotationInv == TypeOK /\ PhaseInv /\ MeasuredInv

\* free_memory leaves an empty pattern.
LEMMA RejectNotation ==
    ASSUME NotationInv, Reject, curr_ind' \in Nat,
           phase \in {"conditions", "operations"},
           UNCHANGED <<len, num_conds, num_operands, matching>>,
           seen' \in Seq(OperationTypes), stack_size' \in -1 .. num_operands
    PROVE  NotationInv'
<1>1. /\ phase' = "rejected" /\ conditions' = <<>> /\ operations' = <<>>
      /\ allocated' \subseteq allocated
  BY DEF Reject
<1>2. /\ op_index = 0 /\ cond_index = 0 /\ TypeOK
      /\ UNCHANGED <<data, op_index, cond_index, stack, result>>
  BY DEF NotationInv, PhaseInv, matching
<1>3. num_conds \in Nat
  BY SMTT(30), <1>2, NotationAssumption DEF TypeOK
<1>4. TypeOK'
  BY <1>1, <1>2, <1>3 DEF TypeOK
<1> QED BY <1>1, <1>4 DEF NotationInv, PhaseInv, MeasuredInv

\* Reading how many conditions there are.
LEMMA ReadNumCondsNotation ==
    ASSUME NotationInv, ReadNumConds
    PROVE  NotationInv'
<1>1. /\ TypeOK /\ PhaseInv /\ phase = "start" /\ phase' = "conditions"
      /\ num_conds' \in DOMAIN Offered /\ curr_ind' = 2
      /\ UNCHANGED <<len, num_operands, stack_size, conditions, operations, seen,
                     data, op_index, cond_index, stack, result>>
  BY DEF NotationInv, ReadNumConds, matching
<1>2. allocated' \subseteq Block
  BY <1>1 DEF ReadNumConds, Allocate, TypeOK, Block
<1>3. MaxOps[num_conds'] \in Nat /\ Len(conditions') = 0 /\ num_conds' \in Nat
  BY <1>1, NotationAssumption DEF PhaseInv
<1>4. TypeOK'
  BY <1>1, <1>2, <1>3 DEF TypeOK, PhaseInv
<1>5. PhaseInv' /\ MeasuredInv'
  BY <1>1 DEF PhaseInv, MeasuredInv
<1> QED BY <1>4, <1>5 DEF NotationInv

\* A condition behind the end of the notation, or with values behind it.
LEMMA BehindEndNotation ==
    ASSUME NotationInv, ConditionBehindEnd \/ ValsBehindEnd
    PROVE  NotationInv'
<1>1. /\ TypeOK /\ phase = "conditions" /\ Reject
      /\ UNCHANGED <<len, num_conds, num_operands, stack_size, seen, matching>>
  BY DEF NotationInv, ConditionBehindEnd, ValsBehindEnd, MoreConditions
<1>2. curr_ind' \in Nat
  BY <1>1 DEF TypeOK, ConditionBehindEnd, ValsBehindEnd, AfterRange, AfterCount
<1> QED BY <1>1, <1>2, RejectNotation DEF TypeOK

\* A condition with its values.
LEMMA ReadConditionNotation ==
    ASSUME NotationInv, ReadCondition
    PROVE  NotationInv'
<1>1. /\ TypeOK /\ PhaseInv /\ MeasuredInv
      /\ phase = "conditions" /\ Len(conditions) < num_conds
      /\ UNCHANGED <<phase, len, num_conds, num_operands, stack_size, operations,
                     seen, data, op_index, cond_index, stack, result>>
  BY DEF NotationInv, ReadCondition, MoreConditions, matching
<1>2. PICK c \in Offered[num_conds] :
         /\ ValsSize(c) = Len(c.vals)
         /\ curr_ind' = AfterCount(c) + ValsSize(c)
         /\ conditions' = Append(conditions, c)
         /\ Allocate(<<"vals", Len(conditions) + 1>>, ValsSize(c))
  BY DEF ReadCondition
<1>3. c \in AnyCondition /\ ValsSize(c) \in Nat /\ c.type \in ConditionTypes
  <2>1. c \in AnyCondition
    BY <1>1 DEF TypeOK, AnyCondition
  <2> QED BY <2>1, ConditionFields
<1>4. /\ conditions' \in Seq(AnyCondition) /\ Len(conditions') = Len(conditions) + 1
      /\ \A i \in 1 .. Len(conditions) : conditions'[i] = conditions[i]
      /\ conditions'[Len(conditions) + 1] = c
      /\ DOMAIN conditions = 1 .. Len(conditions) /\ Len(conditions) \in Nat
      /\ DOMAIN conditions' = 1 .. Len(conditions) + 1
  BY <1>1, <1>2, <1>3 DEF MeasuredInv
<1>5. /\ num_conds \in Nat /\ Len(conditions) + 1 \in 1 .. Cardinality(DOMAIN Offered)
  <2>1. num_conds \in 0 .. Cardinality(DOMAIN Offered) - 1
    BY <1>1, NotationAssumption DEF TypeOK
  <2>2. Cardinality(DOMAIN Offered) \in Nat
    BY NotationAssumption
  <2> QED BY <1>1, <1>4, <2>1, <2>2
<1>6. allocated' \subseteq Block
  <2>1. allocated' \subseteq allocated \cup {<<"vals", Len(conditions) + 1>>}
    BY <1>2 DEF Allocate
  <2>2. <<"vals", Len(conditions) + 1>> \in Block
    BY <1>5 DEF Block
  <2> QED BY <1>1, <2>1, <2>2 DEF TypeOK
<1>7. curr_ind' \in Nat
  <2>1. curr_ind \in Nat
    BY <1>1 DEF TypeOK
  <2>2. AfterCount(c) \in Nat
    BY <2>1 DEF AfterCount, AfterRange, HasCount
  <2>3. curr_ind' = AfterCount(c) + ValsSize(c) /\ ValsSize(c) \in Nat
    BY <1>2, <1>3
  <2> QED BY <2>2, <2>3
<1>8. \A i \in DOMAIN conditions' : conditions'[i].type \in ConditionTypes
  BY <1>1, <1>3, <1>4 DEF TypeOK
<1>9. Len(conditions') <= num_conds /\ cond_index \in 0 .. Len(conditions')
  BY <1>1, <1>4, <1>5 DEF TypeOK
<1>10. TypeOK'
  BY <1>1, <1>6, <1>7, <1>8, <1>9 DEF TypeOK
<1>11. MeasuredInv'
  BY <1>1, <1>2, <1>3, <1>4 DEF MeasuredInv
<1>12. PhaseInv'
  BY <1>1 DEF PhaseInv
<1> QED BY <1>10, <1>11, <1>12 DEF NotationInv

\* A step after which the notation and the match are as before, or nothing
\* happens any more.
LEMMA StopsNotation ==
    ASSUME NotationInv, UNCHANGED <<compiling, matching>>,
           phase' = "undefined" \/ UNCHANGED phase
    PROVE  NotationInv'
BY DEF NotationInv, TypeOK, PhaseInv, MeasuredInv, compiling, matching

\* Reading how many operations there are.
LEMMA ReadNumOperandsNotation ==
    ASSUME NotationInv, ReadNumOperands
    PROVE  NotationInv'
<1>1. /\ TypeOK /\ PhaseInv /\ MeasuredInv /\ phase = "conditions"
      /\ phase' = "operations" /\ curr_ind' = curr_ind + 2
      /\ num_operands' \in 0 .. MaxOps[num_conds]
      /\ UNCHANGED <<len, num_conds, stack_size, conditions, operations, seen,
                     data, op_index, cond_index, stack, result>>
  BY DEF NotationInv, ReadNumOperands, matching
<1>2. allocated' \subseteq Block
  BY <1>1 DEF ReadNumOperands, Allocate, TypeOK, Block
<1>3. MaxOps[num_conds] \in Nat /\ stack_size = 0
  BY <1>1, NotationAssumption DEF PhaseInv, TypeOK
<1>4. TypeOK'
  BY <1>1, <1>2, <1>3 DEF TypeOK
<1>5. PhaseInv' /\ MeasuredInv'
  BY <1>1, <1>3 DEF PhaseInv, MeasuredInv
<1> QED BY <1>4, <1>5 DEF NotationInv

\* Reading an operation.
LEMMA ReadOperationNotation ==
    ASSUME NotationInv, ReadOperation
    PROVE  NotationInv'
<1>1. /\ TypeOK /\ PhaseInv /\ MeasuredInv /\ phase = "operations"
      /\ Len(seen) < num_operands /\ curr_ind' = curr_ind + 1
      /\ UNCHANGED <<len, num_conds, num_operands, matching>>
  BY DEF NotationInv, ReadOperation
<1>2. PICK op \in OperationTypes :
         /\ seen' = Append(seen, op) /\ stack_size' = StackSizeAfter(op)
         /\ \/ StackRunsDry(stack_size') /\ Reject
            \/ /\ ~ StackRunsDry(stack_size')
               /\ operations' = Append(operations, op)
               /\ UNCHANGED <<phase, conditions, allocated>>
  BY DEF ReadOperation
<1>3. /\ seen' \in Seq(OperationTypes) /\ Len(seen') = Len(seen) + 1
      /\ Len(seen) \in Nat /\ num_operands \in Nat /\ curr_ind' \in Nat
  BY <1>1, <1>2 DEF TypeOK
<1>4. stack_size' \in -1 .. num_operands /\ stack_size' <= Len(seen')
  BY <1>1, <1>2, <1>3 DEF StackSizeAfter, PhaseInv
<1>5. CASE Reject
  BY <1>1, <1>3, <1>4, <1>5, RejectNotation
<1>6. CASE /\ stack_size' > 0 /\ operations' = Append(operations, op)
           /\ UNCHANGED <<phase, conditions, allocated>>
  <2>1. operations' = seen' /\ op_index = 0 /\ cond_index = 0 /\ stack = <<>>
    BY <1>1, <1>2, <1>6 DEF PhaseInv
  <2>2. TypeOK'
    BY <1>1, <1>3, <1>4, <1>6, <2>1 DEF TypeOK, matching
  <2>3. PhaseInv'
    BY <1>1, <1>3, <1>4, <1>6, <2>1 DEF PhaseInv, matching
  <2>4. MeasuredInv'
    BY <1>1, <1>6 DEF MeasuredInv
  <2> QED BY <2>2, <2>3, <2>4 DEF NotationInv
<1>7. stack_size' \in Int
  BY <1>4
<1> QED BY <1>2, <1>5, <1>6, <1>7 DEF StackRunsDry

\* The end of a notation.
LEMMA FinishCompileNotation ==
    ASSUME NotationInv, FinishCompile
    PROVE  NotationInv'
<1>1. /\ TypeOK /\ PhaseInv /\ MeasuredInv /\ phase = "operations"
      /\ UNCHANGED <<len, curr_ind, num_conds, num_operands, stack_size, seen,
                     matching>>
  BY DEF NotationInv, FinishCompile
<1>2. CASE Reject
  <2>1. curr_ind' \in Nat /\ seen' \in Seq(OperationTypes)
        /\ stack_size' \in -1 .. num_operands
    BY <1>1 DEF TypeOK
  <2> QED BY <1>1, <1>2, <2>1, RejectNotation
<1>3. CASE phase' = "compiled" /\ UNCHANGED <<conditions, operations, allocated>>
  BY <1>1, <1>3 DEF NotationInv, TypeOK, PhaseInv, MeasuredInv, matching
<1> QED BY <1>2, <1>3 DEF FinishCompile

\* match_pattern keeps to the operations there are and to truth values.
LEMMA MatchNotation ==
    ASSUME NotationInv, Match
    PROVE  NotationInv'
<1>0. /\ TypeOK /\ PhaseInv /\ MeasuredInv
      /\ stack \in Seq(BOOLEAN) /\ operations \in Seq(OperationTypes)
      /\ Len(operations) \in Nat /\ Len(conditions) \in Nat /\ Len(stack) \in Nat
  BY DEF NotationInv, TypeOK, MeasuredInv
<1>1. CASE StartMatch
  BY <1>0, <1>1 DEF StartMatch, compiling, TypeOK, PhaseInv, MeasuredInv, NotationInv
<1>2. CASE PushCondition
  <2>1. stack' \in Seq(BOOLEAN)
    BY <1>0, <1>2, ConditionIsTrueOrFalse DEF PushCondition
  <2>2. op_index' \in 0 .. Len(operations) /\ cond_index' \in 0 .. Len(conditions)
    BY <1>0, <1>2 DEF PushCondition, NextOperation, TypeOK
  <2> QED BY <1>0, <1>2, <2>1, <2>2
        DEF PushCondition, NextOperation, compiling, TypeOK, PhaseInv, MeasuredInv,
            NotationInv
<1>3. CASE PushOutOfBounds
  BY <1>3, StopsNotation DEF PushOutOfBounds
<1>4. CASE ApplyOperation
  <2>1. PICK op \in OperationTypes :
          stack' = Append(SubSeq(stack, 1, Len(stack) - 2),
                          Operate(op, stack[Len(stack) - 1], stack[Len(stack)]))
    BY <1>4 DEF ApplyOperation
  <2>2. /\ SubSeq(stack, 1, Len(stack) - 2) \in Seq(BOOLEAN)
        /\ stack[Len(stack) - 1] \in BOOLEAN /\ stack[Len(stack)] \in BOOLEAN
    BY <1>0, <1>4 DEF ApplyOperation, Enough
  <2>3. stack' \in Seq(BOOLEAN)
    BY <2>1, <2>2, OperateIsTrueOrFalse
  <2>4. /\ op_index' \in 0 .. Len(operations) /\ phase = "matching"
        /\ UNCHANGED <<phase, compiling, data, cond_index, result>>
    BY <1>0, <1>4 DEF ApplyOperation, NextOperation, TypeOK
  <2> QED BY <1>0, <2>3, <2>4
        DEF compiling, TypeOK, PhaseInv, MeasuredInv, NotationInv
<1>5. CASE FinishMatch
  <2>1. result' \in BOOLEAN
    BY <1>0, <1>5 DEF FinishMatch
  <2>2. /\ phase' = "matched" /\ phase = "matching"
        /\ UNCHANGED <<compiling, data, op_index, cond_index, stack>>
    BY <1>5 DEF FinishMatch
  <2> QED BY <1>0, <2>1, <2>2
        DEF compiling, TypeOK, PhaseInv, MeasuredInv, NotationInv
<1>6. CASE NextPacket
  <2>1. /\ phase' = "compiled" /\ phase = "matched"
        /\ UNCHANGED <<len, curr_ind, num_conds, num_operands, stack_size,
                       conditions, operations, allocated, seen>>
        /\ data' = <<>> /\ op_index' = 0 /\ cond_index' = 0
        /\ stack' = <<>> /\ result' = FALSE
    BY <1>6 DEF NextPacket, compiling
  <2>2. /\ stack' \in Seq(BOOLEAN) /\ data' \in Packets \cup {<<>>}
        /\ op_index' \in 0 .. Len(operations) /\ cond_index' \in 0 .. Len(conditions)
    <3>1. <<>> \in Seq(BOOLEAN)
      OBVIOUS
    <3> QED BY <1>0, <2>1, <3>1
  <2>5. result' \in BOOLEAN
    BY <2>1, Zenon
  <2>3. TypeOK'
    BY <1>0, <2>1, <2>2, <2>5 DEF TypeOK
  <2>4. PhaseInv' /\ MeasuredInv'
    BY <1>0, <2>1 DEF PhaseInv, MeasuredInv
  <2> QED BY <2>3, <2>4 DEF NotationInv
<1> QED BY <1>1, <1>2, <1>3, <1>4, <1>5, <1>6 DEF Match

\* A notation and a match have their types, whatever is read.
LEMMA NextNotation == NotationInv /\ [Next]_vars => NotationInv'
<1> SUFFICES ASSUME NotationInv, [Next]_vars PROVE NotationInv'
  OBVIOUS
<1>1. CASE Compile
  BY <1>1, ReadNumCondsNotation, BehindEndNotation, ReadConditionNotation,
     StopsNotation, ReadNumOperandsNotation, ReadOperationNotation,
     FinishCompileNotation
  DEF Compile, ReadInvertedRange, AllocationFails
<1>2. CASE Match
  BY <1>2, MatchNotation
<1>3. CASE UNCHANGED vars
  BY <1>3, StopsNotation DEF vars
<1> QED BY <1>1, <1>2, <1>3 DEF Next

\* Nothing has been read at first.
LEMMA InitNotation == Init => NotationInv
<1> SUFFICES ASSUME Init PROVE NotationInv
  OBVIOUS
<1>1. 0 \in DOMAIN Offered /\ MaxOps[0] \in Nat
  BY NotationAssumption
<1>2. TypeOK
  BY <1>1 DEF Init, TypeOK
<1>3. PhaseInv /\ MeasuredInv
  BY DEF Init, PhaseInv, MeasuredInv
<1> QED BY <1>2, <1>3 DEF NotationInv

\* What compile_pattern notes of a notation, and match_pattern of a match, has
\* its type and stays within what was announced, whatever the notation says; and
\* what is compiled has for each condition as many values as its type and its
\* range ask for.
THEOREM NotationTypeCorrect == Spec => [](TypeOK /\ MeasuredInv)
<1>1. NotationInv => TypeOK /\ MeasuredInv
  BY DEF NotationInv
<1> QED BY InitNotation, NextNotation, <1>1, PTL DEF Spec

-----------------------------------------------------------------------------
(* Conditions mean what they say *)

\* Induction, as the provers can use it: a set of numbers has a least one.
LEMMA LeastNatural ==
    ASSUME NEW T, T \subseteq Nat, T # {}
    PROVE  \E x \in T : \A y \in T : x <= y
<1>1. PICK x \in T : \A y \in T : ~ (<<y, x>> \in OpToRel(<, Nat))
  BY NatLessThanWellFounded, WFMin
<1>2. \A y \in T : ~ (y < x)
  BY <1>1 DEF OpToRel
<1> QED BY <1>2

\* Multiples.
LEMMA Multiples ==
    ASSUME NEW s \in Nat \ {0}, NEW q \in Nat
    PROVE  /\ (q * s) % s = 0 /\ (q * s) \div s = q
           /\ q % s = 0 => q = (q \div s) * s /\ q \div s \in Nat
           /\ \A k \in Nat : /\ q * s < k * s <=> q < k
                            /\ q < k => q * s + s <= k * s
<1>1. (q * s) % s = 0 /\ (q * s) \div s = q
  OBVIOUS
<1>2. q % s = 0 => q = (q \div s) * s /\ q \div s \in Nat
  OBVIOUS
<1>3. \A k \in Nat : q * s < k * s <=> q < k
  OBVIOUS
<1>4. \A k \in Nat : q < k => q * s + s <= k * s
  OBVIOUS
<1> QED BY <1>1, <1>2, <1>3, <1>4

Size(c) == c.end_range - c.start_range

\* The values, and the part of the packet, that are compared at an offset.
ValueFrom(c, offset) == SubSeq(c.vals, offset + 1, offset + Size(c))
Part(packet, c) == SubSeq(packet, c.start_range + 1, c.end_range)

Comparable(packet, c, offset) ==
    /\ c \in AnyCondition /\ packet \in Seq(Nat)
    /\ c.start_range < c.end_range /\ c.end_range <= Len(packet)
    /\ offset \in Nat /\ offset + Size(c) <= Len(c.vals)

\* A part of a sequence.
LEMMA CutOut ==
    ASSUME NEW s \in Seq(Nat), NEW m \in Nat, NEW n \in Nat, m + n <= Len(s)
    PROVE  /\ SubSeq(s, m + 1, m + n) \in Seq(Nat)
           /\ Len(SubSeq(s, m + 1, m + n)) = n
           /\ \A i \in 1 .. n : SubSeq(s, m + 1, m + n)[i] = s[m + i]
<1>1. Len(s) \in Nat /\ m + 1 \in Int /\ m + n \in Int
  OBVIOUS
<1>2. \A i \in m + 1 .. m + n : s[i] \in Nat
  BY <1>1
<1>3. SubSeq(s, m + 1, m + n) \in Seq(Nat)
  BY <1>1, <1>2, SubSeqProperties
<1>4. Len(SubSeq(s, m + 1, m + n)) = n
  BY <1>1, <1>2
<1>5. \A i \in 1 .. n : SubSeq(s, m + 1, m + n)[i] = s[m + i]
  BY <1>1, <1>2
<1> QED BY <1>3, <1>4, <1>5

\* Both have the length of the range.
LEMMA Parts ==
    ASSUME NEW packet, NEW c, NEW offset, Comparable(packet, c, offset)
    PROVE  /\ Size(c) \in Nat \ {0}
           /\ Part(packet, c) \in Seq(Nat) /\ Len(Part(packet, c)) = Size(c)
           /\ ValueFrom(c, offset) \in Seq(Nat)
           /\ Len(ValueFrom(c, offset)) = Size(c)
           /\ \A i \in 1 .. Size(c) :
                 /\ Part(packet, c)[i] = packet[c.start_range + i]
                 /\ ValueFrom(c, offset)[i] = c.vals[offset + i]
<1>1. /\ c.vals \in Seq(Nat) /\ c.start_range \in Nat /\ c.end_range \in Nat
      /\ packet \in Seq(Nat) /\ c.start_range < c.end_range
      /\ c.end_range <= Len(packet) /\ offset \in Nat
      /\ offset + Size(c) <= Len(c.vals)
  <2>1. c.vals \in Seq(Nat) /\ c.start_range \in Nat /\ c.end_range \in Nat
    BY ConditionFields DEF Comparable
  <2> QED BY <2>1 DEF Comparable
<1>2. Size(c) \in Nat \ {0} /\ Size(c) = c.end_range - c.start_range
  BY <1>1 DEF Size
<1>3. c.end_range = c.start_range + Size(c) /\ c.start_range + Size(c) <= Len(packet)
  <2>1. \A a, b, n \in Nat : n = b - a => b = a + n
    OBVIOUS
  <2>2. c.end_range = c.start_range + Size(c)
    BY <1>1, <1>2, <2>1
  <2> QED BY <1>1, <2>2
<1>4. Part(packet, c) = SubSeq(packet, c.start_range + 1, c.start_range + Size(c))
  BY <1>3 DEF Part
<1>5. /\ Part(packet, c) \in Seq(Nat) /\ Len(Part(packet, c)) = Size(c)
      /\ \A i \in 1 .. Size(c) : Part(packet, c)[i] = packet[c.start_range + i]
  <2> DEFINE cut == SubSeq(packet, c.start_range + 1, c.start_range + Size(c))
  <2>0. /\ packet \in Seq(Nat) /\ c.start_range \in Nat /\ Size(c) \in Nat
        /\ c.start_range + Size(c) <= Len(packet)
    BY <1>1, <1>2, <1>3
  <2>1. /\ cut \in Seq(Nat) /\ Len(cut) = Size(c)
        /\ \A i \in 1 .. Size(c) : cut[i] = packet[c.start_range + i]
    BY <2>0, CutOut
  <2> HIDE DEF cut
  <2>2. Part(packet, c) = cut
    BY <1>4 DEF cut
  <2> QED BY <2>1, <2>2
<1>6. /\ ValueFrom(c, offset) \in Seq(Nat) /\ Len(ValueFrom(c, offset)) = Size(c)
      /\ \A i \in 1 .. Size(c) : ValueFrom(c, offset)[i] = c.vals[offset + i]
  <2>1. c.vals \in Seq(Nat) /\ Size(c) \in Nat /\ offset \in Nat
        /\ offset + Size(c) <= Len(c.vals)
    BY <1>1, <1>2
  <2> QED BY <2>1, CutOut, ZenonT(40) DEF ValueFrom
<1> QED BY <1>2, <1>5, <1>6

\* The loops of evaluate_condition stop at the first difference.
LEMMA FirstDifference ==
    ASSUME NEW packet, NEW c, NEW offset, Comparable(packet, c, offset)
    PROVE  LET m == Mismatch(packet, c, offset)
           IN /\ m \in 0 .. Size(c)
              /\ \A i \in 1 .. m : Part(packet, c)[i] = ValueFrom(c, offset)[i]
              /\ m < Size(c) =>
                    Part(packet, c)[m + 1] # ValueFrom(c, offset)[m + 1]
<1> DEFINE size == Size(c)
           differs == {i \in 0 .. size - 1 :
                         packet[c.start_range + i + 1] # c.vals[i + offset + 1]}
           IsFirst(i) == i \in differs \cup {size} /\ \A j \in differs : i <= j
<1>1. size \in Nat \ {0} /\ c.start_range \in Nat /\ offset \in Nat
  BY Parts, ConditionFields DEF Comparable
<1>2. \E i \in 0 .. size : IsFirst(i)
  <2>1. CASE differs = {}
    BY <1>1, <2>1
  <2>2. CASE differs # {}
    <3>1. differs \subseteq Nat
      BY <1>1
    <3>2. PICK x \in differs : \A y \in differs : x <= y
      BY <2>2, <3>1, LeastNatural
    <3> QED BY <1>1, <3>2
  <2> QED BY <2>1, <2>2
<1>3. Mismatch(packet, c, offset) = CHOOSE i \in 0 .. size : IsFirst(i)
  BY DEF Mismatch, Size
<1> DEFINE m == Mismatch(packet, c, offset)
<1>4. m \in 0 .. size /\ IsFirst(m)
  BY <1>2, <1>3
<1> HIDE DEF m
<1>5. ASSUME NEW i \in 1 .. m PROVE Part(packet, c)[i] = ValueFrom(c, offset)[i]
  <2>1. i - 1 \in 0 .. size - 1 /\ i - 1 \notin differs /\ i \in 1 .. size
    BY <1>1, <1>4
  <2>2. packet[c.start_range + (i - 1) + 1] = c.vals[(i - 1) + offset + 1]
    BY <2>1
  <2>3. c.start_range + (i - 1) + 1 = c.start_range + i /\ (i - 1) + offset + 1 = offset + i
    BY <1>1, <2>1
  <2> QED BY <2>1, <2>2, <2>3, Parts
<1>6. ASSUME m < size PROVE Part(packet, c)[m + 1] # ValueFrom(c, offset)[m + 1]
  <2>1. m \in differs /\ m + 1 \in 1 .. size
    BY <1>1, <1>4, <1>6
  <2>2. packet[c.start_range + m + 1] # c.vals[m + offset + 1]
    BY <2>1
  <2>3. c.start_range + m + 1 = c.start_range + (m + 1) /\ m + offset + 1 = offset + (m + 1)
    BY <1>1, <2>1
  <2> QED BY <2>1, <2>2, <2>3, Parts
<1> QED BY <1>4, <1>5, <1>6 DEF m

\* The order of a dictionary is decided by the first difference.
LEMMA DictionaryOrder ==
    ASSUME NEW s \in Seq(Nat), NEW t \in Seq(Nat), Len(s) = Len(t),
           NEW m \in 0 .. Len(s), \A i \in 1 .. m : s[i] = t[i],
           m < Len(s) => s[m + 1] # t[m + 1]
    PROVE  /\ s = t <=> m = Len(s)
           /\ NotAfter(s, t) <=> m = Len(s) \/ s[m + 1] < t[m + 1]
<1>0. Len(s) \in Nat /\ m \in Nat
  OBVIOUS
<1>1. m = Len(s) => s = t
  BY SeqEqual
<1>2. m < Len(s) => s # t
  OBVIOUS
<1>3. ASSUME m < Len(s), s[m + 1] < t[m + 1] PROVE NotAfter(s, t)
  <2>1. m + 1 \in 1 .. Len(s) /\ (m + 1) - 1 = m
    BY <1>0, <1>3
  <2>2. /\ SubSeq(s, 1, m) \in Seq(Nat) /\ SubSeq(t, 1, m) \in Seq(Nat)
        /\ Len(SubSeq(s, 1, m)) = m /\ Len(SubSeq(t, 1, m)) = m
        /\ \A i \in 1 .. m : SubSeq(s, 1, m)[i] = SubSeq(t, 1, m)[i]
    <3>1. m <= Len(s) /\ Len(s) = Len(t) /\ m \in Nat BY <1>0
    <3>2. ASSUME NEW u \in Seq(Nat), Len(u) = Len(s)
          PROVE  /\ SubSeq(u, 1, m) \in Seq(Nat) /\ Len(SubSeq(u, 1, m)) = m
                 /\ \A i \in 1 .. m : SubSeq(u, 1, m)[i] = u[i]
      BY <3>1, <3>2
    <3> QED BY <3>1, <3>2
  <2>3. SubSeq(s, 1, m) = SubSeq(t, 1, m)
    BY <2>2, SeqEqual
  <2> QED BY <1>3, <2>1, <2>3 DEF NotAfter
<1>4. ASSUME NEW i \in 1 .. Len(s), s[i] < t[i],
             SubSeq(s, 1, i - 1) = SubSeq(t, 1, i - 1)
      PROVE  m < Len(s) /\ s[m + 1] < t[m + 1]
  <2>1. i > m
    BY <1>0, <1>4
  <2>2. m < Len(s) /\ m + 1 \in 1 .. Len(s)
    BY <1>0, <2>1
  <2>3. i = m + 1
    <3>1. SUFFICES ASSUME i # m + 1 PROVE FALSE
      OBVIOUS
    <3>2. m + 1 \in 1 .. i - 1
      BY <1>0, <2>1, <3>1
    <3>3. SubSeq(s, 1, i - 1)[m + 1] = s[m + 1] /\ SubSeq(t, 1, i - 1)[m + 1] = t[m + 1]
      BY <1>0, <3>2
    <3> QED BY <1>4, <2>2, <3>3
  <2> QED BY <1>4, <2>2, <2>3
<1>5. m = Len(s) \/ m < Len(s)
  BY <1>0
<1> QED BY <1>0, <1>1, <1>2, <1>3, <1>4, <1>5 DEF NotAfter

\* MATCH_FIXED compares the part with the values.
LEMMA FixedAsMeant ==
    ASSUME NEW packet, NEW c, NEW offset, Comparable(packet, c, offset)
    PROVE  MatchFixed(packet, c, offset) <=> Part(packet, c) = ValueFrom(c, offset)
<1> DEFINE m == Mismatch(packet, c, offset)
<1>1. /\ m \in 0 .. Size(c)
      /\ \A i \in 1 .. m : Part(packet, c)[i] = ValueFrom(c, offset)[i]
      /\ m < Size(c) => Part(packet, c)[m + 1] # ValueFrom(c, offset)[m + 1]
  BY FirstDifference
<1>2. MatchFixed(packet, c, offset) <=> m = Size(c)
  BY DEF MatchFixed, Size
<1> HIDE DEF m
<1>3. Part(packet, c) = ValueFrom(c, offset) <=> m = Len(Part(packet, c))
  <2> DEFINE s == Part(packet, c)
             t == ValueFrom(c, offset)
  <2>1. s \in Seq(Nat) /\ t \in Seq(Nat) /\ Len(s) = Len(t) /\ Len(s) = Size(c)
    BY Parts
  <2> HIDE DEF s, t
  <2>2. /\ m \in 0 .. Len(s) /\ \A i \in 1 .. m : s[i] = t[i]
        /\ m < Len(s) => s[m + 1] # t[m + 1]
    BY <1>1, <2>1 DEF s, t
  <2>3. s = t <=> m = Len(s)
    BY <2>1, <2>2, DictionaryOrder
  <2> QED BY <2>3 DEF s, t
<1> QED BY <1>2, <1>3, Parts

\* The two loops over a range compare with its two bounds.
LEMMA RangeAsMeant ==
    ASSUME NEW packet, NEW c, Comparable(packet, c, 0),
           Comparable(packet, c, Size(c))
    PROVE  LexicalBetween(packet, c) <=>
             /\ NotAfter(ValueFrom(c, 0), Part(packet, c))
             /\ NotAfter(Part(packet, c), ValueFrom(c, Size(c)))
<1> DEFINE low == Mismatch(packet, c, 0)
           high == Mismatch(packet, c, Size(c))
           part == Part(packet, c)
           first == ValueFrom(c, 0)
           last == ValueFrom(c, Size(c))
           size == Size(c)
<1>1. /\ low \in 0 .. size /\ \A i \in 1 .. low : part[i] = first[i]
      /\ low < size => part[low + 1] # first[low + 1]
  BY FirstDifference
<1>2. /\ high \in 0 .. size /\ \A i \in 1 .. high : part[i] = last[i]
      /\ high < size => part[high + 1] # last[high + 1]
  BY FirstDifference
<1>3. /\ size \in Nat \ {0} /\ part \in Seq(Nat) /\ Len(part) = size
      /\ first \in Seq(Nat) /\ Len(first) = size
      /\ last \in Seq(Nat) /\ Len(last) = size
  BY Parts
<1>4. /\ \A i \in 1 .. size : part[i] = packet[c.start_range + i]
      /\ \A i \in 1 .. size : first[i] = c.vals[i]
      /\ \A i \in 1 .. size : last[i] = c.vals[size + i]
  <2>1. \A i \in 1 .. size : first[i] = c.vals[0 + i]
    BY Parts
  <2> QED BY SMTT(30), <1>3, <2>1, Parts
<1>5. c.start_range \in Nat
  BY ConditionFields DEF Comparable
<1>6. LexicalBetween(packet, c) <=>
        /\ low < size => packet[c.start_range + low + 1] >= c.vals[low + 1]
        /\ high = size \/ packet[c.start_range + high + 1] <= c.vals[high + size + 1]
  BY DEF LexicalBetween, Size
<1> HIDE DEF low, high, part, first, last, size
<1>7. NotAfter(first, part) <=> low = size \/ first[low + 1] < part[low + 1]
  <2>1. low \in 0 .. Len(first) /\ Len(first) = Len(part)
    BY <1>1, <1>3
  <2>2. \A i \in 1 .. low : first[i] = part[i]
    BY <1>1
  <2>3. low < Len(first) => first[low + 1] # part[low + 1]
    BY <1>1, <1>3
  <2>4. first \in Seq(Nat) /\ part \in Seq(Nat)
    BY <1>3
  <2>5. NotAfter(first, part) <=> low = Len(first) \/ first[low + 1] < part[low + 1]
    BY <2>1, <2>2, <2>3, <2>4, DictionaryOrder
  <2> QED BY <1>3, <2>5
<1>8. NotAfter(part, last) <=> high = size \/ part[high + 1] < last[high + 1]
  <2>1. high \in 0 .. Len(part) /\ Len(part) = Len(last)
    BY <1>2, <1>3
  <2>2. \A i \in 1 .. high : part[i] = last[i]
    BY <1>2
  <2>3. high < Len(part) => part[high + 1] # last[high + 1]
    BY <1>2, <1>3
  <2>4. part \in Seq(Nat) /\ last \in Seq(Nat)
    BY <1>3
  <2>5. NotAfter(part, last) <=> high = Len(part) \/ part[high + 1] < last[high + 1]
    BY <2>1, <2>2, <2>3, <2>4, DictionaryOrder
  <2> QED BY <1>3, <2>5
<1>9. (low < size => packet[c.start_range + low + 1] >= c.vals[low + 1])
        <=> low = size \/ first[low + 1] < part[low + 1]
  <2>1. CASE low < size
    <3>1. low + 1 \in 1 .. size /\ c.start_range + low + 1 = c.start_range + (low + 1)
      <4>1. low \in Nat /\ size \in Nat
        BY <1>1, <1>3
      <4> QED BY <1>5, <2>1, <4>1
    <3>2. /\ part[low + 1] = packet[c.start_range + low + 1]
          /\ first[low + 1] = c.vals[low + 1]
      BY <1>4, <3>1
    <3>3. part[low + 1] \in Nat /\ first[low + 1] \in Nat
      BY <1>3, <3>1
    <3> QED BY <1>1, <2>1, <3>2, <3>3
  <2> QED BY <1>1, <1>3, <2>1
<1>10. (high = size \/ packet[c.start_range + high + 1] <= c.vals[high + size + 1])
         <=> high = size \/ part[high + 1] < last[high + 1]
  <2>1. CASE high < size
    <3>1. /\ high + 1 \in 1 .. size /\ high + size + 1 = size + (high + 1)
          /\ c.start_range + high + 1 = c.start_range + (high + 1)
      <4>1. high \in Nat /\ size \in Nat
        BY <1>2, <1>3
      <4> QED BY <1>5, <2>1, <4>1
    <3>2. /\ part[high + 1] = packet[c.start_range + high + 1]
          /\ last[high + 1] = c.vals[high + size + 1]
      BY <1>4, <3>1
    <3>3. part[high + 1] \in Nat /\ last[high + 1] \in Nat
      BY <1>3, <3>1
    <3> QED BY <1>2, <2>1, <3>2, <3>3
  <2> QED BY <1>2, <1>3, <2>1
<1> QED BY <1>6, <1>7, <1>8, <1>9, <1>10 DEF first, last, part, size

\* The k-th value starts where the ones before it end.
LEMMA ValuesInOrder ==
    ASSUME NEW c, Size(c) \in Nat, NEW k \in Nat
    PROVE  ValueAt(c, k + 1) = ValueFrom(c, k * Size(c))
<1>1. /\ (k + 1) - 1 = k /\ k * Size(c) \in Nat
      /\ (k + 1) * Size(c) = k * Size(c) + Size(c)
  OBVIOUS
<1> QED BY <1>1 DEF ValueAt, ValueFrom, Size

\* The loop over the values finds one wherever it is.
LEMMA SelectionAsMeant ==
    ASSUME NEW packet, NEW c, NEW number \in Nat,
           c \in AnyCondition, packet \in Seq(Nat), c.start_range < c.end_range,
           c.end_range <= Len(packet), Len(c.vals) = number * Size(c)
    PROVE  MatchSelection(packet, c) <=> Part(packet, c) \in ValuesOf(c)
<1>1. Size(c) \in Nat \ {0} /\ number * Size(c) \in Nat
  <2>1. Size(c) \in Nat \ {0}
    BY ConditionFields DEF Size
  <2> QED BY <2>1
<1>2. \A k \in Nat : k < number =>
         /\ Comparable(packet, c, k * Size(c)) /\ k * Size(c) \in Nat
         /\ k * Size(c) < number * Size(c)
  <2> SUFFICES ASSUME NEW k \in Nat, k < number
               PROVE  /\ Comparable(packet, c, k * Size(c)) /\ k * Size(c) \in Nat
                      /\ k * Size(c) < number * Size(c)
    OBVIOUS
  <2>1. k * Size(c) \in Nat
    BY <1>1
  <2>2. k * Size(c) + Size(c) <= number * Size(c) /\ k * Size(c) < number * Size(c)
    <3> HIDE DEF Size
    <3>1. \A s \in Nat \ {0} : k * s + s <= number * s /\ k * s < number * s
      BY Multiples
    <3> QED BY <1>1, <3>1
  <2> QED BY <2>1, <2>2 DEF Comparable
<1>3. Len(c.vals) \div Size(c) = number
  <2>1. (number * Size(c)) \div Size(c) = number
    BY <1>1, Multiples
  <2> QED BY <2>1
<1>4. ValuesOf(c) = {ValueAt(c, k) : k \in 1 .. number}
  BY <1>3 DEF ValuesOf, Size
<1>5. MatchSelection(packet, c) <=>
        \E offset \in 0 .. number * Size(c) - 1 :
          offset % Size(c) = 0 /\ MatchFixed(packet, c, offset)
  BY DEF MatchSelection, Size
<1>6. ASSUME NEW offset \in 0 .. number * Size(c) - 1, offset % Size(c) = 0,
             MatchFixed(packet, c, offset)
      PROVE  Part(packet, c) \in ValuesOf(c)
  <2>1. offset \in Nat /\ offset < number * Size(c)
    BY <1>1
  <2>2. PICK k \in Nat : offset = k * Size(c)
    BY ZenonT(40), <1>1, <1>6, <2>1, Multiples
  <2>3. k < number
    BY <1>1, <2>1, <2>2, Multiples
  <2>4. Part(packet, c) = ValueFrom(c, k * Size(c))
    BY <1>2, <1>6, <2>2, <2>3, FixedAsMeant
  <2>5. Part(packet, c) = ValueAt(c, k + 1) /\ k + 1 \in 1 .. number
    BY <1>1, <2>3, <2>4, ValuesInOrder
  <2> QED BY <1>4, <2>5
<1>7. ASSUME NEW k \in 1 .. number, Part(packet, c) = ValueAt(c, k)
      PROVE  MatchSelection(packet, c)
  <2>1. k - 1 \in Nat /\ k - 1 < number /\ (k - 1) + 1 = k
    OBVIOUS
  <2>2. Part(packet, c) = ValueFrom(c, (k - 1) * Size(c))
    BY <1>1, <1>7, <2>1, ValuesInOrder
  <2>3. MatchFixed(packet, c, (k - 1) * Size(c))
    BY <1>2, <2>1, <2>2, FixedAsMeant
  <2>4. ((k - 1) * Size(c)) % Size(c) = 0
    BY <1>1, <2>1, Multiples
  <2>5. (k - 1) * Size(c) \in 0 .. number * Size(c) - 1
    BY <1>1, <1>2, <2>1
  <2> QED BY <1>5, <2>3, <2>4, <2>5
<1> QED BY <1>4, <1>5, <1>6, <1>7

\* The values of a range that is not inverted are one, two or as many as counted.
LEMMA ValuesMeasured ==
    ASSUME NEW c \in AnyCondition, c.start_range < c.end_range
    PROVE  ValsSize(c) = Size(c) * (CASE c.type \in {"RANGE", "NRANGE"} -> 2
                                     [] HasCount(c) -> c.num_vals
                                     [] OTHER -> 1)
<1> DEFINE factor == CASE c.type \in {"RANGE", "NRANGE"} -> 2
                       [] HasCount(c) -> c.num_vals
                       [] OTHER -> 1
<1>1. /\ c.start_range \in Nat /\ c.end_range \in Nat /\ c.num_vals \in Nat
      /\ SizeModulus \in Nat \ {0}
      /\ c.end_range * c.num_vals < SizeModulus /\ c.end_range * 2 < SizeModulus
  BY NotationAssumption, ConditionFields DEF AnyCondition
<1>2. Size(c) \in Nat /\ Size(c) <= c.end_range /\ Size(c) < SizeModulus
  BY <1>1 DEF Size
<1>3. (c.end_range + SizeModulus - c.start_range) % SizeModulus = Size(c)
  <2>1. c.end_range + SizeModulus - c.start_range = SizeModulus + Size(c)
    BY <1>1 DEF Size
  <2>2. (SizeModulus + Size(c)) % SizeModulus = Size(c)
    BY <1>1, <1>2
  <2> QED BY <2>1, <2>2
<1>4. factor \in Nat /\ factor \in {1, 2, c.num_vals}
  BY <1>1 DEF HasCount
<1>5. ValsSize(c) = (Size(c) * factor) % SizeModulus
  BY <1>3 DEF ValsSize
<1> HIDE DEF factor
<1>6. c.end_range * factor < SizeModulus
  BY <1>1, <1>4
<1>7. Size(c) * factor <= c.end_range * factor /\ Size(c) * factor \in Nat
      /\ c.end_range * factor \in Nat
  BY <1>1, <1>2, <1>4
<1>8. (Size(c) * factor) % SizeModulus = Size(c) * factor
  <2>1. Size(c) * factor < SizeModulus
    BY <1>1, <1>6, <1>7
  <2> QED BY <1>1, <1>7, <2>1
<1> QED BY <1>5, <1>8 DEF factor

\* evaluate_condition decides what a condition with all its values means.
LEMMA ConditionMeaning ==
    ASSUME NEW c \in AnyCondition, ValsSize(c) = Len(c.vals),
           c.start_range < c.end_range, NEW packet \in Seq(Nat)
    PROVE  EvaluateCondition(packet, c) <=> Satisfies(packet, c)
<1>1. c.start_range \in Nat /\ c.end_range \in Nat /\ c.num_vals \in Nat
      /\ c.vals \in Seq(Nat) /\ c.type \in ConditionTypes
      /\ c.start_range <= c.end_range
  <2>1. c.start_range \in Nat /\ c.end_range \in Nat /\ c.num_vals \in Nat
        /\ c.vals \in Seq(Nat) /\ c.type \in ConditionTypes
    BY ConditionFields
  <2> QED BY <2>1
<1>2. Size(c) \in Nat \ {0}
  BY <1>1 DEF Size
<1>3. CASE ~ (c.end_range <= Len(packet))
  BY <1>3 DEF EvaluateCondition, Satisfies, Covers
<1>4. CASE c.end_range <= Len(packet)
  <2>1. Covers(packet, c)
    BY <1>1, <1>4 DEF Covers
  <2>2. \A k \in Nat : ValueAt(c, k + 1) = ValueFrom(c, k * Size(c))
    BY <1>2, ValuesInOrder
  <2>3. ValueAt(c, 1) = ValueFrom(c, 0) /\ ValueAt(c, 2) = ValueFrom(c, Size(c))
    <3>1. /\ 0 * Size(c) = 0 /\ 1 * Size(c) = Size(c) /\ 0 + 1 = 1 /\ 1 + 1 = 2
          /\ 0 \in Nat /\ 1 \in Nat
      BY <1>2
    <3>2. ValueAt(c, 0 + 1) = ValueFrom(c, 0 * Size(c))
      BY <2>2
    <3>3. ValueAt(c, 1 + 1) = ValueFrom(c, 1 * Size(c))
      BY <2>2
    <3> QED BY <3>1, <3>2, <3>3
  <2>4. EvaluateCondition(packet, c) <=>
          CASE c.type = "FIXED"      -> MatchFixed(packet, c, 0)
            [] c.type = "RANGE"      -> LexicalBetween(packet, c)
            [] c.type = "SELECTION"  -> MatchSelection(packet, c)
            [] c.type = "NFIXED"     -> ~ MatchSelection(packet, c)
            [] c.type = "NRANGE"     -> ~ LexicalBetween(packet, c)
            [] c.type = "NSELECTION" -> ~ MatchSelection(packet, c)
            [] OTHER                 -> FALSE
    BY <1>1, <1>4 DEF EvaluateCondition
  <2>5. Satisfies(packet, c) <=>
          \/ c.type = "FIXED"      /\ Part(packet, c) = ValueFrom(c, 0)
          \/ c.type = "NFIXED"     /\ Part(packet, c) # ValueFrom(c, 0)
          \/ c.type = "RANGE"      /\ NotAfter(ValueFrom(c, 0), Part(packet, c))
                                  /\ NotAfter(Part(packet, c), ValueFrom(c, Size(c)))
          \/ /\ c.type = "NRANGE"
             /\ ~ (/\ NotAfter(ValueFrom(c, 0), Part(packet, c))
                   /\ NotAfter(Part(packet, c), ValueFrom(c, Size(c))))
          \/ c.type = "SELECTION"  /\ Part(packet, c) \in ValuesOf(c)
          \/ c.type = "NSELECTION" /\ Part(packet, c) \notin ValuesOf(c)
    BY <2>1, <2>3 DEF Satisfies, Part
  <2>6. CASE c.type \in {"FIXED", "NFIXED", "UNKNOWN"}
    <3>1. Len(c.vals) = 1 * Size(c) /\ Len(c.vals) = Size(c)
      BY <1>2, <2>6, ValuesMeasured DEF HasCount
    <3>2. Comparable(packet, c, 0)
      BY <1>1, <1>2, <1>4, <3>1 DEF Comparable
    <3>3. MatchFixed(packet, c, 0) <=> Part(packet, c) = ValueFrom(c, 0)
      BY <3>2, FixedAsMeant
    <3>4. MatchSelection(packet, c) <=> Part(packet, c) \in ValuesOf(c)
      BY <1>4, <3>1, SelectionAsMeant
    <3>5. ValuesOf(c) = {ValueFrom(c, 0)}
      <4>1. Len(c.vals) \div Size(c) = 1
        BY <1>2, <3>1
      <4> QED BY <2>3, <4>1 DEF ValuesOf, Size
    <3> QED BY <2>4, <2>5, <2>6, <3>3, <3>4, <3>5
  <2>7. CASE c.type \in {"RANGE", "NRANGE"}
    <3>1. Len(c.vals) = Size(c) * 2
      BY <2>7, ValuesMeasured DEF HasCount
    <3>2. Comparable(packet, c, 0) /\ Comparable(packet, c, Size(c))
      BY <1>1, <1>2, <1>4, <3>1 DEF Comparable
    <3> QED BY <2>4, <2>5, <2>7, <3>2, RangeAsMeant
  <2>8. CASE c.type \in {"SELECTION", "NSELECTION"}
    <3>1. Len(c.vals) = c.num_vals * Size(c)
      <4>1. Len(c.vals) = Size(c) * c.num_vals
        BY <2>8, ValuesMeasured DEF HasCount
      <4> QED BY <1>1, <1>2, <4>1
    <3>2. MatchSelection(packet, c) <=> Part(packet, c) \in ValuesOf(c)
      BY <1>1, <1>4, <3>1, SelectionAsMeant
    <3> QED BY <2>4, <2>5, <2>8, <3>2
  <2> QED BY <1>1, <2>6, <2>7, <2>8 DEF ConditionTypes
<1> QED BY <1>3, <1>4

\* Whatever condition a notation announces, and whatever packet comes: the byte
\* by byte loops of evaluate_condition decide what the condition means, equality,
\* the order of a dictionary between both bounds, or membership.
THEOREM ConditionsMeanWhatTheySay == Spec => []ConditionAsMeant
<1>1. NotationInv => ConditionAsMeant
  <2> SUFFICES ASSUME NotationInv, conditions # <<>>, NEW packet \in Packets,
                      conditions[Len(conditions)].start_range
                        < conditions[Len(conditions)].end_range
               PROVE  EvaluateCondition(packet, conditions[Len(conditions)])
                        <=> Satisfies(packet, conditions[Len(conditions)])
    BY DEF ConditionAsMeant
  <2>1. /\ conditions[Len(conditions)] \in AnyCondition
        /\ ValsSize(conditions[Len(conditions)]) = Len(conditions[Len(conditions)].vals)
    BY DEF NotationInv, MeasuredInv
  <2>2. packet \in Seq(Nat)
    BY NotationAssumption
  <2> QED BY <2>1, <2>2, ConditionMeaning
<1> QED BY InitNotation, NextNotation, <1>1, PTL DEF Spec
-----------------------------------------------------------------------------
(* Formulas are what keeps the stack from running dry *)

\* How high the stack is after each operation.
Height(ops) == [i \in 0 .. Len(ops) |-> 2 * Pushes(ops, i) - i]

Climbs(ops, h) ==
    /\ Len(ops) \in Nat
    /\ h \in [0 .. Len(ops) -> Int]
    /\ h[0] = 0
    /\ \A i \in 1 .. Len(ops) :
          h[i] = IF ops[i] = "PUSH" THEN h[i - 1] + 1 ELSE h[i - 1] - 1

\* Between its ends, the stack grows by one and is never as low as before.
Rises(h, i, j) ==
    /\ i <= j
    /\ h[j] = h[i - 1] + 1
    /\ \A k \in i .. j : h[k] > h[i - 1]

\* There are so many PUSHes up to a place.
LEMMA PushesCounted ==
    ASSUME NEW ops, NEW n \in Nat
    PROVE  /\ Pushes(ops, 0) = 0
           /\ Pushes(ops, n) \in Nat
           /\ Pushes(ops, n + 1) =
                IF ops[n + 1] = "PUSH" THEN Pushes(ops, n) + 1 ELSE Pushes(ops, n)
<1> DEFINE P(j) == {i \in 1 .. j : ops[i] = "PUSH"}
<1>1. P(0) = {}
  OBVIOUS
<1>2. IsFiniteSet(P(n))
  <2>1. IsFiniteSet(1 .. n) /\ P(n) \subseteq 1 .. n
    BY FS_Interval
  <2> QED BY <2>1, FS_Subset
<1>3. ops[n + 1] = "PUSH" => P(n + 1) = P(n) \cup {n + 1} /\ n + 1 \notin P(n)
  OBVIOUS
<1>4. ops[n + 1] # "PUSH" => P(n + 1) = P(n)
  OBVIOUS
<1>5. Pushes(ops, 0) = Cardinality(P(0)) /\ Pushes(ops, n) = Cardinality(P(n))
      /\ Pushes(ops, n + 1) = Cardinality(P(n + 1))
  BY DEF Pushes
<1> HIDE DEF P
<1>6. Cardinality(P(0)) = 0 /\ Cardinality(P(n)) \in Nat
  BY <1>1, <1>2, FS_EmptySet, FS_CardinalityType
<1>7. n + 1 \notin P(n) => Cardinality(P(n) \cup {n + 1}) = Cardinality(P(n)) + 1
  BY <1>2, FS_AddElement
<1>8. Pushes(ops, n + 1) =
        IF ops[n + 1] = "PUSH" THEN Pushes(ops, n) + 1 ELSE Pushes(ops, n)
  BY <1>3, <1>4, <1>5, <1>7
<1> QED BY <1>5, <1>6, <1>8

\* Every sequence of operations has a height.
LEMMA HeightClimbs ==
    ASSUME NEW ops, Len(ops) \in Nat
    PROVE  Climbs(ops, Height(ops))
<1> DEFINE h == Height(ops)
<1>1. \A n \in Nat : Pushes(ops, n) \in Nat
  BY PushesCounted
<1>2. h \in [0 .. Len(ops) -> Int] /\ h[0] = 0
  <2>1. \A i \in 0 .. Len(ops) : 2 * Pushes(ops, i) - i \in Int
    BY <1>1
  <2>2. h[0] = 2 * Pushes(ops, 0) - 0 /\ Pushes(ops, 0) = 0
    BY PushesCounted DEF Height
  <2> QED BY <2>1, <2>2 DEF Height
<1>3. ASSUME NEW i \in 1 .. Len(ops)
      PROVE  h[i] = IF ops[i] = "PUSH" THEN h[i - 1] + 1 ELSE h[i - 1] - 1
  <2>1. i - 1 \in Nat /\ (i - 1) + 1 = i
    OBVIOUS
  <2>2. Pushes(ops, i) =
          IF ops[i] = "PUSH" THEN Pushes(ops, i - 1) + 1 ELSE Pushes(ops, i - 1)
    <3>1. Pushes(ops, (i - 1) + 1) =
            IF ops[(i - 1) + 1] = "PUSH" THEN Pushes(ops, i - 1) + 1
                                         ELSE Pushes(ops, i - 1)
      BY <2>1, PushesCounted
    <3> QED BY <2>1, <3>1
  <2>3. h[i] = 2 * Pushes(ops, i) - i /\ h[i - 1] = 2 * Pushes(ops, i - 1) - (i - 1)
    BY DEF Height
  <2>4. Pushes(ops, i) \in Nat /\ Pushes(ops, i - 1) \in Nat
    BY <1>1, <2>1
  <2> HIDE DEF h
  <2> QED BY <2>2, <2>3, <2>4
<1> QED BY <1>2, <1>3 DEF Climbs

\* The last place, up to j, of some kind.
LEMMA LastPlace ==
    ASSUME NEW j \in Nat, NEW S, S \subseteq 0 .. j, S # {}
    PROVE  \E k \in S : \A m \in S : m <= k
<1> DEFINE T == {j - k : k \in S}
<1>1. T \subseteq Nat /\ T # {}
  <2>1. \A k \in S : j - k \in Nat
    OBVIOUS
  <2> QED BY <2>1
<1>2. PICK x \in T : \A y \in T : x <= y
  BY <1>1, LeastNatural
<1>3. PICK k \in S : x = j - k
  OBVIOUS
<1>4. \A m \in S : x <= j - m
  BY <1>2
<1>5. \A m \in S : m <= k
  BY <1>3, <1>4
<1> QED BY <1>5

\* Heights and their steps, as numbers.
LEMMA HeightNumbers ==
    ASSUME NEW ops, NEW h, Climbs(ops, h)
    PROVE  /\ Len(ops) \in Nat
           /\ \A i \in 0 .. Len(ops) : h[i] \in Int
           /\ \A i \in 1 .. Len(ops) :
                h[i] = IF ops[i] = "PUSH" THEN h[i - 1] + 1 ELSE h[i - 1] - 1
  BY DEF Climbs

\* Two parts that rise, and an operation, rise together.
LEMMA JoinRises ==
    ASSUME NEW ops, NEW h, Climbs(ops, h),
           NEW i \in 1 .. Len(ops), NEW j \in 1 .. Len(ops), NEW k \in i .. j - 2,
           ops[j] # "PUSH", Rises(h, i, k), Rises(h, k + 1, j - 1)
    PROVE  Rises(h, i, j)
<1>1. /\ i \in Nat /\ j \in Nat /\ k \in Nat /\ i <= k /\ k + 2 <= j
      /\ (k + 1) - 1 = k /\ j <= Len(ops) /\ Len(ops) \in Nat /\ i >= 1
  BY HeightNumbers
<1>2. \A m \in 0 .. Len(ops) : h[m] \in Int
  BY HeightNumbers
<1>3. h[i - 1] \in Int /\ h[k] \in Int /\ h[j - 1] \in Int /\ h[j] \in Int
  BY <1>1, <1>2
<1>4. h[j] = h[j - 1] - 1
  BY HeightNumbers
<1>5. h[k] = h[i - 1] + 1 /\ \A m \in i .. k : h[m] > h[i - 1]
  BY DEF Rises
<1>6. h[j - 1] = h[k] + 1 /\ \A m \in k + 1 .. j - 1 : h[m] > h[k]
  BY <1>1 DEF Rises
<1>7. h[j] = h[i - 1] + 1
  BY <1>3, <1>4, <1>5, <1>6
<1>8. ASSUME NEW m \in i .. j PROVE h[m] > h[i - 1]
  <2>1. m \in i .. k \/ m \in k + 1 .. j - 1 \/ m = j
    BY <1>1
  <2>2. h[m] \in Int
    BY <1>1, <1>2
  <2>3. CASE m \in i .. k
    BY <1>5, <2>3
  <2>4. CASE m \in k + 1 .. j - 1
    BY SMTT(30), <1>3, <1>5, <1>6, <2>2, <2>4
  <2>5. CASE m = j
    BY <1>3, <1>7, <2>5
  <2> QED BY <2>1, <2>3, <2>4, <2>5
<1> QED BY <1>1, <1>7, <1>8 DEF Rises

\* A part that rises and ends in an operation is two that rise, before it: the
\* stack is one higher than at the start for the last time in between.
LEMMA SplitRises ==
    ASSUME NEW ops, NEW h, Climbs(ops, h),
           NEW i \in 1 .. Len(ops), NEW j \in 1 .. Len(ops),
           ops[j] # "PUSH", Rises(h, i, j)
    PROVE  \E k \in i .. j - 2 : Rises(h, i, k) /\ Rises(h, k + 1, j - 1)
<1>1. /\ i \in Nat /\ j \in Nat /\ i <= j /\ j <= Len(ops) /\ Len(ops) \in Nat
      /\ i >= 1
  BY HeightNumbers DEF Rises
<1>2. \A m \in 0 .. Len(ops) : h[m] \in Int
  BY HeightNumbers
<1>3. h[j] = h[i - 1] + 1 /\ \A m \in i .. j : h[m] > h[i - 1]
  BY DEF Rises
<1>4. h[i - 1] \in Int /\ h[i] \in Int /\ h[j - 1] \in Int /\ h[j] \in Int
  <2>1. {i - 1, i, j - 1, j} \subseteq 0 .. Len(ops)
    BY <1>1
  <2> QED BY <1>2, <2>1
<1>5. h[j] = h[j - 1] - 1
  BY HeightNumbers
<1>6. h[j - 1] = h[i - 1] + 2
  <2>1. h[j] = h[i - 1] + 1 BY <1>3
  <2> QED BY SMTT(30), <2>1, <1>4, <1>5
<1>7. i < j
  BY <1>1, <1>4, <1>6
<1>8. h[i] = h[i - 1] + 1
  <2>1. h[i] = h[i - 1] + 1 \/ h[i] = h[i - 1] - 1
    BY HeightNumbers
  <2>2. h[i] > h[i - 1]
    BY <1>1, <1>3
  <2> QED BY <1>4, <2>1, <2>2
<1> DEFINE Low == {m \in i .. j - 1 : h[m] = h[i - 1] + 1}
<1>9. Low \subseteq 0 .. j /\ Low # {}
  <2>1. i \in Low
    BY <1>1, <1>7, <1>8
  <2> QED BY <1>1, <2>1
<1>10. PICK k \in Low : \A m \in Low : m <= k
  BY <1>1, <1>9, LastPlace
<1>11. k \in Nat /\ i <= k /\ k <= j - 1 /\ h[k] = h[i - 1] + 1
  BY <1>1, <1>10
<1>12. k \in i .. j - 2
  <2>1. k # j - 1
    BY <1>4, <1>6, <1>11
  <2> QED BY <1>1, <1>11, <2>1
<1>13. Rises(h, i, k)
  BY <1>1, <1>3, <1>11, <1>12 DEF Rises
<1>14. Rises(h, k + 1, j - 1)
  <2>1. (k + 1) - 1 = k /\ k + 1 <= j - 1
    BY <1>1, <1>12
  <2>2. h[j - 1] = h[k] + 1
    BY <1>4, <1>6, <1>11
  <2>3. ASSUME NEW m \in k + 1 .. j - 1 PROVE h[m] > h[k]
    <3>1. m \in i .. j /\ m \in i .. j - 1 /\ m > k /\ m \in 0 .. Len(ops)
      BY <1>1, <1>11
    <3>2. h[m] > h[i - 1] /\ h[m] \in Int
      BY <1>2, <1>3, <3>1
    <3>3. h[m] # h[i - 1] + 1
      <4>1. SUFFICES ASSUME h[m] = h[i - 1] + 1 PROVE FALSE
        OBVIOUS
      <4>2. m \in Low
        BY <3>1, <4>1
      <4>3. m <= k
        BY <1>10, <4>2
      <4> QED BY <1>11, <3>1, <4>3
    <3> QED BY <1>4, <1>11, <3>2, <3>3
  <2> QED BY <2>1, <2>2, <2>3 DEF Rises
<1> QED BY <1>12, <1>13, <1>14

\* There is only one place to split.
LEMMA OneSplit ==
    ASSUME NEW ops, NEW h, Climbs(ops, h),
           NEW i \in 1 .. Len(ops), NEW j \in 1 .. Len(ops),
           NEW k \in i .. j - 2, Rises(h, i, k), Rises(h, k + 1, j - 1),
           NEW m \in i .. j - 2, Rises(h, i, m), Rises(h, m + 1, j - 1)
    PROVE  k = m
<1>1. /\ i \in Nat /\ j \in Nat /\ Len(ops) \in Nat /\ j <= Len(ops) /\ i >= 1
      /\ k \in Nat /\ m \in Nat /\ (k + 1) - 1 = k /\ (m + 1) - 1 = m
  BY HeightNumbers
<1>2. h[k] \in Int /\ h[m] \in Int /\ h[i - 1] \in Int
  BY <1>1, HeightNumbers
<1>3. h[k] = h[i - 1] + 1 /\ h[m] = h[i - 1] + 1
  BY DEF Rises
<1>4. /\ \A x \in k + 1 .. j - 1 : h[x] > h[k]
      /\ \A x \in m + 1 .. j - 1 : h[x] > h[m]
  BY <1>1 DEF Rises
<1>5. ~ (k < m)
  <2>1. SUFFICES ASSUME k < m PROVE FALSE
    OBVIOUS
  <2>2. m \in k + 1 .. j - 1
    BY <1>1, <2>1
  <2> QED BY <1>2, <1>3, <1>4, <2>2
<1>6. ~ (m < k)
  <2>1. SUFFICES ASSUME m < k PROVE FALSE
    OBVIOUS
  <2>2. k \in m + 1 .. j - 1
    BY <1>1, <2>1
  <2> QED BY <1>2, <1>3, <1>4, <2>2
<1> QED BY <1>1, <1>5, <1>6

\* One PUSH rises, and nothing that ends in a PUSH does but it.
LEMMA PushRises ==
    ASSUME NEW ops, NEW h, Climbs(ops, h),
           NEW i \in 1 .. Len(ops), NEW j \in 1 .. Len(ops), ops[j] = "PUSH"
    PROVE  Rises(h, i, j) <=> i = j
<1>1. /\ i \in Nat /\ j \in Nat /\ Len(ops) \in Nat /\ j <= Len(ops)
      /\ i >= 1 /\ j >= 1
  BY HeightNumbers
<1>2. h[j] \in Int /\ h[j - 1] \in Int /\ h[i - 1] \in Int
  BY <1>1, HeightNumbers
<1>3. h[j] = h[j - 1] + 1
  BY HeightNumbers
<1>4. i = j => Rises(h, i, j)
  BY <1>1, <1>2, <1>3 DEF Rises
<1>5. ASSUME Rises(h, i, j), i < j PROVE FALSE
  <2>1. h[j] = h[i - 1] + 1 /\ h[j - 1] > h[i - 1]
    BY <1>1, <1>5 DEF Rises
  <2> QED BY <1>2, <1>3, <2>1
<1>6. Rises(h, i, j) => i <= j
  BY DEF Rises
<1> QED BY <1>1, <1>4, <1>5, <1>6

\* One round of the definition of a formula.
FormulaRound(ops, F) ==
    [span \in Spans(ops) |->
        LET i == span[1]
            j == span[2]
        IN \/ i = j /\ ops[j] = "PUSH"
           \/ /\ ops[j] # "PUSH"
              /\ \E k \in i .. j - 2 : F[<<i, k>>] /\ F[<<k + 1, j - 1>>]]

\* What the rounds leave as it is defines formulas.
LEMMA FormulaDefined ==
    ASSUME NEW ops, NEW G, G = FormulaRound(ops, G)
    PROVE  FormulaAt(ops) = FormulaRound(ops, FormulaAt(ops))
  BY Zenon DEF FormulaAt, FormulaRound

\* A round, read at one part.
LEMMA FormulaRoundAt ==
    ASSUME NEW ops, NEW F, NEW i \in 1 .. Len(ops), NEW j \in 1 .. Len(ops)
    PROVE  FormulaRound(ops, F)[<<i, j>>] =
             (\/ i = j /\ ops[j] = "PUSH"
              \/ /\ ops[j] # "PUSH"
                 /\ \E k \in i .. j - 2 : F[<<i, k>>] /\ F[<<k + 1, j - 1>>])
  BY DEF FormulaRound, Spans

\* The parts that rise are what a round makes of them.
LEMMA RisesIsFormula ==
    ASSUME NEW ops, NEW h, Climbs(ops, h),
           NEW i \in 1 .. Len(ops), NEW j \in 1 .. Len(ops)
    PROVE  Rises(h, i, j) =
             (\/ i = j /\ ops[j] = "PUSH"
              \/ /\ ops[j] # "PUSH"
                 /\ \E k \in i .. j - 2 : Rises(h, i, k) /\ Rises(h, k + 1, j - 1))
<1>0. Rises(h, i, j) \in BOOLEAN
  BY Zenon DEF Rises
<1>1. CASE ops[j] = "PUSH"
  BY <1>0, <1>1, PushRises
<1>2. CASE ops[j] # "PUSH"
  <2> DEFINE Split == \E k \in i .. j - 2 : Rises(h, i, k) /\ Rises(h, k + 1, j - 1)
  <2>1. Rises(h, i, j) => Split
    BY <1>2, SplitRises
  <2>2. Split => Rises(h, i, j)
    BY <1>2, JoinRises
  <2> HIDE DEF Split
  <2>3. Rises(h, i, j) <=> (\/ i = j /\ ops[j] = "PUSH"
                            \/ ops[j] # "PUSH" /\ Split)
    BY <1>2, <2>1, <2>2
  <2>4. Rises(h, i, j) = (\/ i = j /\ ops[j] = "PUSH"
                          \/ ops[j] # "PUSH" /\ Split)
    BY <1>0, <2>3, Zenon
  <2> QED BY <2>4 DEF Split
<1> QED BY <1>1, <1>2

\* A round of what rises rises.
LEMMA FormulaRoundIsRises ==
    ASSUME NEW ops, NEW h, Climbs(ops, h), NEW F,
           NEW i \in 1 .. Len(ops), NEW j \in 1 .. Len(ops),
           \A k \in i .. j - 2 : /\ F[<<i, k>>] = Rises(h, i, k)
                                /\ F[<<k + 1, j - 1>>] = Rises(h, k + 1, j - 1)
    PROVE  FormulaRound(ops, F)[<<i, j>>] = Rises(h, i, j)
<1>1. (\E k \in i .. j - 2 : F[<<i, k>>] /\ F[<<k + 1, j - 1>>])
        <=> \E k \in i .. j - 2 : Rises(h, i, k) /\ Rises(h, k + 1, j - 1)
  OBVIOUS
<1>2. Rises(h, i, j) =
        (\/ i = j /\ ops[j] = "PUSH"
         \/ /\ ops[j] # "PUSH"
            /\ \E k \in i .. j - 2 : F[<<i, k>>] /\ F[<<k + 1, j - 1>>])
  BY <1>1, RisesIsFormula
<1> QED BY ZenonT(40), <1>2, FormulaRoundAt

\* The two parts of a part lie within the operations, and are shorter.
LEMMA PartsWithin ==
    ASSUME NEW n \in Nat, NEW i \in 1 .. n, NEW j \in 1 .. n, NEW k \in i .. j - 2
    PROVE  /\ k \in 1 .. n /\ k + 1 \in 1 .. n /\ j - 1 \in 1 .. n
           /\ k - i \in Nat /\ (j - 1) - (k + 1) \in Nat
           /\ k - i < j - i /\ (j - 1) - (k + 1) < j - i
  OBVIOUS

\* A part of the operations is a formula exactly if it rises.
LEMMA FormulaRises ==
    ASSUME NEW ops, NEW h, Climbs(ops, h)
    PROVE  \A i, j \in 1 .. Len(ops) : FormulaAt(ops)[<<i, j>>] = Rises(h, i, j)
<1> DEFINE N == Len(ops)
           F == FormulaAt(ops)
           G == [span \in Spans(ops) |-> Rises(h, span[1], span[2])]
<1>0. N \in Nat
  BY HeightNumbers
<1>1. \A i, j \in 1 .. N : G[<<i, j>>] = Rises(h, i, j)
  BY DEF Spans
<1>2. G = FormulaRound(ops, G)
  <2>1. ASSUME NEW i \in 1 .. N, NEW j \in 1 .. N
        PROVE  G[<<i, j>>] = FormulaRound(ops, G)[<<i, j>>]
    <3>1. \A k \in i .. j - 2 : /\ G[<<i, k>>] = Rises(h, i, k)
                               /\ G[<<k + 1, j - 1>>] = Rises(h, k + 1, j - 1)
      BY <1>0, <1>1, PartsWithin
    <3>2. G[<<i, j>>] = Rises(h, i, j)
      BY <1>1
    <3> HIDE DEF G
    <3>3. FormulaRound(ops, G)[<<i, j>>] = Rises(h, i, j)
      BY <3>1, FormulaRoundIsRises
    <3> QED BY <3>2, <3>3
  <2>2. \A span \in Spans(ops) : G[span] = FormulaRound(ops, G)[span]
    <3> SUFFICES ASSUME NEW span \in Spans(ops)
                 PROVE  G[span] = FormulaRound(ops, G)[span]
      OBVIOUS
    <3>1. PICK i \in 1 .. N, j \in 1 .. N : span = <<i, j>>
      BY DEF Spans
    <3> HIDE DEF G
    <3> QED BY <2>1, <3>1
  <2>3. DOMAIN G = Spans(ops) /\ DOMAIN FormulaRound(ops, G) = Spans(ops)
    BY DEF FormulaRound
  <2>4. G = [span \in Spans(ops) |-> G[span]]
    OBVIOUS
  <2>5. FormulaRound(ops, G) = [span \in Spans(ops) |-> FormulaRound(ops, G)[span]]
    BY DEF FormulaRound
  <2> HIDE DEF G
  <2> QED BY <2>2, <2>4, <2>5
<1>3. F = FormulaRound(ops, F)
  BY <1>2, FormulaDefined
<1> HIDE DEF F, G
<1> DEFINE Bad == {n \in Nat : \E i, j \in 1 .. N : /\ n = j - i
                                                   /\ F[<<i, j>>] # Rises(h, i, j)}
<1>4. Bad = {}
  <2>1. SUFFICES ASSUME Bad # {} PROVE FALSE
    OBVIOUS
  <2>2. PICK n \in Bad : \A m \in Nat : m < n => m \notin Bad
    <3>1. Bad \subseteq Nat
      OBVIOUS
    <3>2. PICK n \in Bad : \A m \in Bad : n <= m
      BY <2>1, <3>1, LeastNatural
    <3> HIDE DEF Bad
    <3>3. n \in Nat /\ \A m \in Nat : m < n => ~ (n <= m)
      BY <3>1
    <3> QED BY <3>2, <3>3
  <2>3. PICK i \in 1 .. N, j \in 1 .. N : n = j - i /\ F[<<i, j>>] # Rises(h, i, j)
    BY <2>2
  <2>4. \A k \in i .. j - 2 : /\ F[<<i, k>>] = Rises(h, i, k)
                             /\ F[<<k + 1, j - 1>>] = Rises(h, k + 1, j - 1)
    <3> SUFFICES ASSUME NEW k \in i .. j - 2
                 PROVE  /\ F[<<i, k>>] = Rises(h, i, k)
                        /\ F[<<k + 1, j - 1>>] = Rises(h, k + 1, j - 1)
      OBVIOUS
    <3>1. /\ k \in 1 .. N /\ k + 1 \in 1 .. N /\ j - 1 \in 1 .. N
          /\ k - i \in Nat /\ (j - 1) - (k + 1) \in Nat
          /\ k - i < n /\ (j - 1) - (k + 1) < n
      BY <1>0, <2>3, PartsWithin
    <3>2. k - i \notin Bad /\ (j - 1) - (k + 1) \notin Bad
      BY <2>2, <3>1
    <3> QED BY <3>1, <3>2
  <2>5. F[<<i, j>>] = FormulaRound(ops, F)[<<i, j>>]
    BY <1>3
  <2>6. F[<<i, j>>] = Rises(h, i, j)
    BY <2>4, <2>5, FormulaRoundIsRises
  <2> QED BY <2>3, <2>6
<1>5. ASSUME NEW i \in 1 .. N, NEW j \in 1 .. N
      PROVE  F[<<i, j>>] = Rises(h, i, j)
  <2>1. CASE i <= j
    <3>1. j - i \in Nat
      BY <2>1
    <3> QED BY <1>4, <3>1
  <2>2. CASE ~ (i <= j)
    <3>1. F[<<i, j>>] = FALSE
      <4>1. F[<<i, j>>] = FormulaRound(ops, F)[<<i, j>>]
        BY <1>3
      <4>2. i # j /\ i .. j - 2 = {}
        BY <2>2
      <4> QED BY ZenonT(40), <4>1, <4>2, FormulaRoundAt
    <3>2. Rises(h, i, j) = FALSE
      BY <2>2 DEF Rises
    <3> QED BY <3>1, <3>2
  <2> QED BY <2>1, <2>2
<1> QED BY <1>5 DEF F

\* A notation is a formula exactly if the stack never runs dry and one value
\* is left.
LEMMA FormulaHeight ==
    ASSUME NEW ops, NEW h, Climbs(ops, h), ops # <<>> <=> Len(ops) > 0
    PROVE  IsFormula(ops) <=> /\ Len(ops) > 0 /\ h[Len(ops)] = 1
                              /\ \A k \in 1 .. Len(ops) : h[k] > 0
<1>1. Len(ops) \in Nat /\ h[0] = 0
  BY DEF Climbs
<1>2. CASE Len(ops) > 0
  <2>1. FormulaAt(ops)[<<1, Len(ops)>>] = Rises(h, 1, Len(ops))
    BY <1>1, <1>2, FormulaRises
  <2>2. Rises(h, 1, Len(ops)) <=> /\ h[Len(ops)] = 1
                                  /\ \A k \in 1 .. Len(ops) : h[k] > 0
    BY <1>1, <1>2 DEF Rises
  <2> QED BY <1>2, <2>1, <2>2 DEF IsFormula
<1>3. CASE ~ (Len(ops) > 0)
  BY <1>3 DEF IsFormula
<1> QED BY <1>2, <1>3

\* Everything up to j keeps the stack from running dry.
Stands(h, j) == \A k \in 1 .. j : h[k] > 0

\* One round of the definition of a beginning.
BeginningRound(ops, B) ==
    [j \in 0 .. Len(ops) |->
        j = 0 \/ \E k \in 1 .. j : B[k - 1] /\ FormulaAt(ops)[<<k, j>>]]

\* What the rounds leave as it is defines beginnings.
LEMMA BeginningDefined ==
    ASSUME NEW ops, NEW G, G = BeginningRound(ops, G)
    PROVE  BeginningAt(ops) = BeginningRound(ops, BeginningAt(ops))
  BY Zenon DEF BeginningAt, BeginningRound

\* What stands is what stands and then rises: from the last place that was lower.
LEMMA StandsIsBeginning ==
    ASSUME NEW ops, NEW h, Climbs(ops, h), NEW j \in 1 .. Len(ops)
    PROVE  Stands(h, j) <=> \E k \in 1 .. j : Stands(h, k - 1) /\ Rises(h, k, j)
<1>1. /\ j \in Nat /\ Len(ops) \in Nat /\ 1 <= j /\ j <= Len(ops) /\ h[0] = 0
  BY DEF Climbs
<1>2. \A m \in 0 .. Len(ops) : h[m] \in Int
  BY HeightNumbers
<1>3. h[j] \in Int
  BY <1>1, <1>2
<1>4. ASSUME Stands(h, j)
      PROVE  \E k \in 1 .. j : Stands(h, k - 1) /\ Rises(h, k, j)
  <2> DEFINE Lower == {m \in 0 .. j - 1 : h[m] < h[j]}
  <2>1. h[j] > 0
    BY <1>1, <1>4 DEF Stands
  <2>2. Lower \subseteq 0 .. j /\ Lower # {}
    <3>1. 0 \in Lower
      BY <1>1, <2>1
    <3> QED BY <1>1, <3>1
  <2>3. PICK m \in Lower : \A x \in Lower : x <= m
    BY <1>1, <2>2, LastPlace
  <2>4. m \in Nat /\ m < j /\ h[m] < h[j] /\ m + 1 \in 1 .. j /\ (m + 1) - 1 = m
    BY <1>1, <2>3
  <2>5. \A x \in m + 1 .. j : h[x] >= h[j]
    <3> SUFFICES ASSUME NEW x \in m + 1 .. j PROVE h[x] >= h[j]
      OBVIOUS
    <3>1. h[x] \in Int
      BY <1>1, <1>2, <2>4
    <3>2. CASE x = j
      BY <1>3, <3>2
    <3>3. CASE x # j
      <4>1. x \in 0 .. j - 1 /\ ~ (x <= m)
        BY <1>1, <2>4, <3>3
      <4>2. x \notin Lower
        BY <2>3, <4>1
      <4>3. ~ (h[x] < h[j])
        BY <4>1, <4>2
      <4> QED BY <1>3, <3>1, <4>3
    <3> QED BY <3>2, <3>3
  <2> HIDE DEF Lower
  <2>6. h[m] \in Int /\ h[m + 1] \in Int
    BY <1>1, <1>2, <2>4
  <2>7. h[m + 1] = h[m] + 1 \/ h[m + 1] = h[m] - 1
    <3>1. m + 1 \in 1 .. Len(ops)
      BY <1>1, <2>4
    <3> QED BY <2>4, <3>1, HeightNumbers
  <2>8. h[m + 1] >= h[j]
    BY <2>4, <2>5
  <2>9. h[j] = h[m] + 1
    BY <1>3, <2>4, <2>6, <2>7, <2>8
  <2>10. \A x \in m + 1 .. j : h[x] > h[m]
    <3> SUFFICES ASSUME NEW x \in m + 1 .. j PROVE h[x] > h[m]
      OBVIOUS
    <3>1. h[x] \in Int /\ h[x] >= h[j]
      BY <1>1, <1>2, <2>4, <2>5
    <3> QED BY <1>3, <2>4, <2>6, <3>1
  <2>11. Rises(h, m + 1, j)
    BY <2>4, <2>9, <2>10 DEF Rises
  <2>12. Stands(h, m)
    BY <1>1, <1>4, <2>4 DEF Stands
  <2> QED BY <2>4, <2>11, <2>12
<1>5. ASSUME NEW k \in 1 .. j, Stands(h, k - 1), Rises(h, k, j)
      PROVE  Stands(h, j)
  <2>1. k \in Nat /\ k >= 1 /\ k <= j /\ k - 1 \in 0 .. Len(ops)
    BY <1>1
  <2>2. h[k - 1] \in Int /\ h[k - 1] >= 0
    <3>1. h[k - 1] \in Int
      BY <1>2, <2>1
    <3>2. CASE k = 1
      BY <1>1, <3>2
    <3>3. CASE k # 1
      <4>1. k - 1 \in 1 .. k - 1
        BY <2>1, <3>3
      <4>2. h[k - 1] > 0
        BY <1>5, <4>1 DEF Stands
      <4> QED BY <3>1, <4>2
    <3> QED BY <3>2, <3>3
  <2>3. \A x \in k .. j : h[x] > h[k - 1]
    BY <1>5 DEF Rises
  <2> SUFFICES ASSUME NEW x \in 1 .. j PROVE h[x] > 0
    BY DEF Stands
  <2>4. h[x] \in Int
    BY <1>1, <1>2
  <2>5. x \in 1 .. k - 1 \/ x \in k .. j
    BY <2>1
  <2>6. CASE x \in 1 .. k - 1
    BY <1>5, <2>6 DEF Stands
  <2>7. CASE x \in k .. j
    BY <2>2, <2>3, <2>4, <2>7
  <2> QED BY <2>5, <2>6, <2>7
<1> QED BY <1>4, <1>5

\* A round, read at one place, when what it is made of stands.
LEMMA BeginningRoundStands ==
    ASSUME NEW ops, NEW h, Climbs(ops, h), NEW B, NEW j \in 0 .. Len(ops),
           \A k \in 0 .. j - 1 : B[k] = Stands(h, k)
    PROVE  BeginningRound(ops, B)[j] = Stands(h, j)
<1>0. j \in Nat /\ Len(ops) \in Nat /\ j <= Len(ops)
  BY HeightNumbers
<1>1. Stands(h, j) \in BOOLEAN
  BY Zenon DEF Stands
<1>2. BeginningRound(ops, B)[j] =
        (j = 0 \/ \E k \in 1 .. j : B[k - 1] /\ FormulaAt(ops)[<<k, j>>])
  BY DEF BeginningRound
<1>3. CASE j = 0
  <2>1. Stands(h, j)
    BY <1>3 DEF Stands
  <2> QED BY <1>1, <1>2, <1>3, <2>1
<1>4. CASE j # 0
  <2>1. j \in 1 .. Len(ops)
    BY <1>0, <1>4
  <2>2. \A k \in 1 .. j : /\ B[k - 1] = Stands(h, k - 1)
                         /\ FormulaAt(ops)[<<k, j>>] = Rises(h, k, j)
    <3> SUFFICES ASSUME NEW k \in 1 .. j
                 PROVE  /\ B[k - 1] = Stands(h, k - 1)
                        /\ FormulaAt(ops)[<<k, j>>] = Rises(h, k, j)
      OBVIOUS
    <3>1. k - 1 \in 0 .. j - 1 /\ k \in 1 .. Len(ops)
      BY <1>0
    <3> QED BY <2>1, <3>1, FormulaRises
  <2>3. (\E k \in 1 .. j : B[k - 1] /\ FormulaAt(ops)[<<k, j>>])
          <=> \E k \in 1 .. j : Stands(h, k - 1) /\ Rises(h, k, j)
    BY <2>2
  <2>4. (\E k \in 1 .. j : B[k - 1] /\ FormulaAt(ops)[<<k, j>>]) <=> Stands(h, j)
    BY <2>1, <2>3, StandsIsBeginning
  <2> QED BY <1>1, <1>2, <1>4, <2>4
<1> QED BY <1>3, <1>4

\* A notation begins a formula exactly if the stack never runs dry.
LEMMA BeginningHeight ==
    ASSUME NEW ops, NEW h, Climbs(ops, h), ops # <<>> <=> Len(ops) > 0
    PROVE  IsBeginning(ops) <=> Len(ops) > 0 /\ \A k \in 1 .. Len(ops) : h[k] > 0
<1> DEFINE N == Len(ops)
           B == BeginningAt(ops)
           G == [j \in 0 .. Len(ops) |-> Stands(h, j)]
<1>0. N \in Nat
  BY HeightNumbers
<1>1. G = BeginningRound(ops, G)
  <2>1. ASSUME NEW j \in 0 .. N PROVE G[j] = BeginningRound(ops, G)[j]
    <3>1. \A k \in 0 .. j - 1 : G[k] = Stands(h, k)
      BY <1>0
    <3>2. G[j] = Stands(h, j)
      OBVIOUS
    <3> HIDE DEF G
    <3> QED BY <3>1, <3>2, BeginningRoundStands
  <2>2. G = [j \in 0 .. N |-> G[j]]
    OBVIOUS
  <2>3. BeginningRound(ops, G) = [j \in 0 .. N |-> BeginningRound(ops, G)[j]]
    BY DEF BeginningRound
  <2> HIDE DEF G
  <2> QED BY <2>1, <2>2, <2>3
<1>2. B = BeginningRound(ops, B)
  BY <1>1, BeginningDefined
<1> HIDE DEF B, G
<1> DEFINE Bad == {j \in 0 .. N : B[j] # Stands(h, j)}
<1>3. Bad = {}
  <2>1. SUFFICES ASSUME Bad # {} PROVE FALSE
    OBVIOUS
  <2>2. PICK j \in Bad : \A m \in Bad : j <= m
    <3>1. Bad \subseteq Nat
      BY <1>0
    <3> QED BY <2>1, <3>1, LeastNatural
  <2>3. \A k \in 0 .. j - 1 : B[k] = Stands(h, k)
    <3> SUFFICES ASSUME NEW k \in 0 .. j - 1 PROVE B[k] = Stands(h, k)
      OBVIOUS
    <3>1. k \in 0 .. N /\ ~ (j <= k)
      BY <1>0, <2>2
    <3>2. k \notin Bad
      BY <2>2, <3>1
    <3> QED BY <3>1, <3>2
  <2>4. j \in 0 .. N /\ B[j] # Stands(h, j)
    BY <2>2
  <2> HIDE DEF Bad
  <2>5. BeginningRound(ops, B)[j] = Stands(h, j)
    BY <2>3, <2>4, BeginningRoundStands
  <2> QED BY <1>2, <2>4, <2>5
<1>4. B[N] = Stands(h, N)
  BY <1>0, <1>3
<1> QED BY <1>4 DEF IsBeginning, Stands, B

\* Some two formulas make a part true.
TrueAt(ops, T, i, j) ==
    \E k \in i .. j - 2 :
       /\ FormulaAt(ops)[<<i, k>>] /\ FormulaAt(ops)[<<k + 1, j - 1>>]
       /\ Combine(ops[j], T[<<i, k>>], T[<<k + 1, j - 1>>])

\* One round of the definition of truth.
TruthRound(ops, truth, T) ==
    [span \in Spans(ops) |->
        LET i == span[1]
            j == span[2]
        IN IF i = j THEN truth[Pushes(ops, j)] ELSE TrueAt(ops, T, i, j)]

\* What the rounds leave as it is defines truth.
LEMMA TruthDefined ==
    ASSUME NEW ops, NEW truth, NEW G, G = TruthRound(ops, truth, G)
    PROVE  TruthAt(ops, truth) = TruthRound(ops, truth, TruthAt(ops, truth))
  BY Zenon DEF TruthAt, TruthRound, TrueAt

\* A round, read at one part.
LEMMA TruthRoundAt ==
    ASSUME NEW ops, NEW truth, NEW T,
           NEW i \in 1 .. Len(ops), NEW j \in 1 .. Len(ops)
    PROVE  TruthRound(ops, truth, T)[<<i, j>>] =
             IF i = j THEN truth[Pushes(ops, j)] ELSE TrueAt(ops, T, i, j)
  BY DEF TruthRound, Spans

\* A round depends on shorter parts only.
LEMMA TruthRoundLocal ==
    ASSUME NEW ops, NEW truth, NEW T, NEW U,
           NEW i \in 1 .. Len(ops), NEW j \in 1 .. Len(ops),
           \A k \in i .. j - 2 : /\ T[<<i, k>>] = U[<<i, k>>]
                                /\ T[<<k + 1, j - 1>>] = U[<<k + 1, j - 1>>]
    PROVE  TruthRound(ops, truth, T)[<<i, j>>] = TruthRound(ops, truth, U)[<<i, j>>]
<1>1. TrueAt(ops, T, i, j) <=> TrueAt(ops, U, i, j)
  BY DEF TrueAt
<1>2. TrueAt(ops, T, i, j) \in BOOLEAN /\ TrueAt(ops, U, i, j) \in BOOLEAN
  BY Zenon DEF TrueAt
<1>3. TrueAt(ops, T, i, j) = TrueAt(ops, U, i, j)
  BY <1>1, <1>2
<1> QED BY <1>3, TruthRoundAt

\* The rounds have settled the parts up to a length.
Settled(ops, truth, T, length) ==
    \A i, j \in 1 .. Len(ops) :
       j - i <= length => T[<<i, j>>] = TruthRound(ops, truth, T)[<<i, j>>]

\* One more round settles parts that are longer by one.
LEMMA OneMoreRound ==
    ASSUME NEW ops, NEW truth, NEW T, NEW length \in Nat, Len(ops) \in Nat,
           length = 0 \/ Settled(ops, truth, T, length - 1)
    PROVE  Settled(ops, truth, TruthRound(ops, truth, T), length)
<1> DEFINE U == TruthRound(ops, truth, T)
<1> SUFFICES ASSUME NEW i \in 1 .. Len(ops), NEW j \in 1 .. Len(ops), j - i <= length
             PROVE  U[<<i, j>>] = TruthRound(ops, truth, U)[<<i, j>>]
  BY DEF Settled
<1>1. ASSUME NEW k \in i .. j - 2
      PROVE  /\ T[<<i, k>>] = U[<<i, k>>]
             /\ T[<<k + 1, j - 1>>] = U[<<k + 1, j - 1>>]
  <2>1. /\ k \in 1 .. Len(ops) /\ k + 1 \in 1 .. Len(ops) /\ j - 1 \in 1 .. Len(ops)
        /\ k - i \in Nat /\ (j - 1) - (k + 1) \in Nat
        /\ k - i < j - i /\ (j - 1) - (k + 1) < j - i
    BY PartsWithin
  <2>2. length # 0 /\ k - i <= length - 1 /\ (j - 1) - (k + 1) <= length - 1
    BY <2>1
  <2> HIDE DEF U
  <2> QED BY <2>1, <2>2 DEF Settled, U
<1> QED BY <1>1, TruthRoundLocal

\* Truth is defined, for formulas of any length.
LEMMA TruthIsRound ==
    ASSUME NEW ops, NEW truth, Len(ops) \in Nat
    PROVE  TruthAt(ops, truth) = TruthRound(ops, truth, TruthAt(ops, truth))
<1> DEFINE Bad == {n \in Nat : ~ \E T : Settled(ops, truth, TruthRound(ops, truth, T), n)}
<1>1. Bad = {}
  <2>1. SUFFICES ASSUME Bad # {} PROVE FALSE
    OBVIOUS
  <2>2. PICK n \in Bad : \A m \in Bad : n <= m
    <3>1. Bad \subseteq Nat
      OBVIOUS
    <3> QED BY <2>1, <3>1, LeastNatural
  <2>3. n \in Nat /\ ~ \E T : Settled(ops, truth, TruthRound(ops, truth, T), n)
    BY <2>2
  <2>4. CASE n = 0
    BY <2>3, <2>4, OneMoreRound
  <2>5. CASE n # 0
    <3>1. n - 1 \in Nat /\ ~ (n <= n - 1)
      BY <2>3, <2>5
    <3>2. n - 1 \notin Bad
      BY <2>2, <3>1
    <3>3. PICK T : Settled(ops, truth, TruthRound(ops, truth, T), n - 1)
      BY <3>1, <3>2
    <3>4. Settled(ops, truth, TruthRound(ops, truth, TruthRound(ops, truth, T)), n)
      BY <2>3, <3>3, OneMoreRound
    <3> QED BY <2>3, <3>4
  <2> QED BY <2>4, <2>5
<1>2. PICK T : Settled(ops, truth, TruthRound(ops, truth, T), Len(ops))
  BY <1>1
<1> DEFINE U == TruthRound(ops, truth, T)
<1>3. U = TruthRound(ops, truth, U)
  <2>1. ASSUME NEW i \in 1 .. Len(ops), NEW j \in 1 .. Len(ops)
        PROVE  U[<<i, j>>] = TruthRound(ops, truth, U)[<<i, j>>]
    <3>1. j - i <= Len(ops)
      OBVIOUS
    <3> HIDE DEF U
    <3> QED BY <1>2, <3>1 DEF Settled, U
  <2>2. U = [span \in Spans(ops) |-> U[span]]
    BY DEF TruthRound
  <2>3. TruthRound(ops, truth, U) = [span \in Spans(ops) |-> TruthRound(ops, truth, U)[span]]
    BY DEF TruthRound
  <2> HIDE DEF U
  <2>4. \A span \in Spans(ops) : U[span] = TruthRound(ops, truth, U)[span]
    <3> SUFFICES ASSUME NEW span \in Spans(ops)
                 PROVE  U[span] = TruthRound(ops, truth, U)[span]
      OBVIOUS
    <3>1. PICK i \in 1 .. Len(ops), j \in 1 .. Len(ops) : span = <<i, j>>
      BY DEF Spans
    <3> QED BY <2>1, <3>1
  <2> QED BY <2>2, <2>3, <2>4
<1> QED BY <1>3, TruthDefined

\* The truth of a PUSH is that of its condition.
LEMMA TruthOfPush ==
    ASSUME NEW ops, NEW truth, Len(ops) \in Nat, NEW j \in 1 .. Len(ops)
    PROVE  TruthAt(ops, truth)[<<j, j>>] = truth[Pushes(ops, j)]
<1> DEFINE T == TruthAt(ops, truth)
<1>1. T[<<j, j>>] = TruthRound(ops, truth, T)[<<j, j>>]
  BY TruthIsRound
<1> HIDE DEF T
<1>2. T[<<j, j>>] = truth[Pushes(ops, j)]
  BY <1>1, TruthRoundAt
<1> QED BY <1>2 DEF T

\* The truth of an operation is that of its two formulas, combined.
LEMMA TruthOfOperation ==
    ASSUME NEW ops, NEW truth, NEW h, Climbs(ops, h),
           NEW i \in 1 .. Len(ops), NEW j \in 1 .. Len(ops), NEW k \in i .. j - 2,
           Rises(h, i, k), Rises(h, k + 1, j - 1),
           Combine(ops[j], TruthAt(ops, truth)[<<i, k>>],
                   TruthAt(ops, truth)[<<k + 1, j - 1>>]) \in BOOLEAN
    PROVE  TruthAt(ops, truth)[<<i, j>>] =
             Combine(ops[j], TruthAt(ops, truth)[<<i, k>>],
                     TruthAt(ops, truth)[<<k + 1, j - 1>>])
<1> DEFINE T == TruthAt(ops, truth)
           C(m) == Combine(ops[j], T[<<i, m>>], T[<<m + 1, j - 1>>])
<1>0. Len(ops) \in Nat
  BY HeightNumbers
<1>1. T[<<i, j>>] = TruthRound(ops, truth, T)[<<i, j>>]
  BY <1>0, TruthIsRound
<1>2. C(k) \in BOOLEAN
  OBVIOUS
<1> HIDE DEF T
<1>3. T[<<i, j>>] = TrueAt(ops, T, i, j)
  <2>1. i # j
    OBVIOUS
  <2> QED BY <1>1, <2>1, TruthRoundAt
<1>4. \A m \in i .. j - 2 :
         /\ FormulaAt(ops)[<<i, m>>] = Rises(h, i, m)
         /\ FormulaAt(ops)[<<m + 1, j - 1>>] = Rises(h, m + 1, j - 1)
  <2>1. \A m \in i .. j - 2 : m \in 1 .. Len(ops) /\ m + 1 \in 1 .. Len(ops)
                            /\ j - 1 \in 1 .. Len(ops)
    BY <1>0, PartsWithin
  <2> QED BY <2>1, FormulaRises
<1>5. TrueAt(ops, T, i, j) \in BOOLEAN
  BY Zenon DEF TrueAt
<1>6. TrueAt(ops, T, i, j) <=>
        \E m \in i .. j - 2 : Rises(h, i, m) /\ Rises(h, m + 1, j - 1) /\ C(m)
  BY <1>4 DEF TrueAt
<1> HIDE DEF C
<1>7. TrueAt(ops, T, i, j) <=> C(k)
  BY <1>6, OneSplit
<1>8. TrueAt(ops, T, i, j) = C(k)
  BY <1>2, <1>5, <1>7
<1> QED BY <1>3, <1>8 DEF C, T

\* The operations read so far are cut, at the places p, in as many formulas as
\* there are values, and each value is the truth of its formula.
Decomposes(ops, truth, values, n, p) ==
    /\ p \in [0 .. Len(values) -> 0 .. Len(ops)]
    /\ p[0] = 0 /\ p[Len(values)] = n
    /\ \A m \in 0 .. Len(values) : Height(ops)[p[m]] = m
    /\ \A m \in 1 .. Len(values) :
          /\ Rises(Height(ops), p[m - 1] + 1, p[m])
          /\ values[m] = TruthAt(ops, truth)[<<p[m - 1] + 1, p[m]>>]

\* The beginning of a sequence.
LEMMA Shorten ==
    ASSUME NEW S, NEW s \in Seq(S), NEW n \in 0 .. Len(s)
    PROVE  /\ SubSeq(s, 1, n) \in Seq(S) /\ Len(SubSeq(s, 1, n)) = n
           /\ \A m \in 1 .. n : SubSeq(s, 1, n)[m] = s[m]
<1>1. n \in Nat /\ n <= Len(s) /\ Len(s) \in Nat
  OBVIOUS
<1>2. \A m \in 1 .. n : s[m] \in S
  BY <1>1
<1>3. SubSeq(s, 1, n) \in Seq(S)
  BY <1>1, <1>2, SubSeqProperties
<1>4. Len(SubSeq(s, 1, n)) = n
  BY <1>1, <1>2
<1>5. \A m \in 1 .. n : SubSeq(s, 1, n)[m] = s[m]
  BY <1>1, <1>2
<1> QED BY <1>3, <1>4, <1>5

\* A PUSH is one formula more.
LEMMA PushDecomposes ==
    ASSUME NEW ops, NEW truth, Len(ops) \in Nat, NEW values \in Seq(BOOLEAN),
           NEW n \in Nat, NEW p, Decomposes(ops, truth, values, n, p),
           n < Len(ops), ops[n + 1] = "PUSH",
           NEW v \in BOOLEAN, v = truth[Pushes(ops, n + 1)]
    PROVE  \E q : Decomposes(ops, truth, Append(values, v), n + 1, q)
<1> DEFINE L == Len(values)
           h == Height(ops)
           T == TruthAt(ops, truth)
           w == Append(values, v)
           q == [m \in 0 .. L + 1 |-> IF m <= L THEN p[m] ELSE n + 1]
<1>1. /\ L \in Nat /\ Len(w) = L + 1 /\ w[L + 1] = v
      /\ \A m \in 1 .. L : w[m] = values[m]
  OBVIOUS
<1>2. n + 1 \in 1 .. Len(ops) /\ (n + 1) - 1 = n
  OBVIOUS
<1>3. Climbs(ops, h)
  BY HeightClimbs
<1>4. T[<<n + 1, n + 1>>] = v
  BY <1>2, TruthOfPush
<1>5. /\ p \in [0 .. L -> 0 .. Len(ops)] /\ p[0] = 0 /\ p[L] = n
      /\ \A m \in 0 .. L : h[p[m]] = m
      /\ \A m \in 1 .. L : /\ Rises(h, p[m - 1] + 1, p[m])
                          /\ values[m] = T[<<p[m - 1] + 1, p[m]>>]
  BY DEF Decomposes
<1> HIDE DEF h, T, w, L
<1>6. Rises(h, n + 1, n + 1)
  BY <1>2, <1>3, PushRises
<1>7. h[n + 1] = L + 1
  <2>1. h[n + 1] = h[n] + 1
    BY <1>2, <1>3, HeightNumbers
  <2>2. h[n] = L
    BY <1>1, <1>5
  <2> QED BY <2>1, <2>2
<1>8. /\ \A m \in 0 .. L : q[m] = p[m]
      /\ q[L + 1] = n + 1 /\ q \in [0 .. L + 1 -> 0 .. Len(ops)]
  BY <1>1, <1>2, <1>5
<1> HIDE DEF q
<1>9. q[0] = 0
  BY <1>1, <1>5, <1>8
<1>10. \A m \in 0 .. L + 1 : h[q[m]] = m
  <2> SUFFICES ASSUME NEW m \in 0 .. L + 1 PROVE h[q[m]] = m
    OBVIOUS
  <2>1. CASE m \in 0 .. L
    BY <1>5, <1>8, <2>1
  <2>2. CASE m = L + 1
    BY <1>7, <1>8, <2>2
  <2> QED BY <1>1, <2>1, <2>2
<1>11. ASSUME NEW m \in 1 .. L + 1
       PROVE  Rises(h, q[m - 1] + 1, q[m]) /\ w[m] = T[<<q[m - 1] + 1, q[m]>>]
  <2>1. CASE m \in 1 .. L
    <3>1. q[m] = p[m] /\ q[m - 1] = p[m - 1]
      BY <1>1, <1>8, <2>1
    <3> QED BY <1>1, <1>5, <2>1, <3>1
  <2>2. CASE m = L + 1
    <3>1. q[m] = n + 1 /\ q[m - 1] = n
      BY <1>1, <1>5, <1>8, <2>2
    <3> QED BY <1>1, <1>4, <1>6, <2>2, <3>1
  <2> QED BY <1>1, <2>1, <2>2
<1>12. Decomposes(ops, truth, w, n + 1, q)
  BY <1>1, <1>8, <1>9, <1>10, <1>11 DEF Decomposes, h, T
<1> QED BY <1>12 DEF w

\* An operation makes one formula of the last two.
LEMMA OperationDecomposes ==
    ASSUME NEW ops, NEW truth, Len(ops) \in Nat, NEW values \in Seq(BOOLEAN),
           NEW n \in Nat, NEW p, Decomposes(ops, truth, values, n, p),
           n < Len(ops), ops[n + 1] # "PUSH", Len(values) >= 2,
           NEW v \in BOOLEAN,
           v = Combine(ops[n + 1], values[Len(values) - 1], values[Len(values)])
    PROVE  \E q : Decomposes(ops, truth,
                             Append(SubSeq(values, 1, Len(values) - 2), v), n + 1, q)
<1> DEFINE L == Len(values)
           h == Height(ops)
           T == TruthAt(ops, truth)
           w == Append(SubSeq(values, 1, L - 2), v)
           q == [m \in 0 .. L - 1 |-> IF m <= L - 2 THEN p[m] ELSE n + 1]
           i == p[L - 2] + 1
           k == p[L - 1]
<1>1. /\ L \in Nat /\ L >= 2 /\ Len(w) = L - 1 /\ w[L - 1] = v
      /\ \A m \in 1 .. L - 2 : w[m] = values[m]
  <2>1. L \in Nat /\ L >= 2 /\ L - 2 \in 0 .. L
    OBVIOUS
  <2>2. /\ SubSeq(values, 1, L - 2) \in Seq(BOOLEAN)
        /\ Len(SubSeq(values, 1, L - 2)) = L - 2
        /\ \A m \in 1 .. L - 2 : SubSeq(values, 1, L - 2)[m] = values[m]
    BY <2>1, Shorten
  <2> QED BY <2>1, <2>2
<1>2. n + 1 \in 1 .. Len(ops) /\ (n + 1) - 1 = n /\ (n + 1) - 2 = n - 1
  OBVIOUS
<1>3. Climbs(ops, h)
  BY HeightClimbs
<1>5. /\ p \in [0 .. L -> 0 .. Len(ops)] /\ p[0] = 0 /\ p[L] = n
      /\ \A m \in 0 .. L : h[p[m]] = m
      /\ \A m \in 1 .. L : /\ Rises(h, p[m - 1] + 1, p[m])
                          /\ values[m] = T[<<p[m - 1] + 1, p[m]>>]
  BY DEF Decomposes
<1>6. v = Combine(ops[n + 1], values[L - 1], values[L])
  OBVIOUS
<1> HIDE DEF h, T, w, L
<1>7. /\ Rises(h, i, k) /\ values[L - 1] = T[<<i, k>>]
      /\ Rises(h, k + 1, n) /\ values[L] = T[<<k + 1, n>>]
  <2>1. L - 1 \in 1 .. L /\ L \in 1 .. L /\ (L - 1) - 1 = L - 2
    BY <1>1
  <2> QED BY <1>5, <2>1
<1>8. i \in 1 .. Len(ops) /\ k \in i .. (n + 1) - 2
  <2>1. i \in Nat /\ 1 <= i /\ k \in Nat /\ k <= Len(ops)
    <3>1. L - 2 \in 0 .. L /\ L - 1 \in 0 .. L
      BY <1>1
    <3>2. p[L - 2] \in 0 .. Len(ops) /\ p[L - 1] \in 0 .. Len(ops)
      BY <1>5, <3>1
    <3> QED BY <3>2
  <2>2. i <= k /\ k + 1 <= n
    BY <1>7 DEF Rises
  <2> HIDE DEF i, k
  <2> QED BY <2>1, <2>2
<1> HIDE DEF i, k
<1>9. Rises(h, i, n + 1)
  BY <1>2, <1>3, <1>7, <1>8, JoinRises
<1>10. T[<<i, n + 1>>] = v
  <2>1. Combine(ops[n + 1], T[<<i, k>>], T[<<k + 1, (n + 1) - 1>>]) = v
    BY <1>2, <1>6, <1>7
  <2>2. Rises(h, k + 1, (n + 1) - 1)
    BY <1>2, <1>7
  <2> QED BY <1>2, <1>3, <1>7, <1>8, <2>1, <2>2, TruthOfOperation DEF T
<1>11. h[n + 1] = L - 1
  <2>1. h[n + 1] = h[n] - 1
    BY <1>2, <1>3, HeightNumbers
  <2>2. h[n] = L
    BY <1>1, <1>5
  <2> QED BY <2>1, <2>2
<1>12. /\ \A m \in 0 .. L - 2 : q[m] = p[m]
       /\ q[L - 1] = n + 1 /\ q \in [0 .. L - 1 -> 0 .. Len(ops)]
  <2>1. /\ \A m \in 0 .. L - 2 : m \in 0 .. L - 1 /\ m \in 0 .. L /\ m <= L - 2
        /\ L - 1 \in 0 .. L - 1 /\ ~ (L - 1 <= L - 2)
        /\ \A m \in 0 .. L - 1 : m <= L - 2 => m \in 0 .. L
        /\ n + 1 \in 0 .. Len(ops)
    BY <1>1, <1>2
  <2>2. \A m \in 0 .. L : p[m] \in 0 .. Len(ops)
    BY <1>5
  <2>3. q \in [0 .. L - 1 -> 0 .. Len(ops)]
    BY <2>1, <2>2
  <2> QED BY <2>1, <2>3
<1> HIDE DEF q
<1>13. q[0] = 0
  <2>1. 0 \in 0 .. L - 2
    BY <1>1
  <2> QED BY <1>5, <1>12, <2>1
<1>14. \A m \in 0 .. L - 1 : h[q[m]] = m
  <2> SUFFICES ASSUME NEW m \in 0 .. L - 1 PROVE h[q[m]] = m
    OBVIOUS
  <2>1. CASE m \in 0 .. L - 2
    <3>1. m \in 0 .. L /\ q[m] = p[m]
      BY <1>1, <1>12, <2>1
    <3> QED BY <1>5, <3>1
  <2>2. CASE m = L - 1
    BY <1>11, <1>12, <2>2
  <2> QED BY <1>1, <2>1, <2>2
<1>15. ASSUME NEW m \in 1 .. L - 1
       PROVE  Rises(h, q[m - 1] + 1, q[m]) /\ w[m] = T[<<q[m - 1] + 1, q[m]>>]
  <2>1. CASE m \in 1 .. L - 2
    <3>1. m \in 0 .. L - 2 /\ m - 1 \in 0 .. L - 2 /\ m \in 1 .. L
      BY <1>1, <2>1
    <3>2. q[m] = p[m] /\ q[m - 1] = p[m - 1]
      BY <1>12, <3>1
    <3> QED BY <1>1, <1>5, <2>1, <3>1, <3>2
  <2>2. CASE m = L - 1
    <3>1. q[m] = n + 1 /\ q[m - 1] = p[L - 2] /\ q[m - 1] + 1 = i
      BY SMTT(30), <1>1, <1>12, <2>2 DEF i
    <3> QED BY <1>1, <1>9, <1>10, <2>2, <3>1
  <2> QED BY <1>1, <2>1, <2>2
<1>16. Decomposes(ops, truth, w, n + 1, q)
  BY <1>1, <1>12, <1>13, <1>14, <1>15 DEF Decomposes, h, T
<1> QED BY <1>16 DEF w, L

-----------------------------------------------------------------------------
(* Compiled patterns are formulas, and a match is their truth *)

\* compile_pattern counts how high match_pattern's stack is going to be, stops
\* where it would run dry, and accepts what leaves one value at most.
HeightInv ==
    /\ phase \in {"start", "conditions", "operations"} =>
         stack_size = Height(seen)[Len(seen)]
    /\ phase \in {"start", "conditions", "operations", "compiled", "matching",
                  "matched"} => Stands(Height(seen), Len(seen))
    /\ phase \in {"compiled", "matching", "matched"} => Height(seen)[Len(seen)] <= 1
    /\ phase = "rejected" /\ seen # <<>> =>
         IF Len(seen) = num_operands
         THEN ~ (Height(seen)[Len(seen)] = 1 /\ Stands(Height(seen), Len(seen)))
         ELSE ~ Stands(Height(seen), Len(seen))

\* What the conditions of the pattern say of the packet.
Truths == [n \in DOMAIN conditions |-> EvaluateCondition(data, conditions[n])]

\* The stack holds the truth of the formulas read so far, and the last of its
\* values is the answer.
ValuesInv ==
    phase \in {"matching", "matched"} =>
      /\ cond_index = Pushes(seen, op_index)
      /\ \E p \in [0 .. Len(stack) -> 0 .. Len(seen)] :
            Decomposes(seen, Truths, stack, op_index, p)
      /\ phase = "matched" =>
           /\ op_index = Len(operations)
           /\ stack # <<>> => result = stack[Len(stack)]

\* One operation more: the height of the others stays.
LEMMA HeightAppends ==
    ASSUME NEW ops \in Seq(OperationTypes), NEW op \in OperationTypes
    PROVE  /\ Len(ops) \in Nat /\ Len(Append(ops, op)) = Len(ops) + 1
           /\ \A i \in 0 .. Len(ops) :
                 /\ Height(Append(ops, op))[i] = Height(ops)[i]
                 /\ Height(ops)[i] \in Int
           /\ Height(Append(ops, op))[Len(ops) + 1] =
                IF op = "PUSH" THEN Height(ops)[Len(ops)] + 1
                               ELSE Height(ops)[Len(ops)] - 1
<1> DEFINE t == Append(ops, op)
           n == Len(ops)
<1>1. /\ n \in Nat /\ Len(t) = n + 1 /\ t[n + 1] = op
      /\ \A i \in 1 .. n : t[i] = ops[i]
  OBVIOUS
<1>2. Climbs(ops, Height(ops)) /\ Climbs(t, Height(t))
  BY <1>1, HeightClimbs
<1> HIDE DEF t, n
<1>3. ASSUME NEW i \in 0 .. n PROVE Height(t)[i] = Height(ops)[i]
  <2>1. i \in Nat /\ i \in 0 .. Len(t)
    BY <1>1, <1>3
  <2>2. {k \in 1 .. i : t[k] = "PUSH"} = {k \in 1 .. i : ops[k] = "PUSH"}
    BY <1>1, <1>3
  <2>3. Pushes(t, i) = Pushes(ops, i)
    BY <2>2 DEF Pushes
  <2> QED BY <2>1, <2>3 DEF Height, n
<1>4. \A i \in 0 .. n : Height(ops)[i] \in Int
  BY <1>2, HeightNumbers DEF n
<1>5. Height(t)[n + 1] = IF op = "PUSH" THEN Height(ops)[n] + 1 ELSE Height(ops)[n] - 1
  <2>1. n + 1 \in 1 .. Len(t) /\ (n + 1) - 1 = n /\ n \in 0 .. n
    BY <1>1
  <2>2. Height(t)[n + 1] = IF t[n + 1] = "PUSH" THEN Height(t)[n] + 1 ELSE Height(t)[n] - 1
    BY <1>2, <2>1, HeightNumbers
  <2>3. Height(t)[n] = Height(ops)[n]
    BY <1>3, <2>1
  <2> QED BY <1>1, <2>2, <2>3
<1> QED BY <1>1, <1>3, <1>4, <1>5 DEF t, n

\* Steps that read no operation.
LEMMA HeightKept ==
    ASSUME HeightInv, UNCHANGED <<stack_size, seen>>,
           \/ phase' = "undefined"
           \/ UNCHANGED <<phase, num_operands>>
           \/ phase \in {"start", "conditions"} /\ phase' \in {"conditions", "operations"}
           \/ /\ phase \in {"compiled", "matching", "matched"}
              /\ phase' \in {"compiled", "matching", "matched"}
    PROVE  HeightInv'
  BY DEF HeightInv

\* An operation read.
LEMMA ReadOperationHeight ==
    ASSUME NotationInv, HeightInv, ReadOperation
    PROVE  HeightInv'
<1> DEFINE n == Len(seen)
           h == Height(seen)
           g == Height(seen')
<1>1. /\ phase = "operations" /\ seen \in Seq(OperationTypes)
      /\ stack_size = h[n] /\ Stands(h, n) /\ num_operands' = num_operands
  BY DEF NotationInv, TypeOK, HeightInv, ReadOperation
<1>2. PICK op \in OperationTypes :
         /\ seen' = Append(seen, op) /\ stack_size' = StackSizeAfter(op)
         /\ \/ StackRunsDry(stack_size') /\ Reject
            \/ ~ StackRunsDry(stack_size') /\ UNCHANGED phase
  BY DEF ReadOperation
<1>3. /\ n \in Nat /\ Len(seen') = n + 1
      /\ \A i \in 0 .. n : g[i] = h[i] /\ h[i] \in Int
      /\ g[n + 1] = IF op = "PUSH" THEN h[n] + 1 ELSE h[n] - 1
  BY <1>1, <1>2, HeightAppends
<1> HIDE DEF n, h, g
<1>4. stack_size' = g[n + 1] /\ g[n + 1] \in Int
  <2>1. h[n] \in Int
    BY <1>3
  <2> QED BY <1>1, <1>2, <1>3, <2>1 DEF StackSizeAfter
<1>5. Stands(g, n + 1) <=> stack_size' > 0
  <2>1. \A k \in 1 .. n : g[k] > 0
    BY <1>1, <1>3 DEF Stands
  <2>2. n + 1 \in 1 .. n + 1 /\ \A k \in 1 .. n + 1 : k \in 1 .. n \/ k = n + 1
    BY <1>3
  <2> QED BY <1>4, <2>1, <2>2 DEF Stands
<1>6. CASE StackRunsDry(stack_size') /\ Reject
  <2>1. phase' = "rejected" /\ ~ (stack_size' > 0)
    BY <1>4, <1>6 DEF Reject, StackRunsDry
  <2> QED BY <1>3, <1>5, <2>1 DEF HeightInv, g
<1>7. CASE ~ StackRunsDry(stack_size') /\ UNCHANGED phase
  <2>1. stack_size' > 0
    BY <1>4, <1>7 DEF StackRunsDry
  <2> QED BY <1>1, <1>3, <1>4, <1>5, <1>7, <2>1 DEF HeightInv, g
<1> QED BY <1>2, <1>6, <1>7

\* The end of a notation.
LEMMA FinishCompileHeight ==
    ASSUME NotationInv, HeightInv, FinishCompile
    PROVE  HeightInv'
<1>1. /\ phase = "operations" /\ Len(seen) = num_operands
      /\ UNCHANGED <<num_operands, stack_size, seen>>
      /\ stack_size = Height(seen)[Len(seen)] /\ Stands(Height(seen), Len(seen))
      /\ stack_size \in Int
  BY DEF NotationInv, PhaseInv, TypeOK, HeightInv, FinishCompile
<1>2. CASE ValuesLeftOver /\ Reject
  <2>1. phase' = "rejected" /\ stack_size # 1
    BY <1>1, <1>2 DEF Reject, ValuesLeftOver
  <2> QED BY <1>1, <2>1 DEF HeightInv
<1>3. CASE ~ ValuesLeftOver /\ phase' = "compiled"
  <2>1. stack_size <= 1
    BY <1>1, <1>3 DEF ValuesLeftOver
  <2> QED BY <1>1, <1>3, <2>1 DEF HeightInv
<1> QED BY <1>2, <1>3 DEF FinishCompile

\* compile_pattern counts the height of the stack, whatever it reads.
LEMMA NextHeight == NotationInv /\ HeightInv /\ [Next]_vars => HeightInv'
<1> SUFFICES ASSUME NotationInv, HeightInv, [Next]_vars PROVE HeightInv'
  OBVIOUS
<1>1. CASE ReadNumConds
  BY <1>1, HeightKept DEF ReadNumConds
<1>2. CASE ConditionBehindEnd \/ ValsBehindEnd
  <2>1. phase' = "rejected" /\ seen' = <<>>
    BY <1>2 DEF ConditionBehindEnd, ValsBehindEnd, Reject, MoreConditions, NotationInv,
                PhaseInv
  <2> QED BY <2>1 DEF HeightInv
<1>3. CASE ReadCondition
  BY <1>3, HeightKept DEF ReadCondition
<1>4. CASE ReadInvertedRange \/ AllocationFails
  BY <1>4, HeightKept DEF ReadInvertedRange, AllocationFails, compiling
<1>5. CASE ReadNumOperands
  BY <1>5, HeightKept DEF ReadNumOperands
<1>6. CASE ReadOperation
  BY <1>6, ReadOperationHeight
<1>7. CASE FinishCompile
  BY <1>7, FinishCompileHeight
<1>8. CASE Match
  BY <1>8, HeightKept
  DEF Match, StartMatch, PushCondition, PushOutOfBounds, ApplyOperation, FinishMatch,
      NextPacket, NextOperation, compiling
<1>9. CASE UNCHANGED vars
  BY <1>9, HeightKept DEF vars, compiling
<1> QED BY <1>1, <1>2, <1>3, <1>4, <1>5, <1>6, <1>7, <1>8, <1>9 DEF Next, Compile

\* Nothing has been read at first.
LEMMA InitHeight == Init => HeightInv
<1> SUFFICES ASSUME Init PROVE HeightInv
  OBVIOUS
<1>1. phase = "start" /\ seen = <<>> /\ stack_size = 0 /\ Len(seen) = 0
  BY DEF Init
<1>2. Height(seen)[0] = 0
  BY <1>1, HeightClimbs DEF Climbs
<1>3. Stands(Height(seen), 0)
  BY DEF Stands
<1> QED BY <1>1, <1>2, <1>3 DEF HeightInv

\* Whatever notation is read: compile_pattern accepts the empty one and the
\* postfix notations of single formulas, refuses all others, and gives up before
\* the end only on a sequence that no formula begins with.
THEOREM CompileAcceptsFormulas == Spec => []AcceptsFormulas
<1>1. NotationInv /\ HeightInv => AcceptsFormulas
  <2> SUFFICES ASSUME NotationInv, HeightInv PROVE AcceptsFormulas
    OBVIOUS
  <2>1. seen \in Seq(OperationTypes)
    BY DEF NotationInv, TypeOK
  <2>2. Len(seen) \in Nat /\ (seen # <<>> <=> Len(seen) > 0)
    BY <2>1
  <2>3. Climbs(seen, Height(seen))
    BY <2>2, HeightClimbs
  <2>4. /\ IsFormula(seen) <=> /\ Len(seen) > 0 /\ Height(seen)[Len(seen)] = 1
                               /\ Stands(Height(seen), Len(seen))
        /\ IsBeginning(seen) <=> Len(seen) > 0 /\ Stands(Height(seen), Len(seen))
    BY <2>2, <2>3, FormulaHeight, BeginningHeight DEF Stands
  <2>5. Len(seen) > 0 /\ Stands(Height(seen), Len(seen)) => Height(seen)[Len(seen)] > 0
    BY <2>2 DEF Stands
  <2>6. Height(seen)[Len(seen)] \in Int
    BY <2>2, <2>3, HeightNumbers
  <2> QED BY <2>2, <2>4, <2>5, <2>6 DEF AcceptsFormulas, HeightInv
<1> QED BY InitNotation, NextNotation, InitHeight, NextHeight, <1>1, PTL DEF Spec

-----------------------------------------------------------------------------
\* The two functions of match_pattern and of the meaning agree.
LEMMA OperateCombines ==
    ASSUME NEW op \in OperationTypes, op # "PUSH",
           NEW left \in BOOLEAN, NEW val \in BOOLEAN
    PROVE  Operate(op, left, val) = Combine(op, left, val)
<1>1. CASE left = TRUE /\ val = TRUE
  BY <1>1 DEF Operate, Combine, OperationTypes
<1>2. CASE left = TRUE /\ val = FALSE
  BY <1>2 DEF Operate, Combine, OperationTypes
<1>3. CASE left = FALSE /\ val = TRUE
  BY <1>3 DEF Operate, Combine, OperationTypes
<1>4. CASE left = FALSE /\ val = FALSE
  BY <1>4 DEF Operate, Combine, OperationTypes
<1> QED BY <1>1, <1>2, <1>3, <1>4

\* The cut, wherever it comes from.
LEMMA ValuesCut ==
    ASSUME NotationInv, ValuesInv, phase \in {"matching", "matched"}
    PROVE  /\ seen \in Seq(OperationTypes) /\ Len(seen) \in Nat
           /\ stack \in Seq(BOOLEAN) /\ Len(stack) \in Nat
           /\ operations = seen /\ op_index \in 0 .. Len(seen)
           /\ cond_index = Pushes(seen, op_index)
           /\ \E p : Decomposes(seen, Truths, stack, op_index, p)
           /\ Height(seen)[op_index] = Len(stack)
<1>1. /\ seen \in Seq(OperationTypes) /\ Len(seen) \in Nat
      /\ stack \in Seq(BOOLEAN) /\ Len(stack) \in Nat
      /\ operations = seen /\ op_index \in 0 .. Len(seen)
  BY DEF NotationInv, TypeOK, PhaseInv
<1>2. PICK p : Decomposes(seen, Truths, stack, op_index, p)
  BY DEF ValuesInv
<1>3. Height(seen)[p[Len(stack)]] = Len(stack) /\ p[Len(stack)] = op_index
  <2>1. Len(stack) \in 0 .. Len(stack)
    BY <1>1
  <2> QED BY <1>2, <2>1 DEF Decomposes
<1> QED BY <1>1, <1>2, <1>3 DEF ValuesInv

\* A step to a stack that can be cut.
LEMMA NewCut ==
    ASSUME NEW p, phase' = "matching", UNCHANGED <<compiling, data>>,
           cond_index' = Pushes(seen, op_index'),
           Decomposes(seen, Truths, stack', op_index', p)
    PROVE  ValuesInv'
<1>1. p \in [0 .. Len(stack') -> 0 .. Len(seen)]
  BY DEF Decomposes
<1>2. Truths' = Truths /\ seen' = seen
  BY DEF Truths, compiling
<1> QED BY <1>1, <1>2 DEF ValuesInv

\* A condition is one value more.
LEMMA PushValues ==
    ASSUME NotationInv, ValuesInv, PushCondition
    PROVE  ValuesInv'
<1>1. /\ phase = "matching" /\ phase' = "matching" /\ UNCHANGED <<compiling, data>>
      /\ op_index < Len(operations) /\ operations[op_index + 1] = "PUSH"
      /\ op_index' = op_index + 1 /\ cond_index' = cond_index + 1
      /\ cond_index < Len(conditions)
      /\ stack' = Append(stack, EvaluateCondition(data, conditions[cond_index + 1]))
  BY DEF PushCondition, NextOperation
<1>2. /\ Len(seen) \in Nat /\ stack \in Seq(BOOLEAN)
      /\ operations = seen /\ op_index \in Nat
      /\ cond_index = Pushes(seen, op_index)
  BY <1>1, ValuesCut
<1>3. PICK p : Decomposes(seen, Truths, stack, op_index, p)
  BY <1>1, ValuesCut
<1>4. Pushes(seen, op_index + 1) = cond_index + 1
  BY <1>1, <1>2, PushesCounted
<1>5. EvaluateCondition(data, conditions[cond_index + 1]) \in BOOLEAN
  BY ConditionIsTrueOrFalse
<1>6. Truths[cond_index + 1] = EvaluateCondition(data, conditions[cond_index + 1])
  <2>1. cond_index \in Nat /\ conditions \in Seq(AnyCondition)
    BY DEF NotationInv, TypeOK, MeasuredInv
  <2>2. cond_index + 1 \in DOMAIN conditions
    BY <1>1, <2>1
  <2> QED BY <2>2 DEF Truths
<1>7. \E q : Decomposes(seen, Truths,
                        Append(stack, EvaluateCondition(data, conditions[cond_index + 1])),
                        op_index + 1, q)
  BY <1>1, <1>2, <1>3, <1>4, <1>5, <1>6, PushDecomposes
<1> QED BY <1>1, <1>4, <1>7, NewCut

\* An operation is one value for two.
LEMMA ApplyValues ==
    ASSUME NotationInv, ValuesInv, ApplyOperation
    PROVE  ValuesInv'
<1> DEFINE L == Len(stack)
<1>1. PICK op \in OperationTypes \ {"PUSH"} :
         /\ phase = "matching" /\ op_index < Len(operations)
         /\ operations[op_index + 1] = op /\ L >= 2
         /\ stack' = Append(SubSeq(stack, 1, L - 2),
                            Operate(op, stack[L - 1], stack[L]))
  BY DEF ApplyOperation, NextOperation, Enough
<1>2. /\ phase' = "matching" /\ UNCHANGED <<compiling, data>>
      /\ op_index' = op_index + 1 /\ cond_index' = cond_index
  BY <1>1 DEF ApplyOperation
<1>3. /\ Len(seen) \in Nat /\ stack \in Seq(BOOLEAN) /\ L \in Nat
      /\ operations = seen /\ op_index \in Nat
      /\ cond_index = Pushes(seen, op_index)
  BY <1>1, ValuesCut
<1>4. PICK p : Decomposes(seen, Truths, stack, op_index, p)
  BY <1>1, ValuesCut
<1>5. Pushes(seen, op_index + 1) = cond_index
  BY <1>1, <1>3, PushesCounted
<1>6. stack[L - 1] \in BOOLEAN /\ stack[L] \in BOOLEAN
  BY <1>1, <1>3
<1> DEFINE v == Operate(op, stack[L - 1], stack[L])
<1>7. v \in BOOLEAN /\ v = Combine(op, stack[L - 1], stack[L])
  BY <1>6, OperateIsTrueOrFalse, OperateCombines
<1> HIDE DEF v
<1>8. \E q : Decomposes(seen, Truths, Append(SubSeq(stack, 1, L - 2), v),
                        op_index + 1, q)
  BY <1>1, <1>3, <1>4, <1>7, OperationDecomposes
<1> QED BY <1>1, <1>2, <1>5, <1>8, NewCut DEF v

\* The stack holds the truth of the formulas read so far.
LEMMA NextValues == NotationInv /\ ValuesInv /\ [Next]_vars => ValuesInv'
<1> SUFFICES ASSUME NotationInv, ValuesInv, [Next]_vars PROVE ValuesInv'
  OBVIOUS
<1>1. CASE Compile
  <2>1. phase' \notin {"matching", "matched"}
    BY <1>1
    DEF Compile, ReadNumConds, ConditionBehindEnd, ValsBehindEnd, ReadCondition,
        ReadInvertedRange, AllocationFails, ReadNumOperands, ReadOperation,
        FinishCompile, MoreConditions, Reject
  <2> QED BY <2>1 DEF ValuesInv
<1>2. CASE StartMatch
  <2>1. /\ phase' = "matching" /\ phase = "compiled" /\ seen' = seen
        /\ op_index' = 0 /\ cond_index' = 0 /\ stack' = <<>>
    BY <1>2 DEF StartMatch, NotationInv, PhaseInv, compiling
  <2>2. Len(seen) \in Nat /\ Len(<<>>) = 0
    BY DEF NotationInv, TypeOK
  <2>3. Height(seen)[0] = 0
    BY <2>2, HeightClimbs DEF Climbs
  <2> DEFINE p == [m \in 0 .. 0 |-> 0]
  <2>4. p \in [0 .. 0 -> 0 .. Len(seen)] /\ p[0] = 0
    BY <2>2
  <2> HIDE DEF p
  <2>5. Decomposes(seen, Truths', <<>>, 0, p)
    BY <2>2, <2>3, <2>4 DEF Decomposes
  <2>6. Pushes(seen, 0) = 0
    BY PushesCounted
  <2> QED BY <2>1, <2>2, <2>4, <2>5, <2>6 DEF ValuesInv
<1>3. CASE PushCondition
  BY <1>3, PushValues
<1>4. CASE PushOutOfBounds
  BY <1>4 DEF PushOutOfBounds, ValuesInv
<1>5. CASE ApplyOperation
  BY <1>5, ApplyValues
<1>6. CASE FinishMatch
  <2>1. /\ phase = "matching" /\ phase' = "matched" /\ op_index = Len(operations)
        /\ stack # <<>> => result' = stack[Len(stack)]
        /\ UNCHANGED <<conditions, operations, seen, data, op_index, cond_index, stack>>
    BY <1>6 DEF FinishMatch, compiling
  <2>2. Truths' = Truths
    BY <2>1 DEF Truths
  <2> QED BY <2>1, <2>2 DEF ValuesInv
<1>7. CASE NextPacket
  BY <1>7 DEF NextPacket, ValuesInv
<1>8. CASE UNCHANGED vars
  BY <1>8 DEF vars, compiling, matching, ValuesInv, Truths
<1> QED BY <1>1, <1>2, <1>3, <1>4, <1>5, <1>6, <1>7, <1>8 DEF Next, Match

\* There are no values at first.
LEMMA InitValues == Init => ValuesInv
  BY DEF Init, ValuesInv

\* match_pattern never takes a value off a stack that has none: each operation
\* that is not a PUSH, of any compiled pattern, finds two, on every packet.
THEOREM OperandsAlwaysThere == Spec => []OperandsThere
<1>1. NotationInv /\ HeightInv /\ ValuesInv => OperandsThere
  <2> SUFFICES ASSUME NotationInv, HeightInv, ValuesInv, phase = "matching",
                      op_index < Len(operations), operations[op_index + 1] # "PUSH"
               PROVE  Enough
    BY DEF OperandsThere
  <2>1. /\ Len(seen) \in Nat /\ operations = seen /\ op_index \in Nat
        /\ Len(stack) \in Nat /\ Height(seen)[op_index] = Len(stack)
    BY ValuesCut
  <2>2. op_index + 1 \in 1 .. Len(seen) /\ (op_index + 1) - 1 = op_index
    BY <2>1
  <2>3. Climbs(seen, Height(seen))
    BY <2>1, HeightClimbs
  <2>4. Height(seen)[op_index + 1] = Height(seen)[op_index] - 1
    BY <2>1, <2>2, <2>3, HeightNumbers
  <2>5. Height(seen)[op_index + 1] > 0
    BY <2>2 DEF HeightInv, Stands
  <2> QED BY <2>1, <2>4, <2>5 DEF Enough
<1> QED BY InitNotation, NextNotation, InitHeight, NextHeight, InitValues, NextValues,
           <1>1, PTL DEF Spec

\* For every pattern that has, wherever it PUSHes, a condition to push and a place
\* on the stack, and for every packet: match_pattern leaves one value, and answers
\* with the truth of the formula the operations denote.
THEOREM MatchDecidesFormula == Spec => []MatchIsFormula
<1>1. NotationInv /\ HeightInv /\ ValuesInv => MatchIsFormula
  <2> SUFFICES ASSUME NotationInv, HeightInv, ValuesInv, phase = "matched", seen # <<>>
               PROVE  Len(stack) = 1 /\ (result <=> Truth(seen, Truths))
    BY DEF MatchIsFormula, Truths
  <2>1. /\ seen \in Seq(OperationTypes) /\ Len(seen) \in Nat
        /\ operations = seen /\ op_index = Len(seen)
        /\ Len(stack) \in Nat /\ Height(seen)[Len(seen)] = Len(stack)
    BY ValuesCut DEF ValuesInv
  <2>2. Len(seen) > 0
    BY <2>1
  <2>3. Height(seen)[Len(seen)] <= 1 /\ Stands(Height(seen), Len(seen))
    BY DEF HeightInv
  <2>4. Len(stack) = 1
    <3>1. Height(seen)[Len(seen)] > 0
      BY <2>1, <2>2, <2>3 DEF Stands
    <3> DEFINE h == Height(seen)[Len(seen)]
               l == Len(stack)
    <3>2. l \in Nat /\ h = l /\ h <= 1 /\ h > 0
      BY <2>1, <2>3, <3>1
    <3> HIDE DEF h, l
    <3>3. l = 1
      BY <3>2
    <3> QED BY <3>3 DEF l
  <2>5. PICK p : Decomposes(seen, Truths, stack, op_index, p)
    BY DEF ValuesInv
  <2>6. stack[1] = TruthAt(seen, Truths)[<<p[0] + 1, p[1]>>] /\ p[0] = 0
        /\ p[1] = Len(seen)
    <3>1. 1 \in 1 .. Len(stack) /\ 1 - 1 = 0
      BY <2>4
    <3> QED BY <2>1, <2>4, <2>5, <3>1 DEF Decomposes
  <2>7. stack[1] = Truth(seen, Truths)
    BY <2>6 DEF Truth
  <2>8. result = stack[1]
    <3>1. stack # <<>>
      BY <2>4
    <3> QED BY <2>4, <3>1 DEF ValuesInv
  <2> QED BY <2>4, <2>7, <2>8
<1> QED BY InitNotation, NextNotation, InitHeight, NextHeight, InitValues, NextValues,
           <1>1, PTL DEF Spec
=============================================================================
