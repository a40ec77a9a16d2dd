--------------------------- MODULE PatternMeaning ---------------------------
(***************************************************************************)
(* What a pattern means, stated without the algorithms that compile and    *)
(* match it: a condition compares a range of the packet with values, and a *)
(* pattern is a formula over its conditions in postfix notation.           *)
(***************************************************************************)
EXTENDS Naturals, Sequences, FiniteSets

-----------------------------------------------------------------------------
(* Conditions.  vals is cut in values as long as the range.                 *)

Covers(data, c) == c.start_range <= c.end_range /\ c.end_range <= Len(data)

ValueAt(c, k) ==
    LET size == c.end_range - c.start_range
    IN SubSeq(c.vals, (k - 1) * size + 1, k * size)

ValuesOf(c) ==
    {ValueAt(c, k) : k \in 1 .. Len(c.vals) \div (c.end_range - c.start_range)}

\* s comes before t in the order of a dictionary, or equals it.
NotAfter(s, t) ==
    \/ s = t
    \/ \E i \in 1 .. Len(s) :
         s[i] < t[i] /\ SubSeq(s, 1, i - 1) = SubSeq(t, 1, i - 1)

\* The packet satisfies a condition with a range that is not empty.
Satisfies(data, c) ==
    /\ Covers(data, c)
    /\ LET part == SubSeq(data, c.start_range + 1, c.end_range)
           between == NotAfter(ValueAt(c, 1), part) /\ NotAfter(part, ValueAt(c, 2))
       IN \/ c.type = "FIXED"      /\ part = ValueAt(c, 1)
          \/ c.type = "NFIXED"     /\ part # ValueAt(c, 1)
          \/ c.type = "RANGE"      /\ between
          \/ c.type = "NRANGE"     /\ ~ between
          \/ c.type = "SELECTION"  /\ part \in ValuesOf(c)
          \/ c.type = "NSELECTION" /\ part \notin ValuesOf(c)

-----------------------------------------------------------------------------
(* Formulas.  A part i .. j of a postfix notation is a formula when it is a *)
(* PUSH, or two formulas followed by an operation that is not.              *)

Spans(ops) == (1 .. Len(ops)) \X (1 .. Len(ops))

FormulaAt(ops) ==
    LET F[span \in Spans(ops)] ==
          LET i == span[1]
              j == span[2]
          IN \/ i = j /\ ops[j] = "PUSH"
             \/ /\ ops[j] # "PUSH"
                /\ \E k \in i .. j - 2 : F[<<i, k>>] /\ F[<<k + 1, j - 1>>]
    IN F

IsFormula(ops) == ops # <<>> /\ FormulaAt(ops)[<<1, Len(ops)>>]

\* One or more formulas, one after the other: what a formula may begin with.
BeginningAt(ops) ==
    LET F == FormulaAt(ops)
        B[j \in 0 .. Len(ops)] ==
          j = 0 \/ \E k \in 1 .. j : B[k - 1] /\ F[<<k, j>>]
    IN B

IsBeginning(ops) == ops # <<>> /\ BeginningAt(ops)[Len(ops)]

Combine(op, left, right) ==
    CASE op = "OR"   -> left \/ right
      [] op = "AND"  -> left /\ right
      [] op = "NOR"  -> ~ (left \/ right)
      [] op = "NAND" -> ~ (left /\ right)
      [] op = "XOR"  -> left # right
      [] op = "XNOR" -> left = right
      [] OTHER       -> left          \* a byte that names no operation

\* The PUSHes up to a place.
Pushes(ops, j) == Cardinality({i \in 1 .. j : ops[i] = "PUSH"})

\* The truth of a formula, when the n-th PUSH stands for truth[n].
TruthAt(ops, truth) ==
    LET F == FormulaAt(ops)
        T[span \in Spans(ops)] ==
          LET i == span[1]
              j == span[2]
          IN IF i = j THEN truth[Pushes(ops, j)]
             ELSE \E k \in i .. j - 2 :
                    /\ F[<<i, k>>] /\ F[<<k + 1, j - 1>>]
                    /\ Combine(ops[j], T[<<i, k>>], T[<<k + 1, j - 1>>])
    IN T

Truth(ops, truth) == TruthAt(ops, truth)[<<1, Len(ops)>>]
=============================================================================
