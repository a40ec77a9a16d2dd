------------------------- MODULE MCPatternNotation -------------------------
(* Notations for TLC: every condition on at most two bytes of a packet when *)
(* there is one condition, a few of each truth when there are more.         *)
EXTENDS PatternNotation

MCByte == 0 .. 2
Strings(n) == [1 .. n -> MCByte]

\* The numbers of values a condition may have: one range, two, or as many as
\* a count says.
Factors(type) ==
    CASE type \in {"RANGE", "NRANGE"} -> {2}
      [] type \in {"SELECTION", "NSELECTION"} -> {0, 1, 2}
      [] OTHER -> {1}

Condition(type, first, last, n, vals) ==
    [type |-> type, start_range |-> first, end_range |-> last, num_vals |-> n,
     vals |-> vals]

ConditionsOf(type, first, last) ==
    UNION {{Condition(type, first, last, n, v) :
              v \in Strings(IF first < last THEN n * (last - first) ELSE 0)}
             : n \in Factors(type)}

AllConditions ==
    UNION {ConditionsOf(type, first, last) :
             type \in ConditionTypes, first \in 0 .. 2, last \in 0 .. 2}

FewConditions ==
    {Condition("FIXED", 0, 1, 1, <<0>>),
     Condition("NRANGE", 1, 2, 2, <<1, 2>>),
     Condition("SELECTION", 0, 1, 2, <<0, 1>>)}

MCOffered ==
    [n \in 0 .. 3 |-> CASE n = 0 -> {}
                        [] n = 1 -> AllConditions
                        [] OTHER -> FewConditions]
MCMaxOps == [n \in 0 .. 3 |-> IF n = 3 THEN 5 ELSE n + 1]
MCPackets == UNION {Strings(n) : n \in 0 .. 2}
=============================================================================
