--------------------------- MODULE MCLinkedDeque ---------------------------
(* The deque looks at no value it holds: exchanging two of them in a        *)
(* behaviour gives a behaviour.                                             *)
EXTENDS LinkedDeque

CONSTANTS v1, v2

MCValues == {v1, v2}
ValueSymmetry == Permutations(MCValues)
=============================================================================
