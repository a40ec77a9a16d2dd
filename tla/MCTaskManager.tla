--------------------------- MODULE MCTaskManager ---------------------------
(* Tasks for TLC: the validation handler and the pattern thread as main.cpp *)
(* sets them up, and one task of every other kind.                          *)
EXTENDS TaskManager

CONSTANTS handler, pattern, wrapping, later, once

Tasks == {handler, pattern, wrapping, later, once}

KindOf ==
    [c \in Task |-> CASE c \in {handler, pattern} -> "forever"
                      [] c = wrapping -> "repeating"
                      [] c = later -> "delayed"
                      [] OTHER -> "immediate"]
ClassOf ==
    [c \in Task |-> CASE c = handler -> "URGENT"
                      [] c \in {pattern, once} -> "MEDIUM"
                      [] c = wrapping -> "HIGH"
                      [] OTHER -> "LOW"]
PeriodOf == [c \in Task |-> IF c = later THEN 2 ELSE 1]
RepeatsOf == [c \in Task |-> 0]
=============================================================================
