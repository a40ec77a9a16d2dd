--------------------------- MODULE MCStatTracker ---------------------------
(* The values TLC gives the constants of StatTracker.                      *)
EXTENDS StatTracker

NUL == "NUL"

\* A name of a single character, and a longer one that it is the beginning of.
SomeNames == {<<"a", NUL>>, <<"a", "b", NUL>>}

InUse(caller, slots, processing) ==
    [caller |-> caller, slots |-> slots, processing |-> processing,
     command |-> <<"d", "e", NUL>>]

\* The firmware has no slots and no processing; the rest of the class is
\* written for both, and for callers other than the shell.
AllUses ==
    {InUse("shell", 0, FALSE), InUse("shell", 2, TRUE),
     InUse("direct", 0, FALSE), InUse("direct", 2, FALSE),
     InUse("direct", 2, TRUE)}
=============================================================================
