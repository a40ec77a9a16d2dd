----------------------------- MODULE MCLogQueue -----------------------------
(* The values TLC gives the constants of LogQueue.                         *)
EXTENDS LogQueue

\* The thread in which the driver of native_sim calls back, the URGENT and
\* the MEDIUM work queue, and the shell.  The main thread logs once, before
\* it first sleeps and the shell executes at all.
Priorities == [uart |-> -16, urgent |-> -1, medium |-> 1, shell |-> 14]
Shell == {"shell"}

\* The firmware on native_sim, and on hardware, where the driver calls back
\* in an interrupt; and with the processing task of StatTracker, which logs.
NativeSim == [threads |-> {"uart", "urgent", "shell"}, interrupts |-> FALSE]
Hardware == [threads |-> {"urgent", "shell"}, interrupts |-> TRUE]
Processing == [threads |-> {"urgent", "medium", "shell"}, interrupts |-> FALSE]

All == {NativeSim, Hardware, Processing}
=============================================================================
