---------------------------- MODULE MCSpscQueue ----------------------------
(* The values TLC gives the constants of SpscQueue.                        *)
EXTENDS SpscQueue

\* process_queue: the producer is the cooperative thread of the URGENT queue,
\* the consumer the preemptible one of the MEDIUM queue.
Deployed == [cooperative |-> {"producer"}, overwrites |-> {FALSE}]

\* A queue whose oldest value may be overwritten, between two such threads.
Displacing == [cooperative |-> {"producer", "consumer"}, overwrites |-> BOOLEAN]

BothUses == {Deployed, Displacing}
=============================================================================
