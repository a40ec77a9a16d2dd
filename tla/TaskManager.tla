---------------------------- MODULE TaskManager ----------------------------
(***************************************************************************)
(* TaskManager (TaskManager/src/task_manager.cpp): five Zephyr work queues, *)
(* one thread each, with a priority per queue.  A task lives in a heap      *)
(* context that its own handler reschedules or deletes.                     *)
(*                                                                         *)
(* Timers, work queues and the scheduler are the kernel's.  A thread with a *)
(* negative priority value is cooperative: in the middle of an item it is   *)
(* not preempted.  Time is counted in ticks.                                *)
(***************************************************************************)
EXTENDS Integers, Sequences, FiniteSets, SequencesExt

CONSTANTS
    Task,         \* the contexts allocated in a behaviour
    NoTask,
    Kind,         \* which function of the TaskManager adds the task
    Class,        \* its Priority
    Period,       \* its delay or interval, in ticks
    NumRepeats,   \* the num_repeats add_work_item_repeating is given
    RepeatLimit   \* number of values of num_repeats, 2^16 in the code

ASSUME TaskAssumption ==
    /\ NoTask \notin Task
    /\ Kind \in [Task -> {"immediate", "delayed", "repeating", "forever"}]
    /\ Class \in [Task -> {"IDLE", "LOW", "MEDIUM", "HIGH", "URGENT"}]
    /\ Period \in [Task -> Nat \ {0}]
    /\ RepeatLimit \in Nat \ {0, 1}
    /\ NumRepeats \in [Task -> 0 .. RepeatLimit - 1]

\* enum class Priority and priority_values.
Priority == {"IDLE", "LOW", "MEDIUM", "HIGH", "URGENT"}

\* Mutant: priority_values in the opposite order.
PriorityValueReversed ==
    [p \in Priority |->
        CASE p = "IDLE" -> -1 [] p = "LOW" -> 0 [] p = "MEDIUM" -> 1
          [] p = "HIGH" -> 2 [] p = "URGENT" -> 3]

PriorityValue ==
    [p \in Priority |->
        CASE p = "IDLE" -> 3 [] p = "LOW" -> 2 [] p = "MEDIUM" -> 1
          [] p = "HIGH" -> 0 [] p = "URGENT" -> -1]

VARIABLES
    context,      \* "none", "live", "freed"
    num_repeats,
    left,         \* ticks until the timer of a task expires, 0 if it has none
    work_queue,   \* the items submitted to each queue
    current,      \* the item the thread of a queue is processing
    at,           \* where in its handler: "func", "count", "delete",
                  \* "done"
    runs          \* how often a task that is not forever has run

vars == <<context, num_repeats, left, work_queue, current, at, runs>>

Forever(c) == Kind[c] = "forever"

Busy(p) == current[p] # NoTask
Ready(p) == Busy(p) \/ work_queue[p] # <<>>

\* The kernel lets the thread of queue p execute.
CanRun(p) ==
    \A q \in Priority \ {p} :
        /\ Busy(q) => PriorityValue[q] >= 0
        /\ Ready(q) => \/ PriorityValue[p] < PriorityValue[q]
                       \/ Busy(p) /\ PriorityValue[p] < 0

Init ==
    /\ context = [c \in Task |-> "none"]
    /\ num_repeats = [c \in Task |-> 0]
    /\ left = [c \in Task |-> 0]
    /\ work_queue = [p \in Priority |-> <<>>]
    /\ current = [p \in Priority |-> NoTask]
    /\ at = [p \in Priority |-> "done"]
    /\ runs = [c \in Task |-> 0]

-----------------------------------------------------------------------------
(* The functions of the TaskManager.                                        *)

NewContext(c) ==
    /\ context[c] = "none"
    /\ context' = [context EXCEPT ![c] = "live"]

\* add_work_item
AddWorkItem(c) ==
    /\ Kind[c] = "immediate"
    /\ NewContext(c)
    /\ work_queue' = [work_queue EXCEPT ![Class[c]] = Append(@, c)]
    /\ UNCHANGED <<num_repeats, left, current, at, runs>>

\* add_task_delayed: the timer is started afresh.
StartTimer(c) == left' = [left EXCEPT ![c] = Period[c]]

\* add_work_item_delayed, add_work_item_repeating, forever_work_item
InitialRepeats(c) ==
    CASE Kind[c] = "delayed" -> 1
      [] Kind[c] = "repeating" -> NumRepeats[c]
      [] OTHER -> 0

AddDelayed(c) ==
    /\ Kind[c] # "immediate"
    /\ NewContext(c)
    /\ num_repeats' = [num_repeats EXCEPT ![c] = InitialRepeats(c)]
    /\ StartTimer(c)
    /\ UNCHANGED <<work_queue, current, at, runs>>

-----------------------------------------------------------------------------
(* The kernel: timers and the threads of the queues.                        *)

Timed == {c \in Task : left[c] > 0}

Expiring == {c \in Task : left[c] = 1}

\* The orders in which the items of queue p may expire with the same tick.
Arrivals(p) == SetToSeqs({c \in Expiring : Class[c] = p})

\* A tick, whether or not the queues have kept up: the timers that expire
\* submit their items, in any order.
Tick ==
    /\ Timed # {}
    /\ left' = [c \in Task |-> IF left[c] > 0 THEN left[c] - 1 ELSE 0]
    /\ LET queues == {Class[c] : c \in Expiring}
           arrivals == [p \in queues |-> Arrivals(p)]
       IN \E arrived \in [queues -> UNION {arrivals[p] : p \in queues}] :
             /\ \A p \in queues : arrived[p] \in arrivals[p]
             /\ work_queue' = [p \in Priority |->
                   IF p \in queues THEN work_queue[p] \o arrived[p]
                                   ELSE work_queue[p]]
    /\ UNCHANGED <<context, num_repeats, current, at, runs>>

Take(p) ==
    /\ ~Busy(p) /\ work_queue[p] # <<>> /\ CanRun(p)
    /\ current' = [current EXCEPT ![p] = Head(work_queue[p])]
    /\ work_queue' = [work_queue EXCEPT ![p] = Tail(@)]
    /\ at' = [at EXCEPT ![p] = "func"]
    /\ UNCHANGED <<context, num_repeats, left, runs>>

\* The handler has returned; the kernel marks the item as no longer running.
Finish(p) ==
    /\ Busy(p) /\ at[p] = "done" /\ CanRun(p)
    /\ current' = [current EXCEPT ![p] = NoTask]
    /\ UNCHANGED <<context, num_repeats, left, work_queue, at, runs>>

-----------------------------------------------------------------------------
(* TaskHandler_Immidiate and TaskHandler_Delayed.                           *)

At(p, step) == Busy(p) /\ at[p] = step /\ CanRun(p)

GoTo(p, step) == at' = [at EXCEPT ![p] = step]

\* Mutant: the timer is started before the function runs.
RunFuncTimerFirst(p) ==
    /\ At(p, "func")
    /\ LET c == current[p] IN
          /\ runs' = IF Forever(c) THEN runs ELSE [runs EXCEPT ![c] = @ + 1]
          /\ IF Kind[c] = "immediate" THEN GoTo(p, "delete") /\ UNCHANGED left
                                      ELSE GoTo(p, "count") /\ StartTimer(c)
    /\ UNCHANGED <<context, num_repeats, work_queue, current>>

RunFunc(p) ==
    /\ At(p, "func")
    /\ LET c == current[p] IN
          /\ runs' = IF Forever(c) THEN runs ELSE [runs EXCEPT ![c] = @ + 1]
          /\ GoTo(p, IF Kind[c] = "immediate" THEN "delete" ELSE "count")
    /\ UNCHANGED <<context, num_repeats, left, work_queue, current>>

\* Mutant: num_repeats is signed.
DecrementSigned(n) == n - 1

\* num_repeats--
Decrement(n) == IF n = 0 THEN RepeatLimit - 1 ELSE n - 1

Counted(c) == num_repeats' = [num_repeats EXCEPT ![c] = Decrement(@)]

\* Mutant: num_repeats >= 0.
RunsAgainAlways(c) == Forever(c) \/ num_repeats'[c] >= 0

RunsAgain(c) == Forever(c) \/ num_repeats'[c] > 0

Reschedule(p) ==
    /\ At(p, "count")
    /\ Counted(current[p])
    /\ RunsAgain(current[p])
    /\ StartTimer(current[p])
    /\ GoTo(p, "done")
    /\ UNCHANGED <<context, work_queue, current, runs>>

\* Mutant: TaskHandler_Delayed does not delete its context.
DeleteImmediateOnly(p) ==
    /\ \/ At(p, "delete") /\ UNCHANGED num_repeats
       \/ At(p, "count") /\ Counted(current[p]) /\ ~RunsAgain(current[p])
    /\ context' = IF at[p] = "delete"
                     THEN [context EXCEPT ![current[p]] = "freed"] ELSE context
    /\ GoTo(p, "done")
    /\ UNCHANGED <<left, work_queue, current, runs>>

Delete(p) ==
    /\ \/ At(p, "delete") /\ UNCHANGED num_repeats
       \/ At(p, "count") /\ Counted(current[p]) /\ ~RunsAgain(current[p])
    /\ context' = [context EXCEPT ![current[p]] = "freed"]
    /\ GoTo(p, "done")
    /\ UNCHANGED <<left, work_queue, current, runs>>

Worker(p) ==
    Take(p) \/ RunFunc(p) \/ Reschedule(p) \/ Delete(p) \/ Finish(p)

Next ==
    \/ \E c \in Task : AddWorkItem(c) \/ AddDelayed(c)
    \/ Tick
    \/ \E p \in Priority : Worker(p)

\* Time passes, and a thread the kernel lets execute does.
Fairness == WF_vars(Tick) /\ \A p \in Priority : WF_vars(Worker(p))

Spec == Init /\ [][Next]_vars

FairSpec == Spec /\ Fairness

-----------------------------------------------------------------------------
(* Properties *)

TypeOK ==
    /\ context \in [Task -> {"none", "live", "freed"}]
    /\ num_repeats \in [Task -> 0 .. RepeatLimit - 1]
    /\ left \in [Task -> Nat]
    /\ work_queue \in [Priority -> Seq(Task)]
    /\ current \in [Priority -> Task \cup {NoTask}]
    /\ at \in [Priority -> {"func", "count", "delete", "done"}]
    /\ runs \in [Task -> Nat]

\* How often a task that is not forever is to run; a repeat count of 0 wraps
\* around when it is decremented.
Target(c) ==
    CASE Kind[c] \in {"immediate", "delayed"} -> 1
      [] OTHER -> IF NumRepeats[c] = 0 THEN RepeatLimit ELSE NumRepeats[c]

\* A task runs exactly as often as asked, and its context is freed only then.
RunsAsAsked ==
    \A c \in Task :
        ~Forever(c) => /\ runs[c] <= Target(c)
                       /\ context[c] = "freed" => runs[c] = Target(c)

\* The thread of its queue is in the handler of c and has not deleted it.
Held(c) == current[Class[c]] = c /\ at[Class[c]] # "done"

\* An item is in the list of its queue, on its timer or in the hands of its
\* thread, in only one of these and never twice in the list.  A freed one is in
\* none, so no thread starts or goes on with a deleted context.
PendingOnce ==
    \A c \in Task :
        LET queued == {i \in DOMAIN work_queue[Class[c]] :
                          work_queue[Class[c]][i] = c}
        IN  /\ Cardinality(queued) + (IF left[c] > 0 THEN 1 ELSE 0)
                  + (IF Held(c) THEN 1 ELSE 0) <= 1
            /\ context[c] # "live" => queued = {} /\ left[c] = 0 /\ ~Held(c)

Started(c) == current[Class[c]] = c /\ at[Class[c]] = "func"

AllIdle == \A p \in Priority : ~Ready(p)

\* As long as the queues keep up, running dry again and again, every task
\* added gets to run as often as asked, and forever if so asked.
EveryTaskServed ==
    []<>AllIdle =>
        \A c \in Task :
            context[c] = "live" ~> (IF Forever(c) THEN Started(c)
                                                  ELSE context[c] = "freed")

\* However little time the queues leave, the URGENT ones go on being served.
UrgentServed ==
    \A c \in Task :
        Class[c] = "URGENT" /\ Forever(c) =>
            []<>(context[c] = "none" \/ Started(c))
=============================================================================
