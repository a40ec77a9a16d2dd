------------------------------ MODULE LogQueue ------------------------------
(***************************************************************************)
(* The logger (Logger/include/logger.h): a ring of entries behind a mutex, *)
(* CQueue_concurrent_MPMC, into which everyone logs with displace and out  *)
(* of which the shell prints with pop, one lock per operation.             *)
(*                                                                         *)
(* displace advances back on every entry and writes at front, so only the  *)
(* newest entry has a place that is sure to last; pop starts with it.      *)
(*                                                                         *)
(* MutexLock assigns the mutex to itself before it locks it.  The project  *)
(* is built without optimisation, so that the mutex is read and written    *)
(* back: whatever others did to it in between is undone.                   *)
(***************************************************************************)
EXTENDS Integers, Sequences, FiniteSets

CONSTANTS
    Capacity,   \* max_entries
    Priority,   \* the priority of each thread: a lesser number is more
                \* urgent, one with a negative number is cooperative
    Printers,   \* the thread that prints the log
    Scenarios,  \* which threads use the log, and whether interrupts do
    MaxLogged   \* bound: no entry is begun after so many

Threads == DOMAIN Priority
NoThread == "none"

\* Threads of one priority would take turns, and two printers would have a
\* log_store each: neither is modelled.
ASSUME LogAssumption ==
    /\ Capacity \in Nat \ {0} /\ MaxLogged \in Nat
    /\ Priority \in [Threads -> Int] /\ NoThread \notin Threads
    /\ \A t, u \in Threads : Priority[t] = Priority[u] => t = u
    /\ Printers \subseteq Threads /\ \A t, u \in Printers : t = u
    /\ Scenarios \subseteq [threads : SUBSET Threads, interrupts : BOOLEAN]

Index == 0 .. Capacity - 1
NoEntry == 0       \* LogEntry(): no message
FreeMutex == [owner |-> NoThread, count |-> 0, prio |-> 0, waiting |-> {}]

VARIABLES
    scenario,
    front_ind, back_ind, queue,  \* CQueue_concurrent_MPMC
    mutex,      \* its k_mutex: prio is owner_orig_prio
    prio,       \* the present priority of each thread, inherited or its own
    pc, op,     \* where each thread is, and in which operation
    copied,     \* the mutex as MutexLock has read it
    log_store,  \* the entries the present print has popped
    found,      \* the last pop of it had a value
    shown,      \* the newest entry ever popped
    nLogged,    \* entries logged: the n-th is n
    nUnread,    \* entries logged less those popped, at most Capacity - 1
    disturbed   \* an interrupt came while the mutex was held

ringVars == <<front_ind, back_ind, queue, nLogged, nUnread>>
lockVars == <<mutex, prio, copied>>
printVars == <<log_store, found, shown>>
vars == <<scenario, ringVars, lockVars, printVars, pc, op, disturbed>>

Init ==
    /\ scenario \in Scenarios
    /\ front_ind = 0 /\ back_ind = 0 /\ queue = [i \in Index |-> NoEntry]
    /\ mutex = FreeMutex /\ prio = Priority
    /\ pc = [t \in Threads |-> "idle"] /\ op = [t \in Threads |-> "log"]
    /\ copied = [t \in Threads |-> FreeMutex]
    /\ log_store = <<>> /\ found = FALSE /\ shown = NoEntry
    /\ nLogged = 0 /\ nUnread = 0 /\ disturbed = FALSE

-----------------------------------------------------------------------------
(* Threads of one core: the most urgent that is ready executes, unless a    *)
(* cooperative one is under way.                                            *)

Ready(t) == pc[t] \notin {"idle", "pending"}

CanRun(t) ==
    /\ ~disturbed
    /\ \A u \in Threads \ {t} : Ready(u) => prio[t] < prio[u] /\ prio[u] >= 0

Go(t, from, to) ==
    /\ pc[t] = from
    /\ CanRun(t)
    /\ pc' = [pc EXCEPT ![t] = to]

\* log: add_entry and displace begin.
CallLog(t) ==
    /\ t \in scenario.threads /\ nLogged < MaxLogged
    /\ Go(t, "idle", "load")
    /\ op' = [op EXCEPT ![t] = "log"]
    /\ UNCHANGED <<ringVars, lockVars, printVars>>

\* logger print: get_entries begins.
CallPrint(t) ==
    /\ t \in scenario.threads \cap Printers
    /\ Go(t, "idle", "load")
    /\ op' = [op EXCEPT ![t] = "pop"]
    /\ log_store' = <<>>
    /\ UNCHANGED <<ringVars, lockVars, found, shown>>

-----------------------------------------------------------------------------
(* MutexLock, and the kernel's mutex under it *)

\* this->mtx = mtx: read ...
CopyLoad(t) ==
    /\ Go(t, "load", "store")
    /\ copied' = [copied EXCEPT ![t] = mutex]
    /\ UNCHANGED <<ringVars, mutex, prio, printVars, op>>

\* ... and written back.
CopyStore(t) ==
    /\ Go(t, "store", "lock")
    /\ mutex' = copied[t]
    /\ UNCHANGED <<ringVars, prio, copied, printVars, op>>

\* Mutant: MutexLock does not lock.
AcquireUnchecked(t) ==
    /\ Go(t, "lock", "enter")
    /\ mutex' = [mutex EXCEPT !.owner = t, !.count = @ + 1]
    /\ UNCHANGED <<ringVars, prio, copied, printVars, op>>

Acquire(t) ==
    /\ mutex.count = 0 \/ mutex.owner = t
    /\ Go(t, "lock", "enter")
    /\ mutex' = [mutex EXCEPT !.owner = t, !.count = @ + 1,
                              !.prio = IF mutex.count = 0 THEN prio[t] ELSE @]
    /\ UNCHANGED <<ringVars, prio, copied, printVars, op>>

\* K_FOREVER, and the owner inherits a greater priority.
Pend(t) ==
    /\ mutex.count > 0 /\ mutex.owner # t
    /\ Go(t, "lock", "pending")
    /\ mutex' = [mutex EXCEPT !.waiting = @ \cup {t}]
    /\ prio' = [prio EXCEPT ![mutex.owner] = IF prio[t] < @ THEN prio[t] ELSE @]
    /\ UNCHANGED <<ringVars, copied, printVars, op>>

\* Mutant: get_entries asks for max_entries whether there are so many or not.
AfterUnlockFull(t) ==
    IF op[t] = "pop" /\ Len(log_store) < Capacity THEN "load" ELSE "idle"

\* get_entries goes on while there is a value, up to max_entries of them.
AfterUnlock(t) ==
    IF op[t] = "pop" /\ found /\ Len(log_store) < Capacity
      THEN "load" ELSE "idle"

\* ~MutexLock: a nested unlock, one nobody waits for, and one that hands
\* the mutex to the most urgent thread that does.
Unlock(t) ==
    /\ mutex.owner = t
    /\ Go(t, "unlock", AfterUnlock(t))
    /\ mutex.count > 1 \/ mutex.waiting = {}
    /\ mutex' = IF mutex.count > 1 THEN [mutex EXCEPT !.count = @ - 1]
                                   ELSE FreeMutex
    /\ prio' = IF mutex.count > 1 THEN prio
                                  ELSE [prio EXCEPT ![t] = mutex.prio]
    /\ UNCHANGED <<ringVars, copied, printVars, op>>

HandOver(t) ==
    /\ pc[t] = "unlock" /\ CanRun(t)
    /\ mutex.owner = t /\ mutex.count = 1
    /\ \E w \in mutex.waiting :
          /\ \A u \in mutex.waiting : prio[w] <= prio[u]
          /\ mutex' = [owner |-> w, count |-> 1, prio |-> prio[w],
                       waiting |-> mutex.waiting \ {w}]
          /\ pc' = [pc EXCEPT ![t] = AfterUnlock(t), ![w] = "enter"]
    /\ prio' = [prio EXCEPT ![t] = mutex.prio]
    /\ UNCHANGED <<ringVars, copied, printVars, op>>

-----------------------------------------------------------------------------
(* displace and pop, under the lock *)

\* Mutant: the wrap comes one too late.
IncrementLate(i) == IF i < Capacity THEN i + 1 ELSE 0

\* CCount::operator++
Increment(i) == IF i + 1 < Capacity THEN i + 1 ELSE 0

\* Mutant: the entry is written before front is advanced.
DisplacedBehind(f, b) ==
    /\ front_ind' = IF b = f THEN Increment(f) ELSE f
    /\ queue' = [queue EXCEPT ![f] = nLogged + 1]

\* Mutant: the oldest entry is not given up.
DisplacedKeepsFront(f, b) ==
    /\ front_ind' = f
    /\ queue' = [queue EXCEPT ![f] = nLogged + 1]

\* The entry goes to front, which is advanced first when back meets it.
Displaced(f, b) ==
    /\ front_ind' = IF b = f THEN Increment(f) ELSE f
    /\ queue' = [queue EXCEPT ![front_ind'] = nLogged + 1]

CountEntry ==
    /\ nLogged' = nLogged + 1
    /\ nUnread' = IF nUnread < Capacity - 1 THEN nUnread + 1 ELSE nUnread

AdvanceBack(t) ==
    /\ op[t] = "log"
    /\ Go(t, "enter", "inside")
    /\ back_ind' = Increment(back_ind)
    /\ UNCHANGED <<front_ind, queue, nLogged, nUnread, lockVars, printVars, op>>

WriteEntry(t) ==
    /\ op[t] = "log"
    /\ Go(t, "inside", "unlock")
    /\ Displaced(front_ind, back_ind)
    /\ CountEntry
    /\ UNCHANGED <<back_ind, lockVars, printVars, op>>

FindNothing(t) ==
    /\ op[t] = "pop" /\ front_ind = back_ind
    /\ Go(t, "enter", "unlock")
    /\ found' = FALSE
    /\ UNCHANGED <<ringVars, lockVars, log_store, shown, op>>

TakeEntry(t) ==
    /\ op[t] = "pop" /\ front_ind # back_ind
    /\ Go(t, "enter", "inside")
    /\ log_store' = Append(log_store, queue[front_ind])
    /\ found' = TRUE
    /\ shown' = IF queue[front_ind] > shown THEN queue[front_ind] ELSE shown
    /\ UNCHANGED <<ringVars, lockVars, op>>

AdvanceFront(t) ==
    /\ op[t] = "pop"
    /\ Go(t, "inside", "unlock")
    /\ front_ind' = Increment(front_ind)
    /\ nUnread' = nUnread - 1
    /\ UNCHANGED <<back_ind, queue, nLogged, lockVars, printVars, op>>

-----------------------------------------------------------------------------
(* uart_callback as an interrupt.  The kernel locks on behalf of the thread *)
(* it interrupts; what it does when a thread holds the mutex is not defined *)
(* (an interrupt cannot wait), and nothing is said of the log from then on. *)

Inside(t) == pc[t] \in {"enter", "inside", "unlock"}

InterruptLogs ==
    /\ scenario.interrupts /\ nLogged < MaxLogged /\ ~disturbed
    /\ IF \E t \in Threads : Inside(t)
         THEN disturbed' = TRUE /\ UNCHANGED ringVars
         ELSE /\ back_ind' = Increment(back_ind)
              /\ Displaced(front_ind, back_ind')
              /\ CountEntry
              /\ UNCHANGED disturbed
    /\ UNCHANGED <<lockVars, printVars, pc, op>>

Proceed(t) ==
    /\ \/ CopyLoad(t) \/ CopyStore(t)
       \/ Acquire(t) \/ Pend(t) \/ Unlock(t) \/ HandOver(t)
       \/ AdvanceBack(t) \/ WriteEntry(t)
       \/ FindNothing(t) \/ TakeEntry(t) \/ AdvanceFront(t)
    /\ UNCHANGED <<scenario, disturbed>>

Begin(t) == (CallLog(t) \/ CallPrint(t)) /\ UNCHANGED <<scenario, disturbed>>

Next ==
    \/ \E t \in Threads : Begin(t) \/ Proceed(t)
    \/ InterruptLogs /\ UNCHANGED scenario

\* A thread that the scheduler lets execute does.
Spec == Init /\ [][Next]_vars /\ \A t \in Threads : WF_vars(Proceed(t))

-----------------------------------------------------------------------------
(* Properties *)

TypeOK ==
    /\ scenario \in Scenarios
    /\ front_ind \in Index /\ back_ind \in Index
    /\ queue \in [Index -> 0 .. nLogged]
    /\ mutex.owner \in Threads \cup {NoThread} /\ mutex.count \in Nat
    /\ mutex.waiting \subseteq Threads
    /\ prio \in [Threads -> Int]
    /\ pc \in [Threads -> {"idle", "load", "store", "lock", "pending",
                           "enter", "inside", "unlock"}]
    /\ op \in [Threads -> {"log", "pop"}]
    /\ log_store \in Seq(0 .. nLogged) /\ Len(log_store) <= Capacity
    /\ found \in BOOLEAN /\ shown \in 0 .. nLogged /\ disturbed \in BOOLEAN
    /\ nUnread \in 0 .. Capacity - 1

\* At most one thread is between lock and unlock, although a mutex that is
\* written back may be one that was read before others locked it.
OneInside == Cardinality({t \in Threads : Inside(t)}) <= 1

\* However many threads log and wherever they are preempted, the indices are
\* as far apart as one for each entry logged, up to Capacity - 1, less one for
\* each pop.  Entries that displace has overwritten in their slots are counted
\* all the same.
UnreadCounted ==
    ~disturbed /\ (\A t \in Threads : ~Inside(t))
        => nUnread = IF front_ind <= back_ind
                       THEN back_ind - front_ind
                       ELSE back_ind + Capacity - front_ind

\* The last entry logged is never lost: the next pop, in the same print or a
\* later one, takes it (what the pops after that take may be anything older).
NewestNext ==
    [][Len(log_store') > Len(log_store) => shown' = nLogged]_vars

\* Two threads that may be preempted in the middle of MutexLock use the log.
TwoPreemptible ==
    \E t, u \in scenario.threads :
        t # u /\ Priority[t] >= 0 /\ Priority[u] >= 0

\* Whoever logs or prints gets through, as long as only one of the threads
\* that do is preemptible: what it writes back is then never stale.
EveryCallReturns ==
    ~TwoPreemptible =>
        \A t \in Threads : pc[t] # "idle" ~> (pc[t] = "idle" \/ disturbed)
=============================================================================
