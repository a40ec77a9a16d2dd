--------------------------- MODULE LogQueueProofs ---------------------------
(***************************************************************************)
(* Theorems about the logger, for every capacity, every set of cooperative *)
(* threads, and at most two preemptible ones.  With a third the mutex does *)
(* not exclude: one that preempts in the middle of MutexLock writes back a *)
(* mutex that another has released and the third has locked since.         *)
(***************************************************************************)
EXTENDS LogQueue, SequenceTheorems, FiniteSetTheorems, TLAPS

Preemptible(t) == Priority[t] >= 0

\* No more than two of the threads that use the log may be preempted.
FewPreemptible ==
    \A s \in Scenarios : \A t, u, v \in s.threads :
        Preemptible(t) /\ Preemptible(u) /\ Preemptible(v)
            => t = u \/ u = v \/ t = v

\* Where a thread may be.
Places == {"idle", "load", "store", "lock", "pending",
           "enter", "inside", "unlock"}

Mutexes == [owner : Threads \cup {NoThread}, count : Nat, prio : Int,
            waiting : SUBSET Threads]

\* The mutex when t has it and nobody waits.
HeldBy(t) ==
    [owner |-> t, count |-> 1, prio |-> Priority[t], waiting |-> {}]

-----------------------------------------------------------------------------
(* The inductive invariant of the lock *)

\* A cooperative thread is not preempted, so what it has read is not stale.
Cooperative ==
    \A t \in Threads : ~Preemptible(t) =>
        /\ prio[t] < 0
        /\ pc[t] = "store" => copied[t] = mutex

LockTypeOK ==
    /\ scenario \in Scenarios
    /\ mutex \in Mutexes /\ copied \in [Threads -> Mutexes]
    /\ prio \in [Threads -> Int]
    /\ pc \in [Threads -> Places]
    /\ \A t \in Threads : pc[t] # "idle" => t \in scenario.threads
    /\ Cooperative

\* Whoever is inside owns the mutex, once, and nobody else does.
Owned ==
    /\ \A t \in Threads : Inside(t) => mutex.owner = t
    /\ \/ mutex = FreeMutex
       \/ /\ mutex.owner \in Threads /\ Inside(mutex.owner)
          /\ mutex.count = 1 /\ mutex.prio = Priority[mutex.owner]

\* The owner has the priority of the most urgent that waits, the others have
\* their own.
Inherited ==
    \A t \in Threads :
        IF t = mutex.owner
          THEN /\ prio[t] <= Priority[t]
               /\ \A u \in mutex.waiting : prio[t] <= Priority[u]
          ELSE prio[t] = Priority[t]

Waiting ==
    /\ \A t \in Threads : pc[t] = "pending" <=> t \in mutex.waiting
    /\ \A t, u \in Threads :
          Preemptible(t) /\ Preemptible(u) /\ t # u /\ pc[t] = "pending"
              => pc[u] \notin {"store", "lock", "pending"}

\* What a preemptible t is about to write back: the mutex nobody had, and who
\* has it now is more urgent; or the mutex that a less urgent u had, and u has
\* it still or has not come back for it.
ReadFree(t) ==
    /\ copied[t] = FreeMutex
    /\ \A u \in Threads :
          Preemptible(u) /\ Inside(u) => Priority[u] < Priority[t]
ReadHeld(t) ==
    \E u \in Threads :
        /\ u \in scenario.threads
        /\ Preemptible(u) /\ Priority[t] < Priority[u]
        /\ copied[t] = HeldBy(u)
        /\ Inside(u) \/ pc[u] \in {"idle", "load"}
Read ==
    \A t \in Threads :
        Preemptible(t) /\ pc[t] = "store" => ReadFree(t) \/ ReadHeld(t)

Sound == Owned /\ Inherited /\ Waiting /\ Read

\* A stale mutex has been written back: x, who had it when it was read, owns
\* it for good, whether x is inside or not, and all others wait for ever.
Orphaned(x) ==
    /\ Preemptible(x) /\ mutex.owner = x
    /\ mutex.count >= IF Inside(x) THEN 2 ELSE 1
    /\ \A t \in Threads : Inside(t) => t = x
    /\ pc[x] = "store" => copied[x].owner = x /\ copied[x].count >= 1
    /\ \A t \in scenario.threads :
          Preemptible(t) /\ t # x => pc[t] \in {"lock", "pending"}

LockInv == LockTypeOK /\ (Sound \/ \E x \in Threads : Orphaned(x))

-----------------------------------------------------------------------------
(* The inductive invariant of the ring *)

\* How far b is before f.
Distance(f, b) == IF f <= b THEN b - f ELSE b + Capacity - f
Unread == Distance(front_ind, back_ind)

\* The type of what the lock protects, and of what the print has.
RingTypeOK ==
    /\ front_ind \in Index /\ back_ind \in Index
    /\ nLogged \in Nat /\ queue \in [Index -> 0 .. nLogged]
    /\ nUnread \in 0 .. Capacity - 1
    /\ op \in [Threads -> {"log", "pop"}]
    /\ log_store \in Seq(0 .. nLogged) /\ Len(log_store) <= Capacity
    /\ found \in BOOLEAN /\ shown \in 0 .. nLogged /\ disturbed \in BOOLEAN

\* Between their two steps displace has advanced back and has not counted the
\* entry, and pop has taken the newest and has not given it up.
Between(t) ==
    IF op[t] = "log"
      THEN nUnread = IF front_ind = back_ind THEN Capacity - 1 ELSE Unread - 1
      ELSE nUnread = Unread /\ front_ind # back_ind /\ shown = nLogged

Counted ==
    /\ \A t \in Threads : pc[t] = "inside" => Between(t)
    /\ (\A t \in Threads : pc[t] # "inside") => nUnread = Unread
    /\ shown = nLogged \/ queue[front_ind] = nLogged

\* There is room in log_store for the entry that a pop under way takes.
Room ==
    \A t \in Threads : op[t] = "pop" =>
        /\ t \in Printers
        /\ pc[t] \in {"load", "store", "lock", "pending", "enter"}
               => Len(log_store) < Capacity

LogInv == LockInv /\ RingTypeOK /\ Counted /\ Room

-----------------------------------------------------------------------------
(* The lock: each step preserves LockInv. *)

\* When t runs, no other thread that is ready is cooperative or more urgent.
LEMMA RunsAlone ==
    ASSUME LockTypeOK, NEW t \in Threads, CanRun(t),
           NEW u \in Threads, u # t, pc[u] \notin {"idle", "pending"}
    PROVE  /\ Preemptible(u) /\ prio[t] < prio[u] /\ prio[u] >= 0
           /\ ~Preemptible(t) => prio[t] < 0
<1>1. prio[t] < prio[u] /\ prio[u] >= 0
  BY DEF CanRun, Ready
<1>2. prio[u] \in Int /\ (~Preemptible(u) => prio[u] < 0)
  BY DEF LockTypeOK, Cooperative
<1> QED
  BY <1>1, <1>2 DEF LockTypeOK, Cooperative

\* Of three preemptible threads that are under way two are the same.
LEMMA NoThird ==
    ASSUME LogAssumption, FewPreemptible, LockTypeOK,
           NEW t \in Threads, NEW u \in Threads, NEW v \in Threads,
           Preemptible(t), Preemptible(u), Preemptible(v),
           t \in scenario.threads, u \in scenario.threads,
           v \in scenario.threads
    PROVE  t = u \/ u = v \/ t = v
BY DEF FewPreemptible, LockTypeOK

\* What the steps that only move a thread, outside the lock or within it,
\* have in common.
Moved(t, from, to) ==
    /\ pc[t] = from /\ pc' = [pc EXCEPT ![t] = to]
    /\ t \in scenario.threads
    /\ UNCHANGED <<scenario, lockVars>>

\* The type and the cooperative threads, when a thread moves.
LEMMA MovedType ==
    ASSUME LockTypeOK, NEW t \in Threads, NEW from, NEW to \in Places,
           Moved(t, from, to), to # "store"
    PROVE  LockTypeOK'
BY DEF LockTypeOK, Cooperative, Moved, Places, lockVars, Preemptible

\* A thread begins an operation.
LEMMA BeginKeepsSound ==
    ASSUME LockTypeOK, Sound, NEW t \in Threads, Moved(t, "idle", "load")
    PROVE  Sound'
<1> USE DEF Moved, lockVars
<1>1. \A u \in Threads : (Inside(u)' <=> Inside(u)) /\ (pc'[u] = pc[u] \/ u = t)
  BY DEF Inside, LockTypeOK
<1>2. Owned'
  BY <1>1 DEF Sound, Owned
<1>3. Inherited'
  BY DEF Sound, Inherited
<1>4. Waiting'
  BY <1>1 DEF Sound, Waiting, LockTypeOK
<1>5. Read'
  BY <1>1 DEF Sound, Read, ReadFree, ReadHeld, LockTypeOK
<1> QED
  BY <1>2, <1>3, <1>4, <1>5 DEF Sound

\* A thread moves on inside.
LEMMA InsideKeepsSound ==
    ASSUME LockTypeOK, Sound, NEW t \in Threads, NEW from, NEW to,
           Moved(t, from, to), from \in {"enter", "inside"},
           to \in {"inside", "unlock"}
    PROVE  Sound'
<1> USE DEF Moved, lockVars
<1>1. \A u \in Threads : (Inside(u)' <=> Inside(u)) /\ (pc'[u] = pc[u] \/ u = t)
  BY DEF Inside, LockTypeOK
<1>2. Owned'
  BY <1>1 DEF Sound, Owned
<1>3. Inherited'
  BY DEF Sound, Inherited
<1>4. Waiting'
  BY <1>1 DEF Sound, Waiting, LockTypeOK
<1>5. Read'
  BY <1>1 DEF Sound, Read, ReadFree, ReadHeld, LockTypeOK
<1> QED
  BY <1>2, <1>3, <1>4, <1>5 DEF Sound

\* Whoever is orphaned stays so when a thread moves.
LEMMA MovedKeepsOrphaned ==
    ASSUME LockTypeOK, NEW x \in Threads, Orphaned(x),
           NEW t \in Threads, NEW from, NEW to, Moved(t, from, to),
           \/ from = "idle" /\ to = "load"
           \/ from \in {"enter", "inside"} /\ to \in {"inside", "unlock"}
    PROVE  Orphaned(x)'
<1> USE DEF Moved, lockVars
<1>1. \A u \in Threads : (Inside(u)' <=> Inside(u)) /\ (pc'[u] = pc[u] \/ u = t)
  BY DEF Inside, LockTypeOK
<1> QED
  BY <1>1 DEF Orphaned, LockTypeOK, Inside

\* MutexLock reads the mutex.
LEMMA CopyLoadType ==
    ASSUME LockTypeOK, NEW t \in Threads, CopyLoad(t), UNCHANGED scenario
    PROVE  LockTypeOK'
<1>1. \A u \in Threads : u # t /\ pc[u] = "store" => Preemptible(u)
  BY RunsAlone DEF CopyLoad, Go
<1>2. pc' = [pc EXCEPT ![t] = "store"] /\ pc[t] = "load"
  BY DEF CopyLoad, Go
<1>3. copied' = [copied EXCEPT ![t] = mutex] /\ UNCHANGED <<mutex, prio>>
  BY DEF CopyLoad
<1>4. Cooperative'
  BY <1>1, <1>2, <1>3 DEF LockTypeOK, Cooperative, Preemptible
<1> QED
  BY <1>2, <1>3, <1>4 DEF LockTypeOK, Places

LEMMA CopyLoadKeepsSound ==
    ASSUME LogAssumption, FewPreemptible, LockTypeOK, Sound,
           NEW t \in Threads, CopyLoad(t), UNCHANGED scenario
    PROVE  Sound'
<1>1. pc' = [pc EXCEPT ![t] = "store"] /\ pc[t] = "load" /\ CanRun(t)
  BY DEF CopyLoad, Go
<1>2. copied' = [copied EXCEPT ![t] = mutex] /\ UNCHANGED <<mutex, prio>>
  BY DEF CopyLoad
<1>3. \A u \in Threads : (Inside(u)' <=> Inside(u)) /\ (pc'[u] = pc[u] \/ u = t)
  BY <1>1 DEF Inside, LockTypeOK
<1>4. ~Inside(t) /\ mutex.owner # t
  BY <1>1, NoThread \notin Threads DEF Inside, Sound, Owned, FreeMutex, LogAssumption
<1>5. \A u \in Threads : Inside(u) => Preemptible(u) /\ prio[t] < Priority[u]
  <2> SUFFICES ASSUME NEW u \in Threads, Inside(u)
               PROVE  Preemptible(u) /\ prio[t] < Priority[u]
    OBVIOUS
  <2>1. Preemptible(u) /\ prio[t] < prio[u]
    BY <1>1, <1>4, RunsAlone DEF Inside
  <2>2. prio[u] <= Priority[u]
    BY DEF Sound, Inherited, Owned
  <2> QED
    BY <2>1, <2>2 DEF LockTypeOK, LogAssumption
<1>6. Owned'
  BY <1>2, <1>3 DEF Sound, Owned
<1>7. Inherited'
  BY <1>2 DEF Sound, Inherited
<1>8. ASSUME NEW u \in Threads, pc[u] = "pending"
      PROVE  Inside(mutex.owner) /\ mutex.owner \in Threads
             /\ prio[mutex.owner] <= Priority[u] /\ u # t
  BY <1>1, <1>8 DEF Sound, Owned, Inherited, Waiting, FreeMutex
<1>9. ASSUME NEW u \in Threads, pc[u] = "pending", Preemptible(u), Preemptible(t)
      PROVE  FALSE
  <2> DEFINE o == mutex.owner
  <2>1. o \in Threads /\ Inside(o) /\ u # t /\ Preemptible(o) /\ o # t
    BY <1>4, <1>5, <1>8, <1>9
  <2>2. o # u
    BY <2>1, <1>9 DEF Inside
  <2>3. \A v \in {o, t, u} : v \in scenario.threads
    BY <1>1, <1>9, <2>1 DEF LockTypeOK, Inside
  <2> QED
    BY <2>1, <2>2, <2>3, <1>9, NoThird
<1>10. Waiting'
  BY <1>1, <1>2, <1>3, <1>9 DEF Sound, Waiting, LockTypeOK
<1>11. Read'
  <2> SUFFICES ASSUME NEW u \in Threads, Preemptible(u), pc'[u] = "store"
               PROVE  ReadFree(u)' \/ ReadHeld(u)'
    BY DEF Read, Preemptible
  <2>1. CASE u # t
    <3>1. pc[u] = "store" /\ pc'[t] = "store" /\ ~Inside(u)
      BY <1>1, <2>1 DEF LockTypeOK, Inside
    <3>2. Priority[t] < Priority[u]
      <4>1. prio[t] < prio[u]
        BY <1>1, <2>1, <3>1, RunsAlone
      <4>2. prio[t] = Priority[t]
        BY <1>4 DEF Sound, Inherited
      <4>3. prio[u] = Priority[u]
        BY <3>1 DEF Sound, Owned, Inherited, FreeMutex, LogAssumption
      <4> QED
        BY <4>1, <4>2, <4>3
    <3>3. copied'[u] = copied[u]
      BY <1>2, <2>1 DEF LockTypeOK
    <3>4. CASE ReadFree(u)
      BY <1>3, <3>3, <3>4 DEF ReadFree, Preemptible
    <3>5. CASE ReadHeld(u)
      <4>1. PICK v \in Threads :
              /\ v \in scenario.threads
              /\ Preemptible(v) /\ Priority[u] < Priority[v]
              /\ copied[u] = HeldBy(v)
              /\ Inside(v) \/ pc[v] \in {"idle", "load"}
        BY <3>5 DEF ReadHeld
      <4>2. v # t
        BY <3>2, <4>1 DEF LogAssumption
      <4> QED
        BY <1>3, <3>3, <4>1, <4>2 DEF ReadHeld, Preemptible, HeldBy
    <3> QED
      BY <3>1, <3>4, <3>5 DEF Sound, Read
  <2>2. CASE u = t /\ mutex = FreeMutex
    <3>1. copied'[t] = FreeMutex
      BY <1>2, <2>2 DEF LockTypeOK
    <3>2. \A v \in Threads : ~Inside(v)'
      BY <1>3, <2>2 DEF Sound, Owned, FreeMutex, LogAssumption
    <3> QED
      BY <2>2, <3>1, <3>2 DEF ReadFree
  <2>3. CASE u = t /\ mutex # FreeMutex
    <3> DEFINE o == mutex.owner
    <3>1. o \in Threads /\ Inside(o) /\ mutex.count = 1 /\ mutex.prio = Priority[o]
      BY <2>3 DEF Sound, Owned
    <3>2. Preemptible(o) /\ prio[o] >= 0 /\ prio[t] < Priority[o]
      BY <1>1, <1>4, <1>5, <3>1, RunsAlone DEF Inside
    <3>3. prio[t] = Priority[t]
      BY <1>4 DEF Sound, Inherited
    <3>4. mutex.waiting = {}
      <4> SUFFICES ASSUME NEW w \in Threads, w \in mutex.waiting PROVE FALSE
        BY DEF LockTypeOK, Mutexes
      <4>1. pc[w] = "pending"
        BY DEF Sound, Waiting
      <4>2. prio[o] <= Priority[w]
        BY <1>8, <4>1
      <4>3. Preemptible(w)
        BY <3>1, <3>2, <4>2 DEF Preemptible, LockTypeOK, LogAssumption
      <4> QED
        BY <1>9, <2>3, <4>1, <4>3
    <3>5. copied'[t] = mutex
      BY <1>2 DEF LockTypeOK
    <3>6. mutex = HeldBy(o)
      BY <3>1, <3>4 DEF LockTypeOK, Mutexes, HeldBy
    <3>7. o \in scenario'.threads
      BY <3>1 DEF LockTypeOK, Inside
    <3> HIDE DEF o
    <3> QED
      BY <1>3, <2>3, <3>1, <3>2, <3>3, <3>5, <3>6, <3>7 DEF ReadHeld, Preemptible, HeldBy
  <2> QED
    BY <2>1, <2>2, <2>3
<1> QED
  BY <1>6, <1>7, <1>10, <1>11 DEF Sound
\* A scenario is of threads there are.
LEMMA ScenarioThreads ==
    ASSUME LogAssumption, LockTypeOK
    PROVE  scenario.threads \subseteq Threads
BY DEF LogAssumption, LockTypeOK

\* MutexLock writes the mutex back.
LEMMA CopyStoreType ==
    ASSUME LockTypeOK, NEW t \in Threads, CopyStore(t), UNCHANGED scenario
    PROVE  LockTypeOK'
<1>1. \A u \in Threads : u # t /\ pc[u] = "store" => Preemptible(u)
  BY RunsAlone DEF CopyStore, Go
<1>2. pc' = [pc EXCEPT ![t] = "lock"] /\ pc[t] = "store"
  BY DEF CopyStore, Go
<1>3. mutex' = copied[t] /\ UNCHANGED <<copied, prio>>
  BY DEF CopyStore
<1>4. Cooperative'
  BY <1>1, <1>2, <1>3 DEF LockTypeOK, Cooperative, Preemptible
<1> QED
  BY <1>2, <1>3, <1>4 DEF LockTypeOK, Places

\* What is written back as it was changes nothing.
LEMMA SameStoredKeepsSound ==
    ASSUME LockTypeOK, Sound, NEW t \in Threads,
           pc[t] = "store", pc' = [pc EXCEPT ![t] = "lock"],
           UNCHANGED <<scenario, mutex, prio, copied>>
    PROVE  Sound'
<1>1. \A u \in Threads : (Inside(u)' <=> Inside(u)) /\ (pc'[u] = pc[u] \/ u = t)
  BY DEF Inside, LockTypeOK
<1>2. Owned'
  BY <1>1 DEF Sound, Owned
<1>3. Inherited'
  BY DEF Sound, Inherited
<1>4. Waiting'
  BY <1>1 DEF Sound, Waiting, LockTypeOK
<1>5. \A u \in Threads : pc'[u] = "store" => pc[u] = "store"
  BY DEF LockTypeOK
<1>6. \A u : pc[u] \in {"idle", "load"} => pc'[u] \in {"idle", "load"}
  BY DEF LockTypeOK
<1>7. \A u : Inside(u) => Inside(u)'
  BY DEF Inside, LockTypeOK
<1>8. Read'
  BY <1>1, <1>5, <1>6, <1>7 DEF Sound, Read, ReadFree, ReadHeld, Preemptible, HeldBy
<1> QED
  BY <1>2, <1>3, <1>4, <1>8 DEF Sound

LEMMA CopyStoreStep ==
    ASSUME LogAssumption, FewPreemptible, LockTypeOK, Sound,
           NEW t \in Threads, CopyStore(t), UNCHANGED scenario
    PROVE  Sound' \/ \E x \in Threads : Orphaned(x)'
<1>1. pc' = [pc EXCEPT ![t] = "lock"] /\ pc[t] = "store" /\ CanRun(t)
  BY DEF CopyStore, Go
<1>2. mutex' = copied[t] /\ UNCHANGED <<copied, prio>>
  BY DEF CopyStore
<1>3. mutex' = mutex => Sound'
  BY <1>1, <1>2, SameStoredKeepsSound
<1>4. CASE ~Preemptible(t)
  BY <1>1, <1>2, <1>3, <1>4 DEF LockTypeOK, Cooperative
<1>5. prio[t] = Priority[t] /\ ~Inside(t) /\ mutex.owner # t
  BY <1>1 DEF Sound, Inherited, Owned, Inside, FreeMutex, LogAssumption
<1>6. ASSUME NEW u \in Threads, Inside(u)
      PROVE  /\ Preemptible(u) /\ u = mutex.owner /\ prio[u] >= 0
             /\ prio[t] < prio[u] /\ prio[u] <= Priority[u]
  <2>1. Preemptible(u) /\ prio[t] < prio[u] /\ prio[u] >= 0
    BY <1>1, <1>5, <1>6, RunsAlone DEF Inside
  <2> QED
    BY <1>6, <2>1 DEF Sound, Owned, Inherited
<1>7. CASE ReadFree(t) /\ Preemptible(t)
  <2>1. \A u \in Threads : ~Inside(u)
    <3> SUFFICES ASSUME NEW u \in Threads, Inside(u) PROVE FALSE
      OBVIOUS
    <3>1. Priority[u] < Priority[t]
      BY <1>6, <1>7 DEF ReadFree
    <3>2. Priority[t] < prio[u] /\ prio[u] <= Priority[u]
      BY <1>5, <1>6
    <3> QED
      BY <3>1, <3>2 DEF LockTypeOK, LogAssumption
  <2>2. mutex = FreeMutex
    BY <2>1 DEF Sound, Owned
  <2> QED
    BY <1>2, <1>3, <1>7, <2>2 DEF ReadFree
<1>8. CASE ReadHeld(t) /\ Preemptible(t)
  <2>1. PICK v \in Threads :
          /\ v \in scenario.threads
          /\ Preemptible(v) /\ Priority[t] < Priority[v]
          /\ copied[t] = HeldBy(v)
          /\ Inside(v) \/ pc[v] \in {"idle", "load"}
    BY <1>8 DEF ReadHeld
  <2>2. v \in Threads /\ v # t
    BY <2>1 DEF LogAssumption
  <2>3. CASE Inside(v)
    <3>1. mutex.owner = v /\ mutex.count = 1 /\ mutex.prio = Priority[v]
      BY <2>2, <2>3 DEF Sound, Owned, FreeMutex, LogAssumption
    <3>2. mutex.waiting = {}
      <4> SUFFICES ASSUME NEW w \in Threads, w \in mutex.waiting PROVE FALSE
        BY DEF LockTypeOK, Mutexes
      <4>1. pc[w] = "pending"
        BY DEF Sound, Waiting
      <4>2. prio[v] <= Priority[w]
        BY <2>2, <3>1 DEF Sound, Inherited
      <4>3. Preemptible(w)
        BY <1>6, <2>2, <2>3, <4>2 DEF Preemptible, LockTypeOK, LogAssumption
      <4> QED
        BY <1>1, <1>8, <4>1, <4>3 DEF Sound, Waiting
    <3>3. mutex = HeldBy(v)
      BY <3>1, <3>2 DEF LockTypeOK, Mutexes, HeldBy
    <3> QED
      BY <1>2, <1>3, <2>1, <3>3
  <2>4. CASE ~Inside(v)
    <3>1. pc[v] \in {"idle", "load"} /\ pc'[v] = pc[v]
      BY <1>1, <2>1, <2>2, <2>4 DEF LockTypeOK
    <3>2. t \in scenario.threads
      BY <1>1 DEF LockTypeOK
    <3>3. \A u \in scenario.threads : Preemptible(u) => u = t \/ u = v
      BY <1>8, <2>1, <2>2, <3>2, ScenarioThreads, NoThird
    <3>4. \A u \in Threads : ~Inside(u)
      <4> SUFFICES ASSUME NEW u \in Threads, Inside(u) PROVE FALSE
        OBVIOUS
      <4>1. Preemptible(u) /\ u \in scenario.threads
        BY <1>6 DEF Inside, LockTypeOK
      <4> QED
        BY <1>5, <2>4, <3>3, <4>1
    <3>5. \A u \in Threads : ~Inside(u)'
      BY <1>1, <3>4 DEF LockTypeOK, Inside
    <3>6. mutex'.owner = v /\ mutex'.count = 1
      BY <1>2, <2>1 DEF HeldBy
    <3>7. Orphaned(v)'
      <4>1. \A u \in scenario.threads :
               Preemptible(u) /\ u # v => pc'[u] \in {"lock", "pending"}
        BY <1>1, <2>2, <3>3 DEF LockTypeOK
      <4>2. pc'[v] # "store"
        BY <3>1
      <4> QED
        BY <2>1, <2>2, <3>5, <3>6, <4>1, <4>2 DEF Orphaned, Preemptible
    <3> QED
      BY <2>2, <3>7
  <2> QED
    BY <2>3, <2>4
<1> QED
  BY <1>1, <1>4, <1>7, <1>8 DEF Sound, Read
\* The kernel gives the mutex to who asks for it.
LEMMA AcquireType ==
    ASSUME LockTypeOK, NEW t \in Threads, Acquire(t), UNCHANGED scenario
    PROVE  LockTypeOK'
<1>1. \A u \in Threads : u # t /\ pc[u] = "store" => Preemptible(u)
  BY RunsAlone DEF Acquire, Go
<1>2. pc' = [pc EXCEPT ![t] = "enter"] /\ pc[t] = "lock"
  BY DEF Acquire, Go
<1>3. UNCHANGED <<copied, prio>>
  BY DEF Acquire
<1>4. mutex' \in Mutexes
  <2>1. mutex \in Mutexes /\ prio[t] \in Int
    BY DEF LockTypeOK
  <2>2. mutex' = [owner |-> t, count |-> mutex.count + 1,
                  prio |-> IF mutex.count = 0 THEN prio[t] ELSE mutex.prio,
                  waiting |-> mutex.waiting]
    BY <2>1 DEF Acquire, Mutexes
  <2> QED
    BY <2>1, <2>2 DEF Mutexes
<1>5. Cooperative'
  BY <1>1, <1>2, <1>3 DEF LockTypeOK, Cooperative, Preemptible
<1> QED
  BY <1>2, <1>3, <1>4, <1>5 DEF LockTypeOK, Places

LEMMA AcquireKeepsSound ==
    ASSUME LogAssumption, LockTypeOK, Sound,
           NEW t \in Threads, Acquire(t), UNCHANGED scenario
    PROVE  Sound'
<1>1. pc' = [pc EXCEPT ![t] = "enter"] /\ pc[t] = "lock" /\ CanRun(t)
  BY DEF Acquire, Go
<1>2. mutex = FreeMutex
  BY <1>1 DEF Acquire, Sound, Owned, Inside
<1>3. UNCHANGED <<copied, prio>> /\ prio[t] = Priority[t]
  BY <1>2 DEF Acquire, Sound, Inherited, FreeMutex, LogAssumption
<1>4. mutex' = HeldBy(t)
  <2>1. mutex' = [FreeMutex EXCEPT !.owner = t, !.count = 1, !.prio = prio[t]]
    BY <1>2 DEF Acquire, FreeMutex
  <2> QED
    BY <1>3, <2>1 DEF FreeMutex, HeldBy
<1>5. \A u \in Threads : (Inside(u)' <=> u = t) /\ (u # t => pc'[u] = pc[u])
  BY <1>1, <1>2 DEF Inside, LockTypeOK, Sound, Owned, FreeMutex, LogAssumption
<1>6. Owned'
  BY <1>4, <1>5 DEF Owned, HeldBy
<1>7. Inherited'
  BY <1>2, <1>3, <1>4 DEF Sound, Inherited, HeldBy, LogAssumption, FreeMutex
<1>8. Waiting'
  <2>1. \A u \in Threads : pc[u] # "pending"
    BY <1>2 DEF Sound, Waiting, FreeMutex
  <2>2. \A u \in Threads : pc'[u] # "pending"
    BY <1>1, <2>1 DEF LockTypeOK
  <2> QED
    BY <1>4, <2>2 DEF Waiting, HeldBy
<1>9. Read'
  <2> SUFFICES ASSUME NEW u \in Threads, Preemptible(u), pc'[u] = "store"
               PROVE  ReadFree(u)' \/ ReadHeld(u)'
    BY DEF Read, Preemptible
  <2>1. u # t /\ pc[u] = "store" /\ copied'[u] = copied[u]
    BY <1>1, <1>3 DEF LockTypeOK
  <2>2. Priority[t] < Priority[u]
    BY <1>1, <1>2, <1>3, <2>1, RunsAlone DEF Sound, Inherited, FreeMutex, LogAssumption
  <2>3. CASE ReadFree(u)
    BY <1>5, <2>1, <2>2, <2>3 DEF ReadFree
  <2>4. CASE ReadHeld(u)
    <3>1. PICK v \in Threads :
            /\ v \in scenario.threads
            /\ Preemptible(v) /\ Priority[u] < Priority[v]
            /\ copied[u] = HeldBy(v)
            /\ Inside(v) \/ pc[v] \in {"idle", "load"}
      BY <2>4 DEF ReadHeld
    <3>2. pc'[v] \in {"idle", "load"}
      BY <1>1, <1>2, <3>1 DEF Sound, Owned, FreeMutex, LogAssumption, LockTypeOK
    <3> QED
      BY <2>1, <3>1, <3>2 DEF ReadHeld, Preemptible, HeldBy
  <2> QED
    BY <2>1, <2>3, <2>4 DEF Sound, Read
<1> QED
  BY <1>6, <1>7, <1>8, <1>9 DEF Sound

\* A thread waits for the mutex.
LEMMA PendType ==
    ASSUME LockTypeOK, NEW t \in Threads, Pend(t), UNCHANGED scenario
    PROVE  LockTypeOK'
<1>1. \A u \in Threads : u # t /\ pc[u] = "store" => Preemptible(u)
  BY RunsAlone DEF Pend, Go
<1>2. pc' = [pc EXCEPT ![t] = "pending"] /\ pc[t] = "lock"
  BY DEF Pend, Go
<1>3. mutex' \in Mutexes /\ UNCHANGED copied
  BY DEF Pend, LockTypeOK, Mutexes
<1>4. prio' \in [Threads -> Int] /\ \A u \in Threads : prio'[u] <= prio[u]
  <2> DEFINE least == IF prio[t] < prio[mutex.owner] THEN prio[t]
                                                     ELSE prio[mutex.owner]
  <2>1. prio' = [prio EXCEPT ![mutex.owner] = least]
    BY DEF Pend
  <2>2. \A u \in Threads : prio[u] \in Int
    BY DEF LockTypeOK
  <2>3. mutex.owner \in Threads => least \in Int /\ least <= prio[mutex.owner]
    BY <2>2
  <2>4. prio \in [Threads -> Int]
    BY DEF LockTypeOK
  <2> HIDE DEF least
  <2>5. CASE mutex.owner \in Threads
    BY <2>1, <2>2, <2>3, <2>4, <2>5
  <2>6. CASE mutex.owner \notin Threads
    <3>1. prio' = prio
      BY <2>1, <2>4, <2>6
    <3> QED
      BY <2>2, <2>4, <3>1
  <2> QED
    BY <2>5, <2>6
<1>5. \A u \in Threads : ~Preemptible(u) => prio'[u] < 0
  BY <1>4 DEF LockTypeOK, Cooperative
<1>6. Cooperative'
  BY <1>1, <1>2, <1>3, <1>5 DEF LockTypeOK, Cooperative, Preemptible
<1> QED
  BY <1>2, <1>3, <1>4, <1>6 DEF LockTypeOK, Places

LEMMA PendKeepsSound ==
    ASSUME LogAssumption, FewPreemptible, LockTypeOK, Sound,
           NEW t \in Threads, Pend(t), UNCHANGED scenario
    PROVE  Sound'
<1> DEFINE o == mutex.owner
<1>1. pc' = [pc EXCEPT ![t] = "pending"] /\ pc[t] = "lock" /\ CanRun(t)
  BY DEF Pend, Go
<1>2. mutex.count > 0 /\ o # t /\ UNCHANGED copied
  BY DEF Pend
<1>3. /\ o \in Threads /\ Inside(o)
      /\ mutex.count = 1 /\ mutex.prio = Priority[o]
  BY <1>2 DEF Sound, Owned, FreeMutex
<1>4. Preemptible(o) /\ prio[t] < prio[o] /\ prio[o] <= Priority[o]
  BY <1>1, <1>2, <1>3, RunsAlone DEF Inside, Sound, Inherited
<1>5. prio[t] = Priority[t]
  BY <1>2 DEF Sound, Inherited
<1>6. /\ mutex'.owner = o /\ mutex'.count = 1 /\ mutex'.prio = Priority[o]
      /\ mutex'.waiting = mutex.waiting \cup {t}
      /\ prio' = [prio EXCEPT ![o] = Priority[t]]
  BY <1>3, <1>4, <1>5 DEF Pend, LockTypeOK, Mutexes
<1>7. \A u \in Threads : (Inside(u)' <=> Inside(u)) /\ (u # t => pc'[u] = pc[u])
  BY <1>1 DEF Inside, LockTypeOK
<1>8. Owned'
  BY <1>3, <1>6, <1>7 DEF Sound, Owned
<1>9. Inherited'
  <2> SUFFICES ASSUME NEW u \in Threads
               PROVE  IF u = o
                        THEN /\ prio'[u] <= Priority[u]
                             /\ \A w \in mutex'.waiting : prio'[u] <= Priority[w]
                        ELSE prio'[u] = Priority[u]
    BY <1>6 DEF Inherited
  <2>1. CASE u # o
    BY <1>6, <2>1 DEF Sound, Inherited, LockTypeOK
  <2>2. CASE u = o
    <3>1. prio'[o] = Priority[t] /\ prio'[o] <= prio[o]
      BY <1>3, <1>4, <1>5, <1>6 DEF LockTypeOK
    <3>2. \A w \in mutex.waiting : w \in Threads /\ prio[o] <= Priority[w]
      BY <1>3 DEF Sound, Inherited, LockTypeOK, Mutexes
    <3>3. \A w \in Threads : Priority[w] \in Int /\ prio[w] \in Int
      BY DEF LogAssumption, LockTypeOK
    <3>4. prio'[o] <= Priority[o]
      BY <1>3, <1>4, <3>1, <3>3
    <3>5. \A w \in mutex'.waiting : prio'[o] <= Priority[w]
      BY <1>3, <1>6, <3>1, <3>2, <3>3
    <3> QED
      BY <2>2, <3>4, <3>5
  <2> QED
    BY <2>1, <2>2
<1>10. Waiting'
  <2>1. \A u \in Threads : pc'[u] = "pending" <=> u \in mutex'.waiting
    BY <1>1, <1>6 DEF Sound, Waiting, LockTypeOK
  <2>2. ASSUME NEW u \in Threads, Preemptible(u), Preemptible(t), u # t,
               pc[u] # "idle"
        PROVE  u = o
    <3>1. \A v \in {t, u, o} : v \in scenario.threads
      BY <1>1, <1>3, <2>2 DEF LockTypeOK, Inside
    <3> QED
      BY <1>2, <1>3, <1>4, <2>2, <3>1, NoThird
  <2>3. ASSUME NEW u \in Threads, NEW v \in Threads,
               Preemptible(u), Preemptible(v), u # v, pc'[u] = "pending"
        PROVE  pc'[v] \notin {"store", "lock", "pending"}
    <3>1. CASE u = t
      <4>1. v = o \/ pc[v] = "idle"
        BY <2>2, <2>3, <3>1
      <4> QED
        BY <1>3, <1>7, <2>3, <3>1, <4>1 DEF Inside
    <3>2. CASE u # t
      <4>1. pc[u] = "pending" /\ u # o
        BY <1>3, <1>7, <2>3, <3>2 DEF Inside
      <4>2. ~Preemptible(t)
        BY <2>2, <2>3, <3>2, <4>1
      <4> QED
        BY <1>7, <2>3, <4>1, <4>2 DEF Sound, Waiting
    <3> QED
      BY <3>1, <3>2
  <2> QED
    BY <2>1, <2>3 DEF Waiting, Preemptible
<1>11. Read'
  <2> SUFFICES ASSUME NEW u \in Threads, Preemptible(u), pc'[u] = "store"
               PROVE  ReadFree(u)' \/ ReadHeld(u)'
    BY DEF Read, Preemptible
  <2>1. u # t /\ pc[u] = "store" /\ copied'[u] = copied[u]
    BY <1>1, <1>2 DEF LockTypeOK
  <2>2. \A v \in Threads : pc[v] \in {"idle", "load"} => pc'[v] = pc[v]
    BY <1>1, <1>7
  <2> QED
    BY <1>7, <2>1, <2>2 DEF Sound, Read, ReadFree, ReadHeld, Preemptible, HeldBy
<1> QED
  BY <1>8, <1>9, <1>10, <1>11 DEF Sound
\* ~MutexLock: an unlock that hands nothing over.
LEMMA UnlockType ==
    ASSUME LogAssumption, LockTypeOK, NEW t \in Threads, Unlock(t),
           mutex.count > 1 \/ mutex.prio = Priority[t], UNCHANGED scenario
    PROVE  LockTypeOK'
<1>1. \A u \in Threads : u # t /\ pc[u] = "store" => Preemptible(u)
  BY RunsAlone DEF Unlock, Go
<1>2. /\ pc' = [pc EXCEPT ![t] = AfterUnlock(t)] /\ pc[t] = "unlock"
      /\ AfterUnlock(t) \in {"load", "idle"}
  BY DEF Unlock, Go, AfterUnlock
<1>3. mutex' \in Mutexes /\ UNCHANGED copied
  <2>1. mutex \in Mutexes
    BY DEF LockTypeOK
  <2>2. CASE mutex.count > 1
    BY <2>1, <2>2 DEF Unlock, Mutexes
  <2>3. CASE ~(mutex.count > 1)
    BY <2>3 DEF Unlock, Mutexes, FreeMutex
  <2> QED
    BY <2>2, <2>3 DEF Unlock
<1>4. prio' = prio \/ prio' = [prio EXCEPT ![t] = Priority[t]]
  BY DEF Unlock
<1>5. \A u \in Threads : prio[u] \in Int /\ Priority[u] \in Int
  BY DEF LockTypeOK, LogAssumption
<1>6. prio' \in [Threads -> Int]
  BY <1>4, <1>5 DEF LockTypeOK
<1>7. \A u \in Threads : ~Preemptible(u) => prio'[u] < 0
  BY <1>4, <1>5 DEF LockTypeOK, Cooperative, Preemptible
<1>8. Cooperative'
  BY <1>1, <1>2, <1>3, <1>7 DEF LockTypeOK, Cooperative, Preemptible
<1> QED
  BY <1>2, <1>3, <1>6, <1>8 DEF LockTypeOK, Places

LEMMA UnlockKeepsSound ==
    ASSUME LogAssumption, LockTypeOK, Sound,
           NEW t \in Threads, Unlock(t), UNCHANGED scenario
    PROVE  Sound'
<1>1. /\ pc' = [pc EXCEPT ![t] = AfterUnlock(t)] /\ pc[t] = "unlock"
      /\ AfterUnlock(t) \in {"load", "idle"}
  BY DEF Unlock, Go, AfterUnlock
<1>2. mutex.owner = t /\ mutex.count = 1 /\ mutex.prio = Priority[t]
  BY DEF Unlock, Sound, Owned, FreeMutex, LogAssumption
<1>3. /\ mutex.waiting = {} /\ mutex' = FreeMutex
      /\ prio' = [prio EXCEPT ![t] = Priority[t]] /\ UNCHANGED copied
  BY <1>2 DEF Unlock
<1>4. \A u \in Threads :
         ~Inside(u)' /\ (u # t => pc'[u] = pc[u]) /\ pc'[u] # "pending"
  BY <1>1, <1>2, <1>3 DEF Inside, LockTypeOK, Sound, Owned, Waiting
<1>5. Owned'
  BY <1>3, <1>4 DEF Owned
<1>6. Inherited'
  BY <1>2, <1>3 DEF Sound, Inherited, FreeMutex, LogAssumption, LockTypeOK
<1>7. Waiting'
  BY <1>3, <1>4 DEF Waiting, FreeMutex
<1>8. Read'
  <2> SUFFICES ASSUME NEW u \in Threads, Preemptible(u), pc'[u] = "store"
               PROVE  ReadFree(u)' \/ ReadHeld(u)'
    BY DEF Read, Preemptible
  <2>1. u # t /\ pc[u] = "store" /\ copied'[u] = copied[u]
    BY <1>1, <1>3 DEF LockTypeOK
  <2>2. CASE ReadFree(u)
    BY <1>4, <2>1, <2>2 DEF ReadFree
  <2>3. CASE ReadHeld(u)
    <3>1. PICK v \in Threads :
            /\ v \in scenario.threads
            /\ Preemptible(v) /\ Priority[u] < Priority[v]
            /\ copied[u] = HeldBy(v)
            /\ Inside(v) \/ pc[v] \in {"idle", "load"}
      BY <2>3 DEF ReadHeld
    <3>2. pc'[v] \in {"idle", "load"}
      BY <1>1, <1>2, <3>1 DEF Sound, Owned, LockTypeOK
    <3> QED
      BY <2>1, <3>1, <3>2 DEF ReadHeld, Preemptible, HeldBy
  <2> QED
    BY <2>1, <2>2, <2>3 DEF Sound, Read
<1> QED
  BY <1>5, <1>6, <1>7, <1>8 DEF Sound

\* ~MutexLock: an unlock that hands the mutex over.
LEMMA HandOverStep ==
    ASSUME LogAssumption, LockTypeOK, Sound,
           NEW t \in Threads, HandOver(t), UNCHANGED scenario
    PROVE  LockTypeOK' /\ Sound'
<1>1. PICK w \in mutex.waiting :
        /\ \A u \in mutex.waiting : prio[w] <= prio[u]
        /\ mutex' = [owner |-> w, count |-> 1, prio |-> prio[w],
                     waiting |-> mutex.waiting \ {w}]
        /\ pc' = [pc EXCEPT ![t] = AfterUnlock(t), ![w] = "enter"]
  BY DEF HandOver
<1>2. /\ pc[t] = "unlock" /\ CanRun(t) /\ AfterUnlock(t) \in {"load", "idle"}
      /\ mutex.owner = t /\ mutex.count = 1 /\ UNCHANGED copied
  <2>1. AfterUnlock(t) \in {"load", "idle"}
    BY DEF AfterUnlock
  <2>2. pc[t] = "unlock" /\ CanRun(t) /\ mutex.owner = t /\ mutex.count = 1
    BY DEF HandOver
  <2>3. UNCHANGED copied
    BY DEF HandOver
  <2> QED
    BY <2>1, <2>2, <2>3
<1>3. mutex.prio = Priority[t] /\ prio' = [prio EXCEPT ![t] = Priority[t]]
  <2>1. mutex.prio = Priority[t]
    BY <1>2 DEF Sound, Owned, FreeMutex, LogAssumption
  <2>2. prio' = [prio EXCEPT ![t] = mutex.prio]
    BY DEF HandOver
  <2> QED
    BY <2>1, <2>2
<1>4. w \in Threads /\ pc[w] = "pending" /\ w # t
  BY <1>1, <1>2 DEF Sound, Waiting, LockTypeOK, Mutexes
<1>5. prio[w] = Priority[w] /\ prio'[w] = Priority[w] /\ prio'[t] = Priority[t]
  BY <1>2, <1>3, <1>4 DEF Sound, Inherited, LockTypeOK
<1>6. \A u \in Threads : prio[u] \in Int /\ Priority[u] \in Int
  BY DEF LockTypeOK, LogAssumption
<1>7. /\ pc'[t] \in {"load", "idle"} /\ pc'[w] = "enter"
      /\ \A u \in Threads \ {t, w} : pc'[u] = pc[u]
      /\ pc' \in [Threads -> Places]
  BY <1>1, <1>2, <1>4 DEF LockTypeOK, Places
<1>8. \A u \in Threads : Inside(u)' <=> u = w
  BY <1>2, <1>4, <1>7 DEF Inside, Sound, Owned
<1>9. \A u \in Threads : pc'[u] = "store" => u # t /\ u # w /\ pc[u] = "store"
  BY <1>7
<1>10. LockTypeOK'
  <2>1. mutex' \in Mutexes
    BY <1>1, <1>4, <1>6 DEF LockTypeOK, Mutexes
  <2>2. prio' \in [Threads -> Int]
    BY <1>3, <1>6 DEF LockTypeOK
  <2>3. \A u \in Threads : ~Preemptible(u) => prio'[u] < 0
    BY <1>3, <1>6 DEF LockTypeOK, Cooperative, Preemptible
  <2>4. \A u \in Threads : u # t /\ pc[u] = "store" => Preemptible(u)
    BY <1>2, RunsAlone
  <2>5. Cooperative'
    BY <1>9, <2>3, <2>4 DEF Cooperative, Preemptible
  <2>6. \A u \in Threads : pc'[u] # "idle" => u \in scenario'.threads
    BY <1>2, <1>4, <1>7 DEF LockTypeOK
  <2> QED
    BY <1>2, <1>7, <2>1, <2>2, <2>5, <2>6 DEF LockTypeOK
<1>11. Owned'
  BY <1>1, <1>4, <1>5, <1>8 DEF Owned
<1>12. Inherited'
  <2>1. \A u \in mutex.waiting : u \in Threads /\ prio[u] = Priority[u]
    BY <1>2 DEF Sound, Inherited, Waiting, LockTypeOK, Mutexes
  <2>2. prio'[w] <= Priority[w] /\ \A u \in mutex'.waiting : prio'[w] <= Priority[u]
    BY <1>1, <1>4, <1>5, <1>6, <2>1
  <2>3. \A u \in Threads : u # w => prio'[u] = Priority[u]
    BY <1>2, <1>3 DEF Sound, Inherited, LockTypeOK
  <2> QED
    BY <1>1, <2>2, <2>3 DEF Inherited
<1>13. Waiting'
  <2>1. \A u \in Threads : pc'[u] = "pending" <=> u \in mutex'.waiting
    BY <1>1, <1>2, <1>4, <1>7 DEF Sound, Waiting
  <2>2. \A u \in Threads :
           pc'[u] \in {"store", "lock", "pending"} => pc[u] = pc'[u]
    BY <1>7
  <2> QED
    BY <2>1, <2>2 DEF Sound, Waiting, Preemptible
<1>14. Read'
  <2> SUFFICES ASSUME NEW u \in Threads, Preemptible(u), pc'[u] = "store"
               PROVE  ReadFree(u)' \/ ReadHeld(u)'
    BY DEF Read, Preemptible
  <2>1. u # t /\ u # w /\ pc[u] = "store" /\ copied'[u] = copied[u]
    BY <1>2, <1>9
  <2>2. ~Preemptible(w)
    BY <1>4, <2>1 DEF Sound, Waiting
  <2>3. CASE ReadFree(u)
    BY <1>8, <2>1, <2>2, <2>3 DEF ReadFree, Preemptible
  <2>4. CASE ReadHeld(u)
    <3>1. PICK v \in Threads :
            /\ v \in scenario.threads
            /\ Preemptible(v) /\ Priority[u] < Priority[v]
            /\ copied[u] = HeldBy(v)
            /\ Inside(v) \/ pc[v] \in {"idle", "load"}
      BY <2>4 DEF ReadHeld
    <3>2. pc'[v] \in {"idle", "load"}
      BY <1>2, <1>7, <2>2, <3>1 DEF Sound, Owned
    <3> QED
      BY <2>1, <3>1, <3>2 DEF ReadHeld, Preemptible, HeldBy
  <2> QED
    BY <2>1, <2>3, <2>4 DEF Sound, Read
<1> QED
  BY <1>10, <1>11, <1>12, <1>13, <1>14 DEF Sound
\* Once orphaned the mutex stays so: nothing can bring its count to zero.
LEMMA OrphanedStep ==
    ASSUME LockTypeOK, NEW x \in Threads, Orphaned(x), NEW t \in Threads,
           UNCHANGED scenario,
           \/ CopyLoad(t) \/ CopyStore(t) \/ Acquire(t) \/ Pend(t)
           \/ Unlock(t) \/ HandOver(t)
    PROVE  Orphaned(x)' /\ ~HandOver(t) /\ (Unlock(t) => mutex.count > 1)
<1>1. /\ mutex.owner = x /\ Preemptible(x)
      /\ mutex.count \in Nat /\ mutex.count >= 1
      /\ Inside(x) => mutex.count >= 2
  BY DEF Orphaned, LockTypeOK, Mutexes
<1>2. \A u \in Threads : Inside(u) => u = x
  BY DEF Orphaned
<1>3. ASSUME NEW u \in Threads, Preemptible(u), u # x, pc[u] # "idle"
      PROVE  pc[u] \in {"lock", "pending"}
  BY <1>3 DEF Orphaned, LockTypeOK
<1>4. ~HandOver(t)
  BY <1>1, <1>2 DEF HandOver, Inside
<1>5. pc \in [Threads -> Places] /\ copied \in [Threads -> Mutexes] /\ mutex \in Mutexes
  BY DEF LockTypeOK
<1>6. CASE CopyLoad(t)
  <2>1. /\ pc[t] = "load" /\ pc' = [pc EXCEPT ![t] = "store"]
        /\ copied' = [copied EXCEPT ![t] = mutex] /\ mutex' = mutex
    BY <1>6 DEF CopyLoad, Go
  <2>2. t = x \/ ~Preemptible(t)
    BY <1>3, <2>1
  <2>3. \A u \in Threads : Inside(u)' <=> Inside(u)
    BY <1>5, <2>1 DEF Inside
  <2>4. pc'[x] = "store" => copied'[x].owner = x /\ copied'[x].count >= 1
    BY <1>1, <1>5, <2>1 DEF Orphaned
  <2>5. \A u \in scenario.threads :
           Preemptible(u) /\ u # x => pc'[u] \in {"lock", "pending"}
    BY <1>5, <2>1, <2>2 DEF Orphaned
  <2>6. Orphaned(x)'
    BY <1>1, <1>2, <2>1, <2>3, <2>4, <2>5 DEF Orphaned, Preemptible
  <2> QED
    BY <1>4, <2>1, <2>6 DEF Unlock, Go
<1>7. CASE CopyStore(t)
  <2>1. /\ pc[t] = "store" /\ pc' = [pc EXCEPT ![t] = "lock"]
        /\ mutex' = copied[t] /\ copied' = copied
    BY <1>7 DEF CopyStore, Go
  <2>2. t = x \/ (~Preemptible(t) /\ mutex' = mutex)
    BY <1>3, <2>1 DEF LockTypeOK, Cooperative
  <2>3. \A u \in Threads : Inside(u)' <=> Inside(u)
    BY <1>5, <2>1 DEF Inside
  <2>4. /\ mutex'.owner = x /\ mutex'.count >= 1
        /\ Inside(x) => mutex'.count >= 2
    BY <1>1, <2>1, <2>2 DEF Orphaned, Inside
  <2>5. \A u \in scenario.threads :
           Preemptible(u) /\ u # x => pc'[u] \in {"lock", "pending"}
    BY <1>5, <2>1, <2>2 DEF Orphaned
  <2>6. pc'[x] = "store" => copied'[x].owner = x /\ copied'[x].count >= 1
    BY <1>5, <2>1 DEF Orphaned
  <2>7. Orphaned(x)'
    BY <1>1, <1>2, <2>3, <2>4, <2>5, <2>6 DEF Orphaned, Preemptible
  <2> QED
    BY <1>4, <2>1, <2>7 DEF Unlock, Go
<1>8. CASE Acquire(t)
  <2>1. t = x
    BY <1>1, <1>8 DEF Acquire
  <2>2. /\ pc[x] = "lock" /\ pc' = [pc EXCEPT ![x] = "enter"]
        /\ copied' = copied
    BY <1>8, <2>1 DEF Acquire, Go
  <2>3. mutex'.owner = x /\ mutex'.count = mutex.count + 1
    BY <1>5, <1>8, <2>1 DEF Acquire, Mutexes
  <2>4. \A u \in Threads : Inside(u)' => u = x
    BY <1>2, <1>5, <2>2 DEF Inside
  <2>5. \A u \in scenario.threads :
           Preemptible(u) /\ u # x => pc'[u] \in {"lock", "pending"}
    BY <1>5, <2>2 DEF Orphaned
  <2>6. mutex'.count >= 2 /\ pc'[x] # "store"
    BY <1>1, <1>5, <2>2, <2>3
  <2>7. Orphaned(x)'
    BY <1>1, <2>3, <2>4, <2>5, <2>6 DEF Orphaned, Preemptible
  <2> QED
    BY <1>4, <2>1, <2>2, <2>7 DEF Unlock, Go
<1>9. CASE Pend(t)
  <2>1. t # x
    BY <1>1, <1>9 DEF Pend
  <2>2. /\ pc[t] = "lock" /\ pc' = [pc EXCEPT ![t] = "pending"]
        /\ copied' = copied
    BY <1>9 DEF Pend, Go
  <2>3. mutex'.owner = x /\ mutex'.count = mutex.count
    BY <1>1, <1>5, <1>9 DEF Pend, Mutexes
  <2>4. \A u \in Threads : Inside(u)' <=> Inside(u)
    BY <1>5, <2>2 DEF Inside
  <2>5. \A u \in scenario.threads :
           Preemptible(u) /\ u # x => pc'[u] \in {"lock", "pending"}
    BY <1>5, <2>2 DEF Orphaned
  <2>6. pc'[x] = pc[x]
    BY <2>1, <2>2
  <2>7. Orphaned(x)'
    BY <1>1, <1>2, <2>2, <2>3, <2>4, <2>5, <2>6 DEF Orphaned, Preemptible
  <2> QED
    BY <1>4, <2>2, <2>7 DEF Unlock, Go
<1>10. CASE Unlock(t)
  <2>1. t = x
    BY <1>1, <1>10 DEF Unlock
  <2>2. /\ pc[x] = "unlock" /\ pc' = [pc EXCEPT ![x] = AfterUnlock(x)]
        /\ copied' = copied /\ AfterUnlock(x) \in {"load", "idle"}
    BY <1>10, <2>1 DEF Unlock, Go, AfterUnlock
  <2>3. mutex.count >= 2
    BY <1>1, <2>2 DEF Inside
  <2>4. mutex'.owner = x /\ mutex'.count = mutex.count - 1
    BY <1>1, <1>5, <1>10, <2>3 DEF Unlock, Mutexes
  <2>5. \A u \in Threads : ~Inside(u)'
    BY <1>2, <1>5, <2>2 DEF Inside
  <2>6. \A u \in scenario.threads :
           Preemptible(u) /\ u # x => pc'[u] \in {"lock", "pending"}
    BY <1>5, <2>2 DEF Orphaned
  <2>7. mutex'.count >= 1 /\ pc'[x] # "store"
    BY <1>1, <1>5, <2>2, <2>3, <2>4
  <2>8. Orphaned(x)'
    BY <1>1, <2>4, <2>5, <2>6, <2>7 DEF Orphaned, Preemptible
  <2> QED
    BY <1>1, <1>4, <2>3, <2>8
<1> QED
  BY <1>4, <1>6, <1>7, <1>8, <1>9, <1>10
\* Each step preserves LockInv.
LEMMA LockStep ==
    ASSUME LogAssumption, FewPreemptible, LockInv, [Next]_vars
    PROVE  LockInv'
<1>1. LockTypeOK
  BY DEF LockInv
<1>2. CASE UNCHANGED <<scenario, lockVars, pc>>
  <2>1. LockTypeOK'
    BY <1>1, <1>2 DEF LockTypeOK, Cooperative, lockVars
  <2>2. Sound => Sound'
    BY <1>2 DEF Sound, Owned, Inherited, Waiting, Read, ReadFree, ReadHeld,
                lockVars, Inside
  <2>3. \A x \in Threads : Orphaned(x) => Orphaned(x)'
    BY <1>2 DEF Orphaned, lockVars, Inside
  <2> QED
    BY <2>1, <2>2, <2>3 DEF LockInv
<1>3. ASSUME NEW t \in Threads, NEW from, NEW to, Moved(t, from, to),
             \/ from = "idle" /\ to = "load"
             \/ from \in {"enter", "inside"} /\ to \in {"inside", "unlock"}
      PROVE  LockInv'
  <2>1. LockTypeOK'
    BY <1>1, <1>3, MovedType DEF Places
  <2>2. Sound => Sound'
    BY <1>1, <1>3, BeginKeepsSound, InsideKeepsSound
  <2>3. \A x \in Threads : Orphaned(x) => Orphaned(x)'
    BY <1>1, <1>3, MovedKeepsOrphaned
  <2> QED
    BY <2>1, <2>2, <2>3 DEF LockInv
<1>4. ASSUME NEW t \in Threads, Begin(t) PROVE LockInv'
  <2>1. Moved(t, "idle", "load")
    BY <1>4 DEF Begin, CallLog, CallPrint, Go, Moved, lockVars
  <2> QED
    BY <1>3, <2>1
<1>5. ASSUME NEW t \in Threads, Proceed(t) PROVE LockInv'
  <2>0. UNCHANGED scenario
    BY <1>5 DEF Proceed
  <2>1. CASE CopyLoad(t)
    BY <1>1, <2>0, <2>1, CopyLoadType, CopyLoadKeepsSound, OrphanedStep DEF LockInv
  <2>2. CASE CopyStore(t)
    BY <1>1, <2>0, <2>2, CopyStoreType, CopyStoreStep, OrphanedStep DEF LockInv
  <2>3. CASE Acquire(t)
    BY <1>1, <2>0, <2>3, AcquireType, AcquireKeepsSound, OrphanedStep DEF LockInv
  <2>4. CASE Pend(t)
    BY <1>1, <2>0, <2>4, PendType, PendKeepsSound, OrphanedStep DEF LockInv
  <2>5. CASE Unlock(t)
    <3>1. CASE Sound
      <4>1. mutex.prio = Priority[t]
        BY <2>5, <3>1 DEF Unlock, Sound, Owned, FreeMutex, LogAssumption
      <4> QED
        BY <1>1, <2>0, <2>5, <3>1, <4>1, UnlockType, UnlockKeepsSound DEF LockInv
    <3>2. CASE \E x \in Threads : Orphaned(x)
      BY <1>1, <2>0, <2>5, <3>2, UnlockType, OrphanedStep DEF LockInv
    <3> QED
      BY <3>1, <3>2 DEF LockInv
  <2>6. CASE HandOver(t)
    BY <1>1, <2>0, <2>6, HandOverStep, OrphanedStep DEF LockInv
  <2>7. CASE \/ AdvanceBack(t) \/ WriteEntry(t)
             \/ FindNothing(t) \/ TakeEntry(t) \/ AdvanceFront(t)
    <3>1. \E from \in {"enter", "inside"}, to \in {"inside", "unlock"} :
             /\ pc[t] = from /\ pc' = [pc EXCEPT ![t] = to]
             /\ UNCHANGED lockVars
      BY <2>7 DEF AdvanceBack, WriteEntry, FindNothing, TakeEntry, AdvanceFront, Go
    <3>2. PICK from \in {"enter", "inside"}, to \in {"inside", "unlock"} :
             /\ pc[t] = from /\ pc' = [pc EXCEPT ![t] = to]
             /\ UNCHANGED lockVars
      BY <3>1
    <3>3. t \in scenario.threads
      BY <1>1, <3>2 DEF LockTypeOK
    <3>4. Moved(t, from, to)
      BY <2>0, <3>2, <3>3 DEF Moved
    <3> QED
      BY <1>3, <3>4
  <2> QED
    BY <1>5, <2>1, <2>2, <2>3, <2>4, <2>5, <2>6, <2>7 DEF Proceed
<1>6. CASE InterruptLogs /\ UNCHANGED scenario
  BY <1>2, <1>6 DEF InterruptLogs
<1>7. CASE UNCHANGED vars
  BY <1>2, <1>7 DEF vars
<1> QED
  BY <1>4, <1>5, <1>6, <1>7 DEF Next

\* At the start nobody has the mutex.
LEMMA LockInitially ==
    ASSUME LogAssumption, Init
    PROVE  LockInv
<1>1. /\ scenario \in Scenarios /\ mutex = FreeMutex /\ prio = Priority
      /\ pc = [t \in Threads |-> "idle"] /\ copied = [t \in Threads |-> FreeMutex]
  BY DEF Init
<1>2. FreeMutex \in Mutexes
  BY DEF FreeMutex, Mutexes
<1>3. LockTypeOK
  BY <1>1, <1>2 DEF LockTypeOK, Cooperative, Preemptible, Places, LogAssumption
<1>4. Owned /\ Inherited
  BY <1>1 DEF Owned, Inherited, Inside, FreeMutex, LogAssumption
<1>5. Waiting /\ Read
  BY <1>1 DEF Waiting, Read, FreeMutex
<1> QED
  BY <1>3, <1>4, <1>5 DEF LockInv, Sound

\* At most one thread is inside.
LEMMA InsideAlone ==
    ASSUME LockInv, NEW t \in Threads, NEW u \in Threads, Inside(t), Inside(u)
    PROVE  t = u
BY DEF LockInv, Sound, Owned, Orphaned
-----------------------------------------------------------------------------
(* The ring: how far back is before front, and each step preserves LogInv. *)

\* An index, advanced, is one, and the next unless it was the last.
LEMMA IncrementValue ==
    ASSUME LogAssumption, NEW i \in Index
    PROVE  /\ Increment(i) \in Index
           /\ i < Capacity - 1 => Increment(i) = i + 1
           /\ i = Capacity - 1 => Increment(i) = 0
BY DEF Increment, Index, LogAssumption

\* What advancing back, and advancing front, does to the distance.
LEMMA DistanceSteps ==
    ASSUME LogAssumption, NEW f \in Index, NEW b \in Index
    PROVE  /\ Distance(f, b) \in 0 .. Capacity - 1
           /\ Distance(f, b) = 0 <=> f = b
           /\ Distance(Increment(f), f) = Capacity - 1
           /\ f # b => Distance(Increment(f), b) = Distance(f, b) - 1
           /\ f = Increment(b) => Distance(f, b) = Capacity - 1
           /\ f # Increment(b)
                 => Distance(f, Increment(b)) = Distance(f, b) + 1
<1>1. Capacity \in Nat /\ Capacity > 0
  BY DEF LogAssumption
<1>2. Distance(f, b) \in 0 .. Capacity - 1 /\ (Distance(f, b) = 0 <=> f = b)
  BY <1>1 DEF Distance, Index
<1>3. Distance(Increment(f), f) = Capacity - 1
  BY <1>1 DEF Distance, Increment, Index
<1>4. f # b => Distance(Increment(f), b) = Distance(f, b) - 1
  BY <1>1 DEF Distance, Increment, Index
<1>5. f = Increment(b) => Distance(f, b) = Capacity - 1
  BY <1>1 DEF Distance, Increment, Index
<1>6. f # Increment(b) => Distance(f, Increment(b)) = Distance(f, b) + 1
  BY <1>1 DEF Distance, Increment, Index
<1> QED
  BY <1>2, <1>3, <1>4, <1>5, <1>6

\* What displace has counted once it has advanced back to b.
LEMMA BackAdvanced ==
    ASSUME LogAssumption, NEW f \in Index, NEW b \in Index
    PROVE  Distance(f, b) = IF f = Increment(b)
             THEN Capacity - 1 ELSE Distance(f, Increment(b)) - 1
<1>1. Distance(f, b) \in Int /\ Distance(f, Increment(b)) \in Int
  BY DistanceSteps, IncrementValue DEF LogAssumption
<1> QED
  BY <1>1, DistanceSteps

\* An entry is written where back has been advanced before.
LEMMA WriteCounts ==
    ASSUME LogAssumption, RingTypeOK, NEW b \in Index,
           nUnread = IF front_ind = b THEN Capacity - 1
                                      ELSE Distance(front_ind, b) - 1,
           Displaced(front_ind, b), CountEntry
    PROVE  /\ front_ind' \in Index /\ nLogged' = nLogged + 1
           /\ queue' \in [Index -> 0 .. nLogged'] /\ queue'[front_ind'] = nLogged'
           /\ nUnread' \in 0 .. Capacity - 1 /\ nUnread' = Distance(front_ind', b)
<1>1. Capacity \in Nat /\ Capacity > 0 /\ front_ind \in Index /\ nLogged \in Nat
  BY DEF LogAssumption, RingTypeOK
<1>2. front_ind' = IF b = front_ind THEN Increment(front_ind) ELSE front_ind
  BY DEF Displaced
<1>3. front_ind' \in Index
  BY <1>1, <1>2, IncrementValue
<1>4. nLogged' = nLogged + 1
  BY DEF CountEntry
<1>5. queue' = [queue EXCEPT ![front_ind'] = nLogged + 1]
  BY DEF Displaced
<1>6. queue' \in [Index -> 0 .. nLogged'] /\ queue'[front_ind'] = nLogged'
  <2>1. \A i \in Index : queue[i] \in 0 .. nLogged + 1
    BY <1>1 DEF RingTypeOK
  <2>2. nLogged + 1 \in 0 .. nLogged + 1
    BY <1>1
  <2>3. queue \in [Index -> 0 .. nLogged]
    BY DEF RingTypeOK
  <2> QED
    BY <1>3, <1>4, <1>5, <2>1, <2>2, <2>3
<1>7. nUnread' = Distance(front_ind', b) /\ nUnread' \in 0 .. Capacity - 1
  <2>1. CASE front_ind = b
    <3>1. nUnread' = Capacity - 1
      BY <1>1, <2>1 DEF CountEntry
    <3> QED
      BY <1>1, <1>2, <2>1, <3>1, DistanceSteps
  <2>2. CASE front_ind # b
    <3>1. nUnread = Distance(front_ind, b) - 1
      BY <2>2
    <3>2. Distance(front_ind, b) \in 0 .. Capacity - 1
      BY <1>1, DistanceSteps
    <3>3. nUnread' = Distance(front_ind, b)
      BY <1>1, <3>1, <3>2 DEF CountEntry
    <3> QED
      BY <1>2, <2>2, <3>2, <3>3
  <2> QED
    BY <2>1, <2>2
<1> QED
  BY <1>3, <1>4, <1>6, <1>7

\* Where a thread goes after its unlock there is room for one more entry.
LEMMA RoomAfterUnlock ==
    ASSUME NEW t \in Threads, op[t] = "pop", AfterUnlock(t) = "load"
    PROVE  Len(log_store) < Capacity
BY DEF AfterUnlock

\* A step of the lock leaves the ring alone.
LEMMA LockStepKeepsRing ==
    ASSUME LogAssumption, LogInv, NEW t \in Threads,
           UNCHANGED <<ringVars, printVars, op, disturbed>>,
           \/ CopyLoad(t) \/ CopyStore(t) \/ Acquire(t) \/ Pend(t)
           \/ Unlock(t) \/ HandOver(t)
    PROVE  RingTypeOK' /\ Counted' /\ Room'
<1>1. /\ pc \in [Threads -> Places] /\ mutex \in Mutexes
      /\ \A x \in Threads : Inside(x) => x = t \/ ~Inside(t)
  BY InsideAlone DEF LogInv, LockInv, LockTypeOK
<1>2. RingTypeOK'
  BY DEF LogInv, RingTypeOK, ringVars, printVars
<1>3. \A u \in Threads :
         /\ pc'[u] = "inside" <=> pc[u] = "inside"
         /\ op[u] = "pop" /\ pc'[u] \in {"load", "store", "lock", "pending", "enter"}
              => \/ Len(log_store) < Capacity
                 \/ pc[u] \in {"load", "store", "lock", "pending", "enter"}
  <2>1. CASE \/ CopyLoad(t) \/ CopyStore(t) \/ Acquire(t) \/ Pend(t)
    <3>1. \E from, to \in {"load", "store", "lock", "pending", "enter"} :
             pc[t] = from /\ pc' = [pc EXCEPT ![t] = to]
      BY <2>1 DEF CopyLoad, CopyStore, Acquire, Pend, Go
    <3> QED
      BY <1>1, <3>1
  <2>2. CASE Unlock(t)
    <3>1. pc[t] = "unlock" /\ pc' = [pc EXCEPT ![t] = AfterUnlock(t)]
      BY <2>2 DEF Unlock, Go
    <3>2. AfterUnlock(t) \in {"load", "idle"}
      BY DEF AfterUnlock
    <3> QED
      BY <1>1, <3>1, <3>2, RoomAfterUnlock
  <2>3. CASE HandOver(t)
    <3>1. PICK w \in mutex.waiting :
            pc' = [pc EXCEPT ![t] = AfterUnlock(t), ![w] = "enter"]
      BY <2>3 DEF HandOver
    <3>2. pc[t] = "unlock" /\ AfterUnlock(t) \in {"load", "idle"} /\ w \in Threads
      BY <1>1, <2>3, <3>1 DEF HandOver, AfterUnlock, Mutexes
    <3>3. pc[w] = "pending"
      <4>1. Sound \/ \E x \in Threads : Orphaned(x)
        BY DEF LogInv, LockInv
      <4>2. LockTypeOK
        BY DEF LogInv, LockInv
      <4>3. ~ \E x \in Threads : Orphaned(x)
        BY <2>3, <4>2 DEF HandOver, Orphaned, Inside
      <4> QED
        BY <3>1, <3>2, <4>1, <4>3 DEF Sound, Waiting
    <3> QED
      BY <1>1, <3>1, <3>2, <3>3, RoomAfterUnlock
  <2> QED
    BY <2>1, <2>2, <2>3
<1>4. Counted'
  BY <1>3 DEF LogInv, Counted, Between, Unread, ringVars, printVars
<1>5. Room'
  BY <1>3 DEF LogInv, Room, printVars
<1> QED
  BY <1>2, <1>4, <1>5

\* An operation begins.
LEMMA BeginKeepsRing ==
    ASSUME LogAssumption, LogInv, NEW t \in Threads, Begin(t)
    PROVE  RingTypeOK' /\ Counted' /\ Room'
<1>1. /\ pc \in [Threads -> Places] /\ op \in [Threads -> {"log", "pop"}]
      /\ Capacity \in Nat /\ Capacity > 0
  BY DEF LogInv, LockInv, LockTypeOK, RingTypeOK, LogAssumption
<1>2. /\ pc[t] = "idle" /\ pc' = [pc EXCEPT ![t] = "load"]
      /\ UNCHANGED <<ringVars, found, shown, disturbed>>
  BY DEF Begin, CallLog, CallPrint, Go, printVars
<1>3. \A u \in Threads :
         /\ pc'[u] = "inside" <=> pc[u] = "inside"
         /\ u # t => pc'[u] = pc[u]
  BY <1>1, <1>2
<1>4. CASE CallLog(t)
  <2>1. op' = [op EXCEPT ![t] = "log"] /\ log_store' = log_store
    BY <1>4 DEF CallLog, printVars
  <2>2. \A u \in Threads : op'[u] = "pop" => u # t /\ op[u] = "pop"
    BY <1>1, <2>1
  <2>3. Room'
    BY <1>3, <2>1, <2>2 DEF LogInv, Room
  <2>4. \A u \in Threads : u # t => op'[u] = op[u]
    BY <1>1, <2>1
  <2>5. Counted'
    BY <1>2, <1>3, <2>4 DEF LogInv, Counted, Between, Unread, ringVars
  <2>6. RingTypeOK'
    BY <1>1, <1>2, <2>1 DEF LogInv, RingTypeOK, ringVars
  <2> QED
    BY <2>3, <2>5, <2>6
<1>5. CASE CallPrint(t)
  <2>1. op' = [op EXCEPT ![t] = "pop"] /\ log_store' = <<>> /\ t \in Printers
    BY <1>5 DEF CallPrint
  <2>2. \A u \in Threads : op'[u] = "pop" => u = t \/ op[u] = "pop"
    BY <1>1, <2>1
  <2>3. Len(log_store') < Capacity
    BY <1>1, <2>1
  <2>4. Room'
    BY <2>1, <2>2, <2>3 DEF LogInv, Room
  <2>5. \A u \in Threads : u # t => op'[u] = op[u]
    BY <1>1, <2>1
  <2>6. Counted'
    BY <1>2, <1>3, <2>5 DEF LogInv, Counted, Between, Unread, ringVars
  <2>7. op' \in [Threads -> {"log", "pop"}] /\ log_store' \in Seq(0 .. nLogged')
        /\ Len(log_store') <= Capacity
    BY <1>1, <2>1, <2>3
  <2>8. RingTypeOK'
    BY <1>2, <2>7 DEF LogInv, RingTypeOK, ringVars
  <2> QED
    BY <2>4, <2>6, <2>8
<1> QED
  BY <1>4, <1>5 DEF Begin

\* An interrupt logs, or disturbs.
LEMMA InterruptKeepsRing ==
    ASSUME LogAssumption, LogInv, InterruptLogs
    PROVE  RingTypeOK' /\ Counted' /\ Room'
<1>1. UNCHANGED <<pc, op, log_store, found, shown>>
  BY DEF InterruptLogs, printVars
<1>2. Room'
  BY <1>1 DEF LogInv, Room
<1>3. CASE \E t \in Threads : Inside(t)
  <2>1. UNCHANGED ringVars /\ disturbed' = TRUE
    BY <1>3 DEF InterruptLogs
  <2>2. RingTypeOK' /\ Counted'
    BY <1>1, <2>1 DEF LogInv, RingTypeOK, Counted, Between, Unread, ringVars
  <2> QED
    BY <1>2, <2>2
<1>4. CASE \A t \in Threads : ~Inside(t)
  <2>1. /\ back_ind' = Increment(back_ind) /\ disturbed' = disturbed
        /\ Displaced(front_ind, back_ind') /\ CountEntry
    BY <1>4 DEF InterruptLogs
  <2>2. \A t \in Threads : pc[t] # "inside"
    BY <1>4 DEF Inside
  <2>3. nUnread = Unread /\ RingTypeOK /\ front_ind \in Index /\ back_ind \in Index
    BY <2>2 DEF LogInv, Counted, RingTypeOK
  <2>4. back_ind' \in Index
    BY <2>1, <2>3, IncrementValue
  <2>5. nUnread = IF front_ind = back_ind' THEN Capacity - 1
                  ELSE Distance(front_ind, back_ind') - 1
    BY <2>1, <2>3, BackAdvanced DEF Unread
  <2>6. /\ front_ind' \in Index /\ nLogged' = nLogged + 1
        /\ queue' \in [Index -> 0 .. nLogged'] /\ queue'[front_ind'] = nLogged'
        /\ nUnread' \in 0 .. Capacity - 1 /\ nUnread' = Unread'
    BY <2>1, <2>3, <2>4, <2>5, WriteCounts DEF Unread
  <2>7. Counted'
    BY <1>1, <2>2, <2>6 DEF Counted
  <2>8. /\ nLogged' \in Nat /\ shown \in 0 .. nLogged'
        /\ log_store \in Seq(0 .. nLogged')
    <3>1. nLogged \in Nat /\ shown \in 0 .. nLogged /\ log_store \in Seq(0 .. nLogged)
      BY <2>3 DEF RingTypeOK
    <3>2. 0 .. nLogged \subseteq 0 .. nLogged'
      BY <2>6, <3>1
    <3> QED
      BY <2>6, <3>1, <3>2, SeqMonotonic
  <2>9. RingTypeOK'
    BY <1>1, <2>1, <2>3, <2>4, <2>6, <2>8 DEF RingTypeOK
  <2> QED
    BY <1>2, <2>7, <2>9
<1> QED
  BY <1>3, <1>4
\* displace, one step after the other.
LEMMA DisplaceKeepsRing ==
    ASSUME LogAssumption, LogInv, NEW t \in Threads,
           AdvanceBack(t) \/ WriteEntry(t), UNCHANGED disturbed
    PROVE  RingTypeOK' /\ Counted' /\ Room'
<1>1. /\ pc \in [Threads -> Places] /\ RingTypeOK
      /\ front_ind \in Index /\ back_ind \in Index
  BY DEF LogInv, LockInv, LockTypeOK, RingTypeOK
<1>2. op[t] = "log" /\ UNCHANGED <<op, log_store, found, shown, disturbed>>
  BY DEF AdvanceBack, WriteEntry, printVars
<1>3. Inside(t) /\ \A u \in Threads : u # t => pc'[u] = pc[u] /\ pc[u] # "inside"
  BY <1>1, InsideAlone DEF LogInv, AdvanceBack, WriteEntry, Go, Inside
<1>4. Room'
  BY <1>2, <1>3 DEF LogInv, Room
<1>5. CASE AdvanceBack(t)
  <2>1. /\ pc[t] = "enter" /\ pc'[t] = "inside" /\ back_ind' = Increment(back_ind)
        /\ UNCHANGED <<front_ind, queue, nLogged, nUnread>>
    BY <1>1, <1>5 DEF AdvanceBack, Go
  <2>2. nUnread = Unread
    BY <1>3, <2>1 DEF LogInv, Counted
  <2>3. back_ind' \in Index
    BY <1>1, <2>1, IncrementValue
  <2>4. Between(t)'
    BY <1>1, <1>2, <2>1, <2>2, BackAdvanced DEF Between, Unread
  <2>5. Counted'
    <3>1. shown' = nLogged' \/ queue'[front_ind'] = nLogged'
      BY <1>2, <2>1 DEF LogInv, Counted
    <3>2. \A u \in Threads : pc'[u] = "inside" => u = t
      BY <1>3
    <3> QED
      BY <2>1, <2>4, <3>1, <3>2 DEF Counted
  <2>6. RingTypeOK'
    BY <1>1, <1>2, <2>1, <2>3 DEF RingTypeOK
  <2> QED
    BY <1>4, <2>5, <2>6
<1>6. CASE WriteEntry(t)
  <2>1. /\ pc[t] = "inside" /\ pc'[t] = "unlock" /\ back_ind' = back_ind
        /\ Displaced(front_ind, back_ind) /\ CountEntry
    BY <1>1, <1>6 DEF WriteEntry, Go
  <2>2. nUnread = IF front_ind = back_ind THEN Capacity - 1
                  ELSE Distance(front_ind, back_ind) - 1
    BY <1>2, <2>1 DEF LogInv, Counted, Between, Unread
  <2>3. /\ front_ind' \in Index /\ nLogged' = nLogged + 1
        /\ queue' \in [Index -> 0 .. nLogged'] /\ queue'[front_ind'] = nLogged'
        /\ nUnread' \in 0 .. Capacity - 1 /\ nUnread' = Unread'
    BY <1>1, <2>1, <2>2, WriteCounts DEF Unread
  <2>4. Counted'
    BY <1>3, <2>1, <2>3 DEF Counted
  <2>5. /\ nLogged' \in Nat /\ shown \in 0 .. nLogged'
        /\ log_store \in Seq(0 .. nLogged')
    <3>1. nLogged \in Nat /\ shown \in 0 .. nLogged /\ log_store \in Seq(0 .. nLogged)
      BY <1>1 DEF RingTypeOK
    <3>2. 0 .. nLogged \subseteq 0 .. nLogged'
      BY <2>3, <3>1
    <3> QED
      BY <2>3, <3>1, <3>2, SeqMonotonic
  <2>6. RingTypeOK'
    BY <1>1, <1>2, <2>1, <2>3, <2>5 DEF RingTypeOK
  <2> QED
    BY <1>4, <2>4, <2>6
<1> QED
  BY <1>5, <1>6

\* The entry a pop takes is the newest, or the newest has been taken.
LEMMA TakesNewest ==
    ASSUME LogInv, NEW t \in Threads, TakeEntry(t)
    PROVE  shown' = nLogged /\ UNCHANGED nLogged
<1>1. /\ queue[front_ind] \in 0 .. nLogged /\ shown \in 0 .. nLogged
      /\ nLogged \in Nat
  BY DEF LogInv, RingTypeOK
<1>2. shown = nLogged \/ queue[front_ind] = nLogged
  BY DEF LogInv, Counted
<1>3. /\ shown' = IF queue[front_ind] > shown THEN queue[front_ind] ELSE shown
      /\ UNCHANGED nLogged
  BY DEF TakeEntry, ringVars
<1> QED
  BY <1>1, <1>2, <1>3

\* pop, one step after the other.
LEMMA PopKeepsRing ==
    ASSUME LogAssumption, LogInv, NEW t \in Threads,
           FindNothing(t) \/ TakeEntry(t) \/ AdvanceFront(t), UNCHANGED disturbed
    PROVE  RingTypeOK' /\ Counted' /\ Room'
<1>1. /\ pc \in [Threads -> Places] /\ RingTypeOK
      /\ front_ind \in Index /\ back_ind \in Index
      /\ Capacity \in Nat /\ nLogged \in Nat /\ nUnread \in 0 .. Capacity - 1
  BY DEF LogInv, LockInv, LockTypeOK, RingTypeOK, LogAssumption
<1>2. op[t] = "pop" /\ UNCHANGED <<op, back_ind, queue, nLogged, disturbed>>
  BY DEF FindNothing, TakeEntry, AdvanceFront, ringVars
<1>3. Inside(t) /\ \A u \in Threads : u # t => pc'[u] = pc[u] /\ pc[u] # "inside"
  BY <1>1, InsideAlone DEF LogInv, FindNothing, TakeEntry, AdvanceFront, Go, Inside
<1>4. \A u \in Threads : op[u] = "pop" => u = t
  BY <1>2 DEF LogInv, Room, LogAssumption
<1>5. t \in Printers
  BY <1>2 DEF LogInv, Room
<1>6. pc'[t] \in {"inside", "unlock"} => Room'
  BY <1>2, <1>4, <1>5 DEF Room
<1>7. CASE FindNothing(t)
  <2>1. /\ pc[t] = "enter" /\ pc'[t] = "unlock" /\ found' = FALSE
        /\ UNCHANGED <<front_ind, nUnread, log_store, shown>>
    BY <1>1, <1>7 DEF FindNothing, Go, ringVars
  <2>2. nUnread = Unread
    BY <1>3, <2>1 DEF LogInv, Counted
  <2>3. Unread' = Unread
    BY <1>2, <2>1 DEF Unread
  <2>4. Counted'
    BY <1>2, <1>3, <2>1, <2>2, <2>3 DEF LogInv, Counted
  <2>5. RingTypeOK'
    BY <1>1, <1>2, <2>1 DEF RingTypeOK
  <2> QED
    BY <1>6, <2>1, <2>4, <2>5
<1>8. CASE TakeEntry(t)
  <2>1. /\ pc[t] = "enter" /\ pc'[t] = "inside" /\ front_ind # back_ind
        /\ found' = TRUE /\ UNCHANGED <<front_ind, nUnread>>
        /\ log_store' = Append(log_store, queue[front_ind])
    BY <1>1, <1>8 DEF TakeEntry, Go, ringVars
  <2>2. nUnread = Unread
    BY <1>3, <2>1 DEF LogInv, Counted
  <2>3. Unread' = Unread
    BY <1>2, <2>1 DEF Unread
  <2>4. shown' = nLogged
    BY <1>8, TakesNewest
  <2>5. Between(t)'
    BY <1>2, <2>1, <2>2, <2>3, <2>4 DEF Between
  <2>6. Counted'
    <3>1. \A u \in Threads : pc'[u] = "inside" => u = t
      BY <1>3
    <3> QED
      BY <1>2, <2>1, <2>4, <2>5, <3>1 DEF Counted
  <2>7. log_store' \in Seq(0 .. nLogged) /\ Len(log_store') <= Capacity
    <3>1. log_store \in Seq(0 .. nLogged) /\ queue[front_ind] \in 0 .. nLogged
      BY <1>1 DEF RingTypeOK
    <3>2. Len(log_store) < Capacity
      BY <1>2, <2>1 DEF LogInv, Room
    <3>3. Len(log_store) \in Nat /\ Len(log_store') = Len(log_store) + 1
      BY <2>1, <3>1, AppendProperties
    <3> QED
      BY <1>1, <2>1, <3>1, <3>2, <3>3, AppendProperties
  <2>8. RingTypeOK'
    BY <1>1, <1>2, <2>1, <2>4, <2>7 DEF RingTypeOK
  <2> QED
    BY <1>6, <2>1, <2>6, <2>8
<1>9. CASE AdvanceFront(t)
  <2>1. /\ pc[t] = "inside" /\ pc'[t] = "unlock"
        /\ front_ind' = Increment(front_ind) /\ nUnread' = nUnread - 1
        /\ UNCHANGED printVars
    BY <1>1, <1>9 DEF AdvanceFront, Go
  <2>2. nUnread = Unread /\ front_ind # back_ind /\ shown = nLogged
    BY <1>2, <2>1 DEF LogInv, Counted, Between
  <2>3. front_ind' \in Index /\ Unread' = Unread - 1 /\ Unread # 0
    BY <1>1, <1>2, <2>1, <2>2, IncrementValue, DistanceSteps DEF Unread
  <2>4. nUnread' = Unread' /\ nUnread' \in 0 .. Capacity - 1
    BY <1>1, <2>1, <2>2, <2>3
  <2>5. Counted'
    <3>1. shown' = nLogged'
      BY <1>2, <2>1, <2>2 DEF printVars
    <3> QED
      BY <1>3, <2>1, <2>4, <3>1 DEF Counted
  <2>6. RingTypeOK'
    BY <1>1, <1>2, <2>1, <2>3, <2>4 DEF RingTypeOK, printVars
  <2> QED
    BY <1>6, <2>1, <2>5, <2>6
<1> QED
  BY <1>7, <1>8, <1>9

\* Each step preserves LogInv.
LEMMA LogStep ==
    ASSUME LogAssumption, FewPreemptible, LogInv, [Next]_vars
    PROVE  LogInv'
<1>1. LockInv'
  BY LockStep DEF LogInv
<1>2. ASSUME NEW t \in Threads, Proceed(t)
      PROVE  RingTypeOK' /\ Counted' /\ Room'
  <2>1. UNCHANGED disturbed
    BY <1>2 DEF Proceed
  <2>2. CASE \/ CopyLoad(t) \/ CopyStore(t) \/ Acquire(t) \/ Pend(t)
             \/ Unlock(t) \/ HandOver(t)
    <3>1. UNCHANGED <<ringVars, printVars, op>>
      BY <2>2 DEF CopyLoad, CopyStore, Acquire, Pend, Unlock, HandOver
    <3> QED
      BY <2>1, <2>2, <3>1, LockStepKeepsRing
  <2>3. CASE AdvanceBack(t) \/ WriteEntry(t)
    BY <2>1, <2>3, DisplaceKeepsRing
  <2>4. CASE FindNothing(t) \/ TakeEntry(t) \/ AdvanceFront(t)
    BY <2>1, <2>4, PopKeepsRing
  <2> QED
    BY <1>2, <2>2, <2>3, <2>4 DEF Proceed
<1>3. ASSUME UNCHANGED vars PROVE RingTypeOK' /\ Counted' /\ Room'
  <2>1. RingTypeOK'
    BY <1>3 DEF LogInv, RingTypeOK, vars, ringVars, printVars
  <2>2. Counted'
    BY <1>3 DEF LogInv, Counted, Between, Unread, vars, ringVars, printVars
  <2>3. Room'
    BY <1>3 DEF LogInv, Room, vars, printVars
  <2> QED
    BY <2>1, <2>2, <2>3
<1>4. RingTypeOK' /\ Counted' /\ Room'
  <2>1. CASE InterruptLogs
    BY <2>1, InterruptKeepsRing
  <2>2. CASE \E t \in Threads : Begin(t)
    BY <2>2, BeginKeepsRing
  <2> QED
    BY <1>2, <1>3, <2>1, <2>2 DEF Next
<1> QED
  BY <1>1, <1>4 DEF LogInv

\* LogInv holds of the empty log.
LEMMA LogInitially ==
    ASSUME LogAssumption, Init
    PROVE  LogInv
<1>1. Capacity \in Nat /\ Capacity > 0
  BY DEF LogAssumption
<1>2. /\ front_ind = 0 /\ back_ind = 0 /\ nLogged = 0 /\ nUnread = 0
      /\ shown = 0 /\ log_store = <<>> /\ pc = [t \in Threads |-> "idle"]
      /\ queue = [i \in Index |-> 0] /\ 0 \in Index
  BY <1>1 DEF Init, NoEntry, Index
<1>3. RingTypeOK
  <2>1. queue \in [Index -> 0 .. nLogged] /\ log_store \in Seq(0 .. nLogged)
    BY <1>2
  <2>2. op \in [Threads -> {"log", "pop"}]
        /\ found \in BOOLEAN /\ disturbed \in BOOLEAN
    BY DEF Init
  <2>3. Len(log_store) = 0 /\ nUnread \in 0 .. Capacity - 1 /\ shown \in 0 .. nLogged
    BY <1>1, <1>2
  <2> QED
    BY <1>1, <1>2, <2>1, <2>2, <2>3 DEF RingTypeOK
<1>4. Counted
  BY <1>1, <1>2 DEF Counted, Unread, Distance
<1>5. Room
  BY DEF Init, Room
<1> QED
  BY <1>2, <1>3, <1>4, <1>5, LockInitially DEF LogInv

-----------------------------------------------------------------------------
(* The theorems *)

\* Every behaviour satisfies LogInv.
LEMMA LogInvariant ==
    ASSUME LogAssumption, FewPreemptible
    PROVE  Spec => []LogInv
<1>1. Init => LogInv
  BY LogInitially
<1>2. LogInv /\ [Next]_vars => LogInv'
  BY LogStep
<1> QED
  BY <1>1, <1>2, PTL DEF Spec

\* The log is what its declarations say, and a print never pops more entries
\* than log_store has places for (logger.h, get_entries).
THEOREM LogTypeCorrect ==
    ASSUME LogAssumption, FewPreemptible
    PROVE  Spec => []TypeOK
<1>1. LogInv => TypeOK
  BY DEF LogInv, LockInv, LockTypeOK, RingTypeOK, TypeOK, Mutexes, Places
<1> QED
  BY <1>1, LogInvariant, PTL

\* The lock excludes, although MutexLock writes the mutex back: with no more
\* than two preemptible threads a stale mutex can keep the log from everyone,
\* and never let two in.
THEOREM LockExcludes ==
    ASSUME LogAssumption, FewPreemptible
    PROVE  Spec => []OneInside
<1>1. LogInv => OneInside
  <2> SUFFICES ASSUME LogInv PROVE OneInside
    OBVIOUS
  <2> DEFINE S == {t \in Threads : Inside(t)}
  <2>0. OneInside <=> Cardinality(S) <= 1
    BY DEF OneInside
  <2>1. CASE S = {}
    <3>1. Cardinality(S) = 0
      BY <2>1, FS_EmptySet
    <3> QED
      BY <2>0, <3>1
  <2>2. CASE S # {}
    <3>1. PICK t \in Threads : Inside(t)
      BY <2>2
    <3>2. S = {t}
      BY <3>1, InsideAlone DEF LogInv
    <3>3. Cardinality(S) = 1
      BY <3>2, FS_Singleton
    <3> QED
      BY <2>0, <3>3
  <2> QED
    BY <2>1, <2>2
<1> QED
  BY <1>1, LogInvariant, PTL

\* Wherever displace and pop have been preempted: whenever nobody is inside, the
\* indices are as far apart as entries were counted in and popped out, and as
\* long as the newest entry has not been popped, the next pop finds it.
THEOREM RingCountsUnread ==
    ASSUME LogAssumption, FewPreemptible
    PROVE  Spec => [](UnreadCounted /\ (shown # nLogged => queue[front_ind] = nLogged))
<1>1. LogInv => UnreadCounted /\ (shown # nLogged => queue[front_ind] = nLogged)
  <2>1. ASSUME LogInv, \A t \in Threads : ~Inside(t) PROVE nUnread = Unread
    BY <2>1 DEF LogInv, Counted, Inside
  <2>2. LogInv => UnreadCounted
    BY <2>1 DEF UnreadCounted, Unread, Distance
  <2>3. LogInv => shown = nLogged \/ queue[front_ind] = nLogged
    BY DEF LogInv, Counted
  <2> QED
    BY <2>2, <2>3
<1> QED
  BY <1>1, LogInvariant, PTL

\* By the end of any pop the newest entry logged has been popped: by that pop, or
\* by one before it, in which case this one may take anything older.
THEOREM PopTakesNewest ==
    ASSUME LogAssumption, FewPreemptible
    PROVE  Spec => NewestNext
<1>1. LogInv /\ [Next]_vars => [Len(log_store') > Len(log_store) => shown' = nLogged]_vars
  <2> SUFFICES ASSUME LogInv, Next, Len(log_store') > Len(log_store)
               PROVE  shown' = nLogged
    OBVIOUS
  <2>1. log_store \in Seq(0 .. nLogged)
    BY DEF LogInv, RingTypeOK
  <2>2. Len(log_store) \in Nat
    BY <2>1, LenProperties
  <2>3. log_store' # log_store /\ log_store' # <<>>
    BY <2>2
  <2>4. \E t \in Threads : TakeEntry(t)
    BY <2>3 DEF Next, Begin, CallLog, CallPrint, Proceed, CopyLoad, CopyStore, Acquire,
                Pend, Unlock, HandOver, AdvanceBack, WriteEntry, FindNothing,
                AdvanceFront, InterruptLogs, printVars
  <2> QED
    BY <2>4, TakesNewest
<1> QED
  BY <1>1, LogInvariant, PTL DEF Spec, NewestNext
=============================================================================
