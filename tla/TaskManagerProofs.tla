-------------------------- MODULE TaskManagerProofs --------------------------
(***************************************************************************)
(* The safety of TaskManager for any set of tasks, of any kinds, Priority, *)
(* periods and repeat counts, and any width of num_repeats.                *)
(*                                                                         *)
(* TaskInv says where each context is: on its timer, in the list of its    *)
(* queue, in the hands of the thread of that queue, or nowhere; and that   *)
(* num_repeats counts the runs it still has to get.                        *)
(***************************************************************************)
EXTENDS TaskManager, FiniteSetTheorems, SequenceTheorems, TLAPS

-----------------------------------------------------------------------------
(* The items in the list of a work queue.                                   *)

\* Submitting an item that is not in the list keeps its items distinct.
LEMMA Appended ==
    ASSUME NEW S, NEW s \in Seq(S), NEW x \in S
    PROVE  /\ Append(s, x) \in Seq(S)
           /\ ToSet(Append(s, x)) = ToSet(s) \cup {x}
           /\ IsInjective(s) /\ x \notin ToSet(s) => IsInjective(Append(s, x))
<1> DEFINE t == Append(s, x)
           n == Len(s)
<1>1. /\ t \in Seq(S) /\ n \in Nat /\ DOMAIN s = 1 .. n
      /\ DOMAIN t = 1 .. n + 1
      /\ \A i \in 1 .. n : t[i] = s[i]
      /\ t[n + 1] = x
  BY AppendProperties, LenProperties
<1> HIDE DEF t, n
<1>2. \A i \in 1 .. n + 1 : i \in 1 .. n \/ i = n + 1 BY <1>1
<1>3. 1 .. n \subseteq 1 .. n + 1 /\ n + 1 \in 1 .. n + 1 /\ n + 1 \notin 1 .. n
  BY <1>1
<1>4. ToSet(t) = ToSet(s) \cup {x}
  BY <1>1, <1>2, <1>3 DEF ToSet
<1>5. IsInjective(s) /\ x \notin ToSet(s) => IsInjective(t)
  BY <1>1, <1>2, <1>3 DEF ToSet, IsInjective
<1> QED BY <1>1, <1>4, <1>5 DEF t

\* So does taking the first one, which is in the list no more.
LEMMA Taken ==
    ASSUME NEW S, NEW s \in Seq(S), s # <<>>
    PROVE  /\ Head(s) \in ToSet(s) /\ Head(s) \in S
           /\ Tail(s) \in Seq(S)
           /\ ToSet(Tail(s)) \subseteq ToSet(s)
           /\ IsInjective(s) => /\ IsInjective(Tail(s))
                                /\ Head(s) \notin ToSet(Tail(s))
<1> DEFINE t == Tail(s)
           n == Len(t)
<1>1. /\ t \in Seq(S) /\ n \in Nat /\ DOMAIN t = 1 .. n
      /\ DOMAIN s = 1 .. n + 1 /\ Head(s) \in S /\ Head(s) = s[1]
      /\ \A i \in 1 .. n : t[i] = s[i + 1]
  <2>1. /\ t \in Seq(S) /\ Head(s) \in S /\ n = Len(s) - 1 /\ Len(s) \in Nat
        /\ \A i \in 1 .. n : t[i] = s[i + 1]
    BY HeadTailProperties, LenProperties
  <2>2. Head(s) = s[1] /\ Len(s) # 0 OBVIOUS
  <2> QED BY <2>1, <2>2, LenProperties
<1> HIDE DEF t, n
<1>2. \A i \in 1 .. n : i + 1 \in 1 .. n + 1 /\ i + 1 # 1 BY <1>1
<1>3. 1 \in 1 .. n + 1 BY <1>1
<1>4. Head(s) \in ToSet(s) /\ ToSet(t) \subseteq ToSet(s)
  BY <1>1, <1>2, <1>3 DEF ToSet
<1>5. ASSUME IsInjective(s)
      PROVE  IsInjective(t) /\ Head(s) \notin ToSet(t)
  <2>1. \A i, j \in 1 .. n + 1 : s[i] = s[j] => i = j
    BY <1>1, <1>5 DEF IsInjective
  <2>2. ASSUME NEW i \in 1 .. n, NEW j \in 1 .. n, t[i] = t[j] PROVE i = j
    <3>1. s[i + 1] = s[j + 1] BY <1>1, <2>2
    <3>2. i + 1 = j + 1 BY <1>2, <2>1, <3>1
    <3> QED BY <1>1, <3>2
  <2>3. \A i \in 1 .. n : t[i] # Head(s)
    BY <1>1, <1>2, <1>3, <2>1
  <2> QED BY <1>1, <2>2, <2>3 DEF ToSet, IsInjective
<1> QED BY <1>1, <1>4, <1>5 DEF t

\* And so does submitting several that are not in the list.
LEMMA Joined ==
    ASSUME NEW S, NEW s \in Seq(S), NEW t \in Seq(S)
    PROVE  /\ s \o t \in Seq(S)
           /\ ToSet(s \o t) = ToSet(s) \cup ToSet(t)
           /\ /\ IsInjective(s) /\ IsInjective(t)
              /\ ToSet(s) \cap ToSet(t) = {}
              => IsInjective(s \o t)
<1> DEFINE u == s \o t
           n == Len(s)
           m == Len(t)
<1>1. /\ u \in Seq(S) /\ n \in Nat /\ m \in Nat
      /\ DOMAIN u = 1 .. n + m /\ DOMAIN s = 1 .. n /\ DOMAIN t = 1 .. m
      /\ \A i \in 1 .. n + m : u[i] = IF i <= n THEN s[i] ELSE t[i - n]
  <2>1. /\ u \in Seq(S) /\ Len(u) = n + m
        /\ \A i \in 1 .. n + m : u[i] = IF i <= n THEN s[i] ELSE t[i - n]
    BY ConcatProperties
  <2> QED BY <2>1, LenProperties
<1> HIDE DEF u, n, m
<1>2. /\ \A i \in 1 .. n + m : \/ i \in 1 .. n /\ u[i] = s[i]
                               \/ i - n \in 1 .. m /\ u[i] = t[i - n]
      /\ \A i \in 1 .. n : i \in 1 .. n + m /\ u[i] = s[i]
      /\ \A j \in 1 .. m : j + n \in 1 .. n + m /\ u[j + n] = t[j]
  <2>1. \A j \in 1 .. m : /\ j + n \in 1 .. n + m /\ ~(j + n <= n)
                          /\ (j + n) - n = j
    BY <1>1
  <2>2. \A i \in 1 .. n + m : i \in 1 .. n \/ (i - n \in 1 .. m /\ ~(i <= n))
    BY <1>1
  <2>3. \A i \in 1 .. n : i \in 1 .. n + m /\ i <= n BY <1>1
  <2> QED BY <1>1, <2>1, <2>2, <2>3
<1>3. ToSet(u) = ToSet(s) \cup ToSet(t)
  <2>1. ASSUME NEW x \in ToSet(u) PROVE x \in ToSet(s) \cup ToSet(t)
    <3>1. PICK i \in 1 .. n + m : x = u[i] BY <1>1 DEF ToSet
    <3>2. CASE i \in 1 .. n /\ u[i] = s[i] BY <1>1, <3>1, <3>2 DEF ToSet
    <3>3. CASE i - n \in 1 .. m /\ u[i] = t[i - n]
      BY <1>1, <3>1, <3>3 DEF ToSet
    <3> QED BY <1>2, <3>2, <3>3
  <2>2. \A x \in ToSet(s) : x \in ToSet(u)
    BY <1>1, <1>2 DEF ToSet
  <2>3. ASSUME NEW x \in ToSet(t) PROVE x \in ToSet(u)
    <3>1. PICK j \in 1 .. m : x = t[j] BY <1>1 DEF ToSet
    <3>2. j + n \in 1 .. n + m /\ u[j + n] = x BY <1>2, <3>1
    <3> QED BY <1>1, <3>2 DEF ToSet
  <2> QED BY <2>1, <2>2, <2>3
<1>4. ASSUME IsInjective(s), IsInjective(t), ToSet(s) \cap ToSet(t) = {}
      PROVE  IsInjective(u)
  <2>1. SUFFICES ASSUME NEW i \in 1 .. n + m, NEW j \in 1 .. n + m, u[i] = u[j]
                 PROVE  i = j
    BY <1>1 DEF IsInjective
  <2>2. \A a \in 1 .. n, b \in 1 .. m : s[a] # t[b]
    BY <1>1, <1>4 DEF ToSet
  <2>3. CASE i \in 1 .. n /\ j \in 1 .. n
    BY <1>1, <1>2, <1>4, <2>1, <2>3 DEF IsInjective
  <2>4. CASE i - n \in 1 .. m /\ j - n \in 1 .. m
    <3>1. u[i] = t[i - n] /\ u[j] = t[j - n]
      BY <1>1, <1>2, <2>4
    <3>2. i - n = j - n BY <1>1, <1>4, <2>1, <2>4, <3>1 DEF IsInjective
    <3> QED BY <1>1, <3>2
  <2> QED BY <1>2, <2>1, <2>2, <2>3, <2>4
<1> QED BY <1>1, <1>3, <1>4 DEF u

-----------------------------------------------------------------------------
(* The inductive invariant *)

\* The handler of c has begun and has neither rescheduled nor deleted c.
Active(c) ==
    current[Class[c]] = c /\ at[Class[c]] \in {"func", "count", "delete"}

\* c is in the list of its queue.
Queued(c) == c \in ToSet(work_queue[Class[c]])

\* Each queue holds distinct items of its own Priority; an item that is queued or
\* in its handler is live, has no timer and is not queued besides.
Placed ==
    /\ \A p \in Priority :
          /\ \A c \in ToSet(work_queue[p]) : Class[c] = p
          /\ IsInjective(work_queue[p])
          /\ current[p] # NoTask => Class[current[p]] = p
    /\ \A c \in Task :
          /\ Queued(c) => context[c] = "live" /\ left[c] = 0
          /\ Active(c) => context[c] = "live" /\ left[c] = 0 /\ ~Queued(c)
          /\ left[c] # 0 => context[c] = "live"

\* The runs c has still to get, by its num_repeats: 0 stands for all 2^16.
Due(c) ==
    IF Kind[c] = "immediate" THEN 1
    ELSE IF num_repeats[c] = 0 THEN RepeatLimit ELSE num_repeats[c]

\* The function of c has returned and its repeat is not counted yet.
Ran(c) == current[Class[c]] = c /\ at[Class[c]] \in {"count", "delete"}

\* The runs had and the runs due add up to the runs asked for.
RunsCounted ==
    \A c \in Task :
        /\ current[Class[c]] = c /\ at[Class[c]] = "delete" =>
             Kind[c] = "immediate"
        /\ current[Class[c]] = c /\ at[Class[c]] = "count" =>
             Kind[c] # "immediate"
        /\ ~Forever(c) =>
             /\ context[c] = "none" => runs[c] = 0
             /\ context[c] = "live" =>
                  runs[c] + Due(c) = Target(c) + (IF Ran(c) THEN 1 ELSE 0)
             /\ context[c] = "freed" => runs[c] = Target(c)

\* The contexts allocated so far: in every state they are finitely many.
Added == {c \in Task : context[c] # "none"}

\* What every step of the tasks keeps.
TaskInv == TypeOK /\ IsFiniteSet(Added) /\ Placed /\ RunsCounted

-----------------------------------------------------------------------------
\* What the parameters of a task may be.
LEMMA Settings ==
    /\ Class \in [Task -> Priority]
    /\ \A c \in Task : /\ InitialRepeats(c) \in 0 .. RepeatLimit - 1
                       /\ Target(c) \in Nat \ {0}
                       /\ Period[c] \in Nat \ {0}
    /\ NoTask \notin Task
    /\ RepeatLimit \in Nat \ {0, 1}
  BY TaskAssumption DEF Priority, InitialRepeats, Target

\* A task has at least one run due until its last repeat is counted.
LEMMA DueType ==
    ASSUME TypeOK, NEW c \in Task
    PROVE  Due(c) \in Nat \ {0} /\ runs[c] \in Nat
  BY Settings DEF TypeOK, Due

\* TaskInv holds when TaskManager::init has returned.
LEMMA TaskInvInit == Init => TaskInv
<1> SUFFICES ASSUME Init PROVE TaskInv OBVIOUS
<1> USE DEF Init
<1>1. TypeOK BY Settings DEF TypeOK
<1>2. \A c \in Task : Class[c] \in Priority BY Settings
<1>3. \A p \in Priority : ToSet(work_queue[p]) = {} /\ IsInjective(work_queue[p])
  BY DEF ToSet, IsInjective
<1>4. Placed
  BY <1>2, <1>3 DEF Placed, Active, Queued
<1>5. RunsCounted
  BY <1>2, Settings DEF RunsCounted
<1>6. Added = {} BY DEF Added
<1> QED BY <1>1, <1>4, <1>5, <1>6, FS_EmptySet DEF TaskInv

\* A context is allocated that no queue, timer or thread knows.
LEMMA AddedByOne ==
    ASSUME TaskInv, NEW c \in Task, NewContext(c)
    PROVE  /\ context' \in [Task -> {"none", "live", "freed"}]
           /\ context[c] = "none" /\ context'[c] = "live"
           /\ \A d \in Task : d # c => context'[d] = context[d]
           /\ IsFiniteSet(Added')
           /\ left[c] = 0 /\ ~Queued(c) /\ ~Active(c)
<1>1. /\ context' \in [Task -> {"none", "live", "freed"}]
      /\ context[c] = "none" /\ context'[c] = "live"
      /\ \A d \in Task : d # c => context'[d] = context[d]
  BY DEF TaskInv, TypeOK, NewContext
<1>2. Added' = Added \cup {c} BY <1>1 DEF Added
<1>3. IsFiniteSet(Added') BY <1>2, FS_AddElement DEF TaskInv
<1>4. left[c] = 0 /\ ~Queued(c) /\ ~Active(c) BY <1>1 DEF TaskInv, Placed
<1> QED BY <1>1, <1>3, <1>4

\* A step that allocates none keeps the contexts finitely many.
LEMMA AddedKept ==
    ASSUME TaskInv, \A c \in Task : context'[c] # "none" => context[c] # "none"
    PROVE  IsFiniteSet(Added')
<1>1. Added' \in SUBSET Added BY DEF Added
<1> QED BY <1>1, FS_Subset DEF TaskInv

\* add_work_item keeps TaskInv.
LEMMA AddWorkItemKeeps ==
    ASSUME TaskInv, NEW c \in Task, AddWorkItem(c)
    PROVE  TaskInv'
<1> DEFINE P == Class[c]
<1>1. /\ Kind[c] = "immediate" /\ NewContext(c)
      /\ work_queue' = [work_queue EXCEPT ![P] = Append(@, c)]
      /\ UNCHANGED <<num_repeats, left, current, at, runs>>
  BY DEF AddWorkItem
<1>2. P \in Priority /\ \A d \in Task : Class[d] \in Priority BY Settings
<1>3. TypeOK /\ Placed /\ RunsCounted BY DEF TaskInv
<1>4. /\ work_queue' \in [Priority -> Seq(Task)]
      /\ ToSet(work_queue'[P]) = ToSet(work_queue[P]) \cup {c}
      /\ IsInjective(work_queue'[P])
      /\ \A q \in Priority : q # P => work_queue'[q] = work_queue[q]
  <2>1. work_queue[P] \in Seq(Task) /\ work_queue \in [Priority -> Seq(Task)]
    BY <1>2, <1>3 DEF TypeOK
  <2>2. IsInjective(work_queue[P]) /\ c \notin ToSet(work_queue[P])
    BY <1>1, <1>2, <1>3, AddedByOne DEF Placed, Queued
  <2>3. work_queue'[P] = Append(work_queue[P], c) BY <1>1, <1>2, <2>1
  <2>4. work_queue'[P] \in Seq(Task) BY <2>1, <2>3, Appended
  <2> QED BY <1>1, <1>2, <2>1, <2>2, <2>3, <2>4, Appended
<1> HIDE DEF P
<1>5. TypeOK'
  BY <1>1, <1>3, <1>4, AddedByOne DEF TypeOK
<1>6. \A d \in Task : /\ Queued(d)' <=> Queued(d) \/ d = c
                      /\ Active(d)' <=> Active(d)
  BY <1>1, <1>2, <1>4 DEF Queued, Active, P
<1>7. Placed'
  <2>1. \A q \in Priority : /\ \A d \in ToSet(work_queue'[q]) : Class[d] = q
                            /\ IsInjective(work_queue'[q])
    BY <1>3, <1>4 DEF Placed, P
  <2> QED BY <1>1, <1>3, <1>6, <2>1, AddedByOne DEF Placed
<1>8. RunsCounted'
  <2>1. Target(c) = 1 /\ Due(c)' = 1 /\ ~Ran(c)'
    BY <1>1, AddedByOne DEF Target, Due, Ran, Active
  <2>2. \A d \in Task : Due(d)' = Due(d) /\ Ran(d)' = Ran(d) /\ Target(d)' = Target(d)
    BY <1>1 DEF Due, Ran, Target
  <2>3. runs[c] = 0 \/ Forever(c)
    BY <1>1, <1>3, AddedByOne DEF RunsCounted
  <2> QED BY <1>1, <1>3, <2>1, <2>2, <2>3, AddedByOne DEF RunsCounted, Forever
<1> QED BY <1>1, <1>5, <1>7, <1>8, AddedByOne DEF TaskInv

\* add_work_item_delayed, add_work_item_repeating and forever_work_item do.
LEMMA AddDelayedKeeps ==
    ASSUME TaskInv, NEW c \in Task, AddDelayed(c)
    PROVE  TaskInv'
<1>1. /\ Kind[c] # "immediate" /\ NewContext(c)
      /\ num_repeats' = [num_repeats EXCEPT ![c] = InitialRepeats(c)]
      /\ left' = [left EXCEPT ![c] = Period[c]]
      /\ UNCHANGED <<work_queue, current, at, runs>>
  BY DEF AddDelayed, StartTimer
<1>2. TypeOK /\ Placed /\ RunsCounted BY DEF TaskInv
<1>3. /\ num_repeats' \in [Task -> 0 .. RepeatLimit - 1]
      /\ left' \in [Task -> Nat]
      /\ num_repeats'[c] = InitialRepeats(c)
      /\ \A d \in Task : d # c => /\ num_repeats'[d] = num_repeats[d]
                                  /\ left'[d] = left[d]
  BY <1>1, <1>2, Settings DEF TypeOK
<1>4. TypeOK' BY <1>1, <1>2, <1>3, AddedByOne DEF TypeOK
<1>5. \A d \in Task : Queued(d)' = Queued(d) /\ Active(d)' = Active(d)
  BY <1>1 DEF Queued, Active
<1>6. Placed'
  BY <1>1, <1>2, <1>3, <1>5, AddedByOne DEF Placed
<1>7. RunsCounted'
  <2>1. ~Forever(c) => Due(c)' = Target(c)
    BY <1>1, <1>3, TaskAssumption DEF Due, Target, InitialRepeats, Forever
  <2>2. ~Ran(c)' BY <1>1, AddedByOne DEF Ran, Active
  <2>3. \A d \in Task : /\ d # c => Due(d)' = Due(d)
                        /\ Ran(d)' = Ran(d) /\ Target(d)' = Target(d)
    BY <1>1, <1>3 DEF Due, Ran, Target
  <2>4. runs[c] = 0 \/ Forever(c)
    BY <1>1, <1>2, AddedByOne DEF RunsCounted
  <2>5. Target(c) \in Nat BY Settings
  <2> QED BY <1>1, <1>2, <2>1, <2>2, <2>3, <2>4, <2>5, AddedByOne
          DEF RunsCounted, Forever
<1> QED BY <1>1, <1>4, <1>6, <1>7, AddedByOne DEF TaskInv

\* The items that expire for queue p are distinct, and of its Priority.
LEMMA ArrivalsAre ==
    ASSUME TaskInv, NEW p \in Priority, NEW s \in Arrivals(p)
    PROVE  /\ s \in Seq(Task) /\ IsInjective(s)
           /\ \A c \in ToSet(s) : c \in Task /\ left[c] = 1 /\ Class[c] = p
<1> DEFINE items == {c \in Expiring : Class[c] = p}
<1>1. items \in SUBSET Added
  BY DEF Expiring, Added, TaskInv, Placed
<1>2. Cardinality(items) \in Nat
  <2>1. IsFiniteSet(items) BY <1>1, FS_Subset DEF TaskInv
  <2> QED BY <2>1, FS_CardinalityType
<1>3. /\ s \in [1 .. Cardinality(items) -> items]
      /\ \A i, j \in 1 .. Cardinality(items) : i # j => s[i] # s[j]
  BY DEF Arrivals, SetToSeqs
<1>4. \A c \in items : c \in Task /\ left[c] = 1 /\ Class[c] = p
  BY DEF Expiring
<1> HIDE DEF items
<1>5. s \in Seq(items) BY <1>2, <1>3
<1>6. s \in Seq(Task) BY <1>4, <1>5, SeqMonotonic
<1> QED BY <1>3, <1>4, <1>6 DEF ToSet, IsInjective

\* A tick submits items that were on their timers, so in no queue.
LEMMA TickKeeps ==
    ASSUME TaskInv, Tick
    PROVE  TaskInv'
<1> DEFINE queues == {Class[c] : c \in Expiring}
           arrivals == [p \in queues |-> Arrivals(p)]
<1>0. PICK arrived \in [queues -> UNION {arrivals[p] : p \in queues}] :
        /\ \A p \in queues : arrived[p] \in arrivals[p]
        /\ work_queue' = [p \in Priority |->
              IF p \in queues THEN work_queue[p] \o arrived[p] ELSE work_queue[p]]
  BY Zenon DEF Tick
<1>1. /\ \A p \in queues : arrived[p] \in Arrivals(p)
      /\ work_queue' = [p \in Priority |->
            IF p \in queues THEN work_queue[p] \o arrived[p] ELSE work_queue[p]]
  BY <1>0
<1>2. /\ left' = [c \in Task |-> IF left[c] > 0 THEN left[c] - 1 ELSE 0]
      /\ UNCHANGED <<context, num_repeats, current, at, runs>>
  BY DEF Tick
<1>3. TypeOK /\ Placed /\ RunsCounted BY DEF TaskInv
<1>4. \A d \in Task : Class[d] \in Priority BY Settings
<1> HIDE DEF queues
<1>5. ASSUME NEW p \in Priority
      PROVE  /\ work_queue'[p] \in Seq(Task)
             /\ IsInjective(work_queue'[p])
             /\ \A c \in ToSet(work_queue'[p]) :
                   /\ c \in Task
                   /\ c \in ToSet(work_queue[p]) \/ (left[c] = 1 /\ Class[c] = p)
  <2>1. work_queue[p] \in Seq(Task) /\ IsInjective(work_queue[p])
    BY <1>3 DEF TypeOK, Placed
  <2>2. \A c \in ToSet(work_queue[p]) : c \in Task
    BY <2>1, ElementOfSeq, LenProperties DEF ToSet
  <2>3. CASE p \in queues
    <3>1. work_queue'[p] = work_queue[p] \o arrived[p] BY <1>1, <2>3
    <3>2. /\ arrived[p] \in Seq(Task) /\ IsInjective(arrived[p])
          /\ \A c \in ToSet(arrived[p]) : c \in Task /\ left[c] = 1 /\ Class[c] = p
      BY <1>1, <2>3, ArrivalsAre
    <3>3. ToSet(work_queue[p]) \cap ToSet(arrived[p]) = {}
      <4>1. \A c \in ToSet(work_queue[p]) : left[c] = 0
        BY <1>3, <2>2 DEF Placed, Queued
      <4> QED BY <3>2, <4>1
    <3> QED BY <2>1, <2>2, <3>1, <3>2, <3>3, Joined
  <2>4. CASE p \notin queues
    BY <1>1, <2>1, <2>2, <2>4
  <2> QED BY <2>3, <2>4
<1>6. \A c \in Task : /\ left[c] \in Nat /\ left'[c] \in Nat
                      /\ left[c] = 1 => left'[c] = 0
                      /\ left'[c] # 0 => left[c] # 0
                      /\ left[c] = 0 => left'[c] = 0
  BY <1>2, <1>3 DEF TypeOK
<1>7. TypeOK'
  <2>1. work_queue' \in [Priority -> Seq(Task)] BY <1>1, <1>5
  <2>2. left' \in [Task -> Nat] BY <1>2, <1>3 DEF TypeOK
  <2> QED BY <1>2, <1>3, <2>1, <2>2 DEF TypeOK
<1>8. \A d \in Task : /\ Queued(d)' => Queued(d) \/ left[d] = 1
                      /\ Active(d)' = Active(d)
  BY <1>2, <1>4, <1>5 DEF Queued, Active
<1>9. Placed'
  <2>1. \A q \in Priority : /\ \A d \in ToSet(work_queue'[q]) : Class[d] = q
                            /\ IsInjective(work_queue'[q])
    BY <1>3, <1>5 DEF Placed
  <2>2. \A d \in Task : /\ Queued(d)' => context[d] = "live" /\ left'[d] = 0
                        /\ Active(d) => /\ context[d] = "live" /\ left'[d] = 0
                                        /\ ~Queued(d)'
                        /\ left'[d] # 0 => context[d] = "live"
    BY <1>3, <1>6, <1>8 DEF Placed
  <2> QED BY <1>2, <1>3, <1>8, <2>1, <2>2 DEF Placed
<1>10. RunsCounted'
  BY <1>2, <1>3 DEF RunsCounted, Due, Ran, Target, Forever
<1>11. IsFiniteSet(Added') BY <1>2, AddedKept
<1> QED BY <1>7, <1>9, <1>10, <1>11 DEF TaskInv

\* A thread takes the first item of its queue into its handler.
LEMMA TakeKeeps ==
    ASSUME TaskInv, NEW p \in Priority, Take(p)
    PROVE  TaskInv'
<1> DEFINE c == Head(work_queue[p])
<1>1. /\ current[p] = NoTask /\ work_queue[p] # <<>>
      /\ current' = [current EXCEPT ![p] = c]
      /\ work_queue' = [work_queue EXCEPT ![p] = Tail(@)]
      /\ at' = [at EXCEPT ![p] = "func"]
      /\ UNCHANGED <<context, num_repeats, left, runs>>
  BY DEF Take, Busy
<1>2. TypeOK /\ Placed /\ RunsCounted BY DEF TaskInv
<1>3. \A d \in Task : Class[d] \in Priority /\ d # NoTask BY Settings
<1>4. /\ c \in Task /\ c \in ToSet(work_queue[p])
      /\ work_queue'[p] \in Seq(Task)
      /\ ToSet(work_queue'[p]) \subseteq ToSet(work_queue[p])
      /\ IsInjective(work_queue'[p]) /\ c \notin ToSet(work_queue'[p])
      /\ work_queue' \in [Priority -> Seq(Task)]
      /\ \A q \in Priority : q # p => work_queue'[q] = work_queue[q]
  <2>1. /\ work_queue \in [Priority -> Seq(Task)]
        /\ work_queue[p] \in Seq(Task) /\ IsInjective(work_queue[p])
    BY <1>2 DEF TypeOK, Placed
  <2>2. work_queue'[p] = Tail(work_queue[p]) BY <1>1, <2>1
  <2>3. work_queue'[p] \in Seq(Task) BY <1>1, <2>1, <2>2, Taken
  <2> QED BY <1>1, <2>1, <2>2, <2>3, Taken
<1> HIDE DEF c
<1>5. /\ current' \in [Priority -> Task \cup {NoTask}] /\ current'[p] = c
      /\ at' \in [Priority -> {"func", "count", "delete", "done"}]
      /\ at'[p] = "func"
      /\ \A q \in Priority : q # p => current'[q] = current[q] /\ at'[q] = at[q]
  BY <1>1, <1>2, <1>4 DEF TypeOK
<1>6. TypeOK' BY <1>1, <1>2, <1>4, <1>5 DEF TypeOK
<1>7. Class[c] = p /\ Queued(c) /\ context[c] = "live" /\ left[c] = 0
  BY <1>2, <1>4 DEF Placed, Queued
<1>8. \A d \in Task : /\ Queued(d)' => Queued(d) /\ d # c
                      /\ Active(d)' => Active(d) \/ d = c
  BY <1>3, <1>4, <1>5, <1>7 DEF Queued, Active
<1>9. Placed'
  <2>1. \A q \in Priority : /\ \A d \in ToSet(work_queue'[q]) : Class[d] = q
                            /\ IsInjective(work_queue'[q])
                            /\ current'[q] # NoTask => Class[current'[q]] = q
    BY <1>2, <1>4, <1>5, <1>7 DEF Placed
  <2> QED BY <1>1, <1>2, <1>7, <1>8, <2>1 DEF Placed
<1>10. RunsCounted'
  <2>1. \A d \in Task : Ran(d)' <=> Ran(d)
    BY <1>1, <1>3, <1>5 DEF Ran
  <2>2. \A d \in Task : Due(d)' = Due(d) /\ Target(d)' = Target(d)
    BY <1>1 DEF Due, Target
  <2> QED BY <1>1, <1>2, <1>3, <1>5, <2>1, <2>2 DEF RunsCounted, Forever
<1>11. IsFiniteSet(Added') BY <1>1, AddedKept
<1> QED BY <1>6, <1>9, <1>10, <1>11 DEF TaskInv

\* The item a thread is in the middle of.
LEMMA InHandler ==
    ASSUME TaskInv, NEW p \in Priority, Busy(p), at[p] # "done"
    PROVE  /\ current[p] \in Task /\ Class[current[p]] = p
           /\ Active(current[p]) /\ context[current[p]] = "live"
           /\ left[current[p]] = 0 /\ ~Queued(current[p])
<1>1. TypeOK /\ Placed BY DEF TaskInv
<1>2. current[p] \in Task /\ Class[current[p]] = p
  BY <1>1 DEF TypeOK, Placed, Busy
<1>3. Active(current[p]) BY <1>1, <1>2 DEF Active, TypeOK
<1> QED BY <1>1, <1>2, <1>3 DEF Placed

\* The function of a task returns: one more run, not counted yet.
LEMMA RunFuncKeeps ==
    ASSUME TaskInv, NEW p \in Priority, RunFunc(p)
    PROVE  TaskInv'
<1> DEFINE c == current[p]
           next == IF Kind[c] = "immediate" THEN "delete" ELSE "count"
<1>1. /\ Busy(p) /\ at[p] = "func"
      /\ runs' = IF Forever(c) THEN runs ELSE [runs EXCEPT ![c] = @ + 1]
      /\ at' = [at EXCEPT ![p] = next]
      /\ UNCHANGED <<context, num_repeats, left, work_queue, current>>
  BY DEF RunFunc, At, GoTo
<1>2. TypeOK /\ Placed /\ RunsCounted BY DEF TaskInv
<1>3. \A d \in Task : Class[d] \in Priority /\ d # NoTask BY Settings
<1>4. c \in Task /\ Class[c] = p /\ Active(c) /\ context[c] = "live"
  BY <1>1, InHandler
<1>5. /\ at' \in [Priority -> {"func", "count", "delete", "done"}]
      /\ at'[p] = next
      /\ \A q \in Priority : q # p => at'[q] = at[q]
  BY <1>1, <1>2 DEF TypeOK
<1>6. /\ runs' \in [Task -> Nat]
      /\ ~Forever(c) => runs'[c] = runs[c] + 1
      /\ \A d \in Task : d # c => runs'[d] = runs[d]
  BY <1>1, <1>2, <1>4 DEF TypeOK
<1>7. next \in {"count", "delete"} OBVIOUS
<1>8. TypeOK' BY <1>1, <1>2, <1>5, <1>6 DEF TypeOK
<1>9. \A d \in Task : /\ Queued(d)' = Queued(d)
                      /\ Active(d)' <=> Active(d)
                      /\ d = c \/ (Ran(d)' <=> Ran(d))
  <2>1. \A d \in Task : Queued(d)' = Queued(d) BY <1>1 DEF Queued
  <2>2. \A d \in Task : Class[d] = p => current[Class[d]] = c OBVIOUS
  <2> HIDE DEF c, next
  <2>3. \A d \in Task : Active(d)' <=> Active(d)
    BY <1>1, <1>3, <1>4, <1>5, <1>7, <2>2 DEF Active
  <2>4. \A d \in Task : d = c \/ (Ran(d)' <=> Ran(d))
    BY <1>1, <1>3, <1>4, <1>5, <1>7, <2>2 DEF Ran
  <2> QED BY <2>1, <2>3, <2>4
<1>10. Placed' BY <1>1, <1>2, <1>9 DEF Placed
<1>11. RunsCounted'
  <2>1. \A d \in Task : d = c => Ran(d)' /\ ~Ran(d)
    BY <1>1, <1>4, <1>5, <1>7 DEF Ran
  <2>2. \A d \in Task : Due(d)' = Due(d) /\ Target(d)' = Target(d)
    BY <1>1 DEF Due, Target
  <2>3. \A d \in Task : d # c => current[Class[d]] # d \/ at'[Class[d]] = at[Class[d]]
    BY <1>3, <1>5
  <2>4. Due(c) \in Nat /\ runs[c] \in Nat /\ Target(c) \in Nat
    BY <1>2, <1>4, DueType, Settings
  <2>5. ASSUME NEW d \in Task
        PROVE  /\ current[Class[d]] = d /\ at'[Class[d]] = "delete" =>
                    Kind[d] = "immediate"
               /\ current[Class[d]] = d /\ at'[Class[d]] = "count" =>
                    Kind[d] # "immediate"
    BY <1>2, <1>4, <1>5, <2>3 DEF RunsCounted
  <2> HIDE DEF c, next
  <2>6. ASSUME NEW d \in Task, ~Forever(d)
        PROVE  /\ context[d] = "none" => runs'[d] = 0
               /\ context[d] = "live" =>
                    runs'[d] + Due(d) = Target(d) + (IF Ran(d)' THEN 1 ELSE 0)
               /\ context[d] = "freed" => runs'[d] = Target(d)
    <3>1. CASE d = c
      BY <1>2, <1>4, <1>6, <2>1, <2>4, <2>6, <3>1 DEF RunsCounted
    <3>2. CASE d # c
      BY <1>2, <1>6, <1>9, <2>6, <3>2 DEF RunsCounted
    <3> QED BY <3>1, <3>2
  <2> QED BY <1>1, <2>2, <2>5, <2>6 DEF RunsCounted, Forever
<1>12. IsFiniteSet(Added') BY <1>1, AddedKept
<1> QED BY <1>8, <1>10, <1>11, <1>12 DEF TaskInv

\* TaskHandler_Delayed counts the run and starts the timer again.
LEMMA RescheduleKeeps ==
    ASSUME TaskInv, NEW p \in Priority, Reschedule(p)
    PROVE  TaskInv'
<1> DEFINE c == current[p]
<1>1. /\ Busy(p) /\ at[p] = "count"
      /\ num_repeats' = [num_repeats EXCEPT ![c] = Decrement(@)]
      /\ Forever(c) \/ num_repeats'[c] > 0
      /\ left' = [left EXCEPT ![c] = Period[c]]
      /\ at' = [at EXCEPT ![p] = "done"]
      /\ UNCHANGED <<context, work_queue, current, runs>>
  BY DEF Reschedule, At, GoTo, Counted, RunsAgain, StartTimer
<1>2. TypeOK /\ Placed /\ RunsCounted BY DEF TaskInv
<1>3. \A d \in Task : Class[d] \in Priority /\ d # NoTask BY Settings
<1>4. /\ c \in Task /\ Class[c] = p /\ Active(c) /\ context[c] = "live"
      /\ ~Queued(c) /\ c = current[p]
  BY <1>1, InHandler
<1> HIDE DEF c
<1>5. /\ at' \in [Priority -> {"func", "count", "delete", "done"}]
      /\ at'[p] = "done"
      /\ \A q \in Priority : q # p => at'[q] = at[q]
  BY <1>1, <1>2 DEF TypeOK
<1>6. /\ num_repeats' \in [Task -> 0 .. RepeatLimit - 1]
      /\ num_repeats'[c] = Decrement(num_repeats[c])
      /\ \A d \in Task : d # c => num_repeats'[d] = num_repeats[d]
      /\ left' \in [Task -> Nat]
      /\ \A d \in Task : d # c => left'[d] = left[d]
  BY <1>1, <1>2, <1>4, Settings DEF TypeOK, Decrement
<1>7. TypeOK' BY <1>1, <1>2, <1>5, <1>6 DEF TypeOK
<1>8. \A d \in Task : /\ Queued(d)' = Queued(d)
                      /\ Active(d)' => Active(d) /\ d # c
  BY <1>1, <1>3, <1>4, <1>5 DEF Queued, Active
<1>9. Placed' BY <1>1, <1>2, <1>4, <1>6, <1>8 DEF Placed
<1>10. RunsCounted'
  <2>1. \A d \in Task : /\ d = c => Ran(d) /\ ~Ran(d)'
                        /\ d # c => (Ran(d)' <=> Ran(d))
    BY <1>1, <1>3, <1>4, <1>5 DEF Ran
  <2>2. \A d \in Task : /\ d # c => Due(d)' = Due(d)
                        /\ Target(d)' = Target(d)
    BY <1>1, <1>6 DEF Due, Target
  <2>3. ASSUME NEW d \in Task, d = c, ~Forever(d)
        PROVE  Due(d)' = Due(d) - 1
    <3>1. Kind[d] # "immediate" BY <1>1, <1>2, <1>4, <2>3 DEF RunsCounted
    <3>2. num_repeats[d] \in 0 .. RepeatLimit - 1 /\ RepeatLimit \in Nat \ {0, 1}
      BY <1>2, Settings DEF TypeOK
    <3>3. num_repeats'[d] > 0 /\ num_repeats'[d] = Decrement(num_repeats[d])
      BY <1>1, <1>6, <2>3
    <3> QED BY <3>1, <3>2, <3>3 DEF Due, Decrement
  <2>4. \A d \in Task : Due(d) \in Nat /\ runs[d] \in Nat /\ Target(d) \in Nat
    BY <1>2, DueType, Settings
  <2>5. ASSUME NEW d \in Task
        PROVE  /\ current[Class[d]] = d /\ at'[Class[d]] = "delete" =>
                    Kind[d] = "immediate"
               /\ current[Class[d]] = d /\ at'[Class[d]] = "count" =>
                    Kind[d] # "immediate"
    BY <1>2, <1>3, <1>5 DEF RunsCounted
  <2>6. ASSUME NEW d \in Task, ~Forever(d)
        PROVE  /\ context[d] = "none" => runs[d] = 0
               /\ context[d] = "live" =>
                    runs[d] + Due(d)' = Target(d) + (IF Ran(d)' THEN 1 ELSE 0)
               /\ context[d] = "freed" => runs[d] = Target(d)
    <3>1. CASE d = c
      BY <1>2, <1>4, <2>1, <2>3, <2>4, <2>6, <3>1 DEF RunsCounted
    <3>2. CASE d # c
      BY <1>2, <2>1, <2>2, <2>6, <3>2 DEF RunsCounted
    <3> QED BY <3>1, <3>2
  <2> QED BY <1>1, <2>2, <2>5, <2>6 DEF RunsCounted, Forever
<1>11. IsFiniteSet(Added') BY <1>1, AddedKept
<1> QED BY <1>7, <1>9, <1>10, <1>11 DEF TaskInv

\* The handlers delete a context when its last run is counted, not before.
LEMMA DeleteKeeps ==
    ASSUME TaskInv, NEW p \in Priority, Delete(p)
    PROVE  TaskInv'
<1> DEFINE c == current[p]
<1>1. /\ Busy(p)
      /\ \/ at[p] = "delete" /\ num_repeats' = num_repeats
         \/ /\ at[p] = "count"
            /\ num_repeats' = [num_repeats EXCEPT ![c] = Decrement(@)]
            /\ ~Forever(c) /\ ~(num_repeats'[c] > 0)
      /\ context' = [context EXCEPT ![c] = "freed"]
      /\ at' = [at EXCEPT ![p] = "done"]
      /\ UNCHANGED <<left, work_queue, current, runs>>
  BY DEF Delete, At, GoTo, Counted, RunsAgain
<1>2. TypeOK /\ Placed /\ RunsCounted BY DEF TaskInv
<1>3. \A d \in Task : Class[d] \in Priority /\ d # NoTask BY Settings
<1>4. /\ c \in Task /\ Class[c] = p /\ Active(c) /\ context[c] = "live"
      /\ left[c] = 0 /\ ~Queued(c) /\ c = current[p]
  BY <1>1, InHandler
<1> HIDE DEF c
<1>5. /\ at' \in [Priority -> {"func", "count", "delete", "done"}]
      /\ at'[p] = "done"
      /\ \A q \in Priority : q # p => at'[q] = at[q]
      /\ context' \in [Task -> {"none", "live", "freed"}]
      /\ context'[c] = "freed"
      /\ \A d \in Task : d # c => context'[d] = context[d]
  BY <1>1, <1>2, <1>4 DEF TypeOK
<1>6. /\ num_repeats' \in [Task -> 0 .. RepeatLimit - 1]
      /\ \A d \in Task : d # c => num_repeats'[d] = num_repeats[d]
  <2>1. num_repeats \in [Task -> 0 .. RepeatLimit - 1] BY <1>2 DEF TypeOK
  <2>2. Decrement(num_repeats[c]) \in 0 .. RepeatLimit - 1
    BY <1>4, <2>1, Settings DEF Decrement
  <2> QED BY <1>1, <1>4, <2>1, <2>2
<1>7. TypeOK' BY <1>1, <1>2, <1>5, <1>6 DEF TypeOK
<1>8. \A d \in Task : /\ Queued(d)' = Queued(d)
                      /\ Active(d)' => Active(d) /\ d # c
  BY <1>1, <1>3, <1>4, <1>5 DEF Queued, Active
<1>9. Placed' BY <1>1, <1>2, <1>4, <1>5, <1>8 DEF Placed
<1>10. RunsCounted'
  <2>1. \A d \in Task : /\ d = c => Ran(d)
                        /\ d # c => (Ran(d)' <=> Ran(d))
    BY <1>1, <1>3, <1>4, <1>5 DEF Ran
  <2>2. \A d \in Task : /\ d # c => Due(d)' = Due(d)
                        /\ Target(d)' = Target(d)
    BY <1>1, <1>6 DEF Due, Target
  <2>3. Due(c) = 1
    <3>1. CASE at[p] = "delete"
      BY <1>2, <1>4, <3>1 DEF RunsCounted, Due
    <3>2. CASE at[p] # "delete"
      <4>1. Kind[c] # "immediate" BY <1>1, <1>2, <1>4, <3>2 DEF RunsCounted
      <4>2. num_repeats[c] \in 0 .. RepeatLimit - 1 /\ RepeatLimit \in Nat \ {0, 1}
        BY <1>2, <1>4, Settings DEF TypeOK
      <4>3. ~(Decrement(num_repeats[c]) > 0)
        BY <1>1, <1>2, <1>4, <3>2 DEF TypeOK
      <4> QED BY <4>1, <4>2, <4>3 DEF Due, Decrement
    <3> QED BY <3>1, <3>2
  <2>4. \A d \in Task : Due(d) \in Nat /\ runs[d] \in Nat /\ Target(d) \in Nat
    BY <1>2, DueType, Settings
  <2>5. ASSUME NEW d \in Task
        PROVE  /\ current[Class[d]] = d /\ at'[Class[d]] = "delete" =>
                    Kind[d] = "immediate"
               /\ current[Class[d]] = d /\ at'[Class[d]] = "count" =>
                    Kind[d] # "immediate"
    BY <1>2, <1>3, <1>5 DEF RunsCounted
  <2>6. ASSUME NEW d \in Task, ~Forever(d)
        PROVE  /\ context'[d] = "none" => runs[d] = 0
               /\ context'[d] = "live" =>
                    runs[d] + Due(d)' = Target(d) + (IF Ran(d)' THEN 1 ELSE 0)
               /\ context'[d] = "freed" => runs[d] = Target(d)
    <3>1. CASE d = c
      BY <1>2, <1>4, <1>5, <2>1, <2>3, <2>4, <2>6, <3>1 DEF RunsCounted
    <3>2. CASE d # c
      BY <1>2, <1>5, <2>1, <2>2, <2>6, <3>2 DEF RunsCounted
    <3> QED BY <3>1, <3>2
  <2> QED BY <1>1, <2>2, <2>5, <2>6 DEF RunsCounted, Forever
<1>11. IsFiniteSet(Added') BY <1>4, <1>5, AddedKept
<1> QED BY <1>7, <1>9, <1>10, <1>11 DEF TaskInv

\* A thread lets go of an item that is deleted or waits for its next turn.
LEMMA FinishKeeps ==
    ASSUME TaskInv, NEW p \in Priority, Finish(p)
    PROVE  TaskInv'
<1>1. /\ at[p] = "done"
      /\ current' = [current EXCEPT ![p] = NoTask]
      /\ UNCHANGED <<context, num_repeats, left, work_queue, at, runs>>
  BY DEF Finish
<1>2. TypeOK /\ Placed /\ RunsCounted BY DEF TaskInv
<1>3. \A d \in Task : Class[d] \in Priority /\ d # NoTask BY Settings
<1>4. /\ current' \in [Priority -> Task \cup {NoTask}] /\ current'[p] = NoTask
      /\ \A q \in Priority : q # p => current'[q] = current[q]
  BY <1>1, <1>2 DEF TypeOK
<1>5. \A d \in Task : /\ Queued(d)' = Queued(d)
                      /\ Active(d)' => Active(d)
                      /\ Ran(d)' <=> Ran(d)
                      /\ current'[Class[d]] = d => current[Class[d]] = d
  BY <1>1, <1>3, <1>4 DEF Queued, Active, Ran
<1>6. TypeOK' BY <1>1, <1>2, <1>4 DEF TypeOK
<1>7. Placed' BY <1>1, <1>2, <1>4, <1>5 DEF Placed
<1>8. RunsCounted'
  <2>1. \A d \in Task : Due(d)' = Due(d) /\ Target(d)' = Target(d)
    BY <1>1 DEF Due, Target
  <2> QED BY <1>1, <1>2, <1>5, <2>1 DEF RunsCounted, Forever
<1>9. IsFiniteSet(Added') BY <1>1, AddedKept
<1> QED BY <1>6, <1>7, <1>8, <1>9 DEF TaskInv

\* Every step of the functions, the kernel and the handlers keeps TaskInv.
LEMMA TaskInvStep == TaskInv /\ [Next]_vars => TaskInv'
<1> SUFFICES ASSUME TaskInv, [Next]_vars PROVE TaskInv' OBVIOUS
<1>1. CASE UNCHANGED vars
  BY <1>1
  DEF vars, TaskInv, TypeOK, Placed, RunsCounted, Added, Active, Queued, Due, Ran,
      Target, Forever
<1> QED
  BY <1>1, AddWorkItemKeeps, AddDelayedKeeps, TickKeeps, TakeKeeps, RunFuncKeeps,
     RescheduleKeeps, DeleteKeeps, FinishKeeps
  DEF Next, Worker

\* TaskInv holds in every state.
LEMMA TaskInvariant == Spec => []TaskInv
  BY TaskInvInit, TaskInvStep, PTL DEF Spec

\* The types hold; num_repeats stays within its 16 bits.
THEOREM TaskTypeCorrect == Spec => []TypeOK
<1>1. TaskInv => TypeOK BY DEF TaskInv
<1> QED BY <1>1, TaskInvariant, PTL

\* However tasks of every kind interleave, each that is not forever runs as often
\* as it was asked to, 2^16 times if asked for 0, and is deleted only then.
THEOREM TasksRunAsAsked == Spec => []RunsAsAsked
<1>1. TaskInv => RunsAsAsked
  <2> SUFFICES ASSUME TaskInv, NEW c \in Task, ~Forever(c)
               PROVE  /\ runs[c] <= Target(c)
                      /\ context[c] = "freed" => runs[c] = Target(c)
    BY DEF RunsAsAsked
  <2>1. context[c] \in {"none", "live", "freed"} BY DEF TaskInv, TypeOK
  <2>2. Due(c) \in Nat \ {0} /\ runs[c] \in Nat /\ Target(c) \in Nat
    BY DueType, Settings DEF TaskInv
  <2> QED BY <2>1, <2>2 DEF TaskInv, RunsCounted
<1> QED BY <1>1, TaskInvariant, PTL

\* However the kinds of tasks interleave, no work item is ever in two of the list
\* of its queue, its timer and the hands of its thread, nor twice in the list, and
\* none is in any once its handler has deleted it: the kernel never starts, and no
\* handler goes on with, a context that is freed.
THEOREM TasksPendingOnce == Spec => []PendingOnce
<1>1. TaskInv => PendingOnce
  <2> SUFFICES ASSUME TaskInv, NEW c \in Task
               PROVE  LET queued == {i \in DOMAIN work_queue[Class[c]] :
                                        work_queue[Class[c]][i] = c}
                      IN  /\ Cardinality(queued) + (IF left[c] > 0 THEN 1 ELSE 0)
                                + (IF Held(c) THEN 1 ELSE 0) <= 1
                          /\ context[c] # "live" =>
                                queued = {} /\ left[c] = 0 /\ ~Held(c)
    BY DEF PendingOnce
  <2> DEFINE queued == {i \in DOMAIN work_queue[Class[c]] :
                           work_queue[Class[c]][i] = c}
  <2>1. Class[c] \in Priority BY Settings
  <2>2. left[c] \in Nat BY DEF TaskInv, TypeOK
  <2>3. queued # {} <=> Queued(c) BY DEF Queued, ToSet
  <2>4. \A i, j \in queued : i = j
    BY <2>1 DEF TaskInv, Placed, IsInjective
  <2>5. Held(c) => Active(c) BY <2>1 DEF Held, Active, TaskInv, TypeOK
  <2>6. Held(c) => context[c] = "live" /\ left[c] = 0 /\ queued = {}
    BY <2>3, <2>5 DEF TaskInv, Placed
  <2>7. CASE queued = {}
    <3>1. Cardinality(queued) = 0 BY <2>7, FS_EmptySet
    <3>2. context[c] # "live" => left[c] = 0 BY DEF TaskInv, Placed
    <3> HIDE DEF queued
    <3>3. Cardinality(queued) + (IF left[c] > 0 THEN 1 ELSE 0)
             + (IF Held(c) THEN 1 ELSE 0) <= 1
      BY <2>2, <2>6, <3>1
    <3> QED BY <2>6, <2>7, <3>2, <3>3 DEF queued
  <2>8. CASE queued # {}
    <3>1. PICK i : queued = {i} BY <2>4, <2>8
    <3>2. Cardinality(queued) = 1 BY <3>1, FS_Singleton
    <3>3. context[c] = "live" /\ left[c] = 0
      BY <2>3, <2>8 DEF TaskInv, Placed
    <3>4. ~Held(c) BY <2>6, <2>8
    <3> QED BY <3>2, <3>3, <3>4
  <2> QED BY <2>7, <2>8
<1> QED BY <1>1, TaskInvariant, PTL
=============================================================================
