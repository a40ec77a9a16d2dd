------------------------- MODULE StatTrackerProofs -------------------------
(***************************************************************************)
(* Theorems about the statistics of patterns, for every number of slots,   *)
(* of patterns and of names, and every length of packet.                   *)
(***************************************************************************)
EXTENDS StatTracker, FiniteSetTheorems, TLAPS

AskedNames == Names \cup {scenario.command, Empty}
StoredNames ==
    {Copied(n) : n \in Names} \cup {Copied(scenario.command), Empty}

\* What a slot is made of.
SlotValues ==
    [name : StoredNames, defined : BOOLEAN, enabled : BOOLEAN,
     operations : PatternIds \cup {None}, conditions : PatternIds \cup {None}]
LockValues == [owner : {"none", "shell", "medium"}, count : Nat]

Types ==
    /\ scenario \in Scenarios
    /\ patterns \in [1 .. scenario.slots -> SlotValues]
    /\ locks \in [1 .. scenario.slots -> LockValues]
    /\ pc \in {"idle", "lock", "locked", "compile", "copy", "search",
               "operations", "conditions"}
    /\ request.name \in AskedNames /\ name_cpy \in StoredNames
    /\ index \in Nat
    /\ compiled \in PatternIds \cup {None} /\ live \subseteq PatternIds
    /\ medium \in 0 .. scenario.slots /\ matching \in BOOLEAN
    /\ queued \in Nat /\ expected_bytes \in Nat
    /\ step \in {"MSB", "LSB", "PACKET"} /\ buffered \in 0 .. MaxPacket

\* Where the shell looks while it holds a mutex or fills a slot.
Indexed ==
    /\ pc # "idle" => index \in 1 .. scenario.slots + 1
    /\ pc \in {"lock", "locked", "operations", "conditions"} => index \in Slots

\* The loop has yet to lock the mutex of this slot.
Ahead(i) == (pc = "lock" /\ i >= index) \/ (pc = "locked" /\ i > index)

\* Each mutex is free, or MEDIUM has it to match that slot, or the shell has it,
\* and can lock it once more wherever this request has not been.
MutexesHeld ==
    /\ \A i \in Slots :
          \/ locks[i] = NoLock
          \/ locks[i].owner = "shell" /\ locks[i].count \in 1 .. MaxKept + 1
          \/ /\ locks[i].owner = "medium" /\ locks[i].count = 1
             /\ matching /\ medium = i
    /\ matching => medium # Asleep /\ locks[medium].owner = "medium"
    /\ pc = "locked" => locks[index].owner = "shell"
    /\ \A i \in Slots :
          locks[i].owner = "shell" /\ Ahead(i) => locks[i].count <= MaxKept
    /\ scenario.caller = "shell" =>
          /\ request.op \in {"none", "add"}
          /\ \A i \in Slots :
                locks[i].owner = "shell" =>
                    pc = "locked" /\ i = index /\ locks[i].count = 1

\* A slot is empty, or whole, or the one that is being filled.
Filled ==
    \A i \in Slots :
        IF i = index /\ pc = "operations"
          THEN /\ patterns[i].operations = None /\ patterns[i].conditions = None
               /\ patterns[i].defined
        ELSE IF i = index /\ pc = "conditions"
          THEN /\ patterns[i].operations = compiled /\ patterns[i].conditions = None
               /\ patterns[i].defined
        ELSE /\ patterns[i].operations = patterns[i].conditions
             /\ patterns[i].defined = (patterns[i].operations # None)

\* A pattern is compiled before it is put into a slot, and into one slot only.
Compiled ==
    /\ compiled # None <=> pc \in {"copy", "search", "operations", "conditions"}
    /\ \A i \in Slots :
          compiled # None /\ patterns[i].operations = compiled
              => pc = "conditions" /\ i = index

Whole == {i \in Slots : patterns[i].conditions # None}

\* The patterns accepted are those of the whole slots.
AcceptedAreWhole ==
    DOMAIN accepted = {patterns[i].operations : i \in Whole}

\* The slots that the search for a free one has passed are taken, and all of them
\* when it has found none.
Searched ==
    /\ pc = "search" => \A i \in Slots : i < index => patterns[i].defined
    /\ answer = "INSUFFICIENT_CAPACITY" =>
          /\ pc = "idle"
          /\ \/ NoCapacity(request.name)
             \/ \A i \in Slots : patterns[i].conditions # None

StatInv ==
    /\ Types /\ Indexed /\ MutexesHeld /\ Filled /\ Compiled
    /\ PatternsOwned /\ AcceptedAreWhole /\ Searched

-----------------------------------------------------------------------------
(* What the steps do *)

\* The slots are numbered from one.
LEMMA SlotRange ==
    ASSUME Types
    PROVE  /\ scenario.slots \in Nat /\ Slots = 1 .. scenario.slots
           /\ Cardinality(Slots) = scenario.slots /\ IsFiniteSet(Slots)
<1>1. scenario.slots \in Nat /\ Slots = 1 .. scenario.slots
  BY StatAssumption DEF Types, Slots
<1>2. IsFiniteSet(1 .. scenario.slots)
      /\ Cardinality(1 .. scenario.slots) = scenario.slots
  BY <1>1, FS_Interval
<1> QED BY <1>1, <1>2

\* Names are stored as they were asked for, without the terminator, or not.
LEMMA CopiesAreStored ==
    ASSUME Types
    PROVE  Copied(request.name) \in StoredNames /\ Empty \in StoredNames
<1>1. Copied(Empty) = Empty
  BY DEF Copied
<1> QED BY <1>1 DEF Types, AskedNames, StoredNames

\* The names one may ask for do not change.
LEMMA SameNames ==
    ASSUME scenario' = scenario
    PROVE  /\ AskedNames' = AskedNames /\ StoredNames' = StoredNames
           /\ SlotValues' = SlotValues
<1>1. StoredNames' = StoredNames
  BY DEF StoredNames
<1> QED BY <1>1 DEF AskedNames, SlotValues

-----------------------------------------------------------------------------
(* Types *)

\* Nothing has happened yet.
LEMMA InitTypes == Init => Types
<1> SUFFICES ASSUME Init PROVE Types
  OBVIOUS
<1>1. scenario.slots \in Nat
  BY StatAssumption DEF Init
<1>2. NewSlot \in SlotValues
  BY DEF NewSlot, SlotValues, StoredNames
<1>3. NoLock \in LockValues
  BY DEF NoLock, LockValues
<1>4. /\ patterns \in [1 .. scenario.slots -> SlotValues]
      /\ locks \in [1 .. scenario.slots -> LockValues]
  BY <1>2, <1>3 DEF Init
<1>5. request.name \in AskedNames /\ name_cpy \in StoredNames
  BY DEF Init, NoRequest, AskedNames, StoredNames
<1>6. medium \in 0 .. scenario.slots /\ buffered \in 0 .. MaxPacket
  BY <1>1, StatAssumption DEF Init, Asleep
<1> QED BY <1>4, <1>5, <1>6 DEF Init, Types

\* A slot is changed a field at a time.
LEMMA SlotUpdates ==
    ASSUME Types, index \in Slots
    PROVE  /\ \A w \in BOOLEAN :
                 [patterns EXCEPT ![index].enabled = w] \in [Slots -> SlotValues]
           /\ [patterns EXCEPT ![index].name = name_cpy,
                               ![index].defined = TRUE] \in [Slots -> SlotValues]
           /\ [patterns EXCEPT ![index].operations = compiled]
                 \in [Slots -> SlotValues]
           /\ [patterns EXCEPT ![index].conditions = compiled,
                               ![index].enabled = TRUE] \in [Slots -> SlotValues]
<1>1. patterns \in [Slots -> SlotValues]
  BY SlotRange DEF Types
<1>2. name_cpy \in StoredNames /\ compiled \in PatternIds \cup {None}
  BY DEF Types
<1>3. \A w \in BOOLEAN :
         [patterns EXCEPT ![index].enabled = w] \in [Slots -> SlotValues]
  BY <1>1 DEF SlotValues
<1>4. [patterns EXCEPT ![index].name = name_cpy,
                       ![index].defined = TRUE] \in [Slots -> SlotValues]
  BY <1>1, <1>2 DEF SlotValues
<1>5. [patterns EXCEPT ![index].operations = compiled] \in [Slots -> SlotValues]
  BY <1>1, <1>2 DEF SlotValues
<1>6. [patterns EXCEPT ![index].conditions = compiled,
                       ![index].enabled = TRUE] \in [Slots -> SlotValues]
  BY <1>1, <1>2 DEF SlotValues
<1> QED BY <1>3, <1>4, <1>5, <1>6

\* A request asks for a name.
LEMMA RequestTypes ==
    ASSUME Types, CallDirectly \/ ShellDefines
    PROVE  Types'
<1>1. PICK op, name, notation : Ask(op, name, notation) /\ name \in AskedNames
  BY DEF CallDirectly, ShellDefines, AskedNames
<1>2. Empty \in StoredNames
  BY DEF StoredNames
<1>3. UNCHANGED <<scenario, mediumVars>>
  BY DEF CallDirectly, ShellDefines, Shell
<1> QED BY <1>1, <1>2, <1>3, SameNames
      DEF Types, Ask, slotVars, mediumVars, feedVars

\* The loops lock and unlock.
LEMMA LoopTypes ==
    ASSUME Types, Indexed,
           LockSlot \/ LooksForDuplicate \/ LooksForInfo \/ LooksForSwitch
    PROVE  Types'
<1>1. /\ index \in Slots /\ index \in Nat /\ index + 1 \in Nat
      /\ UNCHANGED <<scenario, mediumVars, request, name_cpy, compiled, live>>
  <2>1. pc \in {"lock", "locked"}
    BY DEF LockSlot, LooksForDuplicate, LooksForInfo, LooksForSwitch, Shell
  <2>2. index \in Slots /\ index \in Nat /\ index + 1 \in Nat
    BY <2>1 DEF Indexed, Types
  <2>3. UNCHANGED <<scenario, mediumVars, request, name_cpy, compiled, live>>
    BY DEF LockSlot, LooksForDuplicate, LooksForInfo, LooksForSwitch, Shell
  <2> QED BY <2>2, <2>3
<1>2. Locked(index, "shell") \in [Slots -> LockValues]
  BY SMTT(30), <1>1, SlotRange DEF Types, Locked, LockValues
<1>3. Unlocked(index) \in [Slots -> LockValues]
  BY SMTT(30), <1>1, SlotRange DEF Types, Unlocked, LockValues, NoLock
<1>4. locks' \in [Slots -> LockValues]
  BY <1>2, <1>3, SlotRange DEF Types, LockSlot, LooksForDuplicate, LooksForInfo,
         LooksForSwitch
<1>5. patterns' \in [Slots -> SlotValues]
  BY <1>1, SlotRange, SlotUpdates DEF Types, LockSlot, LooksForDuplicate,
         LooksForInfo, LooksForSwitch
<1>6. /\ pc' \in {"idle", "lock", "locked", "compile"} /\ index' \in Nat
  BY <1>1 DEF LockSlot, LooksForDuplicate, LooksForInfo, LooksForSwitch,
         PastSlot, Answer
<1> QED BY <1>1, <1>4, <1>5, <1>6, SlotRange, SameNames
      DEF Types, mediumVars, feedVars

\* The rest of add_pattern.
LEMMA FillTypes ==
    ASSUME Types, Indexed,
           \/ Compile \/ CopyName \/ NameTooShort \/ SkipDefined \/ NoSlot
           \/ FillName \/ FillOperations \/ FillConditions
    PROVE  Types'
<1>1. UNCHANGED <<scenario, mediumVars, locks, request>>
  BY DEF Compile, CopyName, NameTooShort, SkipDefined, NoSlot, FillName,
         FillOperations, FillConditions, Shell, slotVars
<1>2. patterns' \in [Slots -> SlotValues]
  BY SlotRange, SlotUpdates DEF Types, Indexed, Compile, CopyName,
         NameTooShort, SkipDefined, NoSlot, FillName, FillOperations,
         FillConditions, slotVars
<1>3. compiled' \in PatternIds \cup {None} /\ live' \subseteq PatternIds
  BY DEF Types, Compile, CopyName, NameTooShort, SkipDefined, NoSlot,
         FillName, FillOperations, FillConditions
<1>4. name_cpy' \in StoredNames
  BY CopiesAreStored DEF Types, Compile, CopyName, NameTooShort, SkipDefined, NoSlot,
         FillName, FillOperations, FillConditions
<1>5. index' \in Nat
  BY DEF Types, Compile, CopyName, NameTooShort, SkipDefined, NoSlot,
         FillName, FillOperations, FillConditions
<1>6. pc' \in {"idle", "lock", "locked", "compile", "copy", "search",
               "operations", "conditions"}
  BY DEF Types, Compile, CopyName, NameTooShort, SkipDefined, NoSlot,
         FillName, FillOperations, FillConditions, Answer
<1> QED BY <1>1, <1>2, <1>3, <1>4, <1>5, <1>6, SlotRange, SameNames
      DEF Types, mediumVars, feedVars

\* A packet received grows the queue or is undone.
LEMMA AddPacketTypes ==
    ASSUME Types, AddPacket
    PROVE  Types'
<1>1. queued' \in Nat
  BY StatAssumption DEF Types, AddPacket
<1> QED BY <1>1, SameNames DEF Types, AddPacket, Medium, shellVars

\* Not more bytes are taken from the queue than it has, and no more kept than
\* there is room for.
LEMMA TakePacketTypes ==
    ASSUME Types, TakePacket
    PROVE  Types'
<1>1. PICK byte \in Bytes :
         LET expected == CASE step = "MSB" -> byte * Radix
                           [] step = "LSB" -> byte
                           [] OTHER -> expected_bytes
             left == IF step = "PACKET" THEN queued ELSE queued - 1
             taken == Lesser(Lesser(expected, Chunk), left)
             short == taken < Lesser(expected, Chunk)
             full == ~short /\ buffered + taken = expected
         IN /\ queued' = left - taken
            /\ expected_bytes' = expected
            /\ buffered' = IF full THEN 0 ELSE Lesser(buffered + taken, MaxPacket)
            /\ step' = CASE full -> "MSB"
                         [] step = "MSB" -> "LSB"
                         [] OTHER -> "PACKET"
            /\ medium' = IF full /\ Slots # {} THEN 1 ELSE Asleep
  BY DEF TakePacket
<1> DEFINE expected == CASE step = "MSB" -> byte * Radix
                         [] step = "LSB" -> byte
                         [] OTHER -> expected_bytes
           left == IF step = "PACKET" THEN queued ELSE queued - 1
           taken == Lesser(Lesser(expected, Chunk), left)
           full == ~(taken < Lesser(expected, Chunk)) /\ buffered + taken = expected
<1>2. byte \in Nat /\ Radix \in Nat /\ Chunk \in Nat /\ MaxPacket \in Nat
  BY StatAssumption
<1>3. byte * Radix \in Nat
  BY <1>2
<1>4. expected \in Nat
  BY <1>2, <1>3 DEF Types
<1>5. left \in Nat
  BY DEF Types, TakePacket
<1> HIDE DEF expected, left
<1>6. taken \in Nat /\ taken <= left
  BY <1>2, <1>4, <1>5 DEF Lesser
<1> HIDE DEF taken
<1>7. /\ queued' = left - taken /\ expected_bytes' = expected
      /\ buffered' = IF full THEN 0 ELSE Lesser(buffered + taken, MaxPacket)
      /\ step' \in {"MSB", "LSB", "PACKET"}
      /\ medium' \in {Asleep} \cup {i \in {1} : Slots # {}}
  BY <1>1 DEF expected, left, taken
<1>8. queued' \in Nat /\ expected_bytes' \in Nat
  BY <1>4, <1>5, <1>6, <1>7
<1>9. buffered' \in 0 .. MaxPacket
  BY <1>2, <1>6, <1>7 DEF Types, Lesser
<1>10. medium' \in 0 .. scenario.slots
  BY <1>7, SlotRange DEF Asleep
<1> QED BY <1>7, <1>8, <1>9, <1>10, SameNames
      DEF Types, TakePacket, Medium, shellVars

\* MEDIUM goes from slot to slot.
LEMMA MatchTypes ==
    ASSUME Types, MutexesHeld, MediumStep
    PROVE  Types'
<1>1. medium \in Slots
  BY SlotRange DEF Types, MutexesHeld, MediumStep, LockToMatch, MatchSlot, Asleep
<1>2. Locked(medium, "medium") \in [Slots -> LockValues]
  BY <1>1, SlotRange DEF Types, Locked, LockValues
<1>3. Unlocked(medium) \in [Slots -> LockValues]
  BY <1>1, SlotRange DEF Types, Unlocked, LockValues, NoLock
<1>4. locks' \in [Slots -> LockValues]
  BY <1>2, <1>3 DEF MediumStep, LockToMatch, MatchSlot
<1>5. CASE LockToMatch
  BY <1>4, <1>5, SlotRange, SameNames
      DEF Types, LockToMatch, Medium, shellVars, feedVars
<1>6. CASE MatchSlot
  <2>1. medium' = Asleep \/ (medium < scenario.slots /\ medium' = medium + 1)
    BY <1>6, SlotRange DEF MatchSlot
  <2>2. medium' \in 0 .. scenario.slots
    BY <1>1, <2>1, SlotRange DEF Asleep
  <2> QED BY <1>4, <1>6, <2>2, SlotRange, SameNames
        DEF Types, MatchSlot, Medium, shellVars, feedVars
<1> QED BY <1>5, <1>6 DEF MediumStep

\* Every step keeps the types.
LEMMA NextTypes == StatInv /\ [Next]_vars => Types'
<1> SUFFICES ASSUME StatInv, [Next]_vars PROVE Types'
  OBVIOUS
<1> USE DEF StatInv
<1>1. CASE CallDirectly \/ ShellDefines
  BY <1>1, RequestTypes
<1>2. CASE LockSlot \/ LooksForDuplicate \/ LooksForInfo \/ LooksForSwitch
  BY <1>2, LoopTypes
<1>3. CASE \/ Compile \/ CopyName \/ NameTooShort \/ SkipDefined \/ NoSlot
           \/ FillName \/ FillOperations \/ FillConditions
  BY <1>3, FillTypes
<1>4. CASE AddPacket \/ TakePacket
  BY <1>4, AddPacketTypes, TakePacketTypes
<1>5. CASE MediumStep
  BY <1>5, MatchTypes
<1>6. CASE ShellAsksStats \/ UNCHANGED vars
  BY <1>6, SameNames
      DEF ShellAsksStats, Shell, Types, vars, slotVars, shellVars, mediumVars,
      feedVars
<1> QED BY <1>1, <1>2, <1>3, <1>4, <1>5, <1>6 DEF Next, ShellStep

\* Slots are neither added nor removed.
LEMMA SameSlots ==
    ASSUME StatInv, [Next]_vars
    PROVE  /\ scenario' = scenario /\ Slots' = Slots
           /\ Slots = 1 .. scenario.slots /\ scenario.slots \in Nat
           /\ Cardinality(Slots) = scenario.slots
<1>1. scenario' = scenario
  BY DEF Next, ShellStep, MediumStep, CallDirectly, ShellDefines, ShellAsksStats,
         LockSlot, LooksForDuplicate, LooksForInfo, LooksForSwitch, Compile,
         CopyName, NameTooShort, SkipDefined, NoSlot, FillName, FillOperations,
         FillConditions, AddPacket, TakePacket, LockToMatch, MatchSlot, Shell, Medium, vars
<1>2. Types /\ Types'
  BY NextTypes DEF StatInv
<1>3. Slots' = 1 .. scenario'.slots
  BY <1>2 DEF Types, Slots
<1> QED BY <1>1, <1>2, <1>3, SlotRange

\* While a task of MEDIUM matches a slot the shell does nothing.
LEMMA ShellWaits ==
    ASSUME MutexesHeld, ShellRuns
    PROVE  ~matching
BY DEF MutexesHeld, ShellRuns

\* Steps of MEDIUM leave the shell where it is.
MediumTurn ==
    /\ UNCHANGED <<shellVars, patterns>>
    /\ AddPacket \/ TakePacket \/ MediumStep \/ ShellAsksStats \/ UNCHANGED vars

\* The steps of the shell, and the others.
LEMMA Turns ==
    ASSUME [Next]_vars
    PROVE  \/ CallDirectly \/ ShellDefines \/ LockSlot \/ LooksForDuplicate
           \/ LooksForInfo \/ LooksForSwitch \/ Compile \/ CopyName
           \/ NameTooShort \/ SkipDefined \/ NoSlot \/ FillName
           \/ FillOperations \/ FillConditions \/ MediumTurn
<1>1. CASE AddPacket \/ TakePacket \/ MediumStep
  BY <1>1 DEF MediumTurn, AddPacket, TakePacket, MediumStep, LockToMatch,
      MatchSlot, Medium
<1>2. CASE ShellAsksStats \/ UNCHANGED vars
  BY <1>2 DEF MediumTurn, ShellAsksStats, vars, slotVars
<1> QED BY <1>1, <1>2 DEF Next, ShellStep

-----------------------------------------------------------------------------
(* Where the shell is *)

\* A loop that passes a slot goes to the next one, or ends.
LEMMA PastSlotIndex ==
    ASSUME Types, index \in Slots, PastSlot
    PROVE  \/ pc' = "lock" /\ index' = index + 1 /\ index' \in Slots
           \/ pc' = "compile" /\ index' = 1
           \/ pc' = "idle" /\ index' = index
BY SlotRange DEF PastSlot, Answer

\* The shell looks at slots there are, or just behind the last one.
LEMMA NextIndexed == StatInv /\ [Next]_vars => Indexed'
<1> SUFFICES ASSUME StatInv, [Next]_vars PROVE Indexed'
  OBVIOUS
<1>0. /\ Types /\ Indexed /\ Slots = 1 .. scenario.slots
      /\ scenario.slots \in Nat /\ Slots' = Slots /\ scenario' = scenario
  BY SameSlots DEF StatInv
<1>1. CASE CallDirectly \/ ShellDefines
  <2>1. PICK op, name, notation : Ask(op, name, notation)
    BY <1>1 DEF CallDirectly, ShellDefines
  <2> QED BY <1>0, <2>1 DEF Ask, Indexed
<1>2. CASE LockSlot
  BY <1>0, <1>2 DEF LockSlot, Indexed
<1>3. CASE LooksForDuplicate \/ LooksForInfo \/ LooksForSwitch
  <2>1. pc = "locked" /\ index \in Slots
    BY <1>0, <1>3 DEF LooksForDuplicate, LooksForInfo, LooksForSwitch, Indexed
  <2>2. PastSlot \/ pc' = "idle"
    BY <1>3 DEF LooksForDuplicate, LooksForInfo, LooksForSwitch, Answer
  <2> QED BY <1>0, <2>1, <2>2, PastSlotIndex DEF Indexed
<1>4. CASE Compile \/ CopyName \/ NameTooShort \/ SkipDefined \/ NoSlot
  BY <1>0, <1>4
  DEF Compile, CopyName, NameTooShort, SkipDefined, NoSlot, Answer, Indexed
<1>5. CASE FillName \/ FillOperations \/ FillConditions
  BY <1>0, <1>5 DEF FillName, FillOperations, FillConditions, Answer, Indexed
<1>6. CASE MediumTurn
  BY <1>0, <1>6 DEF MediumTurn, shellVars, Indexed
<1> QED BY <1>1, <1>2, <1>3, <1>4, <1>5, <1>6, Turns

-----------------------------------------------------------------------------
(* Who holds which mutex *)

\* Locking a slot says nothing of the others.
LEMMA LockEffects ==
    ASSUME Types, NEW i \in Slots, NEW who
    PROVE  /\ \A j \in Slots \ {i} : Locked(i, who)[j] = locks[j]
           /\ Locked(i, who)[i].owner = who
           /\ Locked(i, who)[i].count = locks[i].count + 1
<1>1. locks \in [Slots -> LockValues]
  BY SlotRange DEF Types
<1> QED BY <1>1 DEF Locked, LockValues

\* Nor does unlocking it.
LEMMA UnlockEffects ==
    ASSUME Types, NEW i \in Slots
    PROVE  /\ \A j \in Slots \ {i} : Unlocked(i)[j] = locks[j]
           /\ locks[i].count > 1 =>
                 /\ Unlocked(i)[i].owner = locks[i].owner
                 /\ Unlocked(i)[i].count = locks[i].count - 1
           /\ ~(locks[i].count > 1) => Unlocked(i)[i] = NoLock
<1>1. locks \in [Slots -> LockValues]
  BY SlotRange DEF Types
<1> QED BY <1>1 DEF Unlocked, LockValues

\* A request starts where the shell can lock every slot once more.
LEMMA RequestMutexes ==
    ASSUME StatInv, CallDirectly \/ ShellDefines
    PROVE  MutexesHeld'
<1>1. PICK op, name, notation :
         Ask(op, name, notation) /\ (ShellDefines => op = "add")
  BY DEF CallDirectly, ShellDefines
<1>2. /\ UNCHANGED <<scenario, locks, medium, matching>> /\ pc = "idle"
      /\ MutexesHeld /\ Slots' = Slots /\ MaxKept \in Nat
      /\ locks \in [Slots -> LockValues]
  BY <1>1, SlotRange, StatAssumption
     DEF StatInv, Types, Slots, CallDirectly, ShellDefines, Shell, Ask, slotVars,
         mediumVars
<1>3. \A i \in Slots : locks[i].owner = "shell" => locks[i].count <= MaxKept
  BY <1>2 DEF CallDirectly, ShellDefines, MutexesHeld, LockValues
<1>4. scenario.caller = "shell" => op = "add"
  BY <1>1 DEF CallDirectly, ShellDefines
<1>5. pc' # "locked" /\ request'.op = op
  BY <1>1 DEF Ask
<1> QED BY <1>2, <1>3, <1>4, <1>5 DEF MutexesHeld

\* The shell takes a mutex that it may lock once more.
LEMMA LockMutexes ==
    ASSUME StatInv, LockSlot
    PROVE  MutexesHeld'
<1>1. /\ UNCHANGED <<scenario, medium, matching, index, request>>
      /\ pc = "lock" /\ pc' = "locked" /\ ~matching
      /\ locks' = Locked(index, "shell") /\ index \in Slots /\ index \in Nat
      /\ MutexesHeld /\ Slots' = Slots /\ MaxKept \in Nat /\ Types
      /\ locks \in [Slots -> LockValues] /\ Slots \subseteq Nat
  BY ShellWaits, SlotRange, StatAssumption
     DEF StatInv, Types, Slots, LockSlot, Shell, mediumVars, Indexed
<1>2. \/ locks[index] = NoLock
      \/ locks[index].owner = "shell" /\ locks[index].count \in 1 .. MaxKept
  BY <1>1 DEF MutexesHeld, LockSlot, CanLock, Ahead, NoLock
<1>3. locks'[index].owner = "shell" /\ locks'[index].count \in 1 .. MaxKept + 1
  BY <1>1, <1>2, LockEffects DEF NoLock
<1>4. \A j \in Slots \ {index} : locks'[j] = locks[j]
  BY <1>1, LockEffects
<1>5. scenario.caller = "shell" => locks'[index].count = 1
  BY <1>1, <1>2, LockEffects DEF MutexesHeld, NoLock
<1>6. \A j \in Slots : Ahead(j)' => j # index /\ Ahead(j)
  BY <1>1 DEF Ahead
<1> QED BY <1>1, <1>3, <1>4, <1>5, <1>6 DEF MutexesHeld, NoLock

\* The shell passes a slot with or without its mutex.
LEMMA LoopMutexes ==
    ASSUME StatInv, LooksForDuplicate \/ LooksForInfo \/ LooksForSwitch
    PROVE  MutexesHeld'
<1>0. /\ locks' = Unlocked(index)
         \/ (locks' = locks /\ request.op \notin {"none", "add"})
      /\ pc = "locked" /\ ShellRuns
      /\ UNCHANGED <<scenario, medium, matching, request>>
  BY DEF LooksForDuplicate, LooksForInfo, LooksForSwitch, Shell, mediumVars
<1>1. /\ ~matching /\ index \in Slots /\ index \in Nat
      /\ MutexesHeld /\ MaxKept \in Nat /\ Types
      /\ locks \in [Slots -> LockValues] /\ Slots \subseteq Nat
  <2>1. Types /\ Indexed /\ MutexesHeld
    BY DEF StatInv
  <2>2. Slots = 1 .. scenario.slots /\ Slots \subseteq Nat
    BY <2>1, SlotRange
  <2>3. index \in Slots /\ index \in Nat
    BY <1>0, <2>1, <2>2 DEF Indexed
  <2>4. locks \in [Slots -> LockValues]
    BY <2>1, <2>2 DEF Types
  <2>5. ~matching /\ MaxKept \in Nat
    BY <1>0, <2>1, ShellWaits, StatAssumption
  <2> QED BY <2>1, <2>2, <2>3, <2>4, <2>5
<1>2. Slots' = Slots
  BY SlotRange DEF Slots, Types, StatInv, LooksForDuplicate, LooksForInfo,
     LooksForSwitch
<1>3. PastSlot \/ pc' = "idle"
  BY DEF LooksForDuplicate, LooksForInfo, LooksForSwitch, Answer
<1>4. \/ pc' = "lock" /\ index' = index + 1
      \/ pc' \in {"compile", "idle"}
  BY <1>0, <1>1, <1>3, PastSlotIndex
<1>5. \A j \in Slots : Ahead(j)' => j # index /\ Ahead(j)
  BY <1>0, <1>1, <1>4 DEF Ahead
<1>6. \A j \in Slots \ {index} : locks'[j] = locks[j]
  BY <1>0, <1>1, UnlockEffects
<1>7. \/ locks'[index] = NoLock
      \/ locks'[index].owner = "shell" /\ locks'[index].count \in 1 .. MaxKept + 1
  BY <1>0, <1>1, UnlockEffects DEF MutexesHeld, NoLock
<1>8. scenario.caller = "shell" => locks'[index] = NoLock
  BY <1>0, <1>1, UnlockEffects DEF MutexesHeld, NoLock
<1> QED BY <1>0, <1>1, <1>2, <1>4, <1>5, <1>6, <1>7, <1>8 DEF MutexesHeld, NoLock

\* The rest of add_pattern and what receives packets touch no mutex.
LEMMA IdleMutexes ==
    ASSUME StatInv, UNCHANGED <<scenario, locks, request>>, Slots' = Slots,
           \/ pc' \notin {"lock", "locked"} /\ pc # "locked"
           \/ UNCHANGED <<pc, index>>,
           \/ UNCHANGED <<medium, matching>>
           \/ ~matching /\ ~matching'
    PROVE  MutexesHeld'
BY DEF StatInv, MutexesHeld, Ahead

\* MEDIUM takes a free mutex, and frees it.
LEMMA MatchMutexes ==
    ASSUME StatInv, MediumStep
    PROVE  MutexesHeld'
<1>1. /\ UNCHANGED <<scenario, pc, index, request>> /\ Slots' = Slots
      /\ MutexesHeld /\ Types /\ medium \in Slots
      /\ locks \in [Slots -> LockValues] /\ (pc = "locked" => index \in Slots)
  BY SlotRange DEF StatInv, Indexed, Types, Slots, MutexesHeld, MediumStep, LockToMatch,
     MatchSlot, Medium, shellVars, Asleep
<1>2. \A j \in Slots : Ahead(j)' = Ahead(j)
  BY <1>1 DEF Ahead
<1>3. CASE LockToMatch
  <2>1. locks[medium] = NoLock
    BY <1>1, <1>3 DEF LockToMatch, CanLock, MutexesHeld
  <2>2. /\ locks'[medium].owner = "medium" /\ locks'[medium].count = 1
        /\ \A j \in Slots \ {medium} : locks'[j] = locks[j]
    BY <1>1, <1>3, <2>1, LockEffects DEF LockToMatch, NoLock
  <2>3. medium' = medium /\ medium # Asleep /\ matching' = TRUE
    BY <1>3 DEF LockToMatch
  <2>4. /\ pc = "locked" => index # medium
        /\ MutexesHeld
    BY <1>1, <2>1 DEF MutexesHeld, NoLock
  <2>5. \A j \in Slots : locks'[j].owner = "shell" => j # medium
    BY <2>2
  <2> QED BY <1>1, <1>2, <2>2, <2>3, <2>4, <2>5 DEF MutexesHeld
<1>4. CASE MatchSlot
  <2>1. locks[medium].owner = "medium" /\ locks[medium].count = 1
    BY <1>1, <1>4 DEF MatchSlot, MutexesHeld, NoLock
  <2>2. /\ locks'[medium] = NoLock
        /\ \A j \in Slots \ {medium} : locks'[j] = locks[j]
    BY <1>1, <1>4, <2>1, UnlockEffects DEF MatchSlot
  <2>3. matching /\ matching' = FALSE
    BY <1>4 DEF MatchSlot
  <2>4. pc = "locked" => index # medium
    BY <1>1, <2>1 DEF MutexesHeld
  <2>5. \A j \in Slots : locks'[j].owner = "shell" => j # medium
    BY <2>2 DEF NoLock
  <2> QED BY <1>1, <1>2, <2>2, <2>3, <2>4, <2>5 DEF MutexesHeld
<1> QED BY <1>3, <1>4 DEF MediumStep

\* Mutexes are held as they should be.
LEMMA NextMutexes == StatInv /\ [Next]_vars => MutexesHeld'
<1> SUFFICES ASSUME StatInv, [Next]_vars PROVE MutexesHeld'
  OBVIOUS
<1>0. Slots' = Slots /\ MutexesHeld /\ scenario' = scenario
  BY SameSlots DEF StatInv
<1>1. CASE CallDirectly \/ ShellDefines
  BY <1>1, RequestMutexes
<1>2. CASE LockSlot
  BY <1>2, LockMutexes
<1>3. CASE LooksForDuplicate \/ LooksForInfo \/ LooksForSwitch
  BY <1>3, LoopMutexes
<1>4. CASE \/ Compile \/ CopyName \/ NameTooShort \/ SkipDefined \/ NoSlot
           \/ FillName \/ FillOperations \/ FillConditions
  <2>1. /\ UNCHANGED <<locks, request, medium, matching>>
        /\ pc' \notin {"lock", "locked"} /\ pc # "locked"
    BY <1>4 DEF Compile, CopyName, NameTooShort, SkipDefined, NoSlot, FillName,
       FillOperations, FillConditions, Shell, slotVars, mediumVars, Answer
  <2> QED BY <1>0, <2>1, IdleMutexes
<1>5. CASE MediumTurn
  <2>1. CASE MediumStep
    BY <2>1, MatchMutexes
  <2>2. CASE AddPacket \/ TakePacket
    <3>1. UNCHANGED <<locks, matching, shellVars>> /\ medium = Asleep
      BY <1>5, <2>2 DEF AddPacket, TakePacket, MediumTurn
    <3>2. ~matching
      BY <1>0, <3>1 DEF MutexesHeld
    <3> QED BY <1>0, <3>1, <3>2, IdleMutexes DEF shellVars
  <2>3. CASE ShellAsksStats \/ UNCHANGED vars
    <3>1. UNCHANGED <<locks, request, pc, index, medium, matching>>
      BY <2>3 DEF ShellAsksStats, Shell, vars, slotVars, shellVars, mediumVars
    <3> QED BY <1>0, <3>1, IdleMutexes
  <2> QED BY <1>5, <2>1, <2>2, <2>3 DEF MediumTurn
<1> QED BY <1>1, <1>2, <1>3, <1>4, <1>5, Turns

-----------------------------------------------------------------------------
(* Which slot has which pattern *)

Ownership == Filled /\ Compiled /\ PatternsOwned /\ AcceptedAreWhole

Filling == {"operations", "conditions"}

\* The slots are as they were, but for being enabled.
SlotsAlike ==
    /\ Slots' = Slots
    /\ \A i \in Slots :
          /\ patterns'[i].defined = patterns[i].defined
          /\ patterns'[i].operations = patterns[i].operations
          /\ patterns'[i].conditions = patterns[i].conditions

\* Nothing happens to a pattern.
Quiet ==
    /\ SlotsAlike /\ UNCHANGED <<live, compiled, accepted>>
    /\ \/ UNCHANGED <<pc, index>>
       \/ pc \notin Filling /\ pc' \notin Filling
    /\ pc \in {"copy", "search"} <=> pc' \in {"copy", "search"}

\* set_pattern_enabled changes nothing but enabled.
LEMMA SwitchAlike ==
    ASSUME StatInv, LooksForSwitch, Slots' = Slots
    PROVE  SlotsAlike
<1>1. patterns \in [Slots -> SlotValues] /\ index \in Slots
  BY SlotRange DEF StatInv, Types, Indexed, LooksForSwitch
<1>2. \/ patterns' = patterns
      \/ patterns' = [patterns EXCEPT ![index].enabled = (request.op = "enable")]
  BY DEF LooksForSwitch
<1> QED BY <1>1, <1>2 DEF SlotsAlike, SlotValues

\* Requests, loops and MEDIUM do nothing to a pattern.
LEMMA QuietSteps ==
    ASSUME StatInv, [Next]_vars,
           \/ CallDirectly \/ ShellDefines \/ LockSlot \/ LooksForDuplicate
           \/ LooksForInfo \/ LooksForSwitch \/ CopyName \/ SkipDefined
           \/ MediumTurn
    PROVE  Quiet
<1>0. Slots' = Slots /\ Compiled
  BY SameSlots DEF StatInv
<1>1. CASE CallDirectly \/ ShellDefines
  <2>1. /\ UNCHANGED <<patterns, live, accepted>> /\ compiled' = None
        /\ pc' \in {"lock", "compile", "idle"} /\ pc = "idle"
    BY <1>1 DEF CallDirectly, ShellDefines, Ask, slotVars
  <2>2. compiled = None
    BY <1>0, <2>1 DEF Compiled
  <2> QED BY <1>0, <2>1, <2>2 DEF Quiet, SlotsAlike, Filling
<1>2. CASE LockSlot
  BY <1>0, <1>2 DEF LockSlot, Quiet, SlotsAlike, Filling
<1>3. CASE LooksForDuplicate \/ LooksForInfo \/ LooksForSwitch
  <2>1. SlotsAlike
    BY <1>0, <1>3, SwitchAlike DEF LooksForDuplicate, LooksForInfo, SlotsAlike
  <2>2. UNCHANGED <<live, compiled, accepted>> /\ pc = "locked"
    BY <1>3 DEF LooksForDuplicate, LooksForInfo, LooksForSwitch
  <2>3. pc' \in {"lock", "compile", "idle"}
    BY <1>3 DEF LooksForDuplicate, LooksForInfo, LooksForSwitch, PastSlot, Answer
  <2> QED BY <2>1, <2>2, <2>3 DEF Quiet, Filling
<1>4. CASE CopyName \/ SkipDefined
  BY <1>0, <1>4 DEF CopyName, SkipDefined, Quiet, SlotsAlike, Filling, slotVars
<1>5. CASE MediumTurn
  <2>1. UNCHANGED <<pc, index, live, compiled, accepted, patterns>>
    BY <1>5 DEF MediumTurn, shellVars
  <2> QED BY <1>0, <2>1 DEF Quiet, SlotsAlike
<1> QED BY <1>1, <1>2, <1>3, <1>4, <1>5

\* Then every pattern stays where it is.
LEMMA QuietOwnership ==
    ASSUME Ownership, Quiet
    PROVE  Ownership'
<1>0. Filled /\ Compiled /\ PatternsOwned /\ AcceptedAreWhole /\ SlotsAlike
  BY DEF Ownership, Quiet
<1>1. Filled'
  BY <1>0 DEF Filled, SlotsAlike, Quiet, Filling
<1>2. Compiled'
  BY <1>0 DEF Compiled, SlotsAlike, Quiet, Filling
<1>3. PatternsOwned'
  BY <1>0 DEF PatternsOwned, SlotsAlike, Quiet
<1>4. AcceptedAreWhole'
  <2>1. Whole' = Whole
    BY <1>0 DEF Whole, SlotsAlike
  <2> QED BY <1>0, <2>1 DEF AcceptedAreWhole, SlotsAlike, Quiet, Whole
<1> QED BY <1>1, <1>2, <1>3, <1>4 DEF Ownership

\* What is compiled is in no slot yet.
LEMMA CompileOwnership ==
    ASSUME Ownership, Compile, Slots' = Slots
    PROVE  Ownership'
<1>0. /\ Filled /\ Compiled /\ PatternsOwned /\ AcceptedAreWhole
      /\ UNCHANGED <<patterns, accepted, index>> /\ pc = "compile"
      /\ None \notin PatternIds
  BY StatAssumption DEF Ownership, Compile, slotVars
<1>1. CASE UNCHANGED <<live, compiled>> /\ pc' \in {"compile", "idle"}
  BY <1>0, <1>1, QuietOwnership DEF Quiet, SlotsAlike, Filling
<1>2. CASE pc' = "copy" /\ compiled' \in PatternIds \ live
           /\ live' = live \cup {compiled'}
  <2>1. compiled = None
    BY <1>0 DEF Compiled
  <2>2. \A i \in Slots : patterns[i].operations # compiled'
    BY <1>0, <1>2 DEF PatternsOwned
  <2>3. Filled'
    BY <1>0, <1>2 DEF Filled
  <2>4. Compiled'
    BY <1>0, <1>2, <2>2 DEF Compiled
  <2>5. PatternsOwned'
    BY <1>0, <1>2, <2>1 DEF PatternsOwned
  <2>6. AcceptedAreWhole'
    BY <1>0 DEF AcceptedAreWhole, Whole
  <2> QED BY <2>3, <2>4, <2>5, <2>6 DEF Ownership
<1> QED BY <1>1, <1>2 DEF Compile, Answer

\* A pattern for which there is no slot, or no name, is freed.
LEMMA RefusedOwnership ==
    ASSUME Ownership, NoSlot \/ NameTooShort, Slots' = Slots
    PROVE  Ownership'
<1>0. /\ Filled /\ Compiled /\ PatternsOwned /\ AcceptedAreWhole
      /\ UNCHANGED <<patterns, accepted, index>>
      /\ pc \in {"copy", "search"} /\ pc' = "idle"
      /\ live' = live \ {compiled} /\ compiled' = None
  BY DEF Ownership, NoSlot, NameTooShort, Answer, slotVars
<1>1. Filled' /\ Compiled'
  BY <1>0 DEF Filled, Compiled
<1>2. PatternsOwned'
  BY <1>0 DEF PatternsOwned, Compiled
<1>3. AcceptedAreWhole'
  BY <1>0 DEF AcceptedAreWhole, Whole
<1> QED BY <1>1, <1>2, <1>3 DEF Ownership

\* What a step of FillName, FillOperations or FillConditions leaves alone.
LEMMA FillEffects ==
    ASSUME StatInv, FillName \/ FillOperations \/ FillConditions
    PROVE  /\ index \in Slots /\ index' = index /\ live' = live
           /\ \A i \in Slots \ {index} : patterns'[i] = patterns[i]
           /\ FillName =>
                 /\ patterns'[index].defined
                 /\ patterns'[index].operations = patterns[index].operations
                 /\ patterns'[index].conditions = patterns[index].conditions
           /\ FillOperations =>
                 /\ patterns'[index].defined = patterns[index].defined
                 /\ patterns'[index].operations = compiled
                 /\ patterns'[index].conditions = patterns[index].conditions
           /\ FillConditions =>
                 /\ patterns'[index].defined = patterns[index].defined
                 /\ patterns'[index].operations = patterns[index].operations
                 /\ patterns'[index].conditions = compiled
<1>1. patterns \in [Slots -> SlotValues] /\ index \in Slots
  BY SlotRange DEF StatInv, Types, Indexed, FillName, FillOperations,
     FillConditions
<1> QED BY <1>1 DEF FillName, FillOperations, FillConditions, SlotValues

\* A free slot gets a name first,
LEMMA FillNameOwnership ==
    ASSUME StatInv, FillName, Slots' = Slots
    PROVE  Ownership'
<1>0. /\ Filled /\ Compiled /\ PatternsOwned /\ AcceptedAreWhole
      /\ UNCHANGED <<accepted, compiled, live, index>>
      /\ pc = "search" /\ pc' = "operations"
  BY DEF StatInv, FillName
<1>1. /\ index \in Slots
      /\ patterns[index].operations = None /\ patterns[index].conditions = None
  BY <1>0 DEF FillName, Filled
<1>2. Filled'
  BY <1>0, <1>1, FillEffects DEF Filled
<1>3. \A i \in Slots : /\ patterns'[i].operations = patterns[i].operations
                      /\ patterns'[i].conditions = patterns[i].conditions
  BY FillEffects
<1>4. Compiled'
  BY <1>0, <1>3 DEF Compiled
<1>5. PatternsOwned'
  BY <1>0, <1>3 DEF PatternsOwned
<1>6. AcceptedAreWhole'
  <2>1. Whole' = Whole
    BY <1>3 DEF Whole
  <2> QED BY <1>0, <1>3, <2>1 DEF AcceptedAreWhole, Whole
<1> QED BY <1>2, <1>4, <1>5, <1>6 DEF Ownership

\* then what is to be read of a packet,
LEMMA FillOperationsOwnership ==
    ASSUME StatInv, FillOperations, Slots' = Slots
    PROVE  Ownership'
<1>0. /\ Filled /\ Compiled /\ PatternsOwned /\ AcceptedAreWhole
      /\ UNCHANGED <<accepted, compiled, live, index>>
      /\ pc = "operations" /\ pc' = "conditions" /\ index \in Slots
  BY FillEffects DEF StatInv, FillOperations
<1>1. /\ patterns[index].operations = None /\ patterns[index].conditions = None
      /\ patterns[index].defined /\ compiled # None
  BY <1>0 DEF Filled, Compiled
<1>2. /\ patterns'[index].operations = compiled
      /\ patterns'[index].conditions = None /\ patterns'[index].defined
      /\ \A i \in Slots \ {index} : patterns'[i] = patterns[i]
  BY <1>1, FillEffects
<1>3. Filled'
  BY <1>0, <1>2 DEF Filled
<1>4. Compiled'
  BY <1>0, <1>1, <1>2 DEF Compiled
<1>5. PatternsOwned'
  <2>1. {patterns'[i].operations : i \in Slots} \cup {compiled, None}
          = {patterns[i].operations : i \in Slots} \cup {compiled, None}
    BY <1>1, <1>2
  <2>2. live' = ({patterns'[i].operations : i \in Slots} \cup {compiled}) \ {None}
    BY <1>0, <2>1 DEF PatternsOwned
  <2>3. \A i \in Slots \ {index} : patterns[i].operations # compiled
    BY <1>0, <1>1 DEF Compiled
  <2> QED BY <1>0, <1>2, <2>2, <2>3 DEF PatternsOwned
<1>6. AcceptedAreWhole'
  <2>1. Whole' = Whole /\ index \notin Whole
    BY <1>1, <1>2, Slots' = Slots DEF Whole
  <2> QED BY <1>0, <1>2, <2>1 DEF AcceptedAreWhole, Whole
<1> QED BY <1>3, <1>4, <1>5, <1>6 DEF Ownership

\* and when it has its conditions it is whole, and the pattern is accepted.
LEMMA FillConditionsOwnership ==
    ASSUME StatInv, FillConditions, Slots' = Slots
    PROVE  Ownership'
<1>0. /\ Filled /\ Compiled /\ PatternsOwned /\ AcceptedAreWhole
      /\ live' = live /\ index' = index /\ compiled' = None
      /\ DOMAIN accepted' = DOMAIN accepted \cup {compiled}
      /\ pc = "conditions" /\ pc' = "idle" /\ index \in Slots
  BY FillEffects DEF StatInv, FillConditions, Answer
<1>1. /\ patterns[index].operations = compiled /\ patterns[index].conditions = None
      /\ patterns[index].defined /\ compiled # None
  BY <1>0 DEF Filled, Compiled
<1>2. /\ patterns'[index].operations = compiled
      /\ patterns'[index].conditions = compiled /\ patterns'[index].defined
      /\ \A i \in Slots \ {index} : patterns'[i] = patterns[i]
  BY <1>1, FillEffects
<1>3. \A i \in Slots : patterns'[i].operations = patterns[i].operations
  BY <1>1, <1>2
<1>4. Filled'
  <2>1. ASSUME NEW i \in Slots \ {index}
        PROVE  /\ patterns'[i].operations = patterns'[i].conditions
               /\ patterns'[i].defined = (patterns'[i].operations # None)
    BY <1>0, <1>2, <2>1 DEF Filled
  <2>2. /\ patterns'[index].operations = patterns'[index].conditions
        /\ patterns'[index].defined = (patterns'[index].operations # None)
    BY <1>1, <1>2
  <2> QED BY <1>0, <2>1, <2>2 DEF Filled
<1>5. Compiled'
  BY <1>0 DEF Compiled
<1>6. PatternsOwned'
  <2>1. {patterns'[i].operations : i \in Slots} = {patterns[i].operations : i \in Slots}
    BY <1>3
  <2>2. live' = {patterns'[i].operations : i \in Slots} \ {None}
    BY <1>0, <1>1, <2>1 DEF PatternsOwned
  <2> QED BY <1>0, <1>3, <2>2 DEF PatternsOwned
<1>7. AcceptedAreWhole'
  <2>1. Whole' = Whole \cup {index}
    BY <1>0, <1>1, <1>2, Slots' = Slots DEF Whole
  <2> QED BY <1>0, <1>1, <1>3, <2>1 DEF AcceptedAreWhole, Whole
<1> QED BY <1>4, <1>5, <1>6, <1>7 DEF Ownership

\* Every step leaves each pattern with one owner.
LEMMA NextOwnership == StatInv /\ [Next]_vars => Ownership'
<1> SUFFICES ASSUME StatInv, [Next]_vars PROVE Ownership'
  OBVIOUS
<1>0. Ownership /\ Slots' = Slots
  BY SameSlots DEF StatInv, Ownership
<1>1. CASE Quiet
  BY <1>0, <1>1, QuietOwnership
<1>2. CASE Compile \/ NoSlot \/ NameTooShort
  BY <1>0, <1>2, CompileOwnership, RefusedOwnership
<1>3. CASE FillName \/ FillOperations \/ FillConditions
  BY <1>0, <1>3, FillNameOwnership, FillOperationsOwnership,
     FillConditionsOwnership
<1> QED BY <1>1, <1>2, <1>3, Turns, QuietSteps

-----------------------------------------------------------------------------
(* The search for a free slot *)

\* Whether a slot is taken changes when it is filled only.
LEMMA QuietSearched ==
    ASSUME Searched, Quiet,
           pc' # "search",
           answer' = "INSUFFICIENT_CAPACITY" => UNCHANGED <<answer, pc, request>>,
           Slots \subseteq Nat \ {0}
    PROVE  Searched'
BY DEF Searched, Quiet, SlotsAlike

\* The slots passed are taken, and all of them where there is none left.
LEMMA NextSearched == StatInv /\ [Next]_vars => Searched'
<1> SUFFICES ASSUME StatInv, [Next]_vars PROVE Searched'
  OBVIOUS
<1>0. /\ Searched /\ Filled /\ Slots' = Slots /\ Slots = 1 .. scenario.slots
      /\ scenario.slots \in Nat /\ Slots \subseteq Nat \ {0}
  BY SameSlots DEF StatInv
<1>1. CASE CallDirectly \/ ShellDefines
  <2>1. /\ Quiet /\ pc' # "search" /\ answer' # "INSUFFICIENT_CAPACITY"
    BY <1>1, QuietSteps DEF CallDirectly, ShellDefines, Ask
  <2> QED BY <1>0, <2>1, QuietSearched
<1>2. CASE LockSlot \/ LooksForDuplicate \/ LooksForInfo \/ LooksForSwitch
  <2>1. pc' # "search" /\ pc # "idle"
    BY <1>2 DEF LockSlot, LooksForDuplicate, LooksForInfo, LooksForSwitch,
       PastSlot, Answer
  <2>2. answer' # "INSUFFICIENT_CAPACITY" \/ answer' = answer
    BY <1>2 DEF LockSlot, LooksForDuplicate, LooksForInfo, LooksForSwitch,
       PastSlot, Answer
  <2> QED BY <1>0, <2>1, <2>2 DEF Searched
<1>3. CASE Compile
  <2>1. pc' # "search" /\ pc # "idle"
    BY <1>3 DEF Compile, Answer
  <2>2. answer' # "INSUFFICIENT_CAPACITY" \/ answer' = answer
    BY <1>3 DEF Compile, Answer
  <2> QED BY <1>0, <2>1, <2>2 DEF Searched
<1>4. CASE CopyName
  BY <1>0, <1>4 DEF CopyName, Searched, slotVars
<1>5. CASE SkipDefined
  <2>1. /\ index' = index + 1 /\ index \in Slots /\ patterns[index].defined
        /\ pc = "search" /\ UNCHANGED <<patterns, answer>>
    BY <1>5 DEF SkipDefined, slotVars
  <2>2. \A i \in Slots : i < index + 1 => i = index \/ i < index
    BY <1>0, <2>1
  <2> QED BY <1>0, <2>1, <2>2 DEF Searched
<1>6. CASE NoSlot
  <2>1. /\ index \notin Slots /\ pc = "search" /\ pc' = "idle"
        /\ UNCHANGED patterns
    BY <1>6 DEF NoSlot, Answer, slotVars
  <2>2. index = scenario.slots + 1
    BY <1>0, <2>1 DEF StatInv, Indexed
  <2>3. \A i \in Slots : patterns[i].defined
    BY <1>0, <2>1, <2>2 DEF Searched
  <2>4. \A i \in Slots : patterns[i].conditions # None
    BY <1>0, <2>1, <2>3 DEF Filled
  <2> QED BY <1>0, <2>1, <2>4 DEF Searched
<1>7. CASE FillName \/ FillOperations \/ FillConditions
  <2>1. pc # "idle" /\ pc' # "search"
    BY <1>7 DEF FillName, FillOperations, FillConditions, Answer
  <2>2. answer' # "INSUFFICIENT_CAPACITY" \/ answer' = answer
    BY <1>7 DEF FillName, FillOperations, FillConditions, Answer
  <2> QED BY <1>0, <2>1, <2>2 DEF Searched
<1>8. CASE NameTooShort
  BY <1>8 DEF NameTooShort, Answer, Searched
<1>9. CASE MediumTurn
  <2>1. UNCHANGED <<pc, index, answer, patterns, request>>
    BY <1>9 DEF MediumTurn, shellVars
  <2> QED BY <1>0, <2>1 DEF Searched
<1> QED BY <1>1, <1>2, <1>3, <1>4, <1>5, <1>6, <1>7, <1>8, <1>9, Turns

-----------------------------------------------------------------------------
(* The theorems *)

\* Nothing is asked, defined or locked at first.
LEMMA InitInv == Init => StatInv
<1> SUFFICES ASSUME Init PROVE StatInv
  OBVIOUS
<1>0. /\ Slots = 1 .. scenario.slots /\ Types /\ compiled = None /\ pc = "idle"
      /\ \A i \in Slots : locks[i] = NoLock /\ patterns[i] = NewSlot
      /\ live = {} /\ accepted = Empty /\ ~matching /\ answer = "none"
      /\ request.op = "none"
  BY InitTypes DEF Init, Slots, NoRequest
<1>1. Indexed /\ Searched
  BY <1>0 DEF Indexed, Searched
<1>2. MutexesHeld
  BY <1>0 DEF MutexesHeld, NoLock, Ahead
<1>3. \A i \in Slots : /\ patterns[i].operations = None
                      /\ patterns[i].conditions = None
                      /\ patterns[i].defined = FALSE
  BY <1>0 DEF NewSlot
<1>4. Filled
  BY <1>0, <1>3 DEF Filled
<1>5. Compiled
  BY <1>0 DEF Compiled
<1>6. PatternsOwned
  BY <1>0, <1>3 DEF PatternsOwned
<1>7. AcceptedAreWhole
  <2>1. Whole = {} /\ DOMAIN accepted = {}
    BY <1>0, <1>3 DEF Whole, Empty
  <2> QED BY <2>1 DEF AcceptedAreWhole
<1> QED BY <1>0, <1>1, <1>2, <1>4, <1>5, <1>6, <1>7 DEF StatInv

\* The invariant is inductive.
LEMMA StatInvariant == Spec => []StatInv
<1>1. StatInv /\ [Next]_vars => StatInv'
  BY NextTypes, NextIndexed, NextMutexes, NextOwnership, NextSearched
  DEF StatInv, Ownership
<1> QED BY InitInv, <1>1, PTL DEF Spec

\* The slots hold names and patterns there are, no mutex of a slot is locked
\* more often than requests have left it locked, and the task that matches looks
\* at no slot beyond the last.
THEOREM StatTypeCorrect == Spec => []TypeOK
<1>1. StatInv => TypeOK
  <2> SUFFICES ASSUME StatInv PROVE TypeOK
    OBVIOUS
  <2>1. /\ Types /\ MutexesHeld /\ MaxKept \in Nat
        /\ Slots = 1 .. scenario.slots /\ scenario.slots \in Nat
    BY SlotRange, StatAssumption DEF StatInv
  <2>2. \A i \in Slots :
           /\ patterns[i].name \in StoredNames
           /\ {patterns[i].operations, patterns[i].conditions}
                 \subseteq PatternIds \cup {None}
    BY <2>1 DEF Types, SlotValues
  <2>3. \A i \in Slots : locks[i].count \in 0 .. MaxKept + 1
    BY <2>1 DEF MutexesHeld, NoLock
  <2>4. medium = Asleep \/ medium \in Slots
    BY <2>1 DEF Types, Asleep
  <2> QED BY <2>1, <2>2, <2>3, <2>4 DEF TypeOK, Types, StoredNames
<1> QED BY StatInvariant, <1>1, PTL

\* No way out of add_pattern (pattern_stats.cpp), those for a name too short and
\* for want of a slot included, leaks the memory of a pattern or gives it to two
\* slots, for every number of slots.
THEOREM PatternsHaveOneOwner == Spec => []PatternsOwned
<1>1. StatInv => PatternsOwned
  BY DEF StatInv
<1> QED BY StatInvariant, <1>1, PTL

\* What add_pattern has accepted stays in a slot, and stays whole.
THEOREM AcceptedPatternsKept == Spec => []AcceptedKept
<1>1. StatInv => AcceptedKept
  <2> SUFFICES ASSUME StatInv, NEW p \in DOMAIN accepted
               PROVE  \E i \in Slots : /\ patterns[i].defined
                                      /\ patterns[i].operations = p
                                      /\ patterns[i].conditions = p
    BY DEF AcceptedKept
  <2>1. PICK i \in Whole : p = patterns[i].operations
    BY DEF StatInv, AcceptedAreWhole
  <2>2. i \in Slots /\ patterns[i].conditions # None
    BY <2>1 DEF Whole
  <2>3. patterns[i].operations = patterns[i].conditions /\ patterns[i].defined
    BY <2>2 DEF StatInv, Filled, Compiled
  <2> QED BY <2>1, <2>2, <2>3
<1> QED BY StatInvariant, <1>1, PTL

\* A valid pattern whose name has not just one character is refused for want of
\* capacity only where every slot holds another accepted one: the search of
\* add_pattern overlooks no free slot.
THEOREM RefusedWhenFull == Spec => []RefusedOnlyWhenFull
<1>1. StatInv => RefusedOnlyWhenFull
  <2> SUFFICES ASSUME StatInv, answer = "INSUFFICIENT_CAPACITY",
                      ~NoCapacity(request.name)
               PROVE  Cardinality(DOMAIN accepted) = Cardinality(Slots)
    BY DEF RefusedOnlyWhenFull
  <2>1. pc = "idle" /\ \A i \in Slots : patterns[i].conditions # None
    BY DEF StatInv, Searched
  <2>2. \A i \in Slots : patterns[i].operations # None
    BY <2>1 DEF StatInv, Filled
  <2>3. DOMAIN accepted = {patterns[i].operations : i \in Slots}
    BY <2>1 DEF StatInv, AcceptedAreWhole, Whole
  <2> DEFINE f == [i \in Slots |-> patterns[i].operations]
  <2>4. f \in Bijection(Slots, DOMAIN accepted)
    <3>1. f \in [Slots -> DOMAIN accepted]
      BY <2>3
    <3>2. \A i, j \in Slots : f[i] = f[j] => i = j
      BY <2>2 DEF StatInv, PatternsOwned
    <3>3. \A p \in DOMAIN accepted : \E i \in Slots : f[i] = p
      BY <2>3
    <3> HIDE DEF f
    <3> QED BY <3>1, <3>2, <3>3 DEF Bijection, Injection, Surjection, IsInjective
  <2>5. IsFiniteSet(Slots)
    BY SlotRange DEF StatInv
  <2> QED BY <2>4, <2>5, FS_Bijection DEF ExistsBijection
<1> QED BY StatInvariant, <1>1, PTL
=============================================================================
