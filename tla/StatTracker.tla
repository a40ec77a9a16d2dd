---------------------------- MODULE StatTracker ----------------------------
(***************************************************************************)
(* The statistics of patterns (PatternMatcher/src/pattern_stats.cpp,       *)
(* stat_request.cpp) and the shell commands in front of them               *)
(* (cli_funcs.cpp, CLI/).  The shell thread defines patterns, enables them *)
(* and asks for them; on the MEDIUM work queue one task adds the packets   *)
(* received to packet_queue, and another, which nothing starts yet, takes  *)
(* them out and matches them with every slot.                              *)
(*                                                                         *)
(* MEDIUM preempts the shell anywhere, the shell MEDIUM only when MEDIUM   *)
(* waits for a mutex: packet_mtx is always free, and what MutexLock writes *)
(* back to a mutex is what is there.  An allocation may always fail.       *)
(* The bytes in packet_queue are left open, and what is counted for a slot *)
(* is left out: only a lookup that finds a pattern reads it.               *)
(***************************************************************************)
EXTENDS Integers, Sequences, FiniteSets

CONSTANTS
    Names,      \* names one can type: characters and a terminator
    Scenarios,  \* [slots, processing, caller]
    PatternIds, \* compiled patterns
    PacketLens, \* lengths of the packets received
    Bytes,      \* values of a byte of packet_queue
    Radix,      \* a byte shifted by 8 is multiplied by it
    Chunk,      \* max_byte_processed
    MaxPacket,  \* max_packet_size, the capacity of packet_buffer
    MaxQueue,   \* bound: no packet is received beyond such a queue
    MaxKept     \* bound: no lookup while a mutex is locked so often

MaxSlots == CHOOSE n \in {s.slots : s \in Scenarios} :
                \A s \in Scenarios : s.slots <= n

None == 0
Asleep == 0
Empty == <<>>    \* HeapString()
NewSlot == [name |-> Empty, defined |-> FALSE, enabled |-> FALSE,
            operations |-> None, conditions |-> None]
NoLock == [owner |-> "none", count |-> 0]
NoRequest == [op |-> "none", name |-> Empty]

ASSUME StatAssumption ==
    /\ \A s \in Scenarios : s.slots \in Nat
    /\ None \notin PatternIds
    /\ PacketLens \subseteq Nat /\ Bytes \subseteq Nat
    /\ {Radix, Chunk, MaxPacket, MaxQueue, MaxKept} \subseteq Nat

VARIABLES
    scenario,
    patterns,    \* the slots
    locks,       \* the mtx of each
    pc, request, \* where the shell is, in which request
    index,       \* the slot it looks at
    compiled,    \* the pattern add_pattern has compiled
    name_cpy,
    answer,      \* of the last request
    live,        \* patterns that hold memory
    accepted,    \* history: pattern -> the name it was accepted under
    medium,      \* Asleep, or the slot MEDIUM is about to match
    matching,    \* MEDIUM has the mutex of that slot
    queued,      \* bytes in packet_queue
    step, expected_bytes, buffered,  \* packet_state
    lookedUp,    \* history: get_pattern_info has been asked for something
    undefined    \* the code has done what C++ does not define

slotVars == <<patterns, locks>>
shellVars == <<pc, request, index, compiled, name_cpy, answer, live, accepted>>
feedVars == <<queued, step, expected_bytes, buffered>>
mediumVars == <<medium, matching, feedVars>>
vars == <<scenario, slotVars, shellVars, mediumVars, lookedUp, undefined>>

Slots == DOMAIN patterns

Init ==
    /\ scenario \in Scenarios
    /\ patterns = [i \in 1 .. scenario.slots |-> NewSlot]
    /\ locks = [i \in 1 .. scenario.slots |-> NoLock]
    /\ pc = "idle" /\ request = NoRequest /\ index = 1
    /\ compiled = None /\ name_cpy = Empty /\ answer = "none"
    /\ live = {} /\ accepted = Empty
    /\ medium = Asleep /\ matching = FALSE
    /\ queued = 0 /\ step = "MSB" /\ expected_bytes = 0 /\ buffered = 0
    /\ lookedUp = FALSE /\ undefined = FALSE

-----------------------------------------------------------------------------
(* Mutexes and strings *)

CanLock(i, who) == locks[i].owner \in {"none", who}

Locked(i, who) ==
    [locks EXCEPT ![i] = [owner |-> who, count |-> @.count + 1]]

Unlocked(i) ==
    [locks EXCEPT ![i] =
        IF @.count > 1 THEN [owner |-> @.owner, count |-> @.count - 1]
                       ELSE NoLock]

\* copy_string: len() leaves the terminator out, in the copy's len_ as well.
\* A null string has the greatest length, which no heap can allocate.
Copied(name) == IF name = Empty THEN Empty ELSE SubSeq(name, 1, Len(name) - 1)

-----------------------------------------------------------------------------
(* Requests.  Whatever the shell does, MEDIUM is not executing.             *)

ShellRuns ==
    /\ ~undefined
    /\ medium # Asleep => ~matching /\ locks[medium].owner = "shell"

Shell ==
    /\ ShellRuns
    /\ lookedUp' = (lookedUp \/ (pc = "locked" /\ request.op = "info"))
    /\ UNCHANGED <<scenario, mediumVars>>

Ask(op, name, notation) ==
    /\ pc' = IF Slots # {} THEN "lock"
             ELSE IF op = "add" THEN "compile" ELSE "idle"
    /\ request' = [op |-> op, name |-> name, notation |-> notation]
    /\ answer' = IF Slots = {} /\ op # "add" THEN "NOT_DEFINED" ELSE "none"
    /\ index' = 1 /\ compiled' = None /\ name_cpy' = Empty
    /\ UNCHANGED <<slotVars, live, accepted, undefined>>

\* add_pattern, get_pattern_info and set_pattern_enabled, called as they are
\* meant to be.
CallDirectly ==
    /\ Shell /\ pc = "idle" /\ scenario.caller = "direct"
    /\ \A i \in Slots : locks[i].count < MaxKept
    /\ \E name \in Names :
          \/ \E notation \in {"valid", "invalid"} : Ask("add", name, notation)
          \/ \E op \in {"info", "enable", "disable"} : Ask(op, name, "none")

\* func_handler of "pattern define": fill_args begins with the command's own
\* name, parses the next word as the notation, and goes on when it could not:
\* every word but an empty one is refused, the notation is a null vector.
ShellDefines ==
    /\ Shell /\ pc = "idle" /\ scenario.caller = "shell"
    /\ \E name \in {scenario.command, Empty} : Ask("add", name, "null")

\* "pattern stats": display_stats puts the first character of a name in front
\* of its buffer, or behind a null pointer.
ShellAsksStats ==
    /\ Shell /\ pc = "idle" /\ scenario.caller = "shell"
    /\ undefined' = TRUE
    /\ UNCHANGED <<slotVars, shellVars>>

-----------------------------------------------------------------------------
(* The loops that look for a name, a slot at a time *)

Answer(res) == answer' = res /\ pc' = "idle"

\* What comes after the last slot.
PastSlot ==
    IF index < Cardinality(Slots)
      THEN pc' = "lock" /\ index' = index + 1 /\ UNCHANGED answer
      ELSE IF request.op = "add"
             THEN pc' = "compile" /\ index' = 1 /\ UNCHANGED answer
             ELSE Answer("NOT_DEFINED") /\ UNCHANGED index

LockSlot ==
    /\ Shell /\ pc = "lock" /\ CanLock(index, "shell")
    /\ locks' = Locked(index, "shell")
    /\ pc' = "locked"
    /\ UNCHANGED <<patterns, request, index, compiled, name_cpy, answer, live,
                   accepted, undefined>>

HasName == patterns[index].name = request.name
Found == patterns[index].defined /\ HasName

\* add_pattern compares every name, also one of a slot that is not defined.
LooksForDuplicate ==
    /\ Shell /\ pc = "locked" /\ request.op = "add"
    /\ locks' = Unlocked(index)
    /\ IF HasName THEN Answer("ALREADY_DEFINED") /\ UNCHANGED index
                  ELSE PastSlot
    /\ UNCHANGED <<patterns, request, compiled, name_cpy, live, accepted,
                   undefined>>

\* get_pattern_info unlocks only the slot it has found.
LooksForInfo ==
    /\ Shell /\ pc = "locked" /\ request.op = "info"
    /\ IF Found THEN locks' = Unlocked(index) /\ Answer("OK") /\ UNCHANGED index
                ELSE PastSlot /\ UNCHANGED locks
    /\ UNCHANGED <<patterns, request, compiled, name_cpy, live, accepted,
                   undefined>>

\* Mutant: set_pattern_enabled is written like get_pattern_info.
LooksForSwitchUnguarded ==
    /\ Shell /\ pc = "locked" /\ request.op \in {"enable", "disable"}
    /\ ~Found /\ PastSlot
    /\ UNCHANGED <<slotVars, request, compiled, name_cpy, live, accepted,
                   undefined>>

LooksForSwitch ==
    /\ Shell /\ pc = "locked" /\ request.op \in {"enable", "disable"}
    /\ locks' = Unlocked(index)
    /\ LET wanted == request.op = "enable"
       IN IF Found
            THEN /\ patterns' = [patterns EXCEPT ![index].enabled = wanted]
                 /\ Answer(IF patterns[index].enabled = wanted THEN "NO_CHANGE"
                                                               ELSE "OK")
                 /\ UNCHANGED index
            ELSE PastSlot /\ UNCHANGED patterns
    /\ UNCHANGED <<request, compiled, name_cpy, live, accepted, undefined>>

-----------------------------------------------------------------------------
(* The rest of add_pattern, without any mutex *)

\* compile_pattern of a null vector reads from address 0: anything is there.
Compile ==
    /\ Shell /\ pc = "compile"
    /\ \/ /\ request.notation \in {"valid", "null"}
          /\ \E p \in PatternIds \ live :
                /\ compiled' = p /\ live' = live \cup {p}
          /\ pc' = "copy"
          /\ UNCHANGED <<answer, undefined>>
       \/ /\ request.notation \in {"invalid", "null"}
          /\ Answer("INVALID_NOTATION")
          /\ UNCHANGED <<compiled, live, undefined>>
       \/ undefined' = TRUE /\ UNCHANGED <<pc, answer, compiled, live>>
    /\ UNCHANGED <<slotVars, request, index, name_cpy, accepted>>

\* capacity() of a copy leaves the terminator out a second time: that of the copy
\* of a single character is 0.  A copy that could not be allocated, as one of 0
\* bytes cannot, has the capacity 0 - 1.
NoCapacity(name) == Len(name) = 2

CopyName ==
    /\ Shell /\ pc = "copy"
    /\ \/ ~NoCapacity(request.name) /\ name_cpy' = Copied(request.name)
       \/ name_cpy' = Empty
    /\ pc' = "search" /\ index' = 1
    /\ UNCHANGED <<slotVars, request, compiled, answer, live, accepted, undefined>>

\* Mutant: the pattern is not freed.
NameTooShortLeaks ==
    /\ Shell /\ pc = "copy" /\ NoCapacity(request.name)
    /\ name_cpy' = Copied(request.name)
    /\ Answer("INSUFFICIENT_CAPACITY")
    /\ compiled' = None
    /\ UNCHANGED <<slotVars, request, index, live, accepted, undefined>>

\* The copy has no capacity: the pattern is freed, the copy is not.
NameTooShort ==
    /\ Shell /\ pc = "copy" /\ NoCapacity(request.name)
    /\ name_cpy' = Copied(request.name)
    /\ Answer("INSUFFICIENT_CAPACITY")
    /\ live' = live \ {compiled} /\ compiled' = None
    /\ UNCHANGED <<slotVars, request, index, accepted, undefined>>

\* Mutant: the slot after a defined one is skipped as well.
SkipDefinedByTwo ==
    /\ Shell /\ pc = "search" /\ index \in Slots /\ patterns[index].defined
    /\ index' = index + 2
    /\ UNCHANGED <<slotVars, pc, request, compiled, name_cpy, answer, live,
                   accepted, undefined>>

SkipDefined ==
    /\ Shell /\ pc = "search" /\ index \in Slots /\ patterns[index].defined
    /\ index' = index + 1
    /\ UNCHANGED <<slotVars, pc, request, compiled, name_cpy, answer, live,
                   accepted, undefined>>

\* The pattern is freed, the copy of the name is not.
NoSlot ==
    /\ Shell /\ pc = "search" /\ index \notin Slots
    /\ Answer("INSUFFICIENT_CAPACITY")
    /\ live' = live \ {compiled} /\ compiled' = None
    /\ UNCHANGED <<slotVars, request, index, name_cpy, accepted, undefined>>

\* Mutant: any slot will do.
FillNameAnywhere ==
    /\ Shell /\ pc = "search" /\ index \in Slots
    /\ patterns' = [patterns EXCEPT ![index].name = name_cpy,
                                    ![index].defined = TRUE]
    /\ pc' = "operations"
    /\ UNCHANGED <<locks, request, index, compiled, name_cpy, answer, live,
                   accepted, undefined>>

FillName ==
    /\ Shell /\ pc = "search" /\ index \in Slots /\ ~patterns[index].defined
    /\ patterns' = [patterns EXCEPT ![index].name = name_cpy,
                                    ![index].defined = TRUE]
    /\ pc' = "operations"
    /\ UNCHANGED <<locks, request, index, compiled, name_cpy, answer, live,
                   accepted, undefined>>

\* A Pattern is assigned a vector after the other.
FillOperations ==
    /\ Shell /\ pc = "operations"
    /\ patterns' = [patterns EXCEPT ![index].operations = compiled]
    /\ pc' = "conditions"
    /\ UNCHANGED <<locks, request, index, compiled, name_cpy, answer, live,
                   accepted, undefined>>

FillConditions ==
    /\ Shell /\ pc = "conditions"
    /\ patterns' = [patterns EXCEPT ![index].conditions = compiled,
                                    ![index].enabled = TRUE]
    /\ Answer("OK")
    /\ accepted' = [p \in DOMAIN accepted \cup {compiled} |->
                      IF p = compiled THEN request.name ELSE accepted[p]]
    /\ compiled' = None
    /\ UNCHANGED <<locks, request, index, name_cpy, live, undefined>>

-----------------------------------------------------------------------------
(* The MEDIUM work queue, whose tasks sleep between their rounds *)

Medium == ~undefined /\ UNCHANGED <<scenario, shellVars, patterns, lookedUp>>

\* add_packet: two bytes of length, then the packet.  Undoing it after `put`
\* bytes it takes out one more, and only from the back.
AddPacket ==
    /\ Medium /\ medium = Asleep /\ queued <= MaxQueue
    /\ \E n \in PacketLens :
          \/ queued' = queued + n + 2
          \/ queued' = queued  \* no room for a byte of the length
          \/ n > 0 /\ queued' = IF queued > 0 THEN queued - 1 ELSE 0
    /\ UNCHANGED <<locks, medium, matching, step, expected_bytes, buffered,
                   undefined>>

Lesser(a, b) == IF a < b THEN a ELSE b

\* The first part of process_thread_func: at most one byte of the length (the
\* second one replaces the first), then some of what the length announces.
\* packet_buffer is not looked at before it is pushed to.
TakePacket ==
    /\ Medium /\ medium = Asleep /\ scenario.processing
    /\ step = "PACKET" \/ queued > 0
    /\ \E byte \in Bytes :
         LET expected == CASE step = "MSB" -> byte * Radix
                           [] step = "LSB" -> byte
                           [] OTHER -> expected_bytes
             left == IF step = "PACKET" THEN queued ELSE queued - 1
             taken == Lesser(Lesser(expected, Chunk), left)
             short == taken < Lesser(expected, Chunk)
             full == ~short /\ buffered + taken = expected
         IN /\ queued' = left - taken
            /\ expected_bytes' = expected
            /\ buffered' = IF full THEN 0 ELSE Lesser(buffered + taken, MaxPacket)
            /\ undefined' = (buffered + taken > MaxPacket)
            /\ step' = CASE full -> "MSB"
                         [] step = "MSB" -> "LSB"
                         [] OTHER -> "PACKET"
            /\ medium' = IF full /\ Slots # {} THEN 1 ELSE Asleep
    /\ UNCHANGED <<locks, matching>>

\* Then every slot is matched, whether it is defined or not.
LockToMatch ==
    /\ Medium /\ medium # Asleep /\ ~matching /\ CanLock(medium, "medium")
    /\ locks' = Locked(medium, "medium")
    /\ matching' = TRUE
    /\ UNCHANGED <<medium, feedVars, undefined>>

\* Mutant: it goes on behind the last slot.
MatchSlotByOne ==
    /\ Medium /\ matching
    /\ locks' = Unlocked(medium)
    /\ undefined' = (patterns[medium].operations # patterns[medium].conditions)
    /\ matching' = FALSE
    /\ medium' = IF medium <= Cardinality(Slots) THEN medium + 1 ELSE Asleep
    /\ UNCHANGED feedVars

\* A pattern half assigned has operations of one and conditions of another.
MatchSlot ==
    /\ Medium /\ matching
    /\ locks' = Unlocked(medium)
    /\ undefined' = (patterns[medium].operations # patterns[medium].conditions)
    /\ matching' = FALSE
    /\ medium' = IF medium < Cardinality(Slots) THEN medium + 1 ELSE Asleep
    /\ UNCHANGED feedVars

ShellStep ==
    \/ LockSlot \/ LooksForDuplicate \/ LooksForInfo \/ LooksForSwitch
    \/ Compile \/ CopyName \/ NameTooShort
    \/ SkipDefined \/ NoSlot
    \/ FillName \/ FillOperations \/ FillConditions
MediumStep == LockToMatch \/ MatchSlot

Next ==
    \/ CallDirectly \/ ShellDefines \/ ShellAsksStats
    \/ ShellStep
    \/ AddPacket \/ TakePacket
    \/ MediumStep

\* The shell gets its turn again and again: the tasks of MEDIUM sleep a
\* millisecond after every round.
Spec == Init /\ [][Next]_vars /\ SF_vars(ShellStep) /\ WF_vars(MediumStep)

-----------------------------------------------------------------------------
(* Properties *)

TypeOK ==
    /\ scenario \in Scenarios
    /\ \A i \in Slots :
          /\ patterns[i].name \in {Copied(n) : n \in Names} \cup
                                  {Copied(scenario.command), Empty}
          /\ {patterns[i].operations, patterns[i].conditions}
                \subseteq PatternIds \cup {None}
          /\ locks[i].count \in 0 .. MaxKept + 1
    /\ live \subseteq PatternIds /\ compiled \in PatternIds \cup {None}
    /\ medium = Asleep \/ medium \in Slots
    /\ step \in {"MSB", "LSB", "PACKET"} /\ buffered \in 0 .. MaxPacket

\* No way out of add_pattern loses the memory of a pattern or gives it to two:
\* whatever holds memory is being defined or is the pattern of just one slot.
PatternsOwned ==
    /\ live = ({patterns[i].operations : i \in Slots} \cup {compiled}) \ {None}
    /\ \A i, j \in Slots :
          i # j /\ patterns[i].operations # None
            => patterns[i].operations # patterns[j].operations

\* Whatever is refused, preempted or half done later, a pattern that has been
\* accepted stays in a slot, and stays whole.
AcceptedKept ==
    \A p \in DOMAIN accepted :
        \E i \in Slots : /\ patterns[i].defined
                         /\ patterns[i].operations = p
                         /\ patterns[i].conditions = p

\* A valid pattern is refused for want of capacity only when every slot holds
\* an accepted one, or when its name has a single character.
RefusedOnlyWhenFull ==
    answer = "INSUFFICIENT_CAPACITY"
        => \/ Cardinality(DOMAIN accepted) = Cardinality(Slots)
           \/ NoCapacity(request.name)

\* Every request is answered, and every round of MEDIUM ends until something
\* has been looked up: no other way out of a loop keeps a mutex.
EveryCallReturns ==
    /\ pc # "idle" ~> pc = "idle" \/ undefined
    /\ medium # Asleep ~> medium = Asleep \/ undefined \/ lookedUp

\* cli_setup.h: stats are printed for the named patterns.  A name that a
\* pattern was accepted under, and for which there was memory, is found.
DefinedIsFound ==
    pc = "idle" /\ request.op = "info" /\ answer = "NOT_DEFINED"
        => \A i \in Slots :
              patterns[i].defined /\ patterns[i].name # Empty
                => accepted[patterns[i].operations] # request.name
=============================================================================
