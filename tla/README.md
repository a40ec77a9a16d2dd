# Cloverwatch: specifications

TLA+ models of the Cloverwatch firmware, TLC configurations that check them on
small instances, and theorems the TLA+ proof system checks for every instance.
Paths are relative to the root of the repository, here written `src/`.

## 1. The system

Cloverwatch sits on a serial wire. Bytes arrive by DMA, are cut into frames and
error-corrected, sent on, and handed to a pattern recogniser that a shell can
configure. It is Zephyr firmware with no heap traffic in the data path: the parts
are connected by fixed queues, and every part runs as a task of one of five work
queues, or in the interrupt of the UART.

```
 UART interrupt          URGENT work queue               MEDIUM work queue
 uart_callback           validation_handler (1 ms)       pattern_process_func (1 ms)
   RX_RDY  --bytes-->  validation_queue --> SimplePacketiser_Block --> RS_Validator
                                                |  construct_packet
   uart_tx <------------ transmit <------- packet_buffer --> process_queue --> StatTracker
                                                                              ^
 shell thread:  define / stats / logger print  --------------------------------+
 everyone:      Logger (CQueue_concurrent_MPMC)
```

| Component | State | Operations | Speaks to |
|---|---|---|---|
| TaskManager (`TaskManager/`) | five work queues, a heap context per task | `add_work_item`, `_delayed`, `_repeating`, `forever_work_item`, the two handlers | kernel timers and work queues; calls every task |
| Serial_DMAasync (`Serial_IO/`) | two DMA buffers, `validation_queue`, `process_queue` | `start_process`, `uart_callback`, `validation_handler`, `transmit`, `pop` | UART driver by callback, packetiser by call, pattern task by queue |
| CQueue_concurrent_SPSC | `head`, `tail`, an array | `push`, `pop`, `full`, `empty`, `size` | one producer and one consumer, no lock |
| CByteQueue_SPSC | a Zephyr ring buffer | `push(bytes)`, `pop(buffer)` | interrupt and handler |
| SimplePacketiser_Block (`Validator/`) | parser state, byte count, expected length, buffer | `add_byte`, `reset`, `construct_packet` | codec by call |
| RS_Validator, CRC | none | `decode`, `encode`, `validate_crc` | vendored `ssfrs.c` |
| StatTracker (`PatternMatcher/`) | `packet_queue`, pattern slots with a mutex each, packet state | `add_packet`, `add_pattern`, `get_pattern_info`, `set_pattern_enabled`, `process_thread_func` | pattern task, shell, heap |
| Pattern notation | none | `compile_pattern`, `match_pattern` | heap |
| CLinkedDeque, heap types | linked nodes, reserved nodes | push and pop at both ends, `reserve` | `k_heap` |
| Logger, CQueue_concurrent_MPMC, Mutex | a ring of entries, a mutex | `log`, `displace`, `pop` | every thread and the interrupt |
| CLI (`CLI/`, `cli_funcs.cpp`) | none of its own | argument parsing, commands | StatTracker, Logger |
| TesterDevice (host side) | none | frames with Reed-Solomon, logic and stress test | the wire |

What is hard in it, and what each part owes:

* **Unsynchronised publication.** `push` advances `head` before it writes the slot;
  `pop` advances `tail` before it reads it. The queue owes its users a bounded FIFO,
  and gets it from the scheduling of its two threads only.
* **Who owns the bytes.** A queued packet and a running transmission point into a
  local of the validation handler. The pipeline owes delivery of what it validated.
* **Loss in the middle.** Chunks are dropped whole when the validation queue is full;
  the parser owes that nothing is decoded that was not framed, and that it recovers.
* **Lifetime and timing of tasks.** A handler re-schedules or deletes the very context
  it runs in. The task manager owes exactly the runs asked for.
* **Locks.** A guard that writes its mutex back before it locks it, a mutex taken in an
  interrupt, a way out that leaves a mutex locked, slots filled without their mutex. The log
  and the statistics owe that a caller gets through and finds what others left whole.
* **Ways out.** A definition can fail in five places, each with memory and locks in hand.
* **Unchecked arithmetic.** Lengths from the wire or from a pattern notation are used
  before they are compared with what is there.
* **Evaluation on trust.** `match_pattern` takes operands off a stack without looking;
  `compile_pattern` owes it notations that never run it dry, and the heap every block of
  one it refuses.
* **Recycled nodes.** The deque of the pattern recogniser keeps emptied nodes for reuse;
  it owes that a node is in use or reserved, never both, and that order survives.

PROJECT.json lists all of them under "hazards", each at its line.

## 2. Modules

| Module | Models | Kind |
|---|---|---|
| `FifoQueue` | what a single-producer single-consumer queue promises | abstract specification |
| `SpscQueue` | `CQueue_concurrent_SPSC`, one step per access to shared memory | state machine, implements `FifoQueue` |
| `SpscQueueProofs` | the queue of any capacity, with one thread in it at a time; that it implements `FifoQueue` | proofs |
| `Packetiser` | `SimplePacketiser_Block`, one action per branch of `add_byte` | state machine and pure operators |
| `PacketiserLink` | the packetiser on a line with a host and noise | composition |
| `PacketiserProofs` | the parser on any stream of bytes and on the line, any frame format | proofs |
| `SerialIO` | `Serial_DMAasync`, `validation_func`, the pattern task, the driver, the host | composition |
| `SerialIOProofs` | the pipeline with buffers, packets and queues of any size | proofs |
| `TaskManager` | tasks, contexts, work queues, timers, priorities | state machine |
| `TaskManagerProofs` | any set of tasks | proofs |
| `PatternMeaning` | what a condition and a postfix formula mean | reference definitions |
| `PatternNotation` | `compile_pattern`, `evaluate_condition`, `match_pattern` | state machine, checked against `PatternMeaning` |
| `PatternNotationProofs` | notations of any length, compiled, refused and matched with any packet | proofs |
| `Deque` | what a double-ended queue on a heap promises | abstract specification |
| `LinkedDeque` | `CLinkedDeque` and the heap it takes nodes from | state machine, implements `Deque` |
| `LinkedDequeProofs` | nodes, heaps and reservations of any size | proofs |
| `LogQueue` | `Logger`, `CQueue_concurrent_MPMC`, `MutexLock` | state machine |
| `LogQueueProofs` | the log of any capacity, with up to two preemptible threads | proofs |
| `StatTracker` | the pattern slots, `packet_queue` and its tasks, the shell commands | state machine, composition |
| `StatTrackerProofs` | any number of slots, patterns and names | proofs |
| `MC*` | the values TLC gives the constants | model checking |

### 2.1 SpscQueue

`head`, `tail` and `slots` are the members of the class; `headCopy`, `tailCopy`,
`nextTail`, `pushTail` are the locals of `push`, `pop`, `full` and `empty`. The actions
are the statements of the two operations between two accesses to shared memory, named
after what they do (`FullLoadHead`, `PublishHead`, `WriteSlot`, `AdvanceTail`, ...).
`head` is written by the producer alone, so its two loads and its store are one step; the
same cannot be said of `tail` when `push` overwrites, and there every access is a step.
The n-th value accepted is the number n, so a value names its place in the order.

The scheduling comes from `TaskManager`: `priority_values` makes the URGENT queue a
cooperative thread and the MEDIUM one a preemptible thread. `CanRun` says that a
cooperative thread inside an operation is not preempted. `Uses` says how the queue may be
used and `use` how it is: by which cooperative threads and whether `push` overwrites. The
deployment has a cooperative producer that never does (`NeverOverwrites`). It is one of the uses
that are `WellScheduled`: the producer is cooperative, and so is the consumer where `push`
overwrites. Native builds and the nRF52840 the repository aims at
have one core; the model would not fit a multiprocessor.

`FifoQueue` is implemented through the mapping `Contents`: the values between `tail` and
`head`, without the one whose slot is still to be written. So the linearisation point of
a push is the write of the slot, and of a pop the advance of `tail`.

### 2.2 Packetiser and PacketiserLink

`curr_state`, `count` (`bytes_since_last_state_change`), `escape_expected`,
`expected_length` and `buffer` are the members. `decoded` and `message` record what one
call of `add_byte` gave the decoder and returned. Each branch of `add_byte` is an action,
and `AddByte(b)` is their disjunction. The Reed-Solomon decoder is a free answer, valid or
not, for the lengths `SSFRSDecode` does not refuse; a message is the payload without its
check bytes. Bytes have `ByteBits` bits, so that TLC can try all of them.

`PacketiserLink` drives it with frames of a host (`FrameOf`, the format the parser reads,
or `TesterFrameOf`, what the tester builds) and with arbitrary bytes in between, which
include the remains of frames that lost a chunk. `seen` holds the bytes since the parser
was last at the start of a frame, and `escaped` whether the frame under way has the escapes
the parser expects. `InSyncDecodedIffEscaped` says both ways what that decides: the tester,
which writes none (`tester_funcs.cpp:41`), gets no reply to a frame with a special byte in
its length or payload, though its help says that it waits for one
(`device_test_commands.py:72`).

### 2.3 SerialIO

The line carries packets 1, 2, ... of `PacketBytes` bytes, a byte being its position.
`uart_callback` is one action per event; the driver between the events is modelled as the
asynchronous UART API documents it and as the code uses it: it fills one buffer, asks for
the next, goes on in the next when one is full, and refuses `uart_tx` while it is sending.
`validation_handler` is a process with a program counter: pop the queue into `batch`, one
step per byte, then `Transmit` and `QueuePacket`, each of which other parties may precede
or follow: the interrupt runs between any two steps, the pattern thread only while the
handler is idle. The queue appears through the promise `SpscQueue` implements.

The parser appears as one that counts bytes, which is what `PacketiserLink` shows of it: `row`
is the frame it is in, the next byte either has the next place of a frame or starts it again, and
a frame ends with the byte that has the last place. It cannot tell whose bytes these are. Where a
chunk was dropped, a frame may begin with bytes of one packet and end with bytes of another; what
the decoder, a Reed-Solomon code and an exclusive or, says of it is left free (`CompletePacket`
or `RejectPacket`), as in `Packetiser`. `spliced` remembers the packets of such a frame, and
`SplicedFromLost` says which they can be.

`packet_buffer` is the one place the bytes of a packet live in: `PatternRead` and the
transmission under way look there. With `StackReuse` the frame of a handler that has
returned may be overwritten at any time.

`Scenarios` says what the device is connected to, and `scenario` which of them it is: how many
bytes the host `awaits` before it sends the next packet (0 if it streams), whether the line has
errors, and whether the driver is `early`.

The frame sent back has `ReplyBytes`, fewer than it came with: `construct_packet` cuts the check
bytes off before it appends the footer (`simple_packetiser.tpp:183`). The logic test sends a frame
with check bytes, reads as many bytes as it has sent (`serial_comm.py:28`) and ends the test when
there are fewer (`device_test_commands.py:60-63`); `Content` tells a host that the reply satisfies
from one like this. `WaitingHostIsAnswered` says of the first that it gets every reply on a line
without errors, and of the second that it never gets a second one. So the logic test of the
repository fails with its first packet at this commit, although the firmware does reply; its help
("Waits for reply before sending next packet. Terminates if reply is not received.",
`device_test_commands.py:72`) promises no length.

A driver that is `early` asks for its second buffer inside `uart_rx_enable`, before `start_process`
has switched `current_buffer` (`serial_io.cpp:114`; between `StartReception` and `FinishStart`
here). It is then given the very buffer it is filling, and after the switch once more: `nDoubled`
counts, and `BuffersAlternate` says that this happens twice at most, and never with another driver
(that of native_sim asks later). What the driver does to the bytes when both its buffers are one is
not modelled: `RxReady` copies a chunk as it was received.

### 2.4 TaskManager

A task is its context, with `Kind`, `Class` and `Period` for its life. A timer is the number
of ticks left; timers that expire together submit in any order. `work_queue[p]` and
`current[p]` are the kernel's list and the item its thread is in. `Held` says that a thread still
has an item in its hands: from when it took it to when the handler is done with its context. The two handlers are
`RunFunc`, `Reschedule` and `Delete`. `CanRun` is Zephyr's rule for threads of
one core: the ready thread with the smallest value executes, and a thread with a negative
value is not preempted inside an item.

`num_repeats` keeps its width: decrementing 0 gives `RepeatLimit - 1` (2^16 in the code, 2
here).

### 2.5 PatternNotation

The notation has no value of its own in the model: its length is chosen at the start, and each
field is revealed when the code reads it, whether or not it lies behind the end, since the code
reads there too. `conditions`, `operations`, `num_conds`, `num_operands`, `stack_size` and
`curr_ind` are the locals of `compile_pattern`; `allocated` holds the blocks the pattern has
from `pattern_heap`. Every way out (`ConditionBehindEnd`, `ValsBehindEnd`, `ReadOperation` and
`FinishCompile` with `Reject`) is an action or a disjunct. `match_pattern` is one step per
operation, `stack` its vector. The phase `undefined` is where the C++ program has no defined
behaviour: a failed allocation, an inverted range whose size wraps past the length check, a
`PUSH` without a condition or a place on the stack.

`PatternMeaning` says what is meant without any of these: a condition compares a slice of the
packet with slices of `vals`, in dictionary order where it is a range; a formula is a `PUSH`, or
two formulas and an operation. `ConditionAsMeant` is stated for ranges that are not empty: for an
empty one, `FIXED` and `NFIXED` both hold in the code, because `NFIXED` looks for the value in an
empty `vals`.

### 2.6 LinkedDeque

`deque` is the object with its nodes, by the names of its members. The operations are atomic,
since the deque has no lock and one thread at a time uses it. The nodes come from a shared heap
which may refuse any block at any time; `Grants` is what `allocate_node` gets after halving.
The helpers `AddFrontNode`, ... are those of the class; a step that would read a node that is
not allocated sets `undefined`, and nothing follows it.

`intended` becomes false when a reserved node is put to use or a reservation fails half-way.
Until then the deque implements `Deque` (with `promised` as long as `intended` holds, and
`Contents`, the elements along the links, as `items`). From then on it does not, and the run
`linked_deque_queue` shows it with the calls that `StatTracker` makes for the bytes of a packet,
`push_back` and `pop_front`, alone. `Deque` says what a pop takes as the inverse of a push: the
elements before it are the one found with those after it.

### 2.7 LogQueue

`front_ind`, `back_ind` and `queue` are the ring, `mutex` Zephyr's mutex with its owner, its
count, the priority it gives back and the threads that wait. Each thread goes through
`CopyLoad` and `CopyStore`, the self-assignment of `MutexLock` (a real load and store:
`prj.conf` turns optimisation off), `Acquire` or `Pend`, the two steps of its operation, and
`Unlock` or `HandOver`. `CanRun` is the scheduler's rule of 2.4, with priority inheritance.

`Scenarios`: native_sim, where the driver calls back in a cooperative thread; hardware, where
`uart_callback` is an interrupt; and the URGENT and MEDIUM queues with the shell, which is the
firmware once the processing task is started, the only code of MEDIUM that logs. In an
interrupt a `k_mutex` is not allowed: while nobody holds it, locking works on behalf of the
interrupted thread; when somebody does, `disturbed` becomes true and nothing is said of what
follows.

`displace` writes at the front and advances the back, so the ring holds the newest entry at
the front and, behind it, whatever was there. `UnreadCounted` and `NewestNext` are what is
left of a log: how far the indices are apart (entries that were overwritten are counted with the
rest), and that the newest comes first. With two preemptible
loggers (`TwoPreemptible`) a thread can be preempted between the two halves of the
self-assignment and write back a mutex that was free, or held, a moment ago; TLC finds the
behaviour in which both then wait for ever as soon as that condition is removed from
`EveryCallReturns`. `OneInside` survives two preemptible threads all the same. It would not
survive three, which the firmware does not have: see section 4.

### 2.8 StatTracker and the shell

`patterns` are the slots, `locks` their mutexes; `pc`, `request`, `index`, `compiled` and
`name_cpy` are the shell thread in one of `add_pattern`, `get_pattern_info` and
`set_pattern_enabled`; the last assignments of `add_pattern` are three steps, since MEDIUM may
come in between. `AddPacket` and `TakePacket` are the two tasks of the MEDIUM queue up to the
point where one locks the first slot; they are atomic for the shell, which MEDIUM preempts.
`packet_queue` is a number of bytes of any value, an allocation may fail at any time, and
`compile_pattern` is one step here (`PatternNotation` has its inside). A string is the
sequence of its characters with the terminator, so that `Copied` does what `copy_string` does:
the copy has lost the terminator, and its `capacity()` leaves one out again (`NoCapacity`). So a
name of one character is refused with `INSUFFICIENT_CAPACITY` whether there are free slots or not
(`NameTooShort`, `pattern_stats.cpp:75-78`), and one that could not be copied at all, whose
`capacity()` is 0 - 1, is not: its pattern is accepted without a name. One of the names in the run
is of each length.

`scenario` tells callers that use the class as it is written from the shell as it is
registered, with and without slots, with and without the processing task. The firmware at this
commit has no slots (`FixedVector` starts empty and nothing fills it) and does not start the
task; the repository's README calls the integration current work. Through the shell,
`fill_args` begins with the command's own name and goes on after a word it could not parse:
`pattern define` always defines that name, from a null notation, and `pattern stats` writes in
front of its buffer.

What C++ does not define ends in `undefined`: a compilation without memory or of a null
notation, a packet longer than `packet_buffer`, a pattern matched while half of it is
assigned. `EveryCallReturns` ends with the first lookup, which keeps the mutex of every slot it
passes (`stat_request.cpp:17`): from then on the processing task never returns, and with it
the whole MEDIUM queue, the task that empties `process_queue` included.

## 3. Runs

| Run | Question | Instance |
|---|---|---|
| `spsc` | Is the queue, as it is scheduled, a FIFO without races on a slot? Does the overwriting branch, with two cooperative threads, drop just the oldest value? | capacity 4 (3 usable), 9 values: every index is wrapped over twice |
| `packetiser` | Does the parser decode all and only what was framed, and recover? | 2-bit bytes, one non-special byte, header 2, length 2, footer 2, payloads up to 3, frames with and without escapes |
| `packetiser_zero_length` | Does the length check keep the payload within `buffer`? No. | as `packetiser` |
| `serial_stream` | What does the pipeline keep up under loss, stalls and aborted transmissions, and does everything taken in get to the next stage? Is a host that waits for replies served? | 4 packets of 2 bytes, replies of 1, DMA buffers of 3, `process_queue` of 3 (2 usable); a streaming host with line errors, one that awaits the reply without and with errors (there with an early driver), and one that awaits as much as it sends; fair |
| `serial_aliasing` | Does a packet that is being sent, or that the pattern task was given, stay as it is? No. | as `serial_stream`, a streaming host without line errors |
| `tasks` | Are tasks run as asked and pending once, and is everyone served who can be? | the two forever tasks of `main.cpp` (URGENT, MEDIUM), HIGH repeating with count 0, MEDIUM immediate, LOW delayed; fair |
| `pattern_notation` | Does a compiled pattern answer what its notation means, and does a refused one leave nothing behind? | up to 3 conditions; with one, every type, range and value on two bytes of 0 to 2; every sequence of up to 2, 3 and 5 operations; stack of 3 |
| `linked_deque` | Is the deque a deque while no reserved node is reused? | nodes of 4 or 2 elements, heap of 3, two values (symmetric), up to 4 elements, reservations of 3, `size_t` of 2 bits |
| `linked_deque_queue` | Is it a queue, in the use the firmware makes of it? No. | nodes of 2 elements, up to 6 of them, `push_back` and `pop_front` only |
| `log` | Is one thread at a time in the log, does the newest entry come first, and does everyone who uses it get through? | capacity 3, 5 entries, the three scenarios of 2.7; fair |
| `stats` | Does any order of requests, refusals and preemptions lose a pattern, its memory or a lock? | no slots or 2, names of one and of two characters, 3 patterns, packets of 0 and 1 bytes, `packet_buffer` of 2; fair |
| `stats_defined_is_found` | Is a pattern found under the name, of two characters, it was accepted under? No. | as `stats` |

Runs answered "No" are expected to be violated: they state what a document, a log
message or the host-side test says, and TLC shows the behaviour of the code that
contradicts it. PROJECT.json quotes the sentence for each.

Why the bounds are enough. *Queue*: an index repeats after `Capacity` pushes, so nine
values at capacity 4 cover each relative position of the indices at each wrap; the proofs
cover the other capacities. *Parser*: its behaviour depends on a byte only through which
special byte it is and through the length it adds up to; the 2-bit alphabet has each special
byte, one ordinary byte, lengths below, at and above `MaxPacketSize`, and length bytes that
are special themselves. Payloads of 3 bytes hold a whole chunk with its check byte, a
payload with no room for data, and every arrangement of specials. *Pipeline*: three DMA bytes
against packets of two make every chunk boundary fall inside a packet sooner or later; a
handler run can complete one packet, two, or none, and four packets fill `process_queue`; two
bytes are the fewest of which a frame can be spliced. The early driver comes with the host that has
the fewest chunks, since what it changes, `buffer_pair`, does not touch the bytes.
*Tasks*: one task of each kind, of four classes, among them a MEDIUM forever task that never
lets the lower queues rest when time does not wait; `RepeatLimit` 2 lets a count of 0 wrap.
*Patterns*: two bytes with three values are enough for a packet to be below, at, between and
above two bounds in either byte, and to differ in the second byte only; five operations over
three conditions build every shape of formula of that size and every way to miss one; the stack
of 3 is full at three conditions. *Deque*: four elements in nodes of
two make a chain of three with a middle, filled from either end; nodes of four and of two mix in
any order, and a reservation of 3 takes one or two; with `SizeModulus` 4 the reserved capacity
wraps. `MaxElements` bounds only how many elements the caller lets pile up. *Log*: five entries
at capacity 3 take each index past its wrap and past the other; three threads of different
priority are what it takes to preempt one that has itself preempted another in a `MutexLock`.
*Statistics*: two slots have a first that is passed and a last; three patterns fill them and
have one refused; a byte of the length can be 0 or not, a packet end in one round, in two, or
beyond `packet_buffer`. `MaxQueue` and `MaxKept` bound how many bytes pile up and how often a
mutex that was left locked is locked again.

Deadlock is checked where the system runs for ever (queues, tasks). The packetiser, pattern and
deque models stop where the C++ program has no defined behaviour (the deque also where `Beyond`
says to stop), a refused notation is not followed by another, and the pipeline models stop when
the host has sent its packets, or waits for a reply that does not come: their configurations say
`CHECK_DEADLOCK FALSE`. So do those of the log, whose entries are bounded and where two
preemptible threads really block each other, and of the statistics, which stop at undefined
behaviour.

### Fairness

* `SerialIO`: the driver delivers bytes offered and completes transmissions (weak fairness of
  the driver's events, not of stops and aborts); the URGENT thread runs when it has something
  to do (weak); the pattern thread runs again and again between handler runs (strong fairness:
  it is enabled only while the handler is idle, which lasts most of every millisecond, but not
  continuously).
* `TaskManager`: time passes (weak), and a thread the scheduler lets execute does (weak). No
  fairness among threads: the scheduler has none. `EveryTaskServed` is therefore stated for the
  case that the queues run dry again and again; `UrgentServed` needs no such assumption.

* `LogQueue`: a thread the scheduler lets execute does (weak, per thread); nobody has to log.
* `StatTracker`: the MEDIUM thread executes when it can (weak); the shell gets its turn again and
  again, though not continuously (strong): both tasks of MEDIUM sleep a millisecond after every
  round.

## 4. Proofs

Every theorem is about the specification TLC checks, with the constants left open; what is
assumed of them is the named `ASSUME` of the module, which the runs evaluate, and otherwise said
here. Most safety properties are not inductive. Each proof has an invariant that is, whose parts
have names; TLC checked each of them on the instance of the run before it was proved. The proof
that a step keeps it has one lemma or step per action.

**`SpscQueueProofs`.** `CapacityAssumption`, `UsesAssumption`, `MaxPushAssumption`. From
`Spec => []QueueInv` follow, for each use that is `WellScheduled`, its types, `OldestFirst` and
`NoSlotRace`; and if all `Uses` are, `Spec => ImplementsFifo` (`QueueImplementsFifo`): each step is
a push, a pop, a drop of the oldest value or nothing of `FifoQueue`. `QueueInv` says that the
distance from `tail` to `head` is `nPublished - nGone` and less than the capacity
(`DistanceIsCount`); that the slot at distance d holds value `nGone + d + 1` (`SlotsHoldQueue`);
and that what a thread copied is still current when it uses it (`ProducerCopiesCurrent`,
`ConsumerCopiesCurrent`). What makes it go through is the asymmetry of the threads: a consumer in
the middle of `pop` may find that the producer has pushed any number of values, but never that the
slot it is about to read is reached, because `tail` was advanced by one only; and a consumer never
executes while the slot behind `head` is unwritten. Where `push` overwrites it moves `tail` itself,
and the argument needs a consumer that is not preempted and a capacity of at least 2. The refinement
splits on whether the slot being written is inside the window `Contents` shows.

**`PacketiserProofs`.** `ByteAssumption`, `SizeAssumption`, `EndianAssumption`, `FramingAssumption`;
any byte width, frame layout, endianness and `MaxPacketSize`. `PacketiserSpec => []PacketiserInv`: a
frame that announces a length other than 0 never makes `buffer` longer than announced, nor is a
length above `MaxPacketSize` ever kept. The excluded length 0 is what `packetiser_zero_length` is
about. The three properties of `PacketiserLink` rest on one invariant each:

* `LinkInv` says that the bytes `seen`, with the escape byte the parser expects, are the beginning
  of the frame of what it has `Read` (`SeenIsRead`: header, then the bytes of the length so far and
  of the payload, escaped, then the footer so far). The length is the hard part: a byte of it is
  added to `expected_length` at its place, so its digits must be those of `LengthBytes` and leave
  those of the other places alone (`Undisturbed`, for both byte orders). It gives
  `DecodesOnlyFrames` with no hypothesis (`OnlyFramesAreDecoded`).
* `InSyncInv` adds what is still to come: of an escaped frame, exactly what the parser has not read
  (`EscapedToCome`); of a frame of the tester with a special byte in it, that the bytes seen and
  those to come are that frame or fewer (`TesterToCome`), so they are never as long as the escaped
  frame a decoding would need. It gives `InSyncDecodedIffEscaped`. The hypothesis is
  `LengthFits`: `MaxPacketSize` can be written in `LengthSize` bytes.
* `ResyncInv` adds that what is left of an escaped frame ends in a whole footer which continues no
  footer begun before it, or the parser is as far in the footer as the line (`FooterToCome`). It
  gives `WholeFrameResynchronizes`. The hypothesis is `FooterIsDistinct`: two footer bytes at
  least, that are neither header nor escape byte. With one, a parser that takes it for a byte of
  a payload would be left expecting its escape byte.

`system_config.h:62-73` (header `0xff`, footer `0x11` twice, escape `0x22`, two bytes for lengths up to
2048) meets both hypotheses; nothing in the code asserts them.

**`SerialIOProofs`.** `SerialAssumption`. `DriverInv` knows which of the two DMA buffers the driver
was given last, and that `current_buffer` is the other but for two times: before `start_process`
switches it, and from an early request's switch to the next request. It gives `BuffersAlternate`.
`StreamInv` (`TypeOK`, `BytesInOrder`, `RepliesCounted`) says that the bytes in `batch` and then in
`validation_queue` are in the order of the line, after the last packet completed, with room on the
line for those to come; `TypeOK` is part of it because the capacity of the queue follows from that
room. Three invariants stand on it.

* `PacketsInOrder` (the packets queued lie between the last popped and the one in hand, and the frame
  of the handler holds that one or garbage) gives `InOrder`.
* `GapsNoticed` and `BytesMissed` give `SplicedFromLost` (`SplicesAreOfLost`). A packet that lost a
  chunk misses a byte that is nowhere any more, so no frame is completed of it alone. And behind the
  oldest byte still on its way, a byte that is gone was in a dropped chunk. Take two bytes of the
  frame that come from different packets (`MixedPair`): each has its place, so each packet misses
  the byte it has at the place of the other; both those bytes lie between the two on the line, they
  are gone, and so both packets are lost ones. Nothing is assumed of the decoder.
* `LineWithin` (the line carries at most the packet after the last reply the host was content with)
  gives `WaitingHostNotRefused`, and that a host which is not content gets no second reply
  (`ShortReplyIsLast`): the safety half of `WaitingHostIsAnswered`. Its part about lost chunks has the
  hypothesis `PacketBytes <= DmaBufferSize`: a frame that arrives in two chunks may find the queue
  still full of the first. `system_config.h` allows it (2 KB packets, 1 KB buffers), so for the
  longest packets only the part about replies is a theorem (`RepliesNeverRefused`, no hypothesis).

**`TaskManagerProofs`.** `TaskAssumption`; any set of tasks, infinite ones included. `TaskInv`
consists of `Placed` (a context is on its timer, in the list of its own queue, in the hands of that
queue's thread, or nowhere, and freed or never allocated in the last case), `RunsCounted` (the runs
had and the runs due by `num_repeats` add up to those asked for, one more while the handler has not
counted yet), the types, and that finitely many tasks were added, which the count of those that
expire together needs. It gives `RunsAsAsked` and `PendingOnce`: list, timer and
hands of the thread together hold an item once, and not at all once it is freed, but for the return
of the handler that has freed it.

**`PatternNotationProofs`.** `NotationAssumption`: `Offered` is a function of the number of
conditions, and no range is so wide that `size_t` wraps (the model stops there). `OwnedInv`: the
pattern holds only blocks `free_memory` will find, those of its two vectors and of the values of a
condition already appended; `compile_pattern` appends a condition before it allocates its values,
which is the order the proof needs (`RefusalFreesAll`). `NotationInv` has the types and that a
condition holds as many values as its type and range announce (`NotationTypeCorrect` states both). Conditions: the byte loops of
`evaluate_condition` find the first difference, and that decides the order of a dictionary
(`ConditionsMeanWhatTheySay`). Formulas: a postfix notation is a formula exactly if the stack that
follows it never runs dry and ends with one value. `PatternMeaning` defines a formula by its parts;
the proof compares that with the height `Height(ops)[i]` of the stack, and shows that a part is a
formula exactly if the height `Rises` over it, by one and never to where it began before. Then
`HeightInv` (`compile_pattern`'s `stack_size` is that height) gives `AcceptsFormulas` and
`OperandsThere`, and `ValuesInv` (the stack holds the truths of consecutive formulas) gives
`MatchIsFormula`, for the patterns whose match comes to an end: one with more `PUSH`es than
conditions or places on the stack compiles too, and matching it ends in `undefined`.

**`LogQueueProofs`.** `LogAssumption`, and `FewPreemptible`: at most two threads of a scenario are
preemptible, as in the firmware, where they are MEDIUM and the shell. `LockInv` follows what a
stale `MutexLock` can do: either the lock is `Sound`, and what a preempted thread is about to write
back (`Read`) is a free mutex nobody inside relies on or one that its owner has still, or it is
`Orphaned`: a stale mutex has been written back, one thread owns it for good and all others wait.
Both give `OneInside`. With three preemptible threads that is false: TLC, given three such threads,
finds a thread that writes back a free mutex while another, which has locked it since, is inside. `LogInv` adds
how far the indices are apart and that the newest entry is at the front unless it was popped
(`Counted`), and that the print has `Room`, and gives `UnreadCounted` (`RingCountsUnread` states it
with the place of the newest) and `NewestNext`: of the entries before the newest nothing is claimed,
`displace` overwrites them.

**`StatTrackerProofs`.** `StatAssumption`. `StatInv` says which mutexes the shell and MEDIUM hold
and how often (`MutexesHeld`), that each slot is empty, whole or the one being filled (`Filled`),
that a pattern in hand is in no slot yet but the one being filled (`Compiled`), and that the slots a
search has passed are taken, unless the request was refused for its short name (`Searched`). It
gives `PatternsOwned`, `AcceptedKept` and `RefusedOnlyWhenFull`, which leaves names of one character
out.

**`LinkedDequeProofs`.** `DequeAssumption`. `TypeInv` holds whatever is called: also when a reserved
node, whose links are stale, is put to use, and when a reservation has failed half-way. It bounds
`front_index` by the array the node was granted; `back_index` only by the greatest array. The rest is
about the deque used as intended. `HoldInv` says that it is then `Holding` a sequence of elements:
there are two sequences of nodes, those in use from front to back and those reserved, and the deque
is `Whole` with them, in four parts. `Chained`: `prev` and `next` link the nodes in use both ways,
`next` links the reserved ones, and the blocks taken from the heap are those of the two sequences,
each in one of them. `NodesFit`: the elements of a node lie in the places from `back` to `front`.
`Filled`: a node in use holds an element, which is why a pop that finds `front` and `back` of its
node equal never happens, and one fails on an empty deque only. And `num_elements` is the length of
what the nodes hold together. One lemma per operation says what it makes of the elements, and
`HeldStep` puts them together: a step `Moves` the elements as `Deque` allows, withdraws the promise,
or is undefined. The links the specification follows (`FromFront`, `FromBack`) are then shown to
be these sequences, which gives `NothingLeaked` and, step by step, `ImplementsDeque`.

Induction. The library's induction rules take a predicate as a parameter, which the provers cannot
instantiate; where a proof needs induction over a number (the height of a stack, the pairs of a
formula, the bytes of a condition, the grants of a
reservation, the nodes along a link, the sequences `FlattenSeq` joins) it takes the set of counterexamples and its least element
(`LeastNatural`, from the well-foundedness of the naturals). Recursive functions are unfolded by
lemmas of their own.

Only model-checked: all liveness (`EveryTaskServed`, `UrgentServed`, `QueuesAreServed`,
`WaitingHostIsAnswered`, `EveryCallReturns`), which is out of the proof system's reach under
fairness. The runs that expect a violation are TLC's alone.

## 5. Not modelled, and the plan

Every invariant, action property and refinement that a passing run checks is a theorem, some under
the hypotheses section 4 names. The theorems still worth having are those of the configuration as a
whole: that `system_config.h` meets the hypotheses, other than `PacketBytes <= DmaBufferSize`, which
it does not.

Not modelled so far: what becomes of bytes that an early driver receives into the buffer it is still
filling; which bytes of which packet `packet_queue` holds after `add_packet` (the
length goes in at the front, the bytes at the back, and undoing takes from the back only) and
what the processing task takes for a packet; the contents of a message with its check sum, so
that `validate_crc` on fewer than four bytes, where a length wraps, is a free answer of the
decoder; `CQueue`, whose content no lookup reaches.

Left out for good: the arithmetic of the Galois field (vendored, and its correctness is a matter
of algebra, not of interleavings), the unused parts of the vendored `ssf` library, what is printed
by the shell, the empty Viterbi file, and stack sizes.

The share of the lines the map covers looks small because most of the C files under `src/` are
the vendored `ssf` library with its own unit tests (`src/Validator/libs`), of which the firmware
calls two functions. Of the firmware's own sources, every one with state or control flow has its
definitions in the map.
