# Specifications of libdyplo

libdyplo is the user-space library of Topic's Dyplo: Kahn process networks
whose nodes are functions running in software (threads, or cooperatively on
one stack) or in FPGA partitions, connected by queues. This directory holds
TLA+ models of it, the TLC configurations that check them and TLAPS proofs
about them. Source positions below are relative to `src/`.

## The system

| part | source | state | operations |
| --- | --- | --- | --- |
| `FixedMemoryQueue<T, Scheduler>` | queue.hpp | ring: `m_buff`, `m_first`, `m_last`, `m_size` | `begin_write`/`end_write`, `begin_read`/`end_read`, `push_one`, `pop_one`, `wait_empty`, `clear`, `interrupt_*`, `resume_*` |
| `SingleElementQueue<T, Scheduler>` | queue.hpp | one element, `m_full` | the same, without `resume_*` |
| `PthreadScheduler` | pthreadscheduler.\*, condition.hpp, mutex.hpp, scopedlock.hpp | mutex, two condition variables, two sticky interrupt flags | `wait_until_*`, `trigger_*`, `interrupt_*`, `resume_*` |
| `ThreadedProcess` | threadedprocess.hpp, thread.hpp | two queue pointers, a thread | `set_input`, `set_output` (start the thread when both are set), `terminate`, the processing loop |
| `CooperativeScheduler`, `CooperativeProcess` | cooperativescheduler.hpp, cooperativeprocess.hpp | `downstream` pointer, the call stack | `end_write` runs the downstream process inside the call |
| `NoopScheduler` | noopscheduler.\* | none | waiting throws |
| `FileInputQueue`, `FileOutputQueue`, `FilePollScheduler` | filequeue.\* | buffer, carried-over bytes, interrupt pipe | queues over file descriptors |
| `HardwareDMAFifo` | hardware.\* | ring of DMA blocks shared with the driver | `reconfigure`, `dispose`, `dequeue`, `enqueue`, `flush` |
| `FpgaImageReader`, `HardwareProgrammer` | hardware.\* | pieces of an FPGA image, the block in hand | parse, pad, swap and write an image, push it through at the end |
| `HardwareContext`, `HardwareControl`, `HardwareConfig`, `HardwareFifo` | hardware.\* | file descriptors | search for free devices; routes, nodes, resets, user signals, tresholds: one ioctl each |
| `File`, `Pipe`, directory and mmap wrappers | fileio.\*, directoryio.hpp, mmapio.hpp | a descriptor | one system call each |
| driver and stress tests | testdyplodriver.cpp, testdyplostress.cpp | | programs against the driver and the logic, with expectations |
| demos, unit tests, benchmarks | dyplo\*app.cpp, testdyplo\*.cpp | | use of the above |

How the parts interact. A process sits between two queues and calls `begin_`
and `end_` on them; the queue calls its scheduler, with the scheduler's lock
held, to wait for and to announce a change. With `PthreadScheduler` the two
ends of a queue are different threads and the scheduler puts them to sleep in
condition variables. With `CooperativeScheduler` announcing new data is a call
of the downstream process. The file queues replace both by descriptors that
another program, or the driver, holds the other end of. `terminate()` reaches
a thread through the interrupt flags of the two queues it works on.
`HardwareContext` opens the devices of the driver; `HardwareFifo` and
`HardwareDMAFifo` move data through them, `HardwareControl` routes it,
`HardwareProgrammer` sends it to the ICAP over one of these fifos.

What is hard about it:

- **memory that is used without the lock**: `begin_` lends a part of the ring
  and releases the lock, the client works in place, `end_` hands it back. All
  of the ring arithmetic (full or empty when the pointers meet, wrap-around,
  partial `end_`) must keep what is lent to the two sides apart;
- **waiting**: single-wakeup signals, counts larger than one, a condition
  variable shared by `begin_write` and `wait_empty`, flags that are looked at
  only before sleeping, spurious wakeups; `interrupt()` and `reset()` of the
  poll scheduler, which share a flag and a pipe and no lock;
- **termination and restart**: a thread is interrupted at any point of its
  loop and started again, and no element may be lost or processed twice;
- **re-entrancy** (cooperative), **partial reads and writes with interrupts
  between them** (files), **state shared with the driver, and calls that fail
  half way** (DMA), **boundary sizes** (FPGA images), **other programs that
  search for the same devices** (context), **data that moves while routes,
  nodes and fifos are changed** (logic).

What makes each part correct: a queue is a bounded FIFO channel that never
lends the same slot twice and wakes who it should; a network delivers every
element once, in order, through stops and restarts, and stops when told to;
a file queue delivers the bytes of its descriptor in whole elements; a DMA fifo
knows which blocks the driver has; the programmer sends exactly the words of
the image, and all of them; a search finds a device that is free; a program
gets through its calls whatever the data is doing meanwhile. `PROJECT.json`
lists the hazards line by line.

## The modules

| module | models | |
| --- | --- | --- |
| `RingArithmetic` | `increment`, what `begin_write` and `begin_read` return | pure operators |
| `PthreadScheduler` | the scheduler, one per queue | actions without a `Next` of their own |
| `FixedMemoryQueue` | a set of queues, each with a writer, a reader, drainers and interrupters | `Init`, `Next`, `Spec` |
| `Channels` | what a queue promises: a bounded FIFO channel | abstract specification |
| `QueueCorrectness` | properties, inductive invariant, refinement mapping, fairness | |
| `SingleElementQueue`, `SingleElementCorrectness` | the queue of one slot, over the same scheduler and the same `Channels` | `Spec` |
| `ThreadedProcess` | a chain of threaded processes with a source, a sink and a user who terminates and restarts | `NetworkSpec` |
| `NetworkCorrectness` | properties and fairness of the network | |
| `CooperativePipeline` | a chain of cooperative processes and its call stack | `Spec` |
| `FilePollScheduler` | `interrupt()`, `reset()` and the waits of the scheduler | actions without a `Next` of their own |
| `FileQueues` | a `FileOutputQueue` and a `FileInputQueue` at the ends of one pipe, sharing that scheduler | `Spec` |
| `HardwareDMAFifo` | the blocks of a set of DMA fifos, and the driver's part of them | actions, composed by the next two |
| `DmaLoopback` | two DMA fifos, a route between them, a program at each; refines `Channels` | `Spec` |
| `HardwareProgrammer` | `FpgaImageReader` and the three ways its data leaves, over a DMA fifo | `Spec` |
| `HardwareContext` | opening devices, and the search for a free one | actions |
| `DyploLogic` | fifos, routes and nodes, word by word | actions |
| `DriverTestPrograms` | 29 programs of the tests, as scripts of calls | pure definitions |
| `DriverTests` | those programs, their second thread and the logic, running | `Spec` |
| `MC*` | instances for TLC | |
| `QueueCorrectness_proofs`, `SingleElementCorrectness_proofs`, `NetworkCorrectness_proofs`, `CooperativePipeline_proofs`, `FileQueues_proofs`, `DmaLoopback_proofs`, `HardwareProgrammer_proofs`, `DriverTests_proofs` | | theorems and their proofs, each about the module of the same name |

**Queue.** A pointer is its distance from `m_buff`. A method holds the mutex
from its first statement to its last, except in `pthread_cond_wait`, so one
step is what runs under one acquisition of the mutex; the mutex is not a
variable. A call that may wait is the step that enters it (`CallBeginWrite`)
and one step for every pass through its `while` loop (`BeginWrite`), which
returns, falls asleep, or throws. `writer[q]` and `reader[q]` say whether the
client is outside, inside a call, or holds a grant (`buf`, `room`). `Store` and
`Load` are the client's accesses to one element of its grant, which it makes
without the lock; `staged` and `seen` remember what it stored and loaded since
the grant. A condition variable is the set of the threads asleep in it;
`Signalled` lets the operating system choose which one `pthread_cond_signal`
wakes.

What clients are assumed to do: one writer and one reader per queue; no
`begin_` for more than the capacity (it would wait for ever); `end_write` of
elements that were stored; `clear()` only when nobody holds a grant or waits,
since the code makes no provision for anything else.

**Queue of one element.** The same steps and the same clients on a slot and a
flag. `begin_write(0)` and `begin_read(0)` do not wait and are steps of their
own. There is no `resume_`: an interrupt stays.

**Network.** Process `p` reads queue `p - 1` and writes queue `p`. Every step
of `StaticProcessor::process` that touches a queue is the queue's action
together with a move of `pc[p]`; the block function works element by element
outside the lock. `terminate` is three steps (interrupt the input, interrupt
the output, join), so neighbours can be terminated at once. `done[p]` is a
history variable. The user starts a process only when it has none running. Elements
are unsigned integers that wrap around at `Modulus`.

**Cooperative chain.** One thread runs everything: `end_write` of a queue calls
`process_one` of the next process before it returns, and `begin_write` on a full
queue calls it and looks again. As queue `p` always calls process `p + 1`, the
call stack is given by its height (`active`) and by where each actor is in its
code (`pc`): `GoToAndCall` pushes a frame, `BeginRead` without a whole block
returns from it. That a ring is a FIFO channel is established by
`QueueImplementsChannels`, so a queue is a sequence here, with the position
of its oldest element (which decides how much `begin_` lends). The last queue has a
scheduler that makes its writer wait for another thread (`PthreadScheduler`) or
throws (`NoopScheduler`), chosen by `outputWaits`; an exception unwinds the whole
stack (`BeginWriteThrows`). `interrupt_write` may come at any moment, from another
thread. The chain is connected before it is used, and `N >= 1`.

**File queues.** A byte is its number in the stream, so where it comes out can
be compared with where it went in. One step is one pass of the loop of
`write_buffer` or `begin_read`, with its system call, which moves any multiple
of `Granule` bytes that fits (`Moves`); the sleep in `poll()` is a place of its
own, because the flag is read before it and the internal pipe in it. What
`FileOutputQueue` still has to write is `pending`, what `FileInputQueue` has
left over is `m_carry` elements. `interrupt()` is two steps (flag, byte) and
`reset()` one for every `read()` and one for the flag, since they run without a
lock. `told` records what their callers may rely on; no step depends on it.
`synchronous` is the template parameter. The reader ends a grant with `end_read`, or
leaves it (`LeaveGrant`), as `StaticProcessor::process` does when the `begin_write` that
follows `begin_read` throws (threadedprocess.hpp:142-151). The next `begin_read` then
reads behind `m_carry` elements again, over those of the grant, unless `m_carry` is
enough. `thrown` keeps what broke the stream: an exception in the writer or half way
through `begin_read`, a grant that was read over ("grant"), and an exception half way
through reading over one ("mixed").

**DMA fifos.** `blocks[f]` are the `Block`s of the object: is `data` mapped,
`state` (the object's belief that the driver has the block), and what the memory
holds. `queued` and `done` are the driver's side: what it has for the hardware,
and what it can give back. `reconfigure` is one step that succeeds,
is refused, or fails at the query or the `mmap` of any block; `flush` is a step for
each block. What clients are assumed to do is what the tests do: no more blocks in
hand than there are, blocks enqueued in the order in which they were dequeued,
`reconfigure` and `flush` with none in hand and nothing on its way,
`dequeue` after a `reconfigure` that succeeded. The driver is external: it serves
blocks in order, and `DYPLO_IOCDMA_RECONFIGURE` makes it forget those it had.

**Programmer.** All sizes are words of 32 bits; a word is the file it comes
from, its place, and whether its bytes were swapped. `processFile` is the
decision of `OpenImage` (`Refused`, `FirstChunk`) and a round of
`beginProcessData`, `read_all`, `endProcessData` for each piece, with a DMA
block, a CPU fifo or a file behind it (`via`). The destructor is `SendNOP`,
`Flush`, `DeleteWriter`. A block that a call that ended early has left
(`block`) is used by the next one, also by the destructor. `ConstructFails` leaks the
`HardwareDMAFifo`, as the code does: nothing deletes `dma_writer` when the
constructor throws, and the DMA node stays open (`leaked`). A .bit file may have anything
behind its image, as the one of testdyplohardware.cpp:69-78 has; of what follows only
the words that fill up the first round are sent.

`processFile` reads every round of a .bit file after the first into a vector of
`BUFFER_SIZE` = 16384 bytes (hardware.cpp:818), and asks for as many bytes as
`beginProcessData` allows, which are 65536 for a DMA node (hardware.cpp:894-896). An
image with more than 16384 bytes behind its first round is therefore written past the
end of the vector. The model has a step for it, `Overrun`, after which nothing happens:
what the program does then is undefined, and no property says anything of it.
`CallsReturn` says for exactly which images this step is taken (`Overruns`).

**Context, logic, tests.** Every `open()` of a search is a step, so other
programs open and close devices meanwhile; a DMA node is two devices. A search for a
fifo tries as many as there are files /dev/dyplor%d or /dev/dyplow%d
(`Counted`; hardware.cpp:111-133), and opens the fifos of the context, whose
prefix may be another (`Devices`; hardware.cpp:66-88); `AllCounted` says that the files
are not fewer than the fifos.

In `DyploLogic` a word has its number, its user signal and what the adders on its way
added to it; each ioctl is one step, a `read()` or `write()` one step for each
word. What the driver and the logic do with data is external, taken from what
testdyplodriver.cpp and testdyplostress.cpp expect: a DMA node, for one, takes no words
before a poll or a read has started its data pump (`Started`;
testdyplodriver.cpp:1418-1420). `DriverTestPrograms` is one
definition per test, the calls with their arguments and expected results;
`DriverTests` runs one of them, its second thread, and the logic.
Amounts are a few words, of which a DMA buffer has two. Polls that must see data have
a timeout that is long enough. Two expectations of the tests hold or not as the data moves
fast or slow, and are not in the scripts: that words which may be on their way are gone after
the two resets of `d_io_control_fifo_reset` (testdyplodriver.cpp:477), and that there
is no room right after the fill of `h_irq_driven_write` (testdyplodriver.cpp:831).

## The runs

| run | instance | what it shows |
| --- | --- | --- |
| `queue` | one queue of 3 slots, two values, counts 0..3, the writer may call `wait_empty` | `TypeOK`, `GrantsDisjoint`, `NoLostWakeup`, the inductive invariant `QueueInv`, the refinement of `Channels`; every call returns once it can (`CallsReturn`), an interrupt ends the call |
| `queue_drained` | 2 slots, with a second thread in `wait_empty` | *violation* of `WriterGetsRoom`, see below |
| `single_element` | one queue, two values, the writer may call `wait_empty` | `NoLostWakeup`, the refinement of `Channels`, `CallsReturn` |
| `network` | 2 processes with blocks of 1 and 2, queues of 1, 2, 2; 4 elements; 2 terminations or interrupts at an end, in any mix; restart after `resume_` | `ExactlyOnce`, `StoppedIsGone`, nothing but its own `terminate` ends a thread; `EverythingArrives`, `TerminateReturns` |
| `network_unaligned` | 1 process, blocks of 2 in queues of 3 | *violation* of `GrantHoldsBlock`, see below |
| `cooperative` | 2 processes with blocks of 1 and 2, queues of 2; 6 pushes, 2 interrupts; another thread empties the last queue, or the caller does and the queue cannot wait | `ExactlyOnce` and `EverythingArrives` until an exception is thrown; always `NothingLost` and `CallsReturn` (`push_one` does not spin); `ChainDrains`: everything gets through after any exception |
| `file_queues` | elements of 2 bytes that the pipe (of 4 bytes) moves whole, buffers of 2 elements, 3 elements; 2 interrupts, 1 reset, which reads a byte at a time; grants are left at any time | `InOrder`, whatever is interrupted or left; `StandingInterrupt` and `CleanReset`; `InterruptEndsCall`, `SynchronousLeaves` |
| `file_queues_gaps` | the same without interrupts, with a pipe that moves single bytes | *violation* of `NoGaps`, see below |
| `dma_loopback` | fifos of 1 or 3 blocks, 2 reconfigurations each, 4 items; the writing one is non-blocking | `OneOwner`, `MapsBalanced`, `FlushedIsIdle`, the refinement of `Channels`; `EverythingArrives`, `FlushReturns` |
| `programmer` | two calls of `fromFile`, two objects, 17 files around every size at which the code decides | `WordsInOrder`, `PaddingAtEnd`, `ImageProgrammed`, `WrongIdNotSent`, `CallsReturn` |
| `programmer_window` | .bit files with a header of 2 words, images of 2, 3 and 7 | *violation* of `CompleteFileAccepted`, see below |
| `driver_tests` | 29 programs; 3 CPU fifos each way, all counted, 2 DMA nodes, two adders, the two halves of a test node | `ChecksHold`, `FreeDeviceFound`, `ProgramsEnd` |

Why the bounds are enough.

- *Queues.* Three slots are the fewest in which a grant can be partly handed
  back, a writer and a reader can both hold grants, and a grant can stop short at
  the end of the buffer with room left at its beginning; counts go from 0 to the
  whole capacity. Queues do not share state, so one is enough.
- *Chains.* Two processes give a queue whose both ends are processes; blocks of
  1 and 2 make a consumer wait for several `end_write`s of its producer; four
  elements fill every queue of the chain once and make every ring wrap. Two
  disturbances allow neighbours to be terminated at once, a process twice, and a
  termination while an end is interrupted. In `EverythingArrives` the number of
  elements is a multiple of the block sizes: what is left of a block stays in
  the queue, as in the code. In the cooperative chain an exception doubles elements,
  so `MaxReceived` bounds what is popped: with 6 pushes and 2 interrupts 20 is never
  reached; with a last queue that throws there is no end to exceptions, and 7 pops
  see the doubled ones of the first.
- *Files.* Three elements go once around buffers of two; the pipe holds as much as
  a buffer, so writes are cut by it, and one read can get one element or two. Two
  interrupts fill the internal pipe past what one `read()` of `reset()` takes, and
  one can overlap the reset and the other come before it.
- *DMA.* One block (the head is where it was after every call) and three (a client
  can hold some while the driver has others); two reconfigurations take a fifo from 1 to 3
  blocks, from 3 to 1, and from a failure to a success; four items go around three
  blocks.
- *Programmer.* `ALIGN_SIZE` = `BUFFER_SIZE` = 4 words and blocks of 8 keep the
  proportions that decide (a buffer is a whole number of aligned pieces, a block
  several buffers); the sizes of the files lie below the minimum, in the first read,
  just before and after one buffer and one block, odd and even, complete,
  one word short, and with words behind the image, in the first round and after it; one
  of them is long enough to overrun the buffer. Two calls let the second find the block of the first, two objects
  let the second come after a failed or destroyed one.
- *Driver tests.* Fifos to write of 1 word, to read of 3, and DMA nodes of 4 fill up in
  every test that fills them, and a DMA buffer (2 words) does not fit in a fifo to write,
  so that writing one to a DMA node waits until its data pump runs; one word of room in a port makes the logic stall; two buffers are enough for a
  treshold to be reached and not to be.

Deadlock is checked except where the programs end by themselves: `dma_loopback`
(all items sent, or a `reconfigure` failed for good), `programmer` and
`programmer_window` (no more images), `driver_tests` (a test ends; a call
in it that waits for ever is found by `ProgramsEnd`).

Fairness. Threads that are not asleep are run (weak fairness of the steps in
which a call goes on). In the queue runs nothing obliges a client to call or to
give back its grant. In the network the source and the sink go on, and a user
finishes the `terminate()` it began and starts again what it stopped; spurious
wakeups and terminations are never forced. In the cooperative chain the stack runs on
(its one thread is not asleep), the other thread takes what there is, and the caller
pushes instead of calling `resume_write` for ever; in `ChainDrains` the user also
withdraws its interrupts and keeps resuming (`Recovering`). In `file_queues` a
client that is ready to run runs, `interrupt()` and `reset()` are finished once
begun, and there is a reader, who does not leave its grants for ever (strong fairness of
`EndRead`: a process is terminated a few times only). Of the hardware: the logic moves what
it can move (`Transfer`, `Logic`), the ICAP takes its blocks (`Configure`), and the
program at the reading end goes on reading.

What the stronger-sounding properties leave open:

- an exception in a cooperative chain can leave a block in the input and in the
  output of a process, since `end_read` (cooperativeprocess.hpp:101) is not
  reached: it is processed a second time. `NothingLost` says what still holds. With
  blocks of different sizes the doubled elements shift the boundaries of later
  blocks, so that a rest of less than a block can stay in front of a process;
  `ChainDrains` allows for that;
- `InOrder` allows a `FileInputQueue` whose reader was interrupted half way through
  `begin_read` to lose what that call had read (`m_size` is not updated when
  `wait_readable` throws, filequeue.hpp:216-247), a `begin_read` to lose the elements of a
  grant that was left when it reads over them, and an output that is closed to
  take its pending bytes with it. If both happen in one call, an exception half way
  through reading over a grant, nothing is said from there on;
- `StandingInterrupt` is about an `interrupt()` that was not overlapped by the reading of
  a `reset()`. One that is loses its byte to the `read()` and its flag to the assignment
  behind it (filequeue.cpp:84-86): it ends no call, and no property says it does;
- `FreeDeviceFound` is about a context whose fifos are all counted (`AllCounted`), as those of
  the default prefix are. With `Counted` = 1 for three fifos to write TLC finds it violated:
  the search returns ENODEV with two free;
- `ChecksHold` is about the expectations that are in the scripts, see above for the two that
  are not;
- `flush()` of a non-blocking fifo may throw half way; `FlushedIsIdle` is about the
  ones that return;
- a user who starts a process again without `resume_` ends its thread at the first
  call that would wait. `network` has a user who resumes first.

Four runs end in a violation, and say something about the code:

- `queue_drained`: `wait_empty` sleeps in the condition variable of the
  writers (queue.hpp:122) and `end_read` wakes one sleeper (queue.hpp:112,
  pthreadscheduler.cpp:57-60). With a writer in `begin_write` and another
  thread in `wait_empty`, the wakeup can go to the latter and the writer sleeps
  on. dyplodemoapp.cpp:178-181 waits like that.
- `network_unaligned`: `begin_read(src, 2)` waits for 2 elements and returns
  1 when the second one is at the beginning of the buffer. The assertion at
  threadedprocess.hpp:143 fails. Blocks must divide the capacity; the other
  runs keep to that.
- `file_queues_gaps`: `begin_read` counts whole elements only
  (filequeue.hpp:238-247). When the last `read()` ended inside an element, the next
  `begin_read` overwrites the bytes after the last whole one, and every element
  from there on is put together from the halves of two. In `file_queues` the pipe
  moves whole elements.
- `programmer_window`: for a .bit file whose data begins in the first read and does not
  end there, `processFile` reads on to a multiple of `ALIGN_SIZE` without
  looking at the size in the header (hardware.cpp:874-883): a complete file that ends
  before that is refused as truncated. The files of the other run avoid those sizes.

Two more things were met while modelling and have no run of their own: the read past the
end of the buffer in `processFile` (`Overrun`, reached in the run `programmer`), and the
count of files that does not follow the prefix of a context (`AllCounted`).

## The proofs

The theorems hold for every value of the constants that the named `ASSUME`s of
the modules allow: every number of queues, processes and blocks, every capacity,
block size and set of elements. What the assumptions say: capacities, sizes and
blocks are positive, `Junk` is not an element, and the source of a network pushes
fewer elements than there are values (`CapacityAssumption`, `CountsAssumption`, `JunkAssumption`,
`NetworkAssumption`, `PipelineAssumption`); the number of blocks a `reconfigure` asks for is
bounded, as its parameter is an `unsigned int` (`LoopbackAssumption`); one `read()` of `reset()` takes at
least a byte (`SchedulerAssumption`); an element is a whole number of the units the
pipe moves (`FileQueuesAssumption`); the ICAP has one fifo, that waits, the sizes of the
programmer divide each other as the constants of hardware.cpp do, and a "bin" or
"partial" file has no header and is all image (`ProgrammerAssumption`). Seven theorems need more, and
say so in their statement: `Drainers \subseteq {"writer"}`, `WholeBlocks`, `Granule = ElementSize`,
`AllCounted` and `FifosInReach`. TLC checked every inductive invariant before it was proved.

The queues:

- `TypeCorrect`, `InvariantHolds`: `TypeOK /\ QueueInv` is inductive. `TypeOK`
  alone is not: that `m_first` stays in the buffer when `end_write` adds to it
  needs the grant to be inside the buffer (`WriterInv`), that `m_size` does not
  exceed the capacity needs the grant to be free room, which needs to know where
  `m_first` is (`RingInv`), which `end_read` changes. The parts therefore hold
  together: `RingInv` (`m_first` is `m_last` plus `m_size`, wrapped),
  `CommittedInv` (committed slots hold elements), `WriterInv` and `ReaderInv`
  (where the grants are and what is in them), `SleepInv` (who sleeps is in a
  call). There is one lemma per action (`EndWriteStep`, ...).
- `GrantsAreDisjoint` follows from the invariant: the writer's grant lies in
  the free slots, the reader's in the committed ones.
- `WakeupsAreNotLost`: `NoLostWakeup` is preserved, if only the writer itself
  calls `wait_empty`. Then each condition variable has at most one sleeper,
  which the next signal wakes. `queue_drained` shows that the restriction is
  needed.
- `QueueImplementsChannels`: the ring read from `m_last` for `m_size` slots is
  the channel. `Store` is `Prepare` (the slot is not a committed one), `EndWrite` is
  `Commit`, `Load` is `Look`, `EndRead` is `Consume`, a repeated `begin_` is
  `Redo`, `Clear` is `Empty`, everything else stutters.
- `SlotIsOwned`, for the queue of one element: `TypeOK /\ SlotOwned` holds, which
  says that the flag alone decides whose the slot is.
- `SingleLosesNoWakeup`: as `WakeupsAreNotLost`, and under the same restriction.
  `clear()` empties the slot without waking anybody; that nobody sleeps
  then is `SleepInv` (who sleeps is in a call), which completes the inductive
  invariant `SingleInv`.
- `SingleImplementsChannels`: the slot, if the flag is set, is a channel of
  capacity 1.

The network:

- `NetworkObeysQueues`: a step of the network is a step of `FixedMemoryQueue`
  or leaves the queues alone; it needs the queue invariant, for the elements a
  process stores must be elements and what it hands back must be in its grant.
  `NetworkHasChannels` and `NetworkLosesNoWakeup` follow.
- `StoppedProcessesAreGone` follows from `ControlInv`, which says for every
  `pc[p]` which calls the process has in progress at its two queues (`ThreadInv`),
  and that a process has a thread, running or exited, exactly while both its pointers are
  set (`UserInv`). `StoppedIsGone` alone says nothing of a running thread, from which
  a stopped one comes.
- `ThreadsEndWhenTerminated` needs `FlagsInv` besides: a process with both its queues, whose
  user is not terminating it, has no interrupt flag set at the ends it uses. A queue has
  two flags, one for each of the processes it connects, and this is why a neighbour's
  `terminate` does not end it.
- `NetworkExactlyOnce`: `DataInv` says, for every queue, that the ring holds the elements
  that were put in and not taken out (`done`, `sent`, `received` count them), each
  with what the processes before it have made of it. It needs of `ControlInv` what a
  thread has in hand: the elements it stored are the results of the first ones of its
  source block, and after `end_write` and before `end_read` the block is both counted
  in `done` and still in the ring. Threads are interrupted only where neither is so.
- `GrantsHoldBlocks`, when every queue is a whole number of the blocks at its ends
  (`WholeBlocks`): then `m_last` and `m_first` stay at the beginning of a block of the
  process that moves them (`BlocksInv`), and a grant that stops at the end of the buffer
  stops at the end of a block. `network_unaligned` shows that the hypothesis is needed.

The cooperative chain:

- `ChainDeliversOnce`, `ChainLosesNothing`: the control (`Control`) says who is on the
  stack, that a block which `begin_read` has found stays at the front of its queue
  through all the calls below (`BlockInv`), and that there is room for a block which is
  about to be committed (`RoomInv`). The data (`ChainInv`) is stated part by part: the
  queues and what came out are the parts 0 to N + 1 of the chain, and each property
  relates a part to those beyond it. `NothingLost` is not inductive: that an exception
  can only double a block needs `Handed`, which says that between `end_write` and
  `end_read` the block, and all before it, are already beyond.
- `ChainGrantsHoldBlocks`, when every queue is a whole number of the blocks written to it
  (`WholeBlocks` of this module): `process_one` does not look at what `begin_write`
  returns, and `AlignedInv` keeps `m_first` at the beginning of a block. The block that is read
  needs no hypothesis: what `begin_read` returns is compared with its size.

The file queues and their scheduler:

- `InterruptsStand`, `ResetsAreClean`, for the poll scheduler, with any number of
  threads in `interrupt()` and whatever the queues are doing: `PollInv` relates
  the flag, the bytes in the pipe and who is in `interrupt()`. Neither property
  is inductive: that a byte stays in the pipe needs that no `reset()` is
  reading, and that the pipe is empty when the flag is cleared needs that nobody is
  between setting the flag and writing the byte.
- `BytesDoNotOvertake`, `FilesInOrder`: the journey of the bytes is what was taken, what
  is in the buffer of the input, in the pipe, and pending, in one sequence. Every
  `read()` and `write()` moves its parts, `CallEndWrite` lengthens it, an
  exception in `begin_read`, reading over a grant that was left, or a close takes a piece
  out of it; so it stays increasing (`JourneyInv`), for any unit the operating system moves,
  until "mixed". That it is also without gaps needs whole elements: `WholeInv`, under `Granule = ElementSize`, for otherwise the
  bytes after the last whole element are overwritten (`file_queues_gaps`). `FilesInv`
  says where the positions in the buffer are (`BufferInv`) and when bytes can be
  pending (`WriterInv`).

The hardware:

- `BlocksHaveOneOwner`, `MapsStayBalanced`, `FlushLeavesIdle`: `FifoInv` is about each
  fifo by itself (`Part`). What a client holds are the blocks before the head, in turn
  (`HeldInv`); that `dequeue` does not hand out the block at the head twice is
  arithmetic on the ring (`TurnIsPlace`). `OwnerInv` is the agreement of `state` with the
  driver. `FlushInv` says that the blocks between the start of a `flush()` and the head are
  back, so that none is left when the two meet (`RoundTheRing`), also when an earlier
  `flush()` threw half way.
- `LoopImplementsChannels`: the two fifos and the logic between them are a channel of twice
  the largest number of blocks. What is on its way is read off the blocks: the items of the
  reader's blocks that came back, then those of the blocks the writer has enqueued. `FifoInv`
  says whose a block is and nothing of what is in it or in which order the driver has it, so the
  proof needs `PathInv`: counted around the ring from the oldest block the reader holds, the
  blocks it holds come first, then those that came back, then those the hardware has, in the
  order in which it has them (`RingInv`); the items are in the last of those that came back,
  from some place of the count on, and every other block is empty (`Since`); every block the
  writer filled or enqueued has an item (`GivenInv`); a fifo has as many blocks as some
  `reconfigure` asked for (`SizeInv`, which bounds the channel). `dequeue` leaves the count as it
  is (`PlaceNext`) and `enqueue` moves its first block to its end (`PlaceTail`). Filling a
  block is `Prepare`, `enqueue` of the writer is `Commit`, `dequeue` of the reader is `Look` when
  the block has an item, and its `enqueue` is then `Consume`; `Transfer`, `flush` and
  `reconfigure` leave the channel alone.
- `FreeDevicesAreFound`: `SearchInv` says that a search has met in use every device below its
  index, and that every device in use now is among those met. It is proved if there are as
  many files /dev/dyplor%d and /dev/dyplow%d as the context has fifos (`AllCounted`), and
  if the number of fifos is at most the number `Stress::openAvailableFifo` counts to
  (`FifosInReach`): otherwise a search can give up with one free behind the last it
  tries. Of the DMA nodes the theorem is about the first 31.
- `ImagesAreWhole`: `ProgramInv` relates a call of `fromFile` to its file: what was sent is
  in the file and, of a .bit file, what is still asked for is in the image
  (`CallInv`). For a file without header `ok` comes at the end of the file, which is
  the end of the image only because the assumption says so of these kinds of file.
- `WrongImagesAreNotSent`: `SinkInv` says that every word in the sink, and in every
  block that is queued, is a NOP or of a call that may send. A block that was dequeued by a
  call that ended early is not in it: whatever it holds is replaced when it is
  enqueued.
- `WordsStayInOrder`, `PaddingStaysAtEnd`: `StreamInv` is about all the ICAP got or will get,
  part by part (`Parts`: the sink, then the queued blocks). Its conjunct `Open` is what makes
  it inductive: while words of an image are still to be sent, no NOP has come after those
  that were. That a round is padded only when it is the last one needs `EvenInv`: every piece
  before it is an even number of words, since `ALIGN_SIZE`, `BUFFER_SIZE` and the size of a block
  are. `enqueue` puts what is in hand behind the parts only if the block in hand is not itself
  queued, which is `OwnInv` (the `state` of a block says who has it, also through failed calls
  and a failed `reconfigure`). That an object which is destroyed leaves nothing queued
  is in `StageInv`: when `flush()` has come round, all blocks are back (`RoundTheRing`).

Only model-checked:

- `ChecksHold` of the driver tests: it depends on the arguments of 29 fixed
  scripts, which TLC runs through;
- all liveness, which needs `ENABLED` and fairness. RECURSIVE operators are out of reach
  too; the modules use none.

## Not modelled

- *The unlocked `size()`, `available()`, `empty()`, `full()`* of the queues: the
  library does not act on what they return; calling them from another thread is
  a data race.
- *A second `start()` of a running process*, `detach()`, and a `pthread_create` that
  fails: the first loses a thread handle, the others have no caller that goes on.
- *Connecting a cooperative chain* and the interrupts in its destructors: one
  thread, and nothing to interleave with.
- *Errors of `read()` and `write()`* other than EAGAIN and end of file, and a reader
  that closes its end of the pipe.
- *The bytes of the header of an image*, files whose length is no multiple of 4
  bytes, and a `read_all` that fails between two pieces: the model counts words.
- *The search for partition files by name*: string matching, and a shift by a number from a
  file name. Licence and ID ioctls, `routeDeleteSingle`, lists of routes, the
  reset masks, standalone DMA: one call each, without state in the library.
- *The driver and the logic* are not in the repository. What the modules say of them
  is what the tests expect. Left out are the two expectations named above,
  `m_hdl_audio_style` (file queues on fifos of the driver; `FileQueues` has the queues on a
  pipe), the tests of standalone DMA, the zerocopy tests beyond the plain
  transfer, the maze of routes, and checks of one call in isolation.
- *What happens after `processFile` has written past its buffer*, see `Overrun`.
- *Directory and mmap wrappers* (one system call each), demos, benchmarks, unit
  tests, the solver prototype in testdyplosolver.cpp, the test framework.

## What is left to prove

1. That the queues of the cooperative chain obey `FixedMemoryQueue`: `CooperativePipeline`
   starts from `QueueImplementsChannels` and keeps sequences.
2. That `processFile` reads past its buffer for the images of `Overruns` only, as a theorem:
   `CallsReturn` checks it for the images of the run.
