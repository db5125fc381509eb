# A TLA+ model of mvvmm

mvvmm is a small virtual machine monitor for KVM: it boots a Linux kernel on
one virtual CPU and gives it a virtio disk, a virtio network card on a TAP
interface, a serial console on the terminal, and a power button driven by
SIGTERM. The modules here model it from the command line to the end of its
teardown, and TLC checks them on small instances. TLAPS proves the safety
properties and the refinements for instances of any size; liveness is
model-checked only.

## The system

| part | state | operations | interacts with |
|---|---|---|---|
| thread pool (`threadpool.c`) | `is_working`, one `task_fn` per worker, a pool lock, a lock per worker, `quit` | `thread_pool_run`, `worker_thread_fn`, `delete_thread_pool` | block backend |
| virtio ring (`virtio.c`) | `last_avail_idx`, ring addresses, `int_status`, `s->lock`; rings in guest memory | `queue_notify`, `virtio_consume_desc`, poll thread, reset | guest driver, KVM eventfds, devices |
| MMIO registers (`virtio.c`) | selectors, queue size and addresses, status, configuration space | `virtio_mmio_read`, `virtio_mmio_write` | VCPU loop |
| block device (`virtio.c`, `blkdev.c`) | requests in flight, disk image | `virtio_block_recv_request`, `block_*_async`, `block_io_worker_fn`, `virtio_block_req_cb` | ring, pool |
| network device (`virtio.c`, `netdev.c`) | TAP descriptor, receive thread, `quit` | receive, transmit | ring, TAP |
| serial port (`serial.c`), keyboard thread (`main.c`) | RBR, IER, IIR, LCR, LSR, IRQ 4; `escaped` | `handle_serial`, `write_to_serial`, `keyboard_thread_func` | guest driver, terminal |
| life cycle (`main.c`, `mvvm.c`) | threads, devices, guest memory | `mvvm_init`, `mvvm_run`, `mvvm_destroy` | everything |
| power (`mvvm.c`, `guest-module/`) | `power_cmd`, IRQ 5 | `sigterm_handler`, `mvvm_shutdown`, `handle_power`, `my_irq_handler` | guest, life cycle |
| boot loader (`mvvm.c`) | guest memory, memory slots | `mvvm_load_kernel`, `setup_e820_map`, `load_initrd`, `cmdline_concat` | none at run time |
| CPU setup (`mvvm.c`) | registers | `init_cpu` | KVM |
| command line (`main.c`) | none | `parse_opts`, `parse_memory_size` | none at run time |

What is hard to get right:

- *Threads.* The VCPU, a poll thread per device, eight disk workers, the TAP
  receiver and the keyboard thread run at once. A disk request is taken from
  the ring by the poll thread or by a worker that has just completed another
  one, under the device lock, and passed to the pool, which has locks of its
  own.
- *Notifications.* Kicks, interrupts and wake-ups are edges. Each of them can be
  lost if it is consumed before the state it announces is looked at.
- *Shutdown.* `quit` flags are polled, some without a lock, and teardown frees
  things while threads that use them still run.
- *Memory order.* Rings are shared with the guest without locks.
- *Resets.* A driver may reset a device and set it up again, register by
  register, while kicks are on their way and packets arrive.
- *Boundaries.* Descriptor chains, guest pages, memory slots, the e820 map and
  the command line are computed in several places that must agree.

## The modules

`ThreadPool` models `threadpool.c` completely. A step is one lock acquisition,
or what a thread does from there to its next lock operation. Reads of
`pool->quit` and of single flags in the scan are steps of their own, because an
exiting worker unlocks the pool lock (line 16) although it does not hold it, and
from then on the lock protects nothing. The worker's own lock then stays held for
ever, as in the code. A caller is a thread outside the pool or a worker whose
task calls `thread_pool_run`, which is what the completion of a disk request
does. `LateCalls` says whether calls may race with or follow
`delete_thread_pool`. A caller about to use freed memory is `Dangling` and takes
no further step.

`TaskService` is what the pool promises, without locks: a task is refused and
never runs, or is accepted into an empty slot and runs once.

`VirtioBlk` models the block device at work. It has the guest driver (external,
written from what the code expects: it disables callbacks while it drains the
used ring and looks again after enabling them), the rings, the poll thread, the
workers, `s->lock`, the ioeventfd and the interrupt. `queue_notify` is `Sample`,
one `Recv*` per turn of the loop and `NotifyDone`. `virtio_consume_desc` is
`Publish` and `Flags`. With `Reorder`, the load of the driver's flags may
overtake the stores before it (`EarlyFlags`, `LatePublish`): x86 does that, and
the acquire and release fences in `virtio_read16` and `virtio_write16` do not
prevent it. `thread_pool_run` is one step here, since `s->lock` serialises its
callers; a worker counts as working until `Finish`. All requests are about one
sector, and a write stores its own identity, so a read tells which write it saw.
`Reset` assumes of the driver what the code does not test: it resets a disk only
when no request is outstanding.

`BlockService` is what a disk promises: a request takes effect at most once,
between its submission and its answer, and the answer is truthful.

`VirtioMmio` is the register file of a device as a record, with
`virtio_mmio_write`, `virtio_mmio_read`, `virtio_reset` and
`virtio_config_read` as functions of it; `WriteQueue` and `ReadQueue` are their
cases about the selected queue. Ring addresses have two halves, written
separately.

`VirtioNet` composes the register file with the two queues of the network
device. The TAP receiver fills queue 0 (`RxRead`, `RxCheck`, then `RxWrite` or
`RxDrop`, `RxFlags`), the poll thread serves queue 1 (`PollWake`, `PollSample`,
`TxSend` or `TxSkip`, `TxFlags`, `TxDone`). The driver is external: it sets the
device up in the order of Linux's virtio_mmio driver (`SetupStep`, nine steps:
accesses whose effects no device thread looks at in between are one), offers
free heads in either queue (`Post`; any of them with `AnyHead`, the lowest
without), drains both, and may stop and start again
with buffers outstanding. A value it reads and cannot go on with sends it to
`Failed`. Whether a packet
fits its buffer, and whether a chain is well formed, is a free choice. The
variable `stray` records that the device walks a ring where there is none: the
word it reads for an index is by luck the one it has reached, and nothing
happens, or it is another. `room` remembers what `can_write_packet` saw. Loads
do not overtake stores in this module; `VirtioBlk` is about that.

`LossyLink` is what each direction of the network device promises: packets may
be lost, and the others arrive unaltered, in order and at most once.

`DescChain` models how a chain is read: `get_desc_rw_size` (`SizeStep`,
`SizeMixed`) and `memcpy_to_from_queue` (`Skip`, `Seek`, `Copy`, `CopyChunk`,
`NextPiece`, and their ends), one step per turn of a loop, from every table of
`N` descriptors, cyclic ones included. The reference is the chain laid out as
one sequence of bytes: `Chain`, the path of descriptors to the one without a
next, `Layout`, the bytes up to each of them, and `ReadEnd` and `WriteEnd`, where
the readable descriptors and the writable ones behind them end.

`Startup` follows `parse_opts`, `mvvm_init` and `mvvm_load_kernel` up to the
first `KVM_RUN`, with any options in any order and failures at every system
call. Sizes are in KB. A copy beyond the mapping ends in `overrun`. `hdr` holds
the fields of the boot parameters that tell the kernel where its command line
and its initrd are.

`Serial` models the 8250 and the keyboard thread. Register accesses are atomic
under `rx_lock`; `pthread_cond_timedwait` splits `write_to_serial`. IRQ 4 is a
line whose rising edge is latched. The guest driver is external; `steady` holds
until it reprograms the port (interrupt enable, divisor, FIFO and line control,
line status). `stored` and `got`, the characters put into the buffer and read
from it, are recorded while `steady`. `typed` and `handed` are the histories of keys read
and of characters passed to `write_to_serial`, both without the escape key.

`Lifecycle` models a run of the program: `main()`, the threads it starts, SIGTERM
and the guest module, and the teardown. What a thread does to an object is
reduced to touching it, one step per object or group of objects that it touches
without a pause: `queue_notify` is `TakeLock`, `ReadIndex`, then for each buffer
`ReadEntry`, `SubmitRequest` and `AssignTask` or `SendPacket`, `Consume`, and
`Unlock`, for the poll threads and for a worker that has completed a request;
reception is `RxRead`, `RxAsk`, `RxWrite`. So a thread may be anywhere in between
when `main()` frees something. Touching a dead object is recorded in `bad` with
the thread, and the process stops there. The variable `orderly`, chosen at the start, says
that the guest stops only by a poweroff with its I/O done and no packet arrives
afterwards.

`MCThreadPool`, `MCDescChain` and `MCStartup` hold the sets the configurations use.
Operators whose comment-free definition precedes the one they resemble (such as
`ExitWorkerBusy` before `ExitWorker`) are mutated versions of it: substituted
for the original, they must make a property fail. No specification uses them.

## The runs

| run | instance | shows |
|---|---|---|
| `pool_race` | 2 workers, 2 outside callers, 3 tasks, deletion at any time | the pool implements `TaskService`, refuses truthfully, drops nothing, never makes a caller wait for a task and frees no worker a caller is using |
| `pool_quiet` | 2 workers, 1 outside caller, no late calls, fair | calls, tasks and deletion come to an end |
| `blk_ring` | 4 reads, ring of 2, indices modulo 4, 2 workers, fair | no head taken twice or skipped, no completion lost, every read answered |
| `blk_faults` | 3 requests, reads and writes in conflict, a failing one, an ignored type, 1 reset, `Reorder` | rings stay intact, the device implements `BlockService`, a refusal needs a worker that has not cleared its flag |
| `blk_reorder` | 2 reads, `Reorder` | **violated**: a completion without an interrupt |
| `net` | 3 packets in both directions together, up to 2 different ones in each, two queues of 2, set up twice, the second time with rings above 4 GB, fair | both directions implement `LossyLink`; buffers have one owner; setting up again succeeds; the device walks a ring that is not there only on a transmit queue that is not ready; nothing is stuck |
| `chain` | every table of 3 descriptors of 0 to 2 bytes, offsets and counts to 3, pages of 4 bytes, buffers around the end of memory | sizes, accepted ranges and copied bytes are those of the flat chain; nothing a page past the end of memory is touched; copies end |
| `serial` | 3 keys, 2 bytes sent, registers reprogrammed at will, fair | while `steady`: characters in order and read, no transmit interrupt lost; always: keys kept, IRQ 4 never stuck high |
| `life` | disk, network, 2 workers, 2 events (SIGTERMs, buffers, packets), orderly or not, fair | if orderly, teardown touches nothing dead and SIGTERM ends the program; otherwise, which thread can find what gone; teardown ends unless one does or waits for an exited worker |
| `life_nodisk` | no disk, no network | **violated**: teardown dereferences a missing device |
| `startup` | 5 kernels, 4 initrds, 18 memory arguments, 6 command-line lengths, around every limit | memory slots, e820 map, image, registers, command line and device windows agree in every machine that starts |
| `startup_tap` | the same | **violated**: the interface opened is not the one named |

Bounds. Two workers and two ring slots are the smallest at which workers race
with each other and the ring is full; four requests make 2-bit indices wrap, as
16-bit ones do after 65536. In `net` only the available index of the receive
queue wraps; a second life of the device is what one needs for late kicks and
torn addresses, two packets in one direction what one needs to see them out of
order. `MaxPackets` bounds the packets of both directions together. With
`AnyHead = TRUE` the same properties hold on 1.1 million states, in ten minutes;
the theorems are about either choice. Three descriptors give every order of readable and writable
ones, a cycle of each length, and an empty descriptor between two others;
`HopLimit` (1024 in the code) need only be at least the length of a chain, and
`IntMod` (2^32) is small enough for the sums to wrap. The
buffers lie so that one crosses a page, one the end of memory, and one begins a
page beyond it.
`startup` samples the sizes next to each constant the code compares with, on
both sides; `UINT64_MAX` is 2047 GB there, the most TLC's integers allow, and
only the wrap of a subtraction and the overflow test of `-m` depend on it. Two
callers outside the pool and the workers themselves give three-way races for the
pool lock. In `life`, two events give one SIGTERM that interferes with the answer
to another, two requests of which one is taken by a worker that has completed
the other, or a request and a packet; the safety properties were also checked
with three (1.1 million states). `MaxEvents`, `MaxResets`, `MaxLives`, `MaxPackets`,
`MaxKeys` and `MaxTx` bound counters. In
`pool_race`, tasks and outside callers are symmetric; workers are scanned in
order and are not.

Fairness. Host threads keep being scheduled, disk transfers return, and the
guest takes its interrupts and finishes its handlers: weak fairness. A caller
that waits for a worker's lock gets it, by strong fairness, because an idle
worker sleeps 0.3 ms without the lock in every turn. `life` assumes that some
host thread that can go on does, which is enough since each ends up waiting.
Its packets are bounded, so 300 ms without one come eventually; the receiver
looks at `quit` only then, and under traffic that never pauses teardown would
not end. A guest told to power off does so. No submission,
key, signal, packet or reset is required to happen. The functions of `DescChain`
wait for nothing, so each runs on.

### Disagreements found

- `blk_reorder`: `virtio_consume_desc` needs a full barrier between the store of
  the used index and the load of the flags. Without it a completion can stay
  unannounced.
- `life_nodisk`: `mvvm_destroy` destroys both devices whether or not they exist,
  although `-d` and `-t` are optional.
- `startup_tap`: `mvvm_init` opens `vm0` (`mvvm.c:202`), whatever `-t` names
  (`main.c:288`).

Smaller ones, met while translating and not given a run: `-h` takes an argument
(`main.c:200`) although the usage text shows none; the comment at `mvvm.c:277`
places the initrd at 512 MB, the code at 192 MB; `virtio.c:235` announces a
fallback to MMIO exits and returns an error; the poll of `virtio.c:540` times
out after 300 ms, not the second its comment says.

Some properties are worded for what the code does. `OnlyUnreadyStrays`: a kick
served after a reset, or while the driver has written half of a ring address,
makes the device look for a ring at address 0 or at neither the old nor the new
address, because `queue_notify` does not test `ready` (the comment at
`virtio.c:667` asks whether it should). `CopyExact`: a copy into memory that does
not exist is reported as done, and a piece whose first byte is inside is copied
to its end, up to a page past the memory. `OverrunOnlyWhenSmall`: the
kernel is copied without a look at the memory size, so that with little memory
and no initrd the copy runs past it.

`GoneTooEarly`: `mvvm_destroy` unmaps guest memory before it stops any device
thread, frees the pool, its workers and both contexts before it stops the poll
threads, and frees each worker while others may still hand requests to it. A
guest that dies with I/O in flight can therefore make a thread touch any of
these. Device structures are the exception: they are freed after their poll
thread, and after the workers and the receiver, have ended. `DestroyEnds`: a
worker that has picked another one just before that one exits may wait for its
lock for good, and the join of the first waits with it. `BootImage`: an initrd of 4 GB
or more is announced with its size modulo 4 GB.

## The proofs

Every safety property of a passing run has a theorem. The theorems hold for
every value of the constants that satisfies the named assumptions of the module
(`PoolAssumption`, `BlkAssumption`, `NetAssumption`, `ChainAssumption`,
`SerialAssumption`, `LifecycleAssumption`, `MemArgsAssumption`,
`FilesAssumption`, `LengthsAssumption`); further hypotheses are given with the theorem.

| module | theorem | states |
|---|---|---|
| `ThreadPoolProofs` | `TypeCorrect` | `TypeOK` |
| | `Inductive` | the invariant `IInv` |
| | `CallersNeverWaitForTasks` | `NeverWaitsForTask` |
| | `ShutdownDropsNothing` | `AcceptedNotDropped` |
| | `RefusalsAreTrue` | `RefusedOnlyWhenFull` |
| | `PoolImplementsService` | the refinement of `TaskService` |
| | `HeldWorkersStay` | `HeldNotFreed` |
| `VirtioBlkProofs` | `HeadsAccounted` | `HeadInOnePlace` |
| | `CompletionsAnnounced` | `CompletionAnnounced`, if `~Reorder` |
| | `RefusalsOnlyByStragglers` | `RefusedOnlyByStraggler`, if `Num <= NumWorkers` |
| | `DiskImplemented` | the refinement of `BlockService` |
| `VirtioNetProofs` | `NetInvariant` | the invariant `NetInv` |
| | `BuffersOwned` | `OneOwner` |
| | `RoomKept` | `RoomStaysRoom` |
| | `StraysAreUnready` | `OnlyUnreadyStrays` |
| | `SetupNeverFails` | `SetupSucceeds` |
| | `ReceptionIsLink` | the refinement of `LossyLink` by reception |
| | `TransmissionIsLink` | the refinement of `LossyLink` by transmission |
| `DescChainProofs` | `SizesAreExact` | `SizesExact` |
| | `CopiesAreAccepted` | `CopyAccepted` |
| | `CopiesAreExact` | `CopyExact` |
| | `CopiesRunDown` | every step of a copy lowers a rank of natural numbers, on cyclic chains too |
| | `SumsRunDown` | every step of `get_desc_rw_size` goes on along a chain that ends, or leaves its loop |
| | `ReferenceIsTheChain` | a chain that ends has no descriptor twice and is the one the properties compare with |
| `SerialProofs` | `LineNeverStuck` | `LineNotStuck` |
| | `TxInterruptKept` | `TxNotLost` |
| | `CharactersInOrder` | `ReadInOrder` |
| | `EscapeCostsNoInput` | `KeysKept` |
| `LifecycleProofs` | `LifeInvariant` | the invariant `LifeInv` |
| | `NothingElseGone` | with any options, nothing is found dead but what `GoneTooEarly` lists and a device that was not asked for |
| | `FreedTooEarly` | `GoneTooEarly`, if there are a disk and a network |
| | `OrderlyTeardownSafe` | `NoDeadAccess`, if there are a disk and a network |
| `StartupProofs` | `MapsAgree` | `E820Backed` |
| | `OverrunsExplained` | `OverrunOnlyWhenSmall` |
| | `ImageIsBootable` | `BootImage` |
| | `DevicesServed` | `AnnouncedIsServed` |
| | `CmdlineNeverCut` | `CmdlineExact` |

The hypotheses are those of the code or of a run. The pool has as many workers
as the queue has entries (`VIRTIO_BLK_MAX_QUEUE_NUM` is both, `blkdev.c:164` and
`virtio.c:1063`). `~Reorder` is needed: `blk_reorder` shows what happens without
it. So are a disk and a network: `life_nodisk` shows that. `ChainAssumption` has
`HopLimit >= N`: 1024 against the 8 and 32 entries of `config.h`.

Hardly any of the properties is inductive. In each module the invariant has one
conjunct per idea, each conjunct a lemma showing that every step preserves it,
and each such proof a step per action that can disturb it.

*Thread pool.* `IInv` adds `LockInv` (each thread inside a critical section of a
worker's lock holds it, and only a running task's worker is itself a caller),
`BusyInv` (a worker with a task, or not yet done with one, is marked working and
no caller has picked it), `ClaimInv` (a caller past its test of `quit` is the
only one that has picked its worker, also after the pool lock has been broken),
`OpenInv` (before `quit` the pool lock works, so scans are accurate and claims
exclusive), `SlotInv` and `OfferInv` (the fate of a task agrees with the slot or
the call that holds it). For `HeldNotFreed`, `JoinInv` says that a worker that has
been freed had exited, and an exited worker holds its own lock for ever: a caller
past that lock has another worker.

*Rings.* `RingProofs` has the arithmetic that the two devices share. `Gap` is
how many entries lie between two indices that wrap, `Holds` says that a head is
among them, `RingOK` that no head is there twice and that as many heads are
missing as the ring has slots left (`Spare`, an enumeration of them, which each
operation changes in one place). `Push` and `Pop` say what adding an entry and
taking one does to these; that there is room for a head that is not in the ring
(`Room`) is what `Spare` says.

*Block device.* `HeadInOnePlace` counts. `PlaceInv` says instead that both rings
are `RingOK`, that no head is in two places and that none is missing, together
with what keeps this so: who is inside `s->lock` (`ThreadInv`), that a device
that is not set up is at rest (`OffInv`), and that the index a thread has
sampled is not past what the driver has offered (`TgtInv`), although the other
thread's loop may have moved the position in between. `QuietInv` says who will
still interrupt or look when entries are waiting and callbacks are enabled.
`ReqInv` ties the chains, and the requests in a thread's hand, to the histories
of the requests, which is what the refinement of `BlockService` needs. That a
refusal needs a straggler is a pigeonhole argument: the refused head is in no
worker's hand, so fewer heads than workers are left for them.

*Network device.* `NetInv` has the registers at each place of the driver's setup
(`RegsInv`, proved by following every register access through
`virtio_mmio_write` and `virtio_mmio_read`), the lock (`LockInv`), the rings
being empty and every thread out of the way from a reset to the end of the next
setup (`FallowInv`), `OneOwner` in terms of rings (`OwnerInv`), and the sampled
index (`TgtInv`). `RoomStaysRoom` and `OnlyUnreadyStrays` are inductive with
these. The last part shows the refinements: the packets on the link are those
in the buffers of the used ring and in the receiver's hand, or in the buffers
waiting in the available ring; every step sends one, delivers the first one,
loses some or leaves them (`RxLinkStep`, `TxLinkStep`). `LoadedPush` and
`LoadedPop` say what a ring operation does to that sequence.

*Descriptor chains.* `ChainInv` says at which descriptor `k` of the chain the
function is, and for each place in the code that what it has added up, still has
to skip or has copied is what the layout says for that `k`. It does so for
anything that is a layout of the chain (`Flat`) and its segment (`Seg`), so that
the step lemmas (`SizeStepOn`, `SkipOn`, `SeekOn`, `CopyOn`, `CopyChunkOn`,
`NextPieceOn`, ...) never look at how the reference is defined. That the
reference is such a layout for every table is `FlatRef`: running sums exist and
do not decrease, `Layout` satisfies its own recursive equation, and runs of
descriptors end. These need induction, which is taken in the form that a set of
natural numbers has a least element (`Least`): the library's induction rules have
an operator as parameter, this one has not. So does `ReferenceIsTheChain`, with
the pigeonhole principle for the bound `N` on the length. `ChainInv` is void on a
cyclic chain; `CopiesRunDown` is about all chains, from the types of the
variables alone.

*Serial port.* `LineInv`: the line is high only with an edge latched or inside
the handler, which ends by reading IIR. `TxInv`: a transmit interrupt is owed
only while enabled, so IIR goes from "received" to "transmit" and not to none.
`RbrInv`: data ready holds from the driver's look at LSR to its read of RBR.
`KeysInv`: the characters still to be written complete the keys typed.

*Life cycle.* `StageInv`: as long as nothing dead was touched, the place of
`main()` says which objects are live and which threads can still run
(`ObjectsHeld`, `ThreadsHeld`), and a worker with a task is waiting for it
(`TasksHeld`). `ClaimInv`: a caller at a worker's lock has picked a worker. What
a step touches is then live or on the list (`DeadInv`). `QuietInv`: after an
orderly poweroff every thread is idle and no kick is on its way, and it stays so,
because only a kick, a task or a packet gives a thread work.

*Start.* `MapInv` says that slots and table are those of the memory size once
they have been computed, and that a running machine has at least 1 MB, which is
what the copy of the kernel leaves behind; the rest is a split on where the size
lies relative to the reserved pages. `LoadInv` collects what the checks passed
so far guarantee: an initrd has been compared with the memory size, and lies so
high that a kernel of accepted size fits below it. `HdrInv` says which header
fields have been written. `BlobInv` says what has been
loaded where at each stage, `DevInv` which devices have been made and announced.

Only model-checked is liveness: `AcceptedRuns`, `CallReturns`, `DeleteFinishes`,
`RequestsAnswered`, `NothingStuck`, `Terminates`, `CharsRead`, `DestroyEnds`,
`SigtermExits`. The
prover handles neither fairness nor `ENABLED`. `CopiesRunDown` and `SumsRunDown`
are the part of `Terminates` that can be stated without them.

## Not modelled

- `virtio_config_write`: no driver writes the configuration space. Register
  accesses that are not 4 bytes wide read 0 or do nothing and are left out.
- In the block device: a reset with requests outstanding (see `Reset`), sizes,
  sector numbers and capacity, with the `abort()` on malformed requests. `DescChain` covers how chains are read, and a head
  stands for its request.
- A descriptor table outside guest memory, and lengths of 2^31 and more, where
  the code mixes signed and unsigned.
- Adding up the sizes of a cyclic chain, which does not end: `DescChain` takes
  the steps, and the properties are about chains that end.
- The descriptors of the disk image and of the TAP device, which nothing closes.
- In `Startup`: sizes below a KB, an initrd that reaches the reserved pages
  (`BootImage` excludes it), device windows with more than 1 TB of memory
  (`AnnouncedIsServed` excludes it), how `strtoull` reads digits, and the
  registers other than `rip` and `rsi`.
- The masking of SIGTERM around `KVM_RUN`, and terminal settings: they change
  nothing the modules look at.
- `pthread_cond_timedwait` failing because `tv_nsec` passes one second: the
  worker spins with its lock until the second is over, which changes no
  modelled variable.
- The end of file on standard input, at which the keyboard thread spins.
- Failing allocations.

## Plan

Next: a second sector in `VirtioBlk`; ranks like that of `CopiesRunDown` for the
other liveness properties.
