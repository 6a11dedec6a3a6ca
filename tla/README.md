# Yakumo in TLA+

Yakumo recompiles a PSP game to native code and runs it on a host that stands in
for the PSP's kernel, libraries and devices. This directory specifies the parts
of the repository whose correctness depends on the *order* of things: which
thread runs, who is woken by what, when time passes, what a queued call finds when
it runs at last, what the two ends of a connection believe of each other, what the
GPU still reads while the next frame is recorded, what a crash leaves on disk. Paths below are relative to the repository;
`host/` is `profiles/mhp3rd/host/`.

Contents: [the system](#the-system), [hazards](#what-is-hard),
[the modules](#the-modules), [the runs](#the-runs), [fairness](#fairness),
[the proofs](#the-proofs), [findings](#findings),
[what is not modelled](#what-is-not-modelled), [the plan](#the-plan).

## The system

One host thread runs the guest: recompiled units (or the interpreter) work on the
one `AllegrexContext`; an import stub calls an HLE function, which runs to its end;
and at *starvation boundaries*, every so many dispatched units, the kernel looks
at its timers. Helper threads of the host (audio, network, install, movie) talk
to it through queues and answers that are polled. Beside it run the network thread
of the ad hoc client, the server (in the same program on one of the consoles, or
alone), and the GPU, which draws what was submitted while the next frame is being
recorded.

| Component | Source | State it keeps | Operations | Interacts with |
|---|---|---|---|---|
| Runtime dispatch | `src/runtime.cpp`, `include/psprecomp/runtime.hpp` | thread-switch generation, counted work, chain depth, `chain_context_invalidated_` | dispatch a unit or import, inline calls (`invoke_chained_*`), `account_dispatch_work` | calls the kernel at boundaries and in imports; the kernel replaces the context under its frames |
| Kernel scheduler | `host/kernel/kernel.cpp`, `host/hle/hle_threadman.cpp` | threads (status, wait, priority, wakeups), run queue, current thread, masks, virtual clock, next vblank | thread calls, `block`, `finish`, `schedule`, `on_starvation`, `process_timers`, `wait_host` | every HLE call ends in `finish` or `block` |
| Semaphores, event flags, mutexes | same files | value and FIFO of waiters per object | create, delete, wait, poll, signal or set or unlock | waiters are scheduler threads; timeouts and terminations take them out |
| Interrupts, VTimers, callbacks | `kernel.cpp`, `host/hle/hle_system.cpp` | `pending_interrupts_`, timers, callbacks, sub-interrupt handlers | queue, begin, return, notify, deliver | run over the interrupted thread's context |
| Partition memory | `kernel.cpp` `allocate_block`, `free_block` | free ranges, blocks | allocate low, high or at an address; free | thread stacks and the game's heaps |
| Decoder, interpreter, ELF loader, analysis, code generator | `src/`, `tools/` | tables of a module being read | translate, execute | offline, or one instruction at a time |
| Overlays | `host/overlays.cpp` | which overlay is loaded where | load, replace, look up | unit registration of the runtime |
| Adhoc client | `host/adhoc/client.cpp`, `host/hle/hle_adhoc.cpp` | the wanted group, what the server confirmed of it, peers, events for the game, stream and datagram sockets | start, join, leave, reconnect, log in, hear notices; open, listen, accept, send, close | TCP connections to the server; the HLE waits with `wait_host` and queues matchmaking interrupts |
| Adhoc server | `host/adhoc/server.cpp` | players, groups and their hosts, sessions of the relay and their partners | log in, join, leave, expire, offer, pair, pass on | the clients' connections |
| Adhoc discovery | `host/adhoc/discovery.cpp`, `host.cpp` | what was heard | announce, list | menus |
| Save data | `host/save_data/`, `host/hle/hle_savedata.cpp` | a folder with a data file and PARAM.SFO, backups | save, load, delete, import, back up | utility dialogs, menus |
| Audio | `host/audio/`, `host/hle/hle_atrac.cpp` | sample queue, voices | push, mix | the host's audio thread; `wait_host` |
| Movie, display, GE, I/O, fonts | `host/movie/`, `host/hle/`, `host/gpu/` | decoders, lists, files | decode, submit, read | GE and I/O completion through interrupts and callbacks |
| Utility dialogs | `host/hle/hle_utility.cpp` | a status the game polls | start, update, shut down | save data, menus |
| Fast loading, fast forward | `host/kernel/fast_*.cpp`, `load_detector.cpp` | detector state, switch | observe, decide | real-time pacing of the kernel |
| Renderer | `host/gpu/vulkan_renderer.cpp`, `ge_state.cpp` | slots of frames in flight with their fences, vertex regions, texture cache and what was evicted from it, the last two frames recorded for drawing again, pictures on their way to guest memory | begin and submit a frame, draw, read back, flip, present between flips | the GPU's queue; display flips; the menus |
| Installation, settings | `host/install/` | image, executable, settings file | set up, copy an image, write settings | start-up and menus |
| Mods, text | `host/mods/`, `host/text/` | files, libraries | import, overlay | start-up and menus |
| Input, camera, UI, game data, debug tools | the other directories of `host/` | per-frame state | poll, draw | the display's frame |

For each of the modelled components, what makes it correct:

- **Scheduler.** One thread runs; each runnable thread is in the run queue once;
  the most urgent one has the CPU unless dispatching is suspended; equals take
  turns; a wait ends at its deadline; a wakeup is not lost; the idle loop ends, and
  a deadlock is reported only when nothing would end it.
- **Objects.** A waiter is in its object's queue exactly as long as it waits; each
  release takes exactly what the released thread asked for; nobody waits for what
  is there; a lock passes in queue order and nobody wakes without it.
- **Dispatch.** A native frame never runs on over another thread's registers;
  boundaries come at the rate work is done.
- **Interrupts.** A timer does not fall silent; a notification is heard once.
- **Memory.** Each byte is in one block or one free range; free ranges coalesce.
- **Adhoc groups.** What a client believes of its group is what the server has, once
  the messages under way have arrived; a player is known once; a join is settled; a
  group lost with its connection is regained or given up, and the game hears which.
- **Adhoc streams.** Streams on the same ports are not mixed up: a socket receives
  what one peer sent, in order and from the start; attempts end; a close gets through.
- **Frames.** Nothing the GPU may still read is destroyed or written over; no wait is
  for a fence nobody will signal; pictures reach guest memory finished and in order.
- **Storage.** A crash or a failure at any step leaves an installation that can start
  or none, and does not cost a whole save.

## What is hard

`PROJECT.json` lists every hazard at its line, with the properties that cover it.
In short: HLE calls are atomic, but guest threads, handlers, the clock and the
host's answers interleave between them in any order, and one call may wake, time
out, terminate or preempt several threads at once. The places that have to agree
are spread: a thread's status, the run queue, an object's queue and the context of
native frames are each written by a dozen functions. In the ad hoc code two
programs keep the same facts (who is in the group, which connections belong
together) and learn of a broken connection at different times. The renderer
decides about memory the GPU will read later, for frames and for presents that
draw an older frame again. On disk, operations of several steps may be cut off
between any two and started over differently. Unit tests exercise these functions
one by one; what they hardly reach is sequences over several threads, timeouts
that coincide with releases, connections that break at the wrong moment, and
switches under nested native calls.

## The modules

| Module | Models | Uses |
|---|---|---|
| `Scheduler` | threads, waits, virtual time, vblank, masking, interrupt context | |
| `Semaphores`, `EventFlags`, `Mutexes` | one kind of object each, over the whole of `Scheduler` | `Scheduler` |
| `CountingSemaphore` | abstract specification: what a semaphore promises to its clients | `MachineIntegers` |
| `MachineIntegers` | the 32-bit integers of counts and arguments, for `Semaphores`, `CountingSemaphore` and `Mutexes` | |
| `Interrupts` | the interrupt queue with what is in it: vblank handlers, VTimers, callbacks | |
| `DispatchChain` | run loop, inline call chains, work accounting | |
| `UserMemory` | the partition allocator with 32-bit arithmetic | |
| `Adhoc` | group membership: one client, its connections, the server, other players | |
| `AdhocStreams` | stream sockets of two clients and the relay that pairs them | |
| `Frames` | frames in flight, presents between flips, textures, write-back | |
| `Storage` | save folder, its transfers, installation and settings, with crashes | |
| `MC*` | constants for TLC | the module after the prefix |
| `Scheduler_proofs`, `Adhoc_proofs`, `AdhocStreams_proofs`, `Storage_proofs`, `Frames_proofs` | theorems; `Scheduler_proofs` begins with lemmas about sequences (append, concatenate, remove, enumerate a set, recursion along a sequence, a sequence less its first entries) and sums over finite sets | the module before the suffix |
| `Semaphores_proofs` | theorems | `Semaphores`, `CountingSemaphore`, `Scheduler_proofs` |
| `FlagsAndMutexes_proofs` | theorems | `EventFlags`, `Mutexes`, `Scheduler_proofs` |
| `Runtime_proofs` | theorems | `DispatchChain`, `Interrupts`, `UserMemory` |

### Scheduler

State is named after the code (`status`, `wait`, `current` for `current_uid_`,
`dispatch` for `dispatch_enabled_`, ...). Three abstractions keep it finite and
short:

* The run queue `ready` stands for `Thread::ready_sequence`: the ready threads in
  the order in which they became ready. `best_ready_thread` picks the first of the
  most urgent.
* Time is relative. A wait stores the time *left* until its deadline, in
  starvation quanta of 1000 us; `vblankLeft` is the time to the next vblank. The
  clock only moves in two places: a quantum at a starvation boundary, and to the
  next event in the idle loop.
* Only the number of queued interrupt calls is kept; `Interrupts` has what is in
  the queue.

There is one action per ThreadManForUser call, each ending like the code in
`Finish` (which begins an interrupt or reschedules) or `Block`. `Starvation` is
`on_starvation`, `Schedule` one turn of the loop in `schedule()`, `InterruptReturn`
the return stub of a handler. A call made by a handler acts, as in the code, for
the interrupted thread. `wait_host` is a wait whose end the host may announce at
any poll. Loops over `threads_` go in order of uid, as in a `std::map`.

The register contexts and stacks are left out (`DispatchChain` is about who may
use the context), as are `pace_to_real_time` (it sleeps, and changes no kernel
state) and `call_guest`.

### Objects

Each of the three modules adds the objects' values and calls to `Scheduler`, in
which `waiters` is already the queue of every object, because timeouts and
terminations act on it. Object calls are made while everything else the scheduler
does goes on: `Next == Calls \/ (SchedNext /\ UNCHANGED objectVars)`.

`sceKernelSignalSema` looks neither at the sign of its count nor at an overflow. So
signals are any 32-bit integers: one of 0 retries the queue, a negative one takes units
away and may leave the count below 0, and a sum that leaves the word is undefined in
C++ and wraps in the builds (`Wrap`; a compiler that tested the sum without wrapping
would refuse the signal, which no property minds). `IntLimit` stands for 2^31.

`CountingSemaphore` knows nothing of threads, queues or time: there are units and
outstanding claims; a claim may be granted, withdrawn or left, and a signal adds
units, or takes some away, and grants some claims with units that are there.
`KeepsPromises` shows that every semaphore of `Semaphores` implements it, with `claims`
read off the waits of its threads, and that a signal of `n` supplies `n` units, neither
more nor fewer, but for a sum that wraps.

`sceKernelCreateMutex` stores any signed count and sets an owner only for one above 0.
A mutex created with a negative count is locked by nobody: no unlock is accepted, and
who locks it waits until its deadline, its end or the mutex's. `LockConsistent` says
what remains true. Recursive locks are bounded by `IntLimit`; the code does not look
at their sum, and one that overflows is left out.

### Interrupts

`Scheduler` counts calls; here they are records with a kind, an id and an amount.
Which thread has the CPU is arbitrary. A VTimer's schedule is kept relative to its
own clock. The clocks themselves, which handlers read from shared scratch memory,
are not kept. `told` and `heard` are history variables. The deletion of a VTimer is not there: the code keeps timers until it ends, so
they are created in `Init`.

### DispatchChain

`frames` is the native call stack with the generation at which each frame was
entered. A boundary or an import may replace the context (`generation`). A frame
returning into a caller that lost the context unwinds it as well; a direct chain
notices through one flag, a dynamic one through the generation.

### UserMemory

Ranges are records of address and size; additions wrap at `Space`, which stands
for 2^32; `Granule` for the 256 bytes of an allocation. An allocation picks the first
free range with room, or the last for the high types; what is carved, though, is the
first free range that holds the block, as in the code, which searches twice.

### Adhoc

The client's network thread and the game's calls meet at the client's mutex, so
each locked section is one action. The variables of the client carry the code's
names (`wanted` for `wanted_group`, `joined`, `connected` for `game_connected`,
`joining` and `lost` for whether `join_started` and `lost_since` are set). A
connection is a number; `up[k]` and `down` hold the packets under way, `session[k]`
is the server's end. Either end may find a connection broken at any time, without
the other: `LoseCtl`, `ServerDrops`, and `WriteFails`, in which the server's own
write marks the connection dead. Packets sent before may or may not still arrive,
because the server may serve any number of them first. Times are not kept: a
timeout is a step that may be taken whenever what it times is pending, which covers
every length of the grace period and every clock. Start covers a restart with a new
identity; `NetconfInitStart` the three ways the dialog's call ends. Other players
join, leave and are dropped at will. What a server keeps of groups nobody listens
to and what is sent on connections the client dropped is not kept.

### AdhocStreams

One player opens streams, again and again, from one address and port to one address
and port of the other, who listens and accepts. That is the case in which the
server could mix streams up, because it pairs them by addresses and ports alone.
Relay connections are keys, `kind` and `partner` what the server keeps of them,
`toServer` and `toClient` the two directions. A block names its sender and its
number, so `InOrderFromOne` compares what was received with what one peer sent. A
connection breaks for the client (`Breaks`), the client closes it (`Close`,
`LoseGroup`), the server notices (`Eof`) or gives up (`Expire`).

### Frames

`queue` is what the GPU has not finished; each entry has a fence, the textures and
the vertex regions its commands read, and the regions the renderer notes for it.
A wait for a fence removes everything up to its entry, because the queue runs in
order. A record (`current`, `newer`, `older`) keeps the textures and regions that
its draws name and those textures evicted since, from which `textures_kept` is
decided. An evicted texture goes into a list of its slot, as in the code's default;
the branch beside it (`vulkan_renderer.cpp:4678-4683`), which waits for the queue and
destroys the texture at once, is taken only under the diagnostic switches for
synchronous uploads (`MHP3RD_SYNC_UPLOADS`, alternation) and is left out. Whether a frame is interpolated is asked each time, because settings,
fast forward and the governor change it between any two handlers. Left out: what is
drawn, the textures' contents, render targets and their pictures beyond their age,
the pacing that decides when a present is due (here: at any time), device loss.

### Storage

A step is one rename, one removal or one file copied; `op` holds the operation
under way with its arguments. `Stop` is a crash between any two steps; failures
that the code undoes are steps of their own. A save folder is two files, each with
the save it comes from; a folder whose files disagree does not load. Files are
written beside their target and renamed over it, so a single file is old or new,
with the exception the code has, in two places: `write_settings_file` looks for errors
before the last bytes are written, and a short file may take the place of the good one
(`torn`); `write_file` of `savedata_store.cpp` does the same (line 42), which is not in
the model, and no property depends on it.

## The runs

Sizes are distinct states. All bounds are constants of the `.cfg`.

| Run | Checks | Bounds and why they are enough | States |
|---|---|---|---|
| `scheduler` | `SchedTypeOK`, `RunQueueExact`, `UrgentThreadRuns`, `NoOverdueWait`, `NoLostWakeup`, `DeadlockIsReal`, `CpuLostOnlyByRule`, `EqualsTakeTurns`, `TimedWaitsEnd`, `InterruptsAreTaken` | 2 threads at 2 priorities, handlers that may wait, delays 0 to 2 quanta, a vblank every 2, one idle vblank allowed, one wakeup stored, 2 queued calls. Preemption, a tie and every pair of events in one turn of the timers need two threads; the theorems below cover any number. Delays end before `IdleVBlankLimit` vblanks, which the code's five minutes also assume. | 316,752 |
| `semaphores` | `CountInBounds`, `QueuesExact`, `SignalReleasesAll`, `KeepsPromises` | 3 threads so that two queue behind each other while one signals; counts to 2; requests of 1 and 2 and signals of -1 to 2 so that a signal may satisfy the first, both or none, or take units away; words of -4 to 3, so that sums wrap in both directions; no interrupt handlers, whose signals are the same steps over an interrupted thread (the theorems include them) | 1,595,968 |
| `event_flags` | `NoMatchingWaiter`, `BitsPayOnce`, `ClearedBitsAreGone` | 2 bits, 3 requests that overlap (all bits and clear them, any bit and clear all, one bit and keep), both attributes | 2,250,000 |
| `mutexes` | `LockConsistent`, `FifoHandover`, `WokenWithLock` | 3 threads, lock counts of -3 to 2: partial unlocks, a queue of two, mutexes created free, locked and with a negative count | 1,715,128 |
| `dispatch_chain` | `NoStaleResume`, `NoBacklog`, `BoundariesKeepComing` | 3 nested frames, an interval of 4, 3 switches: a frame's thread may leave, come back and leave again | 566 |
| `user_memory` | `ExactTiling` | 10 granules, up to 5 blocks of 1 to 4 granules, 2 alignments, 2 fixed addresses: both neighbours of a freed block may be free or not | 7,619 |
| `interrupts` | `NoSilentTimer`, `NotificationsHeardOnce` | one timer, one callback, one vblank handler, 2 queued calls per timer, 2 notifications | 74,628 |
| `adhoc` | `MembershipAgrees`, `OneLoginPerMac`, `JoinIsSettled`, `LossIsSettled` | 2 groups, so that a confirmation of one may come when the other is wanted; 1 other player, who comes and goes; 2 logins, so that an old session lives on beside a new one; 3 requests, 2 notices and 2 events under way | 649,352 |
| `adhoc_loss` | `LossIsTold`, violated | as above | |
| `adhoc_streams` | `PairsAgree`, `InOrderFromOne`, `OpeningEnds`, `CloseReachesPeer` | one connecting socket with a retry, two accepts, 5 relay connections, so that an attempt, its retry and both accepts are at the relay together; one fault; 2 blocks; a queue that holds one block | 301,584 |
| `frames` | `NothingInUseIsDestroyed`, `NoFenceForgotten`, `RegionsApart`, `WriteBacksInOrder` | 2 slots and 2 present slots as in the code, 2 textures and room for 1, so that each new one evicts the other; 1 buffer; ages to 2 | 2,984,406 |
| `storage` | `InstallationUsable`, `OldGivesWayToNew` | 2 saves by the game and a foreign one, 2 backup names, 1 image outside | 1,740,000 |

`TypeOK` of each module is the first conjunct of one of its invariants.

The runs of `Adhoc` and `AdhocStreams` do not check for deadlock: logins and
connections are bounded, and when they are used up and all is closed the system
stands still, as it would with nobody calling. Every other run checks it.

In the runs with objects all threads have the same priority: who preempts whom is
`scheduler`'s question, and an order among equals still arises from the boundaries.
They take `HandlersWait = FALSE`: an object call that would wait inside a handler
leaves a stale queue entry in the code (it queues the caller before `block`
refuses); no document of the repository promises otherwise, so it is a hazard with
a note and not a finding.

Every property of a passing run has a mutant in `PROJECT.json`: a plausible bug in
a mapped definition (a dropped guard, a forgotten reset, the wrong end of a queue)
under which TLC finds the property violated with the run's own configuration.

## Fairness

* `WF(Schedule)`: with no thread on the CPU the host loops in `schedule()`.
* `WF(InterruptReturn)`: handlers are finite; they are the game's, and nothing else
  runs until they return.
* `SF(Starvation)`: guest code that keeps running meets boundaries. Strong, because
  `account_dispatch_work` counts over calls, imports and thread switches alike, so
  a thread that calls the kernel again and again does not keep its boundary away
  for good, although every such call makes `Starvation` momentarily a different
  step. What the code does not guarantee is that a *unit* returns: a backward
  branch inside one unit charges nothing, and a guest that spins there is never
  preempted. Both modules assume it does not.
* No fairness of the guest's calls: a thread may do nothing, or the same thing,
  for ever.
* `DispatchChain` has `WF(Next)`: the runtime goes on.
* `Adhoc`: weak fairness of the network thread's own steps (`CloseCtl`, `Hear`), of
  its two timeouts (`JoinTimesOut`, `GraceEnds`: time passes and the thread looks at
  it in every turn of its loop), and of `PumpEvents`, which the vblank hook calls.
  None of `LogIn`: a server may never be reached again. None of the server.
* `AdhocStreams`: weak fairness of *some* step of the network threads and of *some*
  step of the server's loop, which is what a thread that loops over its sockets
  gives; with more than one socket ready it says nothing about which. `Expire` is
  among them because the server's timeouts pass. None of the games' calls.
* `Frames` and `Storage` state safety only.

## The proofs

TLAPS checks all of them; nothing is assumed besides the `ASSUME`s on constants,
which TLC evaluates in the runs. For `Scheduler` these say that there are finitely
many threads with uids above 0, that priorities and delays are natural numbers and
that a vblank period has at least one quantum.

**Scheduler** (`Scheduler_proofs`), for any set of threads, priorities, objects,
delays and bounds:

| Theorem | States |
|---|---|
| `SchedTypes` | `SchedSpec => []SchedTypeOK` |
| `RunQueueIsExact` | `SchedSpec => []RunQueueExact` |
| `NobodyOverdue` | `SchedSpec => []NoOverdueWait` |
| `MostUrgentRuns` | `SchedSpec => []UrgentThreadRuns` |
| `CpuLostByRule` | `SchedSpec => CpuLostOnlyByRule` |
| `NoWakeupIsLost` | `SchedSpec => []NoLostWakeup` |
| `DeadlocksAreReal` | `DelaysFit => (SchedSpec => []DeadlockIsReal)` |

None is inductive alone. That a deadline never runs below zero needs `NoOverdueWait`
when a quantum passes, and that `d` is the *least* of the event times when the idle
loop moves on; that the run queue holds nobody twice needs that a thread woken by
the vblank is not also overdue, and so that vblank waits have no deadline; that the
idle count stays within its bound needs that a vblank is only due while the idle
loop may still count one. The inductive invariant `SchedInv` is the conjunction

    ThreadsFit   the run queue is exact, `current` alone is Running, vblank waits
                 have no deadline
    CallsFit     types of what calls set
    IntrFits     types of the interrupt state, and the bound on the queue
    ClockFits    guest code runs only between a processed vblank and the next, and
                 with nobody overdue; a vblank is due only within the idle limit

The argument follows the code. Handlers differ in the threads `(st, wt, rdy)` they
hand over, but all end in one of a few functions, so there is one lemma for each of
these: `KeepFit`, `SwitchFit` (`switch_to`), `RescheduleFit`, `FinishFit`
(`Kernel::finish`), `BlockFit` (`Kernel::block`), `PreemptFit`. Each concludes
`StepFits`: the invariant holds afterwards, the most urgent thread runs, and if the
CPU was lost it was by the rule. Beside them are lemmas about what handlers hand
over (`WokenFit`, `EndedFit`, `TerminatedFit`, `RequeuedFit`, `AgedFit`,
`TimersFit`), and the step lemmas then have one step per call. The lemmas about
`Finish` and `Block` do not depend on the caller, so that the object modules can
cite them for their own calls.

What a step does to the waits has one form too. `EndsWaits(E, D, wt)` says that the
waits of the threads in `E` end, that those in `D` among them leave the queue they
stood in, that whoever waits afterwards and did not before has just begun to, and
that the other waits go on as in `wt`. `SchedulerShrinks` shows it of every step of
`Scheduler`, with the queue entries it takes away (`QueueFacts`); the object modules
take their steps from it. `NoWakeupIsLost` needs in addition that only a caller's
own sleep begins a wait, and with no wakeup stored, and that a wakeup is stored only
for a thread that does not sleep.

`DeadlocksAreReal` is about time. The idle loop gives up after `IdleVBlankLimit`
vblanks with nothing to run. `IdleTime` is the time since the first of them, and
`IdleFits` adds to the invariant that what any deadline has left and `IdleTime`
together stay within `IdleVBlankLimit * VBlankPeriod`: both move by the same amount
in a turn of the loop, and no wait begins in it. When the count reaches its limit no
time is left to any deadline, so whoever had one has been woken. This needs
`DelaysFit`, that no delay asked for is longer than the limit. The code has the same
limit, five minutes of vblanks; a longer delay with nothing else going on does end
there in a report of a deadlock, and the theorem would be false of it.

`Drop` is a recursive function, so its lemma first shows by induction that the
recursion has a solution (`KeepsExists`), with `NatSetInduction`, an induction rule
about a set in place of a predicate; so are the other recursive functions of the
kernel modules, by way of `RecursionSolved`.

**Semaphores, event flags and mutexes** (`Semaphores_proofs`,
`FlagsAndMutexes_proofs`), for any threads, objects, maxima, signals, bits and requests
within their `ASSUME`s. These say what the calls refuse (a request of 0 or less, a
maximum of 0 or less, a request for no bits) and that counts, signals and maxima are
integers of a word, of whatever width; signals may be 0 or negative:

| Theorem | States |
|---|---|
| `SemaQueuesExact` | `~HandlersWait => (Spec => []QueuesExact)` |
| `CountsInBounds` | `~HandlersWait => (Spec => []CountInBounds)` |
| `SignalsReleaseAll` | `~HandlersWait => (Spec => SignalReleasesAll)` |
| `SemaphoresKeepPromises` | `~HandlersWait => (Spec => KeepsPromises)` |
| `NobodyMatches` | `~HandlersWait => (Spec => []NoMatchingWaiter)` |
| `NoBitPaysTwice` | `~HandlersWait => (Spec => BitsPayOnce)` |
| `ClearedBitsGo` | `~HandlersWait => (Spec => ClearedBitsAreGone)` |
| `LocksConsistent` | `~HandlersWait => (MutexSpec => []LockConsistent)` |
| `LocksHandedOver` | `~HandlersWait => (MutexSpec => FifoHandover)` |
| `WokenThreadsOwn` | `~HandlersWait => (MutexSpec => WokenWithLock)` |

The hypothesis is the one of the runs: handlers do not call functions that may wait.
It is needed. A handler's `WaitSema` queues the interrupted thread before `block`
refuses to let it wait, and the entry stays; a handler's `LockMutex` acts for the
interrupted thread. Handlers may still signal, and interrupt anything.

`SemaInv` is `SchedInv` with `QueuesExact`, the types of the counts and their bounds,
and that what waits asks for 1 to the maximum of a semaphore that lives. With the
queue exact every entry is a waiting thread and stands once, so that a signal that
releases `k` threads releases the first `k` entries, and what remains of the count is
the count less the sum of their requests (`SumOver`). The upper bound of the count has
three cases. If nobody waited, the count is the sum that the signal was tested with. If
all waiters are released, each took at least one unit, so that there were at least as
many units as waiters, the test did not wrap, and it counted on just that. If one
stays, less remains than it asks for, and it asks for no more than the maximum. The refinement maps each kind of step: creation to
`Make`, deletion to `Destroy`, `SignalSema` to `Supply` of the released threads,
`TakeSema` to `Take`, `WaitSema` to `Claim`, and every other step to a `Withdraw` of
the claims whose waits it ends, or a stutter if there are none.

`FlagInv` says of the threads that wait what `NoMatchingWaiter` says of the queue's
entries: their requests do not match. A clear or a timeout keeps it because what does
not match does not match fewer bits (`FewerBits`); a set because of what the loop of
`release_event_flag_waiters` has after any of its turns (`Looped`): what was kept does
not match what is left, and what is left has nothing that a woken thread cleared. Hence
a later thread that wants all its bits finds none of those that paid an earlier one.

`MutexInv` is `SchedInv`, `QueuesExact` and, for each mutex, what `LockConsistent` says of
it with the range of what its waiters ask for. A mutex may be created with any integer of
a word; no lock is taken past the word's limit. As the queue is exact its first entry
waits, so that an unlock hands over to exactly this one and drops no entry on the way.

**DispatchChain** (`Runtime_proofs`), for any interval, depth and number of
switches: `ChainTypes`, `NeverStale` (`NoStaleResume`) and `NeverBehind`
(`NoBacklog`). The invariant `ChainInv` adds to the types that frames are entered in
order of generation and no later than now, that a flagged or moved-on chain has no
frame at home to return into (`HomeOrAway`: while running all frames are at home,
and once the context has left none of them is), and that work is below the interval
by at least what the frames will still count (`WorkFits`).

**Interrupts** (`Runtime_proofs`), for any set of threads and any finite sets of timers,
callbacks and sub-interrupts: `TimersGoOn` (`NoSilentTimer`) and `CallbacksHearAll`
(`NotificationsHeardOnce`). The invariant `IntrInv` says of timers also that no schedule
is later than `Never`, so that time never turns a schedule into none (`TimersFit`); and of
callbacks that a deleted one was handed no more than it was told of, so that one that
was told nothing starts even (`HeardFits`). Every step puts some queue of calls into
place and begins its first call or none (`Moved`): what the queue hands over is then
queued or heard. What a queue hands over is a sum along it; that the sum of two queues
is that of both, that one call of each callback adds its amount, and that late calls hand
over the same, are lemmas by the well-foundedness of the numbers (`CountingUp`).

**UserMemory** (`Runtime_proofs`), for any partition, granule, sizes, alignments and
addresses: `NoByteIsLost`, `RequestsFit => (MemorySpec => []ExactTiling)`. The
hypothesis is that no 32-bit sum of a request wraps (`Space` is 2^32 in the code and the
partition ends at 0x0C000000, so it admits sizes of 2 GiB with alignments of 1 GiB);
without it the theorem is false of the code, see the finding about `kernel.cpp:773`.
The instance of the run meets it (`ASSUME` of `MCUserMemory`). `ExactTiling` counts
places; the invariant (`MemoryInv`) says it without counting:

    FreeApart    any two free ranges are in order, with a byte between them
    BlocksApart  no byte is in a block and a free range, or in two blocks
    NoByteLost   every byte of the partition is in one of them

and that all are whole granules inside the partition (`Proper`). Whatever replaces
entries of the free list (`Spliced`) holds the bytes of its parts (`SplicedBytes`) and is
in order if they are (`SplicedOrdered`). A freed block goes where the addresses say
(`PositionFacts`), and may then touch the range on either side; `Ordered` carries
the set of places where two ranges may touch, two of them after the insertion, and
each join removes one (`JoinedFacts`). That the second search of an allocation
carves the range the first one found, or at least one that has all its bytes, follows
because free ranges are apart (`CarvedFacts`).

**Adhoc** (`Adhoc_proofs`), for any groups, finite set of players and bounds:
`LoggedInOnce` (`OneLoginPerMac`) and `MembershipIsAgreed` (`MembershipAgrees`). The
invariant of the first adds that every connection has a session of a known kind,
without which the update of all sessions at a login could miss one; the steps are
those that make a connection, close one, or leave sessions alone, and the login
itself. Membership speaks of a client that has nothing under way, and is inductive
only with what is said while something is (`MemberInv`):

    SessionsKnown  a login is the first request of a connection and its only one, and
                   a session is in no group before it or after the connection closed
    Asked          the last request under way on the connection in use is for the group
                   the client wants; if none is, the server has the client there
    PeersFit       everyone in that group is a peer, or will be once the notices under
                   way have been heard: a notice that announces him is followed by
                   none that he left
    Listed         a group somebody is in has a host entry, and never two

A step that closes connections or serves a request may send several notices in one
go. `ToBe` says of one player what a queue of notices comes to, and a lemma for
each kind of notice says what appending it changes; the rest is which notices a
leave, a join and a close send (`LeftFacts`, `JoinedFacts`, `SendsFacts`).

**AdhocStreams** (`AdhocStreams_proofs`), for any sockets, retries, limits and numbers
of connections, losses and blocks: `StreamsPairUp` (`PairsAgree`) and `StreamsInOrder`
(`InOrderFromOne`). What a socket received says nothing of what it will receive; the
invariant (`StreamsInv`) takes in all that is under way:

    SocketFit  what a socket received, what is on its way to it and what its partner's
               session holds are, one after the other, the beginning of what one peer
               sent (`FromEnd`); and as long as that peer has its connection they are
               all it sent, so that its next block fits behind
    OutFit     what a session holds before it is paired is all that its socket sent,
               behind the record it began with
    OpenFit    a socket that is still opening hears the notice before any block, and is
               sent one as soon as its session has a partner
    UnsentFit  a socket that may get a connection has sent and received nothing

With `PairFit`, `KindFit` and `LinksApart` (partners have each other, sessions are of
their sockets' kinds, no two sockets share one) these are inductive: a retry starts a
new session with nothing sent, a session that ends gives up what it held and leaves a
beginning, and a block that moves on changes its queue and not its place (`MoveOn`). A
connection that breaks loses what was on its way to the socket and nothing is read
after, so that there is no gap. One lemma (`RelayKeepsInv`) reduces a step of the relay
to the sessions it touches, one (`UnlinkKeepsInv`) covers all ways to lose a connection.
The theorems need both sides to have sockets at all.

**Storage** (`Storage_proofs`), for any images, backup names and number of saves:
`InstallationStaysUsable` (`InstallationUsable`). That the settings name an image
that is there is not inductive: the last step of a setup removes the copy. `SetupInv`
says what a setup has reached at each of its steps: an image that is to be copied is
in place before the settings are written, and from then until the end the settings
name what the setup is about, unless they were written short.
`OldSavesGiveWayToNew` (`OldGivesWayToNew`) needs two facts (`SavesInv`): while an
import is about to put its copy into place there is no save there it could replace,
and when a backup takes the place of an earlier one its copy is the save.

**Frames** (`Frames_proofs`), for any textures, buffers, cache and age limits and for
one slot or two: `FencesAreSignalled` (`NoFenceForgotten`), `DrawnTexturesLive`
(`NothingInUseIsDestroyed`), `RegionsStayApart` (`RegionsApart`) and
`PicturesStayInOrder` (`WriteBacksInOrder`). The invariant has one part for each, over
`TypesFit`:

    FencesFit    the fences not signalled are those the queue will signal and, while
                 recording, the one of the frame: a wait never meets another
    TexturesFit  what is drawn is cached or waits in a slot's list; an entry of a
                 frame that draws what waits in a list comes before an entry with that
                 slot's fence, so that the wait before the list is emptied covers it;
                 a frame kept for drawing again names cached textures only
    RegionsFit   the vertices of an interpolated frame are in the next region of the
                 ring, those of the frame before in the one before, and so on
    AgesFit      a picture under way is no older than the one its buffer has stored and
                 than the one collected; that of the current slot is the youngest,
                 and gone as soon as the slot is recorded again

A wait leaves a suffix of the queue (`SuffixOf`), and the first three parts are kept by
suffixes, so that one lemma for each covers every wait of the renderer. That a queue
has a last entry with a fence is shown with the least bound of a set of
numbers (`GreatestExists`).

**Model-checked only.** Liveness (`EqualsTakeTurns`, `TimedWaitsEnd`,
`InterruptsAreTaken`, `BoundariesKeepComing`, `JoinIsSettled`, `LossIsSettled`,
`OpeningEnds`, `CloseReachesPeer`), which the prover cannot do under fairness. Every safety
invariant of a run has a theorem.

## Findings

* `adhoc_loss`: `host/adhoc/server.hpp:18` says "Leaving, or losing the connection,
  tells the others." A player to whom a write fails is erased from the server
  without `leave_group`: the others in its group are not told and keep a peer that is
  gone, and the group keeps its host entry.

Six more disagreements were met on the way. They have no run of their own, and no
property that claims otherwise; `PROJECT.json` lists them as hazards.

* `host/kernel/kernel.hpp:285` says that the waiters of an object are re-evaluated
  "after its state changed". A thread that leaves the head of a semaphore's queue by
  timeout or termination changes it, and nobody looks: the next thread goes on
  waiting for units the count holds, until the next signal.
* `kernel.cpp:773`: the end of a candidate block is computed in 32 bits. A size near
  2^32 passes the test, is carved out of the partition, and after it is freed the
  free list has ranges that the partition never had (`profiles/mhp3rd/tests/kernel_hle_tests.cpp:61`
  expects a partition that is whole again). The sizes of `user_memory` stay below.
* `kernel.cpp:579`: when two VTimers are due in one turn of the timers, both store
  their clocks at the same scratch address when they are queued; the first handler to
  run reads the other timer's (`profiles/mhp3rd/tests/kernel_hle_tests.cpp:460`).
* `kernel.hpp:305` says that a callback runs when its owner performs a callback-aware
  wait. If interrupts are masked then, the call stays in the common queue, and runs
  over whichever thread unmasks them.
* `host/hle/hle_adhoc.cpp:831` says that the netconf dialog ends when the join is
  decided. When the player disconnects in the menu, or the client is restarted
  there, before the join is confirmed, the wish is dropped without an event and the
  dialog stays.
* `host/gpu/vulkan_renderer.cpp:1557` says of the regions the presents between flips
  read that a frame does not write one of them. While interpolation is switched off the
  region is the slot's, and a present that falls due while the frame is recorded draws
  the older frame from the region the new one writes. `RegionsApart` is about frames
  that are interpolated.

Counts of either sign (a semaphore signalled below 0, a mutex created locked by nobody)
are accepted without a check where neighbouring calls refuse them. No document of the
repository speaks about them, so they are hazards and not disagreements.

## What is not modelled

`PROJECT.json` lists every component with its status. Left out for good: the decoder,
interpreter, ELF loader, analysis and code generator, ciphers, codecs, shaders and
what is drawn, which are sequential functions over large data, better tested than
model checked; user interface, settings screens, text, fonts, camera and debug
tools, which keep little state that outlives a frame; discovery, overlays, mods and
fast forward, which rebuild a table from what they see; vendored and packaging
code. By lines these are most of the repository.

Left out of components that are modelled: `call_guest` frames; interrupts queued by
the GE and by matchmaking, which only make the common queue longer; mutex calls made
by handlers; datagram sockets, which promise nothing; scans, chat and name
resolution; output queues of the server that overflow; the pacing of presents; the
choice and the copying of data directories; recursive locks whose count overflows.

## The plan

In order; 1 to 10 are done; [the proofs](#the-proofs) lists what 10 has come to.

1. `Scheduler`, with its safety and liveness properties.
2. `Semaphores` over it, with `CountingSemaphore` as abstract specification.
3. `EventFlags`, `Mutexes`.
4. `DispatchChain`.
5. `Interrupts`.
6. `UserMemory`.
7. `Adhoc` and `AdhocStreams`: client and server over connections that break.
8. `Frames`.
9. `Storage`.
10. Proofs: scheduler, semaphores with their refinement, event flags, mutexes, call
    chain, interrupts, the memory partition, membership and logins, streams, storage,
    frames.
11. Scans and the overflow of the server's output queues in `Adhoc`, as soon as a
    larger instance can be checked.
12. `AudioSink`: the bounded queue between emulator and audio thread.
13. `call_guest` in `Scheduler`, handlers that call mutexes.
