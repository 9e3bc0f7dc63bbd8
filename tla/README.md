# CERF: verification project

CERF runs Windows CE devices on a PC. One thread, the *JIT thread*, translates
and executes guest ARM or MIPS code; everything else in the process (the window,
the menu, the worker that saves and restores the machine, peripheral workers,
audio and network threads) talks to that thread through atomics, a few mutexes
and one condition variable. The core of the program's own logic is therefore not
in any one device model but in how threads stop, park, reset, snapshot and wake
the one that runs the guest, and in what that thread keeps consistent by itself:
its clock, its event queue, and the cache of the code it has translated. That is
what these modules model, check and prove.

Contents: [the system](#1-the-system), [modules](#2-the-modules-and-the-code),
[runs](#3-the-runs), [fairness](#4-fairness), [proofs](#5-proofs),
[what the checks showed](#6-where-code-and-documentation-disagree),
[limits](#7-what-is-not-modelled-and-known-limits), [plan](#8-plan).

`PROJECT.json` holds the same in machine-readable form: every component, the
hazards with the line where each one bites and the property that covers it, the
map from definitions to source lines, the runs, a seeded bug per property, and
the theorems.

To repeat: `tlc -config <cfg> <module>` for each row of section 3, `tlapm
<module>` for each row of section 5. No run takes more than four minutes.

## 1. The system

Paths are below `src/cerf/`.

| Component | State it keeps | Operations | Who calls it | What makes it correct |
|---|---|---|---|---|
| **JitRunner** `jit/jit_runner.cpp` | `pause_requested_`, `stop_requested_`, `paused_`, `stopped_`, `pause_mutex_`, `pause_cv_` | `Start`, `Pause`, `Resume`, `RequestStop`, `RunLoop` with its park | EmulationPause, HostWindow, the main thread | `Pause` returns only with the guest parked; no waiter is forgotten at the end; the stop always ends the loop |
| **GuestEngine** `jit/arm/arm_jit.cpp`, `jit/mips/mips_jit.cpp` | `reset_pending`, `deep_sleep`, `chain_exit_request` | `Run`, `SetResetPending`, `SetHostChainExit`, `Enter/ExitDeepSleep` | JitRunner, reset and sleep logic | a request made at any moment is seen and served |
| **EmulationPause** `host/emulation_pause.cpp` | `user_`, `state_operation_`, `mtx_` | `Toggle`, `Begin/EndStateOperation`, `Apply` | menu (UI thread), Hibernation's worker, boot gate | the JIT is asked to pause exactly when either source wants it |
| **EmulationFreeze** `state/emulation_freeze.h` | a shared mutex | `WorkerSection`, `SnapshotSection` | peripheral workers, Hibernation | a snapshot never sees a half-done peripheral update |
| **Hibernation, state stream** `state/hibernation.cpp`, `state/state_stream.cpp` | worker thread, `state.img`, `.tmp`, `rollback.img` | `Save`, `Restore`, `RollBack` and their asynchronous forms | menu, exit prompt, boot gate | a save or a restore happens whole or not at all, whatever fails |
| **StateBootGate** `state/state_boot_gate.cpp` | none | `Run`: cold, warm or resume boot | pre-start hook | the machine is restored before the guest runs |
| **ShutdownAction, HostWindow** `state/shutdown_action.cpp`, `host/host_window.cpp` | `shutdown_pending_`, `closing_`, posted jobs | `OnUserClose`, exit save, teardown | user | closing ends in a teardown or in a window that can be closed again |
| **GuestDeepSleep** `host/guest_deep_sleep.cpp` | `active_`, `wake_claimed_`, `hw_resumed_`, the prompt | `Enter`, `PollPark`, `DeliverWake`, `Recover` | guest power-down (JIT thread), prompt (UI thread), wake sources | exactly one party ends a sleep; a cancelled prompt wakes the guest |
| **GuestCpuReset, GuestColdBoot** `socs/guest_cpu_reset.cpp`, `boot/guest_cold_boot.cpp` | `pending_kind_`, `pending_is_resume_`, `pending_` (the wipe) | `WarmReset`, `ColdReset`, `WatchdogReset`, `RequestHardReset`, `OnResetDelivered` | menu, SoC registers, watchdogs, wakes | every armed wipe is carried out by a delivery of its own kind |
| **ArmInterruptChannel** `jit/arm/arm_interrupt_channel.cpp` with an interrupt controller such as `socs/sa11xx/sa11xx_intc.cpp` | two lines, three chain-exit bits, an auto-reset event; the controller's registers and mutex | `Set/ClearInterruptPending`, `SetIdleWake`, the dispatch gate, `WaitForInterrupt` | devices on any thread, JIT thread | no interrupt is missed, WFI never sleeps through a reason to run |
| **HostRequestChannel** `jit/host_request_channel.cpp` | `host_request_`, the listeners | `Request`, `ServiceRequests` | host input, UART and audio threads | queued work stays announced until it is collected |
| **GuestCycleClock, VirtualClock** `jit/guest_cycle_clock.cpp`, `core/virtual_clock.h` | event queue, published deadline, folded cycle count, rate, two anchors | `Arm`, `Disarm`, `RunDue`, `OnDispatch`, `SetClockRate`, `OnThrottle`, `IdleStep`, `OnCyclesRestored` | timers, device callbacks and the dispatcher, JIT thread only | the 64-bit count is exact, events run on time and in order, a re-entrant rate change does not make time jump, the guest does not outrun the wall clock |
| **JIT block index** `jit/jit_block_index.cpp` | open-addressing tables, chain links | `FindExact`, `PlaceOuterAt`, `RemoveNode`, `Flush`, growth | compiler, JIT thread only | a table with backward-shift deletion is a map, and never full |
| **Translation cache** `jit/isa_block_space.h`, `jit/arm/arm_translation_cache.cpp`, `jit/arm/arm_block_compiler.cpp`, code marks in `arm_page_walker.cpp` | arena, index per ASID, jump cache, chained jumps, page lists, code marks, dirty pages | compile, chain, remove, invalidate, flush; TLB and context maintenance | dispatcher, emitted code, JIT thread only | whatever leads to a block is cut when the block goes; a block found is of the current mapping; code that was stored to is found again |
| **CerfEmulator** `core/` | service slots | resolution, `OnReady` order | boot thread | a cycle is reported, not recursed into |
| **PCMCIA slots** `peripherals/pcmcia/` | slot bus mutex, card | insert, eject, bus access, card interrupts | menu, JIT thread, card workers | no lock cycle, no access to an ejected card |
| Translation (decoders, emitters, MMU), SoC and board register models, storage, USB, serial, SLIRP, audio, window and input, tracing, launcher, guest applications, tools | | | | see section 7 |

How the core parts interact:

    UI thread --menu, prompts--> EmulationPause --Pause/Resume--> JitRunner
        |                             ^                            | park loop
        | Recover()                   | Begin/EndStateOperation    v
        v                        Hibernation worker          JIT thread: Run()
    GuestDeepSleep <--Enter/PollPark--------------------------- guest code
        | SetResetPending / ExitDeepSleep                         ^
        v                                                         | gate, WFI
    GuestCpuReset, GuestColdBoot --reset_pending--> delivery      |
    device threads --> interrupt controller --> ArmInterruptChannel

What is hard here: almost nothing is protected by one lock. `RunLoop` reads five
atomics that other threads write without `pause_mutex_`; a reset request is five
words written one by one; the interrupt path has a mutex at its source and none
at its sink; a prompt answered on one thread ends a sleep entered on another; and
a restore overwrites the very flags that the pause it runs under has set. What
runs on the JIT thread alone is hard for another reason: the clock's operations
call each other through device callbacks, and a block of translated code is
reached by four structures that are updated from each other's operations. A unit
test runs each of these in one order. The hazards list in `PROJECT.json` names
each place and order.

## 2. The modules and the code

    JitRunner ------ StateOperations (EXTENDS JitRunner: composition)
       |                   |
    JitRunnerProofs -- StateOperationsProofs
    GuestReset ------ GuestResetProofs
    ArmInterruptChannel -- ArmInterruptChannelProofs
    SavedMachine <== Hibernation (refinement) -- HibernationProofs
    BlockMap <== JitBlockIndex (refinement) -- JitBlockIndexProofs
       ^
       +.. the indexes of TranslationCache -- TranslationCacheProofs
                                |
                           CodeStores (EXTENDS TranslationCache: a history)
    GuestCycleClock -- GuestCycleClockProofs
    MC<module>: what TLC needs besides (values, symmetry)

**JitRunner.tla**: `jit_runner.cpp` with the parts of the engine and of
`GuestDeepSleep` that decide when `RunLoop` parks and leaves the park. `jit` is
the JIT thread's place in `RunLoop`; `call[t]` is host thread `t`'s place in
`Pause()` or `DeliverWake()`. A step is one access to one shared variable, or a
critical section of `pause_mutex_` in which nobody else can interfere. The park
holds the mutex over several steps, since reset and sleep flags change without
it; `ParkWait` gives it up, as `wait_for` does, and wakes on a notification, on
its 20 ms timeout or for no reason. `WakeByReset` tells SoCs whose sleep ends
with a reset from those whose clock restarts. `Arch` tells the two engines'
deliveries apart.

**StateOperations.tla** extends it with everybody who parks the guest:
`EmulationPause` (whose mutex is held while `Pause()` blocks, which is what
makes the UI thread wait), `EmulationFreeze`, Hibernation's worker as a program
counter `op[t]`, the boot gate on the main thread, and the UI thread `ui` with
the menu, the exit prompt, the save it asks for, the job that save posts back
and the wait timer of `HostWindow`. An operation that restores overwrites the
engine's flags with the image's, the pause's own chain-exit request included, as
`ArmCpu::RestoreState` does. The Cpu section is the first that is applied, so
those flags are in force while the later ones are applied (`op` is `applying`),
or while the rollback image is (`undo`): a pending reset that comes with the image
ends the park there, and the snapshot is still held.

**GuestReset.tla**: a request's stores (arm the wipe, resume flag and kind,
chain bit, pending bit, clear the wake cause) and a delivery's loads, one per
step, from several threads, with the guest's sleep, the wake source that is polled
in the park, and the recovery prompt: posted, shown, answered (`AnswerPrompt`
clears `active_`), and the claim of the wake as a step of its own afterwards, so
that the answer to one sleep's prompt may meet the next sleep. Requests overlap
each other and deliveries in every way. Two histories are kept: `dropped`, that
ARM's store at the end of a delivery has dropped the request pended last, and
`contended`, that requests or deliveries have overlapped since the words were last
at rest; a request that begins at rest and meets no other clears it.

**SavedMachine.tla** promises: a machine and an image; a save copies the one to
the other, a restore the other way, a warm boot keeps memory, and a crash loses
the machine and not the image. Each is atomic.

**Hibernation.tla** is the code: files `state`, `temp` and `rollback`, the
sections in `kStateSectionOrder`, a step per section, a refusal possible at each
of them, a failed write possible at each of them, the rollback image, and the
process's death between any two steps. Two pieces of derived state (the
translation cache and the driven interrupt lines) are carried along, since a
restore that forgets them is a machine with parts of two guests. A part's value
stands for its whole content; what matters is which guest it came from.

**ArmInterruptChannel.tla**: the controller's registers and mutex (SA-11xx), the
five atomic operations of `NotifyLocked`, the dispatch of `ArmJit::Run` in its
order (reset, host request, clock, clear the chain bit, gate), guest code that
polls, returns, changes CPSR.I or waits, the loop of `WaitForInterrupt` read by
read, and the auto-reset event. Devices and the JIT thread change sources at any
time; so do the pause and reset requests of host threads.

**GuestCycleClock.tla**: `guest_cycle_clock.cpp` over the ARM engine's counter (the
MIPS engine's is the same). Everything happens on the JIT thread, so a step is
not an interleaving but a piece of a call tree, and `stack` is that tree's
current path: `RunDue` calls an event's callback, the callback is device code
that may arm, disarm and change the rate, and `SetClockRate` runs `RunDue` again
before it changes anything. `counter` counts modulo `Wrap`, `left` is how far
translated code may run before its next poll, `DeadlineReached` is the signed
comparison that the poll makes. `mode` says who called: guest code, WFI
(`IdleStep`, whose wait may end early, in time, or as late as the host's timer
likes), or a restore, which loads the counter and the events one by one; an event
of the old machine that the image does not arm stays in the queue. `wall` is the
virtual clock; it may
stall, or be read late. `total`, `asked`, `last_run` and `restored_at` are ghosts.

**BlockMap.tla** promises: a set of addresses that changes by the one address a
call names, or is emptied.

**JitBlockIndex.tla** is the table: linear probing, growth at three quarters,
deletion that shifts entries back into the hole. The loops of `Grow` and
`EraseAt` are steps, one per iteration. The index has one user, so nothing
interleaves with them; what holds between two iterations is what makes the loop
correct. The hash is any function into the buckets.

**TranslationCache.tla**: the ARM engine's blocks and everything that leads to
them. A block is a record in the arena, with its address, its frames (two for a
wide Thumb instruction that straddles pages), its ASID, two jumps and its links
in two page lists; the index, the jump cache, the chained jumps and the page
lists are kept step by step as `IsaBlockSpace`, `JitBlockIndex` and
`ArmBlockCompiler` keep them, retry after a full arena included. `cache` is a record
of columns, one per field of the code's block records, indexed by block, jump or
page; a list is what is linked from its head (the least set that holds the head
and is closed under the links), so that "the list of a page" is read off the links
and not kept beside them. An I-cache invalidate takes a step per removed block:
`purge` holds the pages it has not yet cleaned, and nothing else happens until it
is empty. The guest
stores to code, invalidates the I-cache or TLB entries, switches its address
space, changes a page table (the TLB may answer the old frame until it is
invalidated), or writes the control register, which pends a flush. A page is what
the code calls a block page: 1 KB, the granule of translation. There are two
instruction sets in the code, which share the arena and the marks and are flushed
together; the model has one. A store writes one or more words and tests the first
(`AccessPaged`, `ArmNoteCodeTracking`); `outdated` is a ghost: blocks that a store
has written to whose first word was code of some block.

**CodeStores.tla** extends it with the history of every store: `stale` holds each
block with a word that was written since it was translated, also by a store that
began before the code.

In every module an atomic read-modify-write is one step and two reads are two,
unless a comment says why nobody can tell. Operators named `...Unlocked`,
`...Forgets...` and the like, marked "Mutant", are the seeded bugs of
`PROJECT.json`; no specification uses them.

## 3. The runs

| Run | Config | Instance and bounds | Distinct states | Shows |
|---|---|---|---|---|
| jit_runner | `MCJitRunner.cfg` | 2 host threads, 1 reset, 2 sleeps, reset-on-wake, fair | 54 thousand | `Pause` returns on a parked guest, no lost wakeup at the end, the stop ends the loop, Cancel wakes |
| state_operations | `StateOperations_safety.cfg` | UI, worker, main, one peripheral, warm or resume boot, 1 operation, 1 sleep | 1.7 million | who runs while the snapshot is held; the OR of the pause sources; a `Pause()` under way keeps its request |
| operations_end | `StateOperations_live.cfg` | the same threads and peripheral, ARM, cold boot, 1 operation, 1 reset, fair | 91 thousand | an operation ends, the guest runs again, closing settles |
| guest_reset | `GuestReset.cfg` | UI and JIT thread, both engines, 4 requests or sleeps, fair | 549 thousand | an armed wipe is delivered or dropped by the one store that may; a claimed sleep ends; a wipe is a cold reset and a resume has its cause, whatever overlapped before |
| reset_lost | `GuestReset_lost.cfg` | ARM, 3 requests or sleeps | violated | `ArmedMeansComing` (section 6) |
| hibernation | `Hibernation.cfg` | 3 values per part, nothing else bounded | 85 thousand | refinement of SavedMachine; derived state |
| arm_interrupts | `ArmInterruptChannel.cfg` | 2 sources, 1 device thread, nothing else bounded | 2.6 million | lines follow the controller, no interrupt missed, no wakeup lost, work stays announced |
| cycle_clock | `GuestCycleClock.cfg` | throttle and 2 events, a counter of 7 values, 2 rates, 7 cycles, 2 ticks of the wall by itself, 2 rate changes, a restore | 2.1 million | exact count, events on time and in order, the last rate request wins, guest time monotone and paced |
| block_index | `JitBlockIndex.cfg` | 5 keys, 4 slots that double once, every hash | 184 thousand | every key found, none twice, never full; refinement of BlockMap |
| translation_cache | `TranslationCache.cfg` | 2 pages of 2 instructions, one global, 2 frames, 2 ASIDs, 2 blocks, stores of 1 or 2 words, a jump cache in which the pages collide | 204 thousand | no jump to a removed block, jump cache fresh, chains and page lists complete, code hit by a store that began in code is on a dirty page |
| split_block | `TranslationCache_split.cfg` | the same, both pages may move | violated | `SplitBlocksFresh` (section 6) |
| code_stores | `CodeStores.cfg` | 1 page of 2 instructions, stores of 1 or 2 words | violated | `StaleCodeIsDirty` (section 6) |

Why the bounds are enough. *Threads*: `EmulationPause` serialises its callers, so
the code has at most the UI thread, the worker and the main thread at
`JitRunner`; two that do anything in any order subsume the former, and
StateOperations has all three. *Sleeps*: every confusion between a sleep and the
prompt of another needs two. *Resets*: one reset already meets every point of a
park or a save; in GuestReset, where resets meet each other, four events are a
sleep with a late prompt, the sleep after it, and two resets, or four resets that
overlap pairwise. In state_operations nobody asks for a reset, but a restored
image may bring one. *Operations*: an operation ends in the state it began in except
for `exit_save`, `ui_job` and the flags, and the boot operation plus one menu
operation already overlap. *Values*: the running machine, the image and the
rollback image can all differ. *Sources*: the lines depend only on whether some
source is pending, enabled or both; two let one rise while the other falls.
*Clock*: `Wrap` is the smallest modulus that `CounterAssumption` allows for a
slice of 2 and a translation of 1, so seven cycles wrap it, and a restore starts
two cycles before that; at the second rate every conversion rounds; two rate changes
nest. *Index*: five keys overflow the small table and force a growth, and with
every hash every shape of a probe run, wrapped round the end included, occurs.
*Blocks*: two blocks chain to each other through both slots,
share a page, straddle, evict each other and fill the arena; a third would add
longer lists, not other ends of them. The safety properties marked in section 5 are
proved without any of these bounds.

Deadlock: every run checks for it. The only place where the program really ends
is `Closed` in StateOperations (the window is destroyed and the JIT thread gone),
which stutters; everywhere else somebody can always act, a used-up bound
included.

## 4. Fairness

Safety runs assume none. The liveness runs assume:

- every thread that can take a step takes one eventually (weak fairness on each
  thread's steps): the operating system's scheduler;
- a mutex that is released again and again is eventually granted to who waits
  for it (strong fairness on lock steps): the park gives up `pause_mutex_` every
  20 ms;
- translated guest code returns to the loop *only* when it was told to
  (`GuestReturn` is fair together with `host_exit` or `ToldToReturn`): guest code
  may otherwise run, chained, for ever, so a property that held because the guest
  "returns sometimes" would be worth nothing;
- the exit prompt is answered (its countdown answers it), and a recovery prompt
  that has been cancelled runs `DeliverWake` to its end; nobody need press Cancel,
  use the menu, reset, or put the guest to sleep;
- a peripheral worker leaves its section; the UI thread serves its posted jobs
  when it is not blocked.

The other modules have no fairness. ArmInterruptChannel's questions are "may this
state exist", and `NoSleepThroughWakeup` says that a wait which began too early
is already over. GuestCycleClock states its promptness as safety (`EventsOnTime`:
no event waits for more cycles than one translation takes, counted from its own
cycle, or from a restore that went beyond it), since the only thing
that could delay it is a deadline that is published wrong. The loops of
JitBlockIndex end by counting.

## 5. Proofs

Checked by TLAPS for every value of the constants (any number of host threads,
peripheral workers, sources, devices, events, keys, slots; any hash, rate and
modulus that satisfies the assumptions; any bound).

| Module | Theorem | Establishes |
|---|---|---|
| JitRunnerProofs | `TypeCorrect`, `ParkedWhenPaused`, `PauseIsSound`, `NoLostWakeup`, `PublishedExit` | `TypeOK`, `PausedMeansParked`, `[][...]PauseReturnsParked`, `NoSleeperAfterStop`, `ExitPublished` |
| StateOperationsProofs | `StateTypes`, `PauseStaysSound`, `OperationsWakeUp`, `OneRequest`, `SafeSnapshot`, `PausersHeard` | `STypeOK`; JitRunner's `PauseReturnsParked` and `NoSleeperAfterStop` in the composition, where restores rewrite the engine's flags; for users that wait for `Start()`, `PauseRequestAgrees`, `SnapshotQuietUnlessReset` and `PauserIsHeard` |
| GuestResetProofs | `TypeCorrect`, `ArmedResetComes`, `WipesAreCold`, `ResumesHaveCause` | `TypeOK`, `ArmedUnlessDropped`, `WipeIsCold`, `ResumeHasCause`, on both engines, with requests that overlap in any way |
| HibernationProofs | `TypeCorrect`, `DerivedState`, `Refinement` | `TypeOK`, `DerivedFollows`, Hibernation implements SavedMachine |
| ArmInterruptChannelProofs | `TypeCorrect`, `LinesAreTheControllers`, `NoInterruptMissed`, `NoWakeupLost`, `WorkStaysAnnounced` | `TypeOK` and the four properties of the run |
| GuestCycleClockProofs | `Typing`, `Exact`, `OnTime`, `LastWins`, `Throttled`, `Paced`, `Monotone`, `InOrder` | all eight properties of the run |
| JitBlockIndexProofs | `Typing`, `Findable`, `Once`, `Roomy`, `Refinement` | `TypeOK`, `AllFound`, `IndexedOnce`, `NeverFull`, JitBlockIndex implements BlockMap |
| TranslationCacheProofs | `TypeCorrect`, `RemovedUnreachable`, `JumpCacheCoherent`, `JumpsRecorded`, `BlocksReachable`, `OverwrittenCodeDirty`, `InvalidateComplete` | all six properties of the run; the step that ends an I-cache invalidate leaves no block of `outdated` |

Assumptions: `HostAssumption` and the like say that thread names are distinct
(`"jit"` and `"free"` are nobody else's), `EngineAssumption` that there are two
engines, `NothingAssumption` that "no file" is not a file's content,
`CounterAssumption` that the counter's modulus is more than twice a slice and a
translation (2^32 against 2^30 and a few hundred), `RateAssumption` that a rate is
a pair of positive numbers, `HashAssumption` that a bucket is a slot,
`ConstantsAssumption` what TranslationCache's pages, frames, ASIDs and jump cache
slots are, and that the bounds are numbers. TLC evaluates each of them.

*JitRunner.* The interesting fact, `NoSleeperAfterStop`, is not inductive: the
thread stores `stopped_` without the lock and notifies without it. The invariant
`IInv` adds lock discipline (who holds `pause_mutex_` at which program counter)
and `LastNotify`: once `RunLoop` has passed the empty critical section that
follows the store, no caller is between its test of the predicate and its sleep,
since it holds the mutex there; whoever tests later finds `stopped_` set, and
whoever slept before is in `cv` and gets the notification.
`PauseIsSound` then follows since whoever holds the mutex and sees `paused_`
knows the JIT thread is inside the park's wait.

*StateOperations.* The proof has two storeys. Below, every step is JitRunner's
`[Next]_vars`, with its actions called by other threads, or a restore that writes
engine flags (`Projection`); from this alone `JitInv` follows: who holds
`pause_mutex_`, and that a JIT thread parked by a pause stays parked while the
request stands, unless a stop or a reset ends the park. Above, `CallInv` says who
is in `Pause()` (whoever holds `EmulationPause`'s mutex), `RequestInv` that the
request is the OR of the two sources except between their store and the call that
follows it, and `OpInv` that the snapshot is held only by an operation that has
got its pause. The last two need `~MenuBeforeStart`: before `Start()` nothing is
paused (section 7). `PausersHeard` adds `HeardInv` (a request under way stands, and
the engine's chain exit with it): what could take either away is `Resume()`, whose
caller holds the mutex of `EmulationPause`, and a restore, which happens only while
nobody is in it (`NobodyPauses`). That the chain exit always is the OR of the two
requests, JitRunner's `ExitPublished`, is false here, since a restore on ARM erases
it; `HeardInv` is the part that is left.

*GuestReset.* An armed wipe is safe because one of three things holds at every
program counter of every requester: the requester that armed it has still to
pend its reset, or a reset is ahead (pended, or about to be), or a delivery is
under way that has not yet passed `ExecuteIfPending`. On ARM the store that ends a
delivery destroys the second; that, and nothing else, sets `dropped`, which the
wipe's delivery clears (finding reset_lost). The rest of the invariant, `InOrder`,
is about what the words say, and is claimed only while nothing is `contended`: at
most one thread is at its request and no delivery runs while it is incomplete
(`OneAtATime`), so an armed wipe will be delivered with the words its own request
stored (`ColdWords`, `ColdTaken`), and a resume mark is a wake's whose cause is
latched, or is left from before and will be stored over (`WakeWords`). The work is
in showing that the leftovers of overlapping requests (a stale kind, resume mark or
cause) satisfy it again at the moment the next request begins at rest.

*Hibernation.* `AppliedSoFar`, `RolledBackSoFar`: at section *i* the parts before
*i* are the image's, those after are the old machine's (also in the rollback
image), and part *i* may be torn. `LineFollows` and `CacheFollows` say when the
derived state may lag. `Refinement` maps `image` to `state`, and `machine` to
`Off` without a process, to the rollback image while a restore is under way, and
to the live machine otherwise: a restore becomes visible in the step that
finishes it, a rolled-back one never.

*ArmInterruptChannel.* `Driven` ties each step of `NotifyLocked` to the part of
the lines it has driven already; `Awake` is `NoSleepThroughWakeup` extended over
the reads that precede the wait (a reason that arises after it was looked at
leaves the event set, or its signal still to come). Both proofs go action by
action: controller, notifier, host threads, dispatch, guest.

*GuestCycleClock.* `CounterInv` says how the 32-bit counter, its last reading and
the true count relate while the distance `Unread` is under a slice and a
translation; `DeadlineInv` bounds `Unread` by the published deadline, which is at
most a slice ahead of the reading it was computed from, and `EventInv` says that
the deadline covers every event. The three hold each other up: the fold is exact
because the deadline is near, the deadline is read right because the fold is
exact. `OrderInv` (nothing is armed before the event run last) gives `InOrder`;
`RateInv` (a call that has been overtaken knows it, and somebody on the stack
knows the last request) gives `LastWins`. `PaceInv` keeps the throttle's wall
time within a slice of the wall clock, from lemmas about the rounding of
`ScaleU64`: it is monotone, and of a sum it is at most one more than the sum.

*JitBlockIndex.* Between two calls no entry has an empty slot on its way from its
bucket (`Gapless`), which gives `Findable`. In the deletion loop there is one
gap, the hole, and only entries that `j` has not come to may have it on their way
(`OneGap`); an iteration moves the hole along or passes an entry that does not
need it. `GrowInv` splits the keys into those moved, the one to be placed and
those to come; `CountInv` ties `count_` to them and to the capacity, so that a
probe always meets an empty slot. `Refinement` maps the keys to `Contents`: those
in the table and those a growth has still to move.

*TranslationCache.* The lists are the difficulty: what a list holds is a least
closed set, and cutting a node out or putting one in front must be shown to change
it by that node. The lemmas use that blocks are allocated in order and put in
front, so that every link leads to an older node; in a list sorted like that, what
is linked from the head is determined by the set of nodes, and instead of an
induction over its length the lemmas take the lowest or highest counterexample
(`WFMin`). The invariant says, of the cache alone: a block lies below
the arena's cursor with both halves where they belong (`PlaceInv`), the index and
the blocks name each other (`IndexInv`), a jump wants an address of its own page
(`WantInv`) and, if it is chained, leads to the live block of that address, owner
and frame (`JumpInv`); and the chain of a block and the list of a page are sorted
and hold the jumps that lead to it and the blocks on it (`ChainInv`, `PageInv`). Of
the cache and the guest: every word of a live block is marked (`MarkInv`, without
which a store leaves no dirty page), a page being cleaned leaves no dirty one
(`PurgeInv`), and the two run properties `JumpCacheFresh` and `StoredCodeIsDirty`. The
compilation's intermediate caches (block placed, indexed, listed, chained to, its
own jumps patched, or everything taken back by a flush of the full arena) are
carried through by one lemma each.

Only model-checked: all liveness (`StopEnds`, `CancelWakes`, `OperationEnds`,
`GuestRunsAgain`, `CloseSettles`, `HardResetHappens`, `ClaimedSleepEnds`), since
the prover has no rules for fairness. Every invariant and every action property of
the passing runs is proved. Some invariants are proved and
not checked by a run any more, since they are parts of stronger ones: the type
invariants of JitRunner, StateOperations, GuestReset, ArmInterruptChannel and
JitBlockIndex,
`PausedMeansParked` and `ExitPublished`.

## 6. Where code and documentation disagree

Each has a run whose property quotes the document, and a counterexample.

- **A hard reset can be dropped on ARM** (`reset_lost`, `jit/arm/arm_cpu.cpp:250`). The
  delivery stores zero into `reset_pending` after it has delivered; MIPS exchanges
  before. What is lost is the request made in between; its wipe stays armed.
  `boot/guest_cold_boot.h:30` says of `RequestHardReset` "Any thread. Arms the cold
  boot and triggers reset delivery."
- **A straddling instruction is found again with its old second half**
  (`split_block`, `jit/arm/arm_block_compiler.cpp:385`). `Compile` keeps a block while the
  frame of its first page is unchanged. The second half of a 32-bit Thumb
  instruction that straddles two pages comes from another frame, which nothing
  compares, and a TLB invalidate of the second page clears only the jump cache
  entries tagged in it. Once that page is mapped to another frame the old block
  still runs. `jit/arm/place/emit_cp15_register_transfer.cpp:17` says "blocks are
  phys-keyed so they survive an address-space change"; the second frame is not
  part of the key.
- **A store that begins before the code it overwrites leaves its page clean**
  (`code_stores`, `jit/arm/arm_mmu.cpp:332`). `AccessPaged`, which writes the D
  registers of `VSTR` and `VSTM` (`arm_vfp_memory.cpp:46-52`, `98-114`) and the
  elements of a NEON `VST1` (`arm_neon.cpp:146`), tests the first word of what it
  copies. Where only a later word is marked, no page becomes dirty and the next
  I-cache invalidate keeps the block. `jit/arm/place/emit_tlb_fast_path.cpp:70` says
  "if PA is a marked code word, set its page's code_page_dirty bit so the next
  I-cache invalidate evicts the block".

## 7. What is not modelled, and known limits

What the code does not promise, found while modelling it:

- *An operation begun before `Start()`* is not protected: `Pause()` has nothing to
  pause, `Start()` does not look, and `state_operation_` is a flag and not a count,
  so that the boot gate's operation ends the menu's. The theorems about the
  snapshot therefore assume `~MenuBeforeStart`, and the runs use the menu after the
  start only.
- *A reset during a save.* The park ends on a pending reset even if a pause is
  requested (`jit_runner.cpp:144`), and the menu offers reset while an operation
  runs. `SnapshotQuietUnlessReset` says that this is the only way a held snapshot
  meets a running guest.
- *A request forgotten by a restore.* `ArmCpu::RestoreState` and the roll back write
  the chain-exit word anew (`arm_cpu.cpp:471`), which erases the host's request for a
  stop or a pause. A waiting `Pause()` is safe (`PauserIsHeard`), and the `Resume()`
  that ends an operation publishes the stop again. But if the user had paused before,
  the operation calls no `Resume()`; when a reset from the menu has ended the park
  in the meantime and a stop is asked for before the roll back, the guest runs on
  and returns to the loop only for another reason. TLC finds this when "closing leads
  to the end of the JIT thread" is asked of operations_end's instance; operations_end
  therefore promises that a close request settles, and not that the thread ends.
- *A guest that powers down again.* `GuestDeepSleep::Enter` does nothing while
  `active_` is set; the UI thread clears it when the prompt is gone, and a hardware
  wake resumes the guest earlier. A guest that powers down in between is not halted
  and goes on.
- *A sleep ended by an older prompt.* `Recover()` clears `active_` before it claims
  the wake, so the guest may sleep again in between and be woken at once, or reset,
  by the answer to the prompt before. GuestReset has these steps; `ClaimedSleepEnds`
  says that the sleep so claimed ends, not that the answer was meant for it.
- *Requests that overlap* mix their words. Kind, resume flag and wipe are separate:
  a second request between the first one's store of its kind and the delivery
  replaces the kind, so that RAM can be wiped under a reset that no unit is told is
  the RTC reset, and a reset that meets a wake clears the cause the wake latched.
  `WipeIsCold` and `ResumeHasCause` say that nothing of it is left when the next
  request begins at rest; of the overlapping requests themselves only that a wipe is
  delivered (`ArmedUnlessDropped`).
- *Cancel on a SoC whose clock stops.* `Recover()` clears `active_` before it claims
  the wake; the claim may then be taken from the next sleep, before that one has
  halted the CPU. On a SoC that resets on wake, the one jit_runner checks, the
  claim ends the sleep either way.
- *A restored clock.* `PostRestore` of one clock user may change the rate, and with
  that run what is due in the queue, before the other events have been restored
  (`guest_cycle_clock.cpp:64`); those are the old machine's. A device that has
  nothing to arm after a restore does not disarm what the old machine had armed
  (`sa11xx_uart_transmitter.cpp:390-394` sets `armed` to `kNoCycle`, and `Arm()` then
  returns at line 167): such an event stays in the queue at its old cycle, and if the
  restored count is beyond it, it runs at the restored machine's next poll. The model
  has these events and `EventsOnTime` covers them: they run as late as any that were
  due when the restore ended, and no later.
- *A self-branch* of a block is not recorded, hence not cut when the block is
  removed: a loop of one block that removes itself goes on in its old code until a
  poll has a reason to leave (a deadline or a request); its record stays in the arena.
- *Stores that mark nothing*: a wide store whose first word is not code (finding
  code_stores), DMA engines, the host, and code fetched with the MMU off. Their
  blocks stay until the arena is flushed or another store marks their page.
  `StoredCodeIsDirty` and the theorems about it speak of the stores that begin at a
  marked word.
- *A write of DACR* flushes the emulated instruction TLB and leaves the jump cache
  (`emit_cp15_register_transfer.cpp:223-237`): a block reached through it runs without
  its domain being checked again. `JumpCacheFresh` is about the mapping, which DACR
  does not change, and about the guest's own TLB maintenance, which the write of DACR
  is not; it has no action.

What is not modelled:

- *GuestReset's surroundings*: the exits chosen in the recovery prompt, SoCs whose
  clock stops instead of resetting on wake, and `OnFullRestore` (all three are in
  JitRunner or StateOperations).
- *Modal dialogs.* The UI thread serves one prompt at a time; the nested message
  loop of a Windows modal dialog, and the identity of dialogs, are left out.
- *Crashes* are deaths of the process; files that were written and renamed
  survive. Loss of power, with writes the disk has not made, is not modelled.
- *Slept time, parsing of image frames, the screenshot, the Presentation section*:
  no control depends on them; a frame that does not parse is "refused".
- *The Reset section against a menu reset.* Hibernation and GuestReset are not
  composed: a reset asked for while sections are written is saved in part.
- *The MIPS translation cache* is keyed and invalidated differently; TranslationCache
  is the ARM engine's. *`RemoveRange`* of less than a page is not used by it.
- *VirtualClock's seqlock* has one writer; its value is GuestCycleClock's `wall`.
- *PCMCIA slots and service resolution* are in the plan.
- *Latency.* On ARM `SetHostChainExit` signals nothing, so a CPU in WFI notices a
  pause only when its wait ends: at most the 1 ms throttle event that is always
  armed. The model has that timer as a step that may happen at any time and says
  nothing about when.
- *FIQ* is fatal in the code. *MIPS's interrupt channel* looks at its lines after
  every block and signals its event on host exits; it is not modelled.
- *Instruction translation, MMU, register models, storage command sets, user
  interface, launcher, guest programs, tools*: sequential code whose correctness
  is against a hardware manual or another instruction set, or which is I/O only.
  `PROJECT.json` gives the reason for each. This is nearly all of the repository
  by size, some 2,600 files of register models, emitters, board tables, tools and
  guest programs, so the modelled lines are a small share of it: they are the part
  in which the threads meet and which every guest instruction passes through.

## 8. Plan

Done, in this order: JitRunner, StateOperations, GuestReset, SavedMachine and
Hibernation, ArmInterruptChannel, GuestCycleClock, BlockMap and JitBlockIndex,
TranslationCache; proofs of all of them.

Next:

1. **A stop forgotten by a roll back** (section 7) as a run of its own.
2. **Hibernation with GuestReset**: a reset asked for between two sections.
3. **PCMCIA slot**: bus mutex, card mutexes, ejection; then the paced audio output
   (`host/paced_wave_out.h`).
4. **Service resolution** (`core/cerf_emulator.cpp`) as a pure function against a
   reference definition of a cycle; the frames of the state stream likewise.
5. **The MIPS engine**: its interrupt channel and its translation cache;
   `VirtualClock`'s seqlock.
