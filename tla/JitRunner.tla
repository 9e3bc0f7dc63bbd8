------------------------------ MODULE JitRunner ------------------------------
(***************************************************************************)
(* The JIT thread and its park (src/cerf/jit/jit_runner.cpp).              *)
(*                                                                         *)
(* One thread, the JIT, runs guest code in RunLoop.  Host threads stop it  *)
(* (RequestStop), park it (Pause) and release it (Resume) through          *)
(* pause_mutex_, pause_cv_ and a few atomics, ask the engine for a reset   *)
(* (SetResetPending) and end a deep sleep.  The engine is present only as  *)
(* the flags RunLoop reads: reset_pending, deep_sleep and the host         *)
(* chain-exit request that makes translated code return to the loop.       *)
(* Deep sleep is GuestDeepSleep's (src/cerf/host/guest_deep_sleep.cpp):    *)
(* entered and polled on the JIT thread, ended there or by the recovery    *)
(* prompt on the UI thread.                                                *)
(*                                                                         *)
(* Granularity: a step is a read or a write of one shared variable, or a   *)
(* critical section of pause_mutex_ in which nothing else can interfere.   *)
(* Inside the park the lock is held over several steps because the reset   *)
(* and sleep flags are written without it.                                 *)
(***************************************************************************)
EXTENDS Naturals

CONSTANTS
    Host,           \* the host threads
    UI,             \* the one of them that runs the window and its prompts
    Arch,           \* which engine runs: "arm" or "mips"
    WakeByReset,    \* TRUE: sleep exit is a reset; FALSE: the clock restarts
    MaxResets,      \* bound: host reset requests in a behaviour
    MaxSleeps       \* bound: guest power-downs in a behaviour

JIT  == "jit"
FREE == "free"

ASSUME HostAssumption == JIT \notin Host /\ FREE \notin Host /\ UI \in Host
ASSUME EngineAssumption == Arch \in {"arm", "mips"} /\ WakeByReset \in BOOLEAN
ASSUME BoundAssumption == MaxResets \in Nat /\ MaxSleeps \in Nat

VARIABLES
    jit,              \* where the JIT thread is
    started,          \* started_
    stop_requested,   \* stop_requested_
    stopped,          \* stopped_
    pause_requested,  \* pause_requested_
    paused,           \* paused_, guarded by pause_mutex_
    mutex,            \* the holder of pause_mutex_, or FREE
    cv,               \* Pause() callers asleep in pause_cv_ and not notified
    call,             \* where each host thread is in Pause() or DeliverWake()
    host_exit,        \* the engine's host chain-exit request
    reset_pending,    \* GuestEngine::ResetPending()
    deep_sleep,       \* GuestEngine::DeepSleep()
    wake_claimed,     \* wake_claimed_: somebody is ending this sleep
    active,           \* active_: a recovery prompt is posted or open
    hw_resumed,       \* hw_resumed_: a hardware wake has overtaken the prompt
    vclock_paused,    \* the virtual clock is stopped
    asleep,           \* GuestDeepSleep::asleep_, RunLoop's prev_deep_sleep
    park_end,         \* why the park loop was left; "none" while in it
    resets, sleeps    \* requests and power-downs made so far (bounds)

sleepVars == <<wake_claimed, active, hw_resumed>>
engine == <<host_exit, reset_pending, deep_sleep, sleepVars>>
bounds == <<resets, sleeps>>
vars == <<jit, started, stop_requested, stopped, pause_requested, paused,
          mutex, cv, call, engine, vclock_paused, asleep, park_end, bounds>>

ParkPcs == {"parkTest", "parkPoll", "parkWait", "parkExit"}
StopPcs == {"stopLock", "stopNotify", "done"}
JitPcs  == {"unborn", "loop", "run", "deliver", "guest", "enter", "observe",
            "parkCheck", "parkLock"} \cup ParkPcs \cup StopPcs
CallPcs == {"none", "test", "sleep", "wait", "claimWake", "claimReset",
            "wake", "reset"}
ParkEnds == {"none", "stop", "reset", "release"}

Init ==
    /\ jit = "unborn"
    /\ started = FALSE /\ stop_requested = FALSE /\ stopped = FALSE
    /\ pause_requested = FALSE /\ paused = FALSE
    /\ mutex = FREE /\ cv = {} /\ call = [t \in Host |-> "none"]
    /\ host_exit = FALSE /\ reset_pending = FALSE
    /\ deep_sleep = FALSE /\ wake_claimed = FALSE /\ active = FALSE
    /\ hw_resumed = FALSE
    /\ vclock_paused = FALSE /\ asleep = FALSE /\ park_end = "release"
    /\ resets = 0 /\ sleeps = 0

-----------------------------------------------------------------------------
(* Host threads *)

(* Start(): the thread is born after the pre-start hooks have run. *)
Start ==
    /\ ~started
    /\ started' = TRUE
    /\ jit' = "loop"
    /\ UNCHANGED <<stop_requested, stopped, pause_requested, paused, mutex,
                   cv, call, engine, vclock_paused, asleep, park_end, bounds>>

(* Mutant: Pause() does not tell the engine to leave guest code. *)
PauseCallUnpublished(t) ==
    /\ started /\ call[t] = "none" /\ mutex = FREE
    /\ mutex' = t
    /\ pause_requested' = TRUE
    /\ call' = [call EXCEPT ![t] = "test"]
    /\ UNCHANGED <<jit, started, stop_requested, stopped, paused, cv,
                   host_exit, reset_pending, deep_sleep, sleepVars,
                   vclock_paused, asleep, park_end, bounds>>

(* Pause(): set the request and publish it, then wait for paused_ or       *)
(* stopped_.  The predicate is evaluated under the lock; between that and  *)
(* the sleep the caller still holds it.                                    *)
PauseCall(t) ==
    /\ started /\ call[t] = "none" /\ mutex = FREE
    /\ mutex' = t
    /\ pause_requested' = TRUE
    /\ host_exit' = TRUE
    /\ call' = [call EXCEPT ![t] = "test"]
    /\ UNCHANGED <<jit, started, stop_requested, stopped, paused, cv,
                   reset_pending, deep_sleep, sleepVars, vclock_paused, asleep,
                   park_end, bounds>>

(* Mutant: Pause() returns when the park was asked for, not reached. *)
PauseReturnOnRequest(t) ==
    /\ call[t] = "test" /\ (pause_requested \/ stopped)
    /\ mutex' = FREE
    /\ call' = [call EXCEPT ![t] = "none"]
    /\ UNCHANGED <<jit, started, stop_requested, stopped, pause_requested,
                   paused, cv, engine, vclock_paused, asleep, park_end, bounds>>

PauseReturn(t) ==
    /\ call[t] = "test" /\ (paused \/ stopped)
    /\ mutex' = FREE
    /\ call' = [call EXCEPT ![t] = "none"]
    /\ UNCHANGED <<jit, started, stop_requested, stopped, pause_requested,
                   paused, cv, engine, vclock_paused, asleep, park_end, bounds>>

PauseMustWait(t) ==
    /\ call[t] = "test" /\ ~paused /\ ~stopped
    /\ call' = [call EXCEPT ![t] = "sleep"]
    /\ UNCHANGED <<jit, started, stop_requested, stopped, pause_requested,
                   paused, mutex, cv, engine, vclock_paused, asleep,
                   park_end, bounds>>

PauseSleep(t) ==
    /\ call[t] = "sleep"
    /\ cv' = cv \cup {t}
    /\ mutex' = FREE
    /\ call' = [call EXCEPT ![t] = "wait"]
    /\ UNCHANGED <<jit, started, stop_requested, stopped, pause_requested,
                   paused, engine, vclock_paused, asleep, park_end, bounds>>

PauseWake(t) ==
    /\ call[t] = "wait" /\ t \notin cv /\ mutex = FREE
    /\ mutex' = t
    /\ call' = [call EXCEPT ![t] = "test"]
    /\ UNCHANGED <<jit, started, stop_requested, stopped, pause_requested,
                   paused, cv, engine, vclock_paused, asleep, park_end, bounds>>

(* Resume(): clear the request and publish stop_requested_ alone. *)
Resume(t) ==
    /\ call[t] = "none" /\ mutex = FREE
    /\ pause_requested' = FALSE
    /\ host_exit' = stop_requested
    /\ cv' = {}
    /\ UNCHANGED <<jit, started, stop_requested, stopped, paused, mutex, call,
                   reset_pending, deep_sleep, sleepVars, vclock_paused, asleep,
                   park_end, bounds>>

RequestStop(t) ==
    /\ call[t] = "none" /\ mutex = FREE
    /\ stop_requested' = TRUE
    /\ host_exit' = TRUE
    /\ cv' = {}
    /\ UNCHANGED <<jit, started, stopped, pause_requested, paused, mutex, call,
                   reset_pending, deep_sleep, sleepVars, vclock_paused, asleep,
                   park_end, bounds>>

(* SetResetPending from a host thread; the park is not notified, its timed *)
(* wait sees the flag.                                                     *)
RequestReset(t) ==
    /\ call[t] = "none" /\ resets < MaxResets
    /\ reset_pending' = TRUE
    /\ resets' = resets + 1
    /\ UNCHANGED <<jit, started, stop_requested, stopped, pause_requested,
                   paused, mutex, cv, call, host_exit, deep_sleep,
                   sleepVars, vclock_paused, asleep, park_end, sleeps>>

(* What a delivered wake does to the flags: a reset request on a           *)
(* reset-on-wake SoC, the end of the halt on a clock-stop SoC.             *)
WakeEffect ==
    /\ deep_sleep' = (deep_sleep /\ WakeByReset)
    /\ reset_pending' = (reset_pending \/ WakeByReset)

(* Recover(), posted by Enter's last statement: the prompt is answered, or *)
(* dismissed because a hardware wake came first.  Cancel will deliver the  *)
(* wake and a reset choice a reset; dismissal and the exit choices leave   *)
(* the sleep alone.                                                        *)
RecoverAnswer(next) ==
    /\ active /\ jit # "enter" /\ call[UI] = "none"
    /\ next = "claimWake" => ~hw_resumed
    /\ active' = FALSE /\ hw_resumed' = FALSE
    /\ call' = [call EXCEPT ![UI] = next]
    /\ UNCHANGED <<jit, started, stop_requested, stopped, pause_requested,
                   paused, mutex, cv, host_exit, reset_pending, deep_sleep,
                   wake_claimed, vclock_paused, asleep, park_end, bounds>>

(* wake_claimed_ decides who ends the sleep; the loser does nothing. *)
RecoverClaim ==
    /\ call[UI] \in {"claimWake", "claimReset"}
    /\ wake_claimed' = TRUE
    /\ call' = [call EXCEPT ![UI] = IF wake_claimed THEN "none"
                                    ELSE IF @ = "claimWake" THEN "wake"
                                    ELSE "reset"]
    /\ UNCHANGED <<jit, started, stop_requested, stopped, pause_requested,
                   paused, mutex, cv, host_exit, reset_pending, deep_sleep,
                   active, hw_resumed, vclock_paused, asleep, park_end, bounds>>

RecoverDeliver ==
    /\ \/ call[UI] = "wake" /\ WakeEffect
       \/ call[UI] = "reset" /\ reset_pending' = TRUE /\ UNCHANGED deep_sleep
    /\ call' = [call EXCEPT ![UI] = "none"]
    /\ UNCHANGED <<jit, started, stop_requested, stopped, pause_requested,
                   paused, mutex, cv, host_exit, sleepVars, vclock_paused,
                   asleep, park_end, bounds>>

Recover == (\E next \in {"none", "claimWake", "claimReset"} : RecoverAnswer(next))
           \/ RecoverClaim \/ RecoverDeliver

-----------------------------------------------------------------------------
(* The JIT thread *)

JitGoes(from, to) == jit = from /\ jit' = to

hostVars == <<started, stop_requested, pause_requested, call>>

LoopTest ==
    /\ \/ JitGoes("loop", "run") /\ ~stop_requested /\ UNCHANGED stopped
       \/ JitGoes("loop", "stopLock") /\ stop_requested /\ stopped' = TRUE
    /\ UNCHANGED <<hostVars, paused, mutex, cv, engine, vclock_paused, asleep,
                   park_end, bounds>>

(* engine.Run() first looks for a reset, then dispatches guest code.  The  *)
(* MIPS engine takes the request before it delivers it, the ARM engine     *)
(* clears it at the end of the delivery.                                   *)
RunEnter ==
    /\ \/ /\ JitGoes("run", "deliver") /\ reset_pending
          /\ reset_pending' = (Arch = "arm")
       \/ /\ JitGoes("run", "guest") /\ ~reset_pending
          /\ UNCHANGED reset_pending
    /\ UNCHANGED <<hostVars, stopped, paused, mutex, cv, host_exit, deep_sleep,
                   sleepVars, vclock_paused, asleep, park_end, bounds>>

(* The delivered reset leaves the CPU awake. *)
RunDeliverReset ==
    /\ JitGoes("deliver", "observe")
    /\ reset_pending' = (reset_pending /\ Arch = "mips")
    /\ deep_sleep' = FALSE
    /\ UNCHANGED <<hostVars, stopped, paused, mutex, cv, host_exit,
                   sleepVars, vclock_paused, asleep, park_end, bounds>>

(* Mutant: a new sleep is begun with the claim of the last one. *)
GuestPowerDownKeepsClaim ==
    /\ jit = "guest" /\ ~deep_sleep /\ ~reset_pending /\ sleeps < MaxSleeps
    /\ sleeps' = sleeps + 1
    /\ IF active
       THEN UNCHANGED <<jit, sleepVars>>
       ELSE jit' = "enter" /\ active' = TRUE /\ hw_resumed' = FALSE
            /\ UNCHANGED wake_claimed
    /\ UNCHANGED <<hostVars, stopped, paused, mutex, cv, host_exit, deep_sleep,
                   reset_pending, vclock_paused, asleep, park_end, resets>>

(* A power-down write of a guest that is awake: GuestDeepSleep::Enter       *)
(* yields to a pending reset and to a prompt that is still there, or begins *)
(* a sleep of its own.                                                      *)
GuestPowerDown ==
    /\ jit = "guest" /\ ~deep_sleep /\ ~reset_pending /\ sleeps < MaxSleeps
    /\ sleeps' = sleeps + 1
    /\ IF active
       THEN UNCHANGED <<jit, sleepVars>>
       ELSE /\ jit' = "enter"
            /\ active' = TRUE /\ wake_claimed' = FALSE /\ hw_resumed' = FALSE
    /\ UNCHANGED <<hostVars, stopped, paused, mutex, cv, host_exit, deep_sleep,
                   reset_pending, vclock_paused, asleep, park_end, resets>>

GuestHalts ==
    /\ JitGoes("enter", "guest")
    /\ deep_sleep' = TRUE
    /\ UNCHANGED <<hostVars, stopped, paused, mutex, cv, host_exit,
                   reset_pending, sleepVars, vclock_paused, asleep, park_end,
                   bounds>>

(* Translated code returns to the loop when it likes.  It must return when *)
(* asked to: see Fairness.                                                 *)
GuestReturn ==
    /\ JitGoes("guest", "observe")
    /\ UNCHANGED <<hostVars, stopped, paused, mutex, cv, engine,
                   vclock_paused, asleep, park_end, bounds>>

MustReturn == host_exit \/ reset_pending \/ deep_sleep

(* ObserveAsleep, called on every change of the sleep flag. *)
ObserveAsleep ==
    /\ JitGoes("observe", "parkCheck")
    /\ asleep' = deep_sleep
    /\ UNCHANGED <<hostVars, stopped, paused, mutex, cv, engine,
                   vclock_paused, park_end, bounds>>

ParkCheck ==
    /\ \/ JitGoes("parkCheck", "parkLock") /\ (pause_requested \/ deep_sleep)
       \/ JitGoes("parkCheck", "loop") /\ ~pause_requested /\ ~deep_sleep
    /\ UNCHANGED <<hostVars, stopped, paused, mutex, cv, engine,
                   vclock_paused, asleep, park_end, bounds>>

ParkEnter ==
    /\ JitGoes("parkLock", "parkTest")
    /\ mutex = FREE /\ mutex' = JIT
    /\ paused' = TRUE
    /\ vclock_paused' = TRUE
    /\ cv' = {}
    /\ park_end' = "none"
    /\ UNCHANGED <<hostVars, stopped, engine, asleep, bounds>>

(* Mutant: the park loop forgets the stop request. *)
StayParkedThroughStop ==
    /\ ~reset_pending
    /\ pause_requested \/ deep_sleep

(* The condition under which RunLoop stays in the park. *)
StayParked ==
    /\ ~stop_requested
    /\ ~reset_pending
    /\ pause_requested \/ deep_sleep

ParkLeave(from) ==
    /\ JitGoes(from, "parkExit")
    /\ park_end' = IF stop_requested THEN "stop"
                   ELSE IF reset_pending THEN "reset" ELSE "release"
    /\ UNCHANGED mutex

ParkTest ==
    /\ \/ ParkLeave("parkTest") /\ ~StayParked
       \/ /\ JitGoes("parkTest", "parkPoll") /\ StayParked /\ ~pause_requested
          /\ UNCHANGED <<mutex, park_end>>
       \/ /\ JitGoes("parkTest", "parkWait") /\ StayParked /\ pause_requested
          /\ mutex' = FREE /\ UNCHANGED park_end
    /\ UNCHANGED <<hostVars, stopped, paused, cv, engine, vclock_paused,
                   asleep, bounds>>

(* PollPark delivers no wake; the loop re-reads the flags. *)
ParkPollQuiet ==
    /\ \/ ParkLeave("parkPoll") /\ (reset_pending \/ ~deep_sleep)
       \/ /\ JitGoes("parkPoll", "parkWait") /\ ~reset_pending /\ deep_sleep
          /\ mutex' = FREE /\ UNCHANGED park_end
    /\ UNCHANGED <<hostVars, stopped, paused, cv, engine, vclock_paused,
                   asleep, bounds>>

(* PollPark finds a wake-up event: the prompt is told, and the wake is      *)
(* delivered unless somebody else has claimed this sleep.  The loop then    *)
(* re-reads the flags.                                                      *)
ParkPollWake ==
    /\ jit = "parkPoll"
    /\ hw_resumed' = (hw_resumed \/ active)
    /\ wake_claimed' = TRUE
    /\ IF wake_claimed THEN UNCHANGED <<deep_sleep, reset_pending>> ELSE WakeEffect
    /\ UNCHANGED <<jit, hostVars, stopped, paused, mutex, cv, host_exit, active,
                   vclock_paused, asleep, park_end, bounds>>

(* wait_for returns, notified or not, with the lock. *)
ParkWake ==
    /\ JitGoes("parkWait", "parkTest")
    /\ mutex = FREE /\ mutex' = JIT
    /\ UNCHANGED <<hostVars, stopped, paused, cv, engine, vclock_paused,
                   asleep, park_end, bounds>>

ParkExit ==
    /\ JitGoes("parkExit", "loop")
    /\ mutex' = FREE
    /\ paused' = FALSE
    /\ vclock_paused' = FALSE
    /\ UNCHANGED <<hostVars, stopped, cv, engine, asleep, park_end, bounds>>

(* Mutant: stopped_ is published without passing through the lock. *)
StopWithoutLock ==
    /\ JitGoes("stopLock", "stopNotify")
    /\ UNCHANGED <<hostVars, stopped, paused, mutex, cv, engine,
                   vclock_paused, asleep, park_end, bounds>>

(* After the loop: the lock is taken and dropped between the store to      *)
(* stopped_ and the notification.                                          *)
StopLock ==
    /\ JitGoes("stopLock", "stopNotify")
    /\ mutex = FREE
    /\ UNCHANGED <<hostVars, stopped, paused, mutex, cv, engine,
                   vclock_paused, asleep, park_end, bounds>>

StopNotify ==
    /\ JitGoes("stopNotify", "done")
    /\ cv' = {}
    /\ UNCHANGED <<hostVars, stopped, paused, mutex, engine,
                   vclock_paused, asleep, park_end, bounds>>

JitNext ==
    \/ LoopTest \/ RunEnter \/ RunDeliverReset \/ GuestPowerDown \/ GuestHalts
    \/ GuestReturn
    \/ ObserveAsleep \/ ParkCheck \/ ParkEnter \/ ParkTest \/ ParkPollQuiet
    \/ ParkPollWake \/ ParkWake \/ ParkExit \/ StopLock \/ StopNotify

PauseNext(t) ==
    PauseReturn(t) \/ PauseMustWait(t) \/ PauseSleep(t) \/ PauseWake(t)

HostNext(t) ==
    \/ PauseCall(t) \/ PauseNext(t) \/ Resume(t) \/ RequestStop(t)
    \/ RequestReset(t)

Next == Start \/ JitNext \/ Recover \/ \E t \in Host : HostNext(t)

-----------------------------------------------------------------------------
(* Fairness.  The operating system runs every runnable thread and grants a *)
(* mutex that keeps being released.  Guest code is only trusted to return  *)
(* when the engine was asked to leave it.                                  *)
JitRunnable ==
    \/ LoopTest \/ RunEnter \/ RunDeliverReset \/ GuestHalts
    \/ (MustReturn /\ GuestReturn)
    \/ ObserveAsleep \/ ParkCheck \/ ParkTest \/ ParkPollQuiet \/ ParkExit
    \/ StopNotify

JitLocks == ParkEnter \/ ParkWake \/ StopLock

HostRunnable(t) == PauseReturn(t) \/ PauseMustWait(t) \/ PauseSleep(t)

JitFairness == WF_vars(JitRunnable) /\ SF_vars(JitLocks)

Fairness ==
    /\ WF_vars(Start)
    /\ JitFairness
    /\ WF_vars(RecoverClaim \/ RecoverDeliver)
    /\ \A t \in Host : WF_vars(HostRunnable(t)) /\ SF_vars(PauseWake(t))

Spec == Init /\ [][Next]_vars
FairSpec == Spec /\ Fairness

-----------------------------------------------------------------------------
(* The types of the variables of RunLoop, Pause, Resume and RequestStop. *)
ThreadsOK ==
    /\ jit \in JitPcs
    /\ mutex \in Host \cup {JIT, FREE}
    /\ cv \subseteq Host
    /\ call \in [Host -> CallPcs]
    /\ park_end \in ParkEnds

FlagsOK ==
    /\ started \in BOOLEAN /\ stop_requested \in BOOLEAN
    /\ stopped \in BOOLEAN /\ pause_requested \in BOOLEAN
    /\ paused \in BOOLEAN /\ vclock_paused \in BOOLEAN /\ asleep \in BOOLEAN
    /\ host_exit \in BOOLEAN /\ reset_pending \in BOOLEAN
    /\ deep_sleep \in BOOLEAN /\ wake_claimed \in BOOLEAN
    /\ active \in BOOLEAN /\ hw_resumed \in BOOLEAN

BoundsOK == resets \in 0..MaxResets /\ sleeps \in 0..MaxSleeps

TypeOK == ThreadsOK /\ FlagsOK /\ BoundsOK

(* Whoever can take pause_mutex_ and reads paused_ set knows that the JIT  *)
(* thread sits in the park's wait, with the virtual clock stopped, and     *)
(* that it is nowhere else when paused_ is clear.                          *)
PausedMeansParked ==
    mutex # JIT =>
        /\ paused <=> jit = "parkWait"
        /\ vclock_paused <=> jit = "parkWait"

(* Pause() "returns once the guest CPU is parked between blocks": in the   *)
(* step in which it returns the JIT thread is in the park's wait or has    *)
(* left RunLoop for good.                                                  *)
PauseReturnsParked ==
    [][\A t \in Host : PauseReturn(t) => jit \in {"parkWait"} \cup StopPcs]_vars

(* No Pause() caller sleeps through the end of the JIT thread: once        *)
(* RunLoop has notified for the last time, nobody is left in pause_cv_     *)
(* waiting for a park that will never come.                                *)
NoSleeperAfterStop ==
    jit = "done" => \A t \in Host : t \notin cv /\ call[t] # "sleep"

(* The request published to the engine is the OR of the two requests, so   *)
(* chained guest blocks are left exactly when RunLoop must look at them.   *)
ExitPublished ==
    host_exit <=> (pause_requested \/ stop_requested)

(* A stop request ends the JIT thread, parked, asleep or running guest     *)
(* code: RequestStop reaches RunLoop in every state.                       *)
StopEnds == stop_requested /\ started ~> jit = "done"

(* "On Cancel it wakes the guest": a prompt that is cancelled ends the     *)
(* sleep, whatever wakes and resets race it.                               *)
CancelWakes ==
    call[UI] = "claimWake" ~> ~deep_sleep \/ stop_requested
=============================================================================
