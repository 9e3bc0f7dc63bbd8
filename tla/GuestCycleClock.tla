--------------------------- MODULE GuestCycleClock ---------------------------
(***************************************************************************)
(* The guest's cycle clock (src/cerf/jit/guest_cycle_clock.cpp and its two *)
(* engines' arm_guest_cycle_clock.cpp, mips_guest_cycle_clock.cpp).        *)
(*                                                                         *)
(* Translated code counts cycles in a counter of 32 bits and leaves for    *)
(* the dispatcher when it has reached a published deadline, by a signed    *)
(* comparison.  The clock folds that counter into 64 bits, keeps the       *)
(* events the devices arm at 64-bit cycle numbers, runs the ones that are  *)
(* due, paces the guest against the host's wall clock with an event of its *)
(* own, lets an idle guest jump to its next event, and converts cycles to  *)
(* nanoseconds at a rate that the guest itself may change.                 *)
(*                                                                         *)
(* All of it runs on the JIT thread, so a step is not an interleaving but  *)
(* a piece of a call tree: RunDue calls event callbacks, these call back   *)
(* into Arm, Disarm and SetClockRate, and SetClockRate calls RunDue.  The  *)
(* variable stack is that tree's current path; while it is not empty the   *)
(* counter stands still.                                                   *)
(*                                                                         *)
(* Left out: Normalized and CpuHz (fatal checks of a device's arguments),  *)
(* statistics and logs.  VirtualClock is the variable wall.                *)
(***************************************************************************)
EXTENDS Integers, Sequences, FiniteSetsExt

CONSTANTS
    Device,       \* how many events the devices have added
    Wrap,         \* the counter's modulus (2^32)
    MaxSlice,     \* kMaxSliceCycles (2^30)
    MaxBlock,     \* cycles translated code may run between two polls
    Rates,        \* the clock rates, as [ns_unit, cyc_unit]
    ResetRate,    \* InitialRate()
    SliceNs,      \* kThrottleSliceNs
    MaxCatchUpNs, \* kMaxCatchUpNs
    Delays,       \* how far ahead a device arms an event
    Pauses,       \* how much wall time may pass between two steps
    Saved,        \* cycle numbers a restored machine may stand at
    MaxCycles, MaxWall, MaxRequests   \* bounds

Throttle == 0          \* OnReady adds it before any device can
Events   == 0..Device  \* in the order they were added
Never    == -1         \* at_ of an event that is not armed: nobody reads it

ASSUME DeviceAssumption == Device \in Nat
ASSUME CounterAssumption ==
    /\ Wrap \in Nat /\ MaxSlice \in Nat /\ MaxBlock \in Nat
    /\ MaxSlice > 0 /\ MaxBlock > 0 /\ 2 * (MaxSlice + MaxBlock) < Wrap
ASSUME RateAssumption ==
    /\ ResetRate \in Rates
    /\ Rates \subseteq [ns_unit : Nat \ {0}, cyc_unit : Nat \ {0}]
ASSUME PaceAssumption == SliceNs \in Nat /\ MaxCatchUpNs \in Nat
ASSUME InputAssumption ==
    Delays \subseteq Nat /\ Pauses \subseteq Nat /\ Saved \subseteq Nat
ASSUME BoundAssumption ==
    MaxCycles \in Nat /\ MaxWall \in Nat /\ MaxRequests \in Nat

VARIABLES
    counter,          \* guest_cycle_counter, of Wrap values
    folded, hi,       \* guest_cycle_folded, guest_cycle_hi
    deadline,         \* guest_cycle_deadline, of Wrap values
    at,               \* Event::at_ where armed_, else Never
    rate,             \* rate_, ns_unit_, cyc_unit_
    rate_requests,    \* rate_requests_
    ref_cycle, ref_wall_ns,        \* the wall clock's anchor
    guest_ns_cycle, guest_ns,      \* the guest time's anchor
    wall,             \* VirtualClock::NowNs()
    mode,             \* what called the clock: "guest", "wfi", "restore"
    left,             \* cycles the translated code runs before its next poll
    stack,            \* the calls under way, innermost last
    unrestored,       \* device events whose PostRestore has not run
    total,            \* ghost: the cycles really executed, unbounded
    asked,            \* ghost: the rate asked for last
    last_run,         \* ghost: the cycle the event run last was armed at
    restored_at       \* ghost: the cycle this machine was restored at

count   == <<counter, folded, hi>>
fold    == <<folded, hi>>
queue   == <<at, deadline>>
anchors == <<ref_cycle, ref_wall_ns, guest_ns_cycle, guest_ns>>
pace    == <<rate, rate_requests, anchors, asked>>
place   == <<mode, left, unrestored>>
ghosts  == <<total, last_run, restored_at>>
vars == <<count, queue, pace, wall, place, stack, ghosts>>

-----------------------------------------------------------------------------
(* Arithmetic *)

(* ScaleU64: value * num / den, in a form whose products stay small. *)
Scale(value, num, den) ==
    (value \div den) * num + ((value % den) * num) \div den

NsToCyclesAt(r, ns) == Scale(ns, r.cyc_unit, r.ns_unit)
CyclesToNsAt(r, c)  == Scale(c, r.ns_unit, r.cyc_unit)
NsToCycles(ns) == NsToCyclesAt(rate, ns)
CyclesToNs(c)  == CyclesToNsAt(rate, c)

(* CyclesNow(): a counter below its last reading has wrapped once. *)
FoldHi == IF counter < folded THEN hi + 1 ELSE hi
Now == FoldHi * Wrap + counter

(* Mutant: the reading is not kept. *)
FoldForgets == UNCHANGED folded /\ hi' = FoldHi

(* CyclesNow()'s side effect. *)
Fold == folded' = counter /\ hi' = FoldHi

(* SetCycles(). *)
SetCycles(c) ==
    /\ counter' = c % Wrap /\ folded' = c % Wrap /\ hi' = c \div Wrap
    /\ total' = c

(* CycleDeadlineReached(): the difference, read as a signed number. *)
DeadlineReached == (counter - deadline) % Wrap < Wrap \div 2

TargetWallNs(c) == ref_wall_ns + CyclesToNs(c - ref_cycle)
NowNs == guest_ns + CyclesToNs(Now - guest_ns_cycle)

-----------------------------------------------------------------------------
(* Events *)

Armed(e) == at[e] # Never
Due(now) == {e \in Events : Armed(e) /\ at[e] <= now}

(* NextArmed() of the events in a; the throttle is always one of them. *)
NextArmed(a) == Min({a[e] : e \in Events} \ {Never})

(* PublishDeadline(): a counter at c, and a deadline so little ahead that  *)
(* the signed comparison can read it.                                      *)
PublishDeadline(c, ahead) == deadline' = (c + Min({ahead, MaxSlice})) % Wrap

(* Publish(now), over the events in a. *)
Publish(c, now, a) ==
    PublishDeadline(c, IF NextArmed(a) > now THEN NextArmed(a) - now ELSE 0)

(* Mutant: Arm() leaves the deadline for the next dispatch to publish. *)
ArmUnpublished(e, cycle) ==
    /\ at' = [at EXCEPT ![e] = cycle]
    /\ UNCHANGED deadline
    /\ Fold

Arm(e, cycle) ==
    /\ at' = [at EXCEPT ![e] = cycle]
    /\ Publish(counter, Now, at')
    /\ Fold

Disarm(e) ==
    /\ at' = [at EXCEPT ![e] = Never]
    /\ Publish(counter, Now, at')
    /\ Fold

Push(frame) == stack' = Append(stack, frame)
Pop == stack' = SubSeq(stack, 1, Len(stack) - 1)
Top == stack[Len(stack)]
TopIs(fns) == stack # <<>> /\ Top.fn \in fns
Dispatch == [fn |-> "dispatch"]   \* RunDue, then Publish
DeviceCode == [fn |-> "device"]   \* a callback, a listener, an access
RateCall(r, n) == [fn |-> "rate", rate |-> r, request |-> n]

(* Mutant: the event armed first is run first, whatever its cycle. *)
FirstDueByIndex(now) == Min(Due(now))

(* RunDue()'s scan: the earliest, and of equals the first added. *)
FirstDue(now) ==
    LET due == Due(now)
    IN  CHOOSE e \in due : \A f \in due :
            at[e] < at[f] \/ (at[e] = at[f] /\ e <= f)

(* OnThrottle(): sleep until the wall has caught up, or forgive the guest  *)
(* what it lags behind by more than MaxCatchUpNs; then come back in one    *)
(* slice.  A sleep may end late.                                           *)
OnThrottle ==
    LET target == TargetWallNs(Now)
    IN  /\ \E late \in Pauses \cup {0} :
               wall' = IF target > wall THEN target + late ELSE wall
        /\ ref_wall_ns' = IF wall - target > MaxCatchUpNs
                          THEN ref_wall_ns + (wall - target) - MaxCatchUpNs
                          ELSE ref_wall_ns
        /\ Arm(Throttle, Now + NsToCycles(SliceNs))

(* RunDue()'s loop: disarm the first event that is due and call it. *)
RunThrottle ==
    /\ TopIs({"dispatch", "rate"}) /\ Due(Now) # {}
    /\ FirstDue(Now) = Throttle
    /\ OnThrottle
    /\ last_run' = at[Throttle]
    /\ UNCHANGED <<counter, rate, rate_requests, ref_cycle, guest_ns_cycle,
                   guest_ns, asked, place, stack, total, restored_at>>

RunDevice ==
    /\ TopIs({"dispatch", "rate"}) /\ Due(Now) # {}
    /\ FirstDue(Now) # Throttle
    /\ at' = [at EXCEPT ![FirstDue(Now)] = Never]
    /\ last_run' = at[FirstDue(Now)]
    /\ Push(DeviceCode)
    /\ UNCHANGED <<count, deadline, pace, wall, place, total, restored_at>>

(* RunDue() is over, under OnDispatch() or IdleStep(). *)
DispatchEnd ==
    /\ TopIs({"dispatch"}) /\ Due(Now) = {}
    /\ Pop
    /\ Publish(counter, Now, at)
    /\ UNCHANGED <<count, at, pace, wall, place, ghosts>>

-----------------------------------------------------------------------------
(* Device code, on the JIT thread *)

DeviceArms ==
    /\ TopIs({"device"})
    /\ \E e \in Events \ {Throttle}, d \in Delays : Arm(e, Now + d)
    /\ UNCHANGED <<counter, pace, wall, place, stack, ghosts>>

DeviceDisarms ==
    /\ TopIs({"device"})
    /\ \E e \in Events \ {Throttle} : Armed(e) /\ Disarm(e)
    /\ UNCHANGED <<counter, pace, wall, place, stack, ghosts>>

DeviceReturns ==
    /\ TopIs({"device"})
    /\ Pop
    /\ UNCHANGED <<count, queue, pace, wall, place, ghosts>>

(* Mutant: a request for the rate there already is does not count. *)
SetClockRateCounted(r) ==
    /\ rate_requests < MaxRequests
    /\ asked' = r
    /\ IF r = rate
       THEN UNCHANGED <<rate_requests, fold, stack>>
       ELSE /\ rate_requests' = rate_requests + 1
            /\ Fold /\ Push(RateCall(r, rate_requests + 1))

(* SetClockRate(), up to its RunDue(). *)
SetClockRate(r) ==
    /\ rate_requests < MaxRequests
    /\ rate_requests' = rate_requests + 1
    /\ asked' = r
    /\ IF r = rate
       THEN UNCHANGED <<fold, stack>>
       ELSE Fold /\ Push(RateCall(r, rate_requests + 1))

DeviceSetsRate ==
    /\ TopIs({"device"})
    /\ \E r \in Rates : SetClockRate(r)
    /\ UNCHANGED <<counter, queue, rate, anchors, wall, place, ghosts>>

(* SetClockRate(), after its RunDue(): a callback has asked again, and its *)
(* request stands.                                                         *)
RateOvertaken ==
    /\ TopIs({"rate"}) /\ Due(Now) = {}
    /\ rate_requests # Top.request
    /\ Pop
    /\ UNCHANGED <<count, queue, pace, wall, place, ghosts>>

(* Mutant: the guest time is carried over at the new rate. *)
CarryAtNewRate(r) ==
    /\ ref_wall_ns' = TargetWallNs(Now) /\ ref_cycle' = Now
    /\ guest_ns' = guest_ns + CyclesToNsAt(r, Now - guest_ns_cycle)
    /\ guest_ns_cycle' = Now

(* The two anchors move to this cycle, at the old rate. *)
Carry(r) ==
    /\ ref_wall_ns' = TargetWallNs(Now) /\ ref_cycle' = Now
    /\ guest_ns' = guest_ns + CyclesToNs(Now - guest_ns_cycle)
    /\ guest_ns_cycle' = Now

(* Mutant: every change of the rate begins a whole slice. *)
SliceLeftWhole == SliceNs

(* What is left of the slice, in the old rate's nanoseconds. *)
SliceLeft ==
    IF Armed(Throttle) THEN CyclesToNs(at[Throttle] - Now) ELSE SliceNs

(* Mutant: the slice that is left is carried over in cycles. *)
RateChangesInCycles ==
    /\ TopIs({"rate"}) /\ Due(Now) = {}
    /\ rate_requests = Top.request
    /\ Carry(Top.rate)
    /\ rate' = Top.rate
    /\ Arm(Throttle, at[Throttle])
    /\ stack' = [stack EXCEPT ![Len(stack)] = DeviceCode]
    /\ UNCHANGED <<counter, rate_requests, asked, wall, place, ghosts>>

(* SetClockRate(), the change itself; its listeners are device code. *)
RateChanges ==
    /\ TopIs({"rate"}) /\ Due(Now) = {}
    /\ rate_requests = Top.request
    /\ Carry(Top.rate)
    /\ rate' = Top.rate
    /\ Arm(Throttle, Now + NsToCyclesAt(Top.rate, SliceLeft))
    /\ stack' = [stack EXCEPT ![Len(stack)] = DeviceCode]
    /\ UNCHANGED <<counter, rate_requests, asked, wall, place, ghosts>>

-----------------------------------------------------------------------------
(* Translated code *)

InGuest == mode = "guest" /\ stack = <<>>

(* The poll before a translation: go on, for up to MaxBlock cycles. *)
PollGoesOn ==
    /\ InGuest /\ left = 0 /\ ~DeadlineReached
    /\ \E n \in 1..MaxBlock : left' = n
    /\ UNCHANGED <<count, queue, pace, wall, mode, unrestored, stack, ghosts>>

(* Mutant: the counter is one of 64 bits. *)
ExecuteWide ==
    /\ InGuest /\ left > 0 /\ total < MaxCycles
    /\ counter' = counter + 1 /\ total' = total + 1
    /\ left' = left - 1
    /\ UNCHANGED <<fold, queue, pace, wall, mode, unrestored, stack, last_run,
                   restored_at>>

Execute ==
    /\ InGuest /\ left > 0 /\ total < MaxCycles
    /\ counter' = (counter + 1) % Wrap /\ total' = total + 1
    /\ left' = left - 1
    /\ UNCHANGED <<fold, queue, pace, wall, mode, unrestored, stack, last_run,
                   restored_at>>

(* OnDispatch(), from the dispatcher, from the park (which the engine      *)
(* enters at a poll), or from an access to a device.                       *)
OnDispatch ==
    /\ InGuest /\ (left = 0 \/ DeadlineReached)
    /\ Fold
    /\ Push(Dispatch)
    /\ UNCHANGED <<counter, queue, pace, wall, place, ghosts>>

(* An access to a device: DeliverDueClockEvents has run what was due. *)
Access ==
    /\ InGuest /\ ~DeadlineReached
    /\ Push(DeviceCode)
    /\ UNCHANGED <<count, queue, pace, wall, place, ghosts>>

(* Wall time passes while guest code runs; the host may stall it. *)
TimePasses ==
    /\ InGuest /\ wall < MaxWall
    /\ \E d \in Pauses : wall' = wall + d
    /\ UNCHANGED <<count, queue, pace, place, stack, ghosts>>

-----------------------------------------------------------------------------
(* Idle: WaitForInterrupt's loop around IdleStep() *)

EnterWfi ==
    /\ InGuest
    /\ mode' = "wfi" /\ left' = 0
    /\ UNCHANGED <<count, queue, pace, wall, unrestored, stack, ghosts>>

(* An interrupt, a reset or a host request ends the wait. *)
ExitIdle ==
    /\ mode = "wfi" /\ stack = <<>>
    /\ mode' = "guest"
    /\ UNCHANGED <<count, queue, pace, wall, left, unrestored, stack, ghosts>>

(* IdleStep(): an event is due already. *)
IdleDue ==
    /\ mode = "wfi" /\ stack = <<>> /\ NextArmed(at) <= Now
    /\ Fold /\ Push(Dispatch)
    /\ UNCHANGED <<counter, queue, pace, wall, place, ghosts>>

(* Where an idle guest stands at wall time w: at its next event, or, when  *)
(* the wait ended before, as far as the wall clock has come.               *)
Advanced(next, w) ==
    LET elapsed == w - TargetWallNs(Now)
    IN  IF w >= TargetWallNs(next) THEN next
        ELSE IF elapsed > 0 THEN Min({next, Now + NsToCycles(elapsed)})
        ELSE Now

(* IdleStep(): wait for the next event's time or for the wake event, and   *)
(* move the counter.  wall' is the reading after the wait, if there is one;*)
(* the wait may end before that time, at it, or late.                      *)
IdleStep ==
    LET next == NextArmed(at)
    IN  /\ mode = "wfi" /\ stack = <<>> /\ next > Now /\ next <= MaxCycles
        /\ \/ wall >= TargetWallNs(next) /\ wall' = wall
           \/ /\ wall < TargetWallNs(next)
              /\ \/ wall' \in wall..TargetWallNs(next)
                 \/ \E late \in Pauses : wall' = TargetWallNs(next) + late
        /\ SetCycles(Advanced(next, wall'))
        /\ Push(Dispatch)
        /\ UNCHANGED <<queue, pace, place, last_run, restored_at>>

-----------------------------------------------------------------------------
(* Restoring a saved machine *)

(* RestoreCpuState(): the counter as it was saved, then OnCyclesRestored().*)
(* The devices' events are still those of the machine before.              *)
RestoreCpuState(c) ==
    /\ InGuest /\ left = 0 /\ wall < MaxWall
    /\ SetCycles(c)
    /\ ref_cycle' = c /\ guest_ns_cycle' = c
    /\ ref_wall_ns' = wall /\ guest_ns' = CyclesToNs(c)
    /\ at' = [at EXCEPT ![Throttle] = c + NsToCycles(SliceNs)]
    /\ Publish(c, c, at')
    /\ mode' = "restore" /\ unrestored' = Events \ {Throttle}
    /\ last_run' = 0 /\ restored_at' = c
    /\ UNCHANGED <<rate, rate_requests, asked, wall, left, stack>>

Restore == \E c \in Saved : RestoreCpuState(c)

(* A device's PostRestore arms its event anew, disarms it, or, with nothing*)
(* to arm, leaves it as it is (the UART's transmitter): at a cycle of the  *)
(* machine before, which may be past already.                              *)
PostRestoreEvent ==
    /\ mode = "restore" /\ stack = <<>>
    /\ \E e \in unrestored :
           /\ \/ \E d \in Delays : Arm(e, Now + d)
              \/ Disarm(e)
              \/ UNCHANGED <<queue, fold>>
           /\ unrestored' = unrestored \ {e}
    /\ UNCHANGED <<counter, pace, wall, mode, left, stack, ghosts>>

(* The clock manager's PostRestore sets the saved rate, and runs what is   *)
(* due on the way.                                                         *)
PostRestoreRate ==
    /\ mode = "restore" /\ stack = <<>>
    /\ \E r \in Rates : SetClockRate(r)
    /\ UNCHANGED <<counter, queue, rate, anchors, wall, place, ghosts>>

RestoreEnds ==
    /\ mode = "restore" /\ stack = <<>> /\ unrestored = {}
    /\ mode' = "guest"
    /\ UNCHANGED <<count, queue, pace, wall, left, unrestored, stack, ghosts>>

-----------------------------------------------------------------------------
(* OnReady(): the counter is at zero and the throttle is armed. *)
Init ==
    /\ counter = 0 /\ folded = 0 /\ hi = 0 /\ total = 0
    /\ last_run = 0 /\ restored_at = 0
    /\ rate = ResetRate /\ asked = ResetRate /\ rate_requests = 0
    /\ ref_cycle = 0 /\ ref_wall_ns = 0 /\ guest_ns_cycle = 0 /\ guest_ns = 0
    /\ wall = 0
    /\ at = [[e \in Events |-> Never] EXCEPT
                ![Throttle] = NsToCyclesAt(ResetRate, SliceNs)]
    /\ deadline = Min({NsToCyclesAt(ResetRate, SliceNs), MaxSlice}) % Wrap
    /\ mode = "guest" /\ left = 0 /\ stack = <<>> /\ unrestored = {}

Next ==
    \/ RunThrottle \/ RunDevice \/ DispatchEnd
    \/ DeviceArms \/ DeviceDisarms \/ DeviceReturns \/ DeviceSetsRate
    \/ RateOvertaken \/ RateChanges
    \/ PollGoesOn \/ Execute \/ OnDispatch \/ Access \/ TimePasses
    \/ EnterWfi \/ ExitIdle \/ IdleDue \/ IdleStep
    \/ Restore \/ PostRestoreEvent \/ PostRestoreRate \/ RestoreEnds

Spec == Init /\ [][Next]_vars

-----------------------------------------------------------------------------
(* Properties *)

Word == 0..(Wrap - 1)
Frames == {Dispatch, DeviceCode}
          \cup {RateCall(r, n) : r \in Rates, n \in 1..MaxRequests}

(* The types; in particular the cycle numbers and times never go below 0,  *)
(* which the code's unsigned differences rely on.                          *)
TypeOK ==
    /\ counter \in Word /\ folded \in Word /\ deadline \in Word /\ hi \in Nat
    /\ at \in [Events -> Nat \cup {Never}]
    /\ rate \in Rates /\ asked \in Rates /\ rate_requests \in 0..MaxRequests
    /\ ref_cycle \in Nat /\ ref_wall_ns \in Nat
    /\ guest_ns_cycle \in Nat /\ guest_ns \in Nat
    /\ wall \in Nat /\ total \in Nat /\ last_run \in Nat /\ restored_at \in Nat
    /\ mode \in {"guest", "wfi", "restore"} /\ left \in 0..MaxBlock
    /\ \A i \in DOMAIN stack : stack[i] \in Frames
    /\ unrestored \subseteq Events

(* The 64-bit cycle number made of a wrapped 32-bit counter and its last   *)
(* reading is the number of cycles executed: the counter never wraps twice *)
(* between two readings (CyclesNow()).                                     *)
FoldExact == Now = total

(* No event is left waiting for more cycles than one translation takes:    *)
(* not by a callback, a rate change or an idle jump, and not by a restored *)
(* counter, which may stand beyond the events of the machine before: those *)
(* a PostRestore leaves armed are run within a translation of the restore. *)
EventsOnTime ==
    \A e \in Events :
        Armed(e) => \E c \in {at[e], restored_at} : total <= c + MaxBlock

(* When no SetClockRate() is under way the rate is the one asked for last, *)
(* though its RunDue() may have run callbacks that ask for others.         *)
LastRequestWins ==
    (\A i \in DOMAIN stack : stack[i].fn # "rate") => rate = asked

(* The throttle is always armed, at most one slice of guest time ahead, so *)
(* that an idle guest has an event to wait for (IdleStep() dies otherwise) *)
(* and at no rate the guest outruns the throttle; and the difference that  *)
(* SetClockRate() takes is not negative when it takes it.                  *)
ThrottleAhead ==
    /\ Armed(Throttle)
    /\ at[Throttle] >= total => CyclesToNs(at[Throttle] - total) <= SliceNs
    /\ TopIs({"rate"}) /\ Due(Now) = {} => at[Throttle] > Now

(* The guest is never further ahead of the wall clock than a slice and one *)
(* translation, however often its rate changes (OnThrottle(), IdleStep()). *)
GuestNotAhead ==
    TargetWallNs(total) <= wall + SliceNs + CyclesToNs(MaxBlock) + 1

(* Guest time never goes back, across a wrap of the counter, an idle jump  *)
(* or a change of the rate; only a restored machine has another time.      *)
GuestTimeMonotone ==
    [][mode' = mode \/ mode' # "restore" => NowNs' >= NowNs]_vars

(* Events are run in the order of the cycles they were armed at, through   *)
(* every nesting of RunDue() in callbacks and rate changes, every jump of  *)
(* an idle guest and every re-arming of the throttle; only a restored      *)
(* machine starts again (RunDue()).                                        *)
RunInOrder == [][last_run' < last_run => mode # mode']_vars

=============================================================================
