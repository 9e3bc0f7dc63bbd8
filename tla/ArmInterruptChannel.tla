------------------------- MODULE ArmInterruptChannel -------------------------
(***************************************************************************)
(* From an interrupt source to guest code, on ARM                          *)
(* (src/cerf/jit/arm/arm_interrupt_channel.cpp, the dispatch gate of       *)
(* ArmJit::Run, the interrupt controller of src/cerf/socs/sa11xx).         *)
(*                                                                         *)
(* Device threads and the JIT thread itself raise and lower sources of the *)
(* controller; under its mutex it drives two lines of the channel, the IRQ *)
(* line and the one that ends idle mode.  Translated code looks at neither:*)
(* it is told to return by bits of chain_exit_request, and a CPU in WFI    *)
(* sleeps on an auto-reset event which is signalled on edges only.  No     *)
(* lock relates lines, bits and event, so each access is a step.           *)
(*                                                                         *)
(* Left out: FIQ (fatal in the code), the Flush bit (set and cleared by    *)
(* the JIT thread, ignored by WFI), deep sleep and the park (JitRunner),   *)
(* what a reset delivery takes (GuestReset), and a restore, which replaces *)
(* the lines with everybody at rest (Hibernation).                         *)
(***************************************************************************)
EXTENDS Naturals

CONSTANTS
    Source,     \* the interrupt sources
    Device      \* the threads that raise them, other than the JIT thread

JIT == "jit"
FREE == "free"

ASSUME DeviceAssumption == JIT \notin Device /\ FREE \notin Device

VARIABLES
    icpr, icmr,      \* sources pending; sources enabled and routed to IRQ
    dim,             \* ICCR.DIM: disabled sources do not end idle mode
    intc,            \* the holder of the controller's state_mtx_, or FREE
    note,            \* how far that holder is in NotifyLocked
    irq_line, idle_wake_line, host_request,   \* the channel's words
    chain_irq, chain_host, chain_reset,       \* bits of chain_exit_request
    idle_event,      \* the auto-reset event is signalled
    work,            \* the devices whose listener has work to collect
    ask,             \* how far each device is in HostRequestChannel::Request
    reset_pending,   \* ArmCpuState::reset_pending
    pend,            \* how far a host thread is in SetResetPending
    jit,             \* where the JIT thread is
    masked           \* CPSR.I

intcRegs == <<icpr, icmr, dim>>
notifyVars == <<intc, note>>
chain == <<chain_irq, chain_host, chain_reset>>
requestVars == <<host_request, work, ask>>
resetVars == <<reset_pending, pend>>
cpuVars == <<jit, masked>>
vars == <<intcRegs, notifyVars, irq_line, idle_wake_line, chain, idle_event,
          requestVars, resetVars, cpuVars>>

Notes == {"done", "line", "chainEdge", "chain", "unchain", "event", "idle",
          "idleEvent"}
RunPcs == {"loop", "run", "resetTaken", "resetRaise", "take", "serve",
           "clock", "clear", "gate"}
WfiPcs == {"wfi", "wfiHost", "wfiServe", "wfiLine", "wfiIdle", "idle", "wait",
           "due"}
JitPcs == RunPcs \cup {"guest"} \cup WfiPcs

Init ==
    /\ icpr = {} /\ icmr = {} /\ dim = FALSE
    /\ intc = FREE /\ note = "done"
    /\ irq_line = FALSE /\ idle_wake_line = FALSE /\ host_request = FALSE
    /\ chain_irq = FALSE /\ chain_host = FALSE /\ chain_reset = FALSE
    /\ idle_event = FALSE
    /\ work = {} /\ ask = [d \in Device |-> "none"]
    /\ reset_pending = FALSE /\ pend = "none"
    /\ jit = "loop" /\ masked = TRUE

-----------------------------------------------------------------------------
(* The interrupt controller.  IcIpLocked and IdleWakeLocked.               *)
IcIp == icpr \cap icmr
IrqLevel == IcIp # {}
IdleWake == IF dim THEN IrqLevel ELSE icpr # {}

(* A thread may take the controller's mutex when it is free; the JIT       *)
(* thread does so for the guest's register accesses, from the events that  *)
(* GuestCycleClock runs, and from request and reset listeners.             *)
MayLock(t) ==
    /\ intc = FREE
    /\ t = JIT => jit \in {"clock", "guest", "idle", "due", "serve",
                           "wfiServe", "resetTaken"}

Notify(t) == intc' = t /\ note' = "line"
NotifyIf(t, changed) == IF changed THEN Notify(t) ELSE UNCHANGED notifyVars

intcRest == <<irq_line, idle_wake_line, chain, idle_event, requestVars,
              resetVars, cpuVars>>

AssertSource(t, s) ==
    /\ MayLock(t) /\ s \notin icpr
    /\ icpr' = icpr \cup {s} /\ Notify(t)
    /\ UNCHANGED <<icmr, dim, intcRest>>

DeassertSource(t, s) ==
    /\ MayLock(t) /\ s \in icpr
    /\ icpr' = icpr \ {s} /\ Notify(t)
    /\ UNCHANGED <<icmr, dim, intcRest>>

(* Several sources at once: the lines are driven only if ICIP or the idle *)
(* wake changes.                                                           *)
SetSourceLevel(t) ==
    /\ MayLock(t)
    /\ \E levels \in SUBSET Source : icpr' = levels
    /\ UNCHANGED <<icmr, dim, intcRest>>
    /\ NotifyIf(t, IcIp' # IcIp \/ IdleWake' # IdleWake)

(* Mutant: a write of ICMR or ICCR compares ICIP alone. *)
WriteRegForgetsWake ==
    /\ jit = "guest" /\ MayLock(JIT)
    /\ \/ icmr' \in SUBSET Source /\ UNCHANGED dim
       \/ dim' \in BOOLEAN /\ UNCHANGED icmr
    /\ UNCHANGED <<icpr, intcRest>>
    /\ NotifyIf(JIT, IcIp' # IcIp)

(* The guest writes ICMR or ICCR. *)
WriteReg ==
    /\ jit = "guest" /\ MayLock(JIT)
    /\ \/ icmr' \in SUBSET Source /\ UNCHANGED dim
       \/ dim' \in BOOLEAN /\ UNCHANGED icmr
    /\ UNCHANGED <<icpr, intcRest>>
    /\ NotifyIf(JIT, IcIp' # IcIp \/ IdleWake' # IdleWake)

(* NotifyLocked: SetInterruptPending or ClearInterruptPending, then        *)
(* SetIdleWake, one atomic operation a step.                               *)
NoteGoes(from, to) == note = from /\ note' = to
noteRest == <<intcRegs, requestVars, chain_host, chain_reset, resetVars, cpuVars>>

SetLine ==
    /\ IrqLevel
    /\ NoteGoes("line", IF irq_line THEN "chain" ELSE "chainEdge")
    /\ irq_line' = TRUE
    /\ UNCHANGED <<intc, idle_wake_line, chain_irq, idle_event, noteRest>>

ClearLine ==
    /\ ~IrqLevel
    /\ NoteGoes("line", "unchain")
    /\ irq_line' = FALSE
    /\ UNCHANGED <<intc, idle_wake_line, chain_irq, idle_event, noteRest>>

SetChainIrq ==
    /\ NoteGoes("chainEdge", "event") \/ NoteGoes("chain", "idle")
    /\ chain_irq' = TRUE
    /\ UNCHANGED <<intc, irq_line, idle_wake_line, idle_event, noteRest>>

ClearChainIrq ==
    /\ NoteGoes("unchain", "idle")
    /\ chain_irq' = FALSE
    /\ UNCHANGED <<intc, irq_line, idle_wake_line, idle_event, noteRest>>

SignalEdge ==
    /\ NoteGoes("event", "idle")
    /\ idle_event' = TRUE
    /\ UNCHANGED <<intc, irq_line, idle_wake_line, chain_irq, noteRest>>

SetIdleWake ==
    /\ IF IdleWake /\ ~idle_wake_line
       THEN NoteGoes("idle", "idleEvent") /\ UNCHANGED intc
       ELSE NoteGoes("idle", "done") /\ intc' = FREE
    /\ idle_wake_line' = IdleWake
    /\ UNCHANGED <<irq_line, chain_irq, idle_event, noteRest>>

SignalIdleEdge ==
    /\ NoteGoes("idleEvent", "done") /\ intc' = FREE
    /\ idle_event' = TRUE
    /\ UNCHANGED <<irq_line, idle_wake_line, chain_irq, noteRest>>

NotifySteps ==
    \/ SetLine \/ ClearLine \/ SetChainIrq \/ ClearChainIrq \/ SignalEdge
    \/ SetIdleWake \/ SignalIdleEdge

-----------------------------------------------------------------------------
(* Host threads *)

hostRest == <<intcRegs, notifyVars, irq_line, idle_wake_line, chain_irq, cpuVars>>

(* A device queues work for its listener, then calls Request(). *)
QueueWork(d) ==
    /\ ask[d] = "none"
    /\ work' = work \cup {d}
    /\ ask' = [ask EXCEPT ![d] = "request"]
    /\ UNCHANGED <<host_request, chain_host, chain_reset, idle_event, resetVars, hostRest>>

(* RequestHostService *)
RequestHostService(d) ==
    /\ ask[d] = "request"
    /\ host_request' = TRUE
    /\ ask' = [ask EXCEPT ![d] = IF host_request THEN "none" ELSE "event"]
    /\ UNCHANGED <<work, chain_host, chain_reset, idle_event, resetVars, hostRest>>

RequestSignal(d) ==
    /\ ask[d] = "event"
    /\ ask' = [ask EXCEPT ![d] = "none"]
    /\ idle_event' = TRUE
    /\ UNCHANGED <<work, host_request, chain_host, chain_reset, resetVars, hostRest>>

(* SetHostChainExit: the pause and the stop.  It signals nothing. *)
SetHostChainExit ==
    /\ chain_host' = ~chain_host
    /\ UNCHANGED <<requestVars, chain_reset, idle_event, resetVars, hostRest>>

(* SetResetPending: the chain bit, the request, the wake. *)
ResetChain ==
    /\ pend = "none"
    /\ pend' = "pend" /\ chain_reset' = TRUE
    /\ UNCHANGED <<requestVars, chain_host, idle_event, reset_pending, hostRest>>

ResetPend ==
    /\ pend = "pend"
    /\ pend' = "wake" /\ reset_pending' = TRUE
    /\ UNCHANGED <<requestVars, chain_host, chain_reset, idle_event, hostRest>>

ResetWake ==
    /\ pend = "wake"
    /\ pend' = "none" /\ idle_event' = TRUE
    /\ UNCHANGED <<requestVars, chain_host, chain_reset, reset_pending, hostRest>>

-----------------------------------------------------------------------------
(* The JIT thread.  While it is in NotifyLocked itself it does nothing     *)
(* else.                                                                   *)
JitGoes(from, to) == intc # JIT /\ jit = from /\ jit' = to
lineVars == <<intcRegs, notifyVars, irq_line, idle_wake_line>>
jitRest == <<lineVars, chain_host, ask, pend>>

(* RunLoop enters Run unless it has to park; a reset goes first. *)
EnterRun ==
    /\ ~chain_host \/ reset_pending
    /\ JitGoes("loop", "run")
    /\ UNCHANGED <<jitRest, chain_irq, chain_reset, idle_event, host_request, work, reset_pending, masked>>

SeeReset ==
    /\ reset_pending
    /\ JitGoes("run", "resetTaken")
    /\ chain_reset' = FALSE
    /\ UNCHANGED <<jitRest, chain_irq, idle_event, host_request, work, reset_pending, masked>>

(* The controller's reset listener clears DIM. *)
ResetIntc ==
    /\ intc = FREE
    /\ JitGoes("resetTaken", "resetRaise")
    /\ dim' = FALSE
    /\ NotifyIf(JIT, icpr # {} /\ ~IdleWake)
    /\ UNCHANGED <<icpr, icmr, irq_line, idle_wake_line, chain, idle_event,
                   requestVars, resetVars, masked>>

(* RaiseResetException, then the return to RunLoop. *)
RaiseReset ==
    /\ JitGoes("resetRaise", "loop")
    /\ reset_pending' = FALSE /\ masked' = TRUE
    /\ UNCHANGED <<jitRest, chain_irq, chain_reset, idle_event, host_request, work>>

(* Mutant: WFI takes a request to end its wait and does not serve it. *)
TakeUnserved(from, serving) ==
    /\ host_request
    /\ JitGoes(from, IF serving = "wfiServe" THEN "wfiLine" ELSE serving)
    /\ host_request' = FALSE
    /\ UNCHANGED <<jitRest, chain_irq, chain_reset, idle_event, work, reset_pending, masked>>

(* TakeHostRequest: nobody else clears the word, so its load and its       *)
(* exchange are one step.                                                  *)
TakeHostRequest(from, serving) ==
    /\ host_request
    /\ JitGoes(from, serving)
    /\ host_request' = FALSE
    /\ UNCHANGED <<jitRest, chain_irq, chain_reset, idle_event, work, reset_pending, masked>>

(* ServiceRequests: every listener collects what its device has queued, in *)
(* one step: what is queued between two of them has its own Request().     *)
ServiceRequests(from, to) ==
    /\ JitGoes(from, to)
    /\ work' = {}
    /\ UNCHANGED <<jitRest, chain_irq, chain_reset, idle_event, host_request, reset_pending, masked>>

(* A step that only moves on. *)
Move(from, to) ==
    /\ JitGoes(from, to)
    /\ UNCHANGED <<jitRest, chain_irq, chain_reset, idle_event, host_request, work, reset_pending, masked>>

(* GuestCycleClock::OnDispatch is over. *)
ClockRun == Move("clock", "clear")

(* The load and the fetch_and are one step: only this thread and a         *)
(* notifier clear the bit, and clearing it twice changes nothing.          *)
ClearIrqExit ==
    /\ JitGoes("clear", "gate")
    /\ chain_irq' = FALSE
    /\ UNCHANGED <<jitRest, chain_reset, idle_event, host_request, work, reset_pending, masked>>

(* EvaluateGate and RaiseIrqException. *)
Gate ==
    /\ JitGoes("gate", "guest")
    /\ masked' = (masked \/ irq_line)
    /\ UNCHANGED <<jitRest, chain_irq, chain_reset, idle_event, host_request, work, reset_pending>>

RunSteps ==
    \/ EnterRun \/ SeeReset \/ ResetIntc \/ RaiseReset
    \/ ~reset_pending /\ Move("run", "take")
    \/ TakeHostRequest("take", "serve")
    \/ ServiceRequests("serve", "clock")
    \/ ~host_request /\ Move("take", "clock")
    \/ ClockRun \/ ClearIrqExit \/ Gate

(* The poll between blocks: EmitDispatcherExitPoll. *)
GuestPoll ==
    /\ chain_irq \/ chain_host \/ chain_reset
    /\ Move("guest", "loop")

(* A block chain also ends at the cycle deadline, at a jump that is not    *)
(* cached, and at an I/O access that backs out for an interrupt.           *)
GuestReturn == Move("guest", "loop")

(* Mutant: the block that writes CPSR is chained to the next one. *)
GuestSetMaskChained ==
    /\ JitGoes("guest", "guest")
    /\ masked' \in BOOLEAN
    /\ UNCHANGED <<jitRest, chain_irq, chain_reset, idle_event, host_request, work, reset_pending>>

(* MSR, CPS and exception returns write CPSR.I and end their block         *)
(* without chaining.                                                       *)
GuestSetMask ==
    /\ JitGoes("guest", "loop")
    /\ masked' \in BOOLEAN
    /\ UNCHANGED <<jitRest, chain_irq, chain_reset, idle_event, host_request, work, reset_pending>>

(* WaitForInterrupt: a loop over every reason to leave, then IdleStep. *)
GuestWfi == Move("guest", "wfi")

(* Two loads in one step: whoever pends a reset has set its bit before. *)
WfiMustEnd == reset_pending \/ chain_host \/ chain_reset

WfiLeave ==
    \/ WfiMustEnd /\ Move("wfi", "guest")
    \/ irq_line /\ Move("wfiLine", "guest")
    \/ idle_wake_line /\ Move("wfiIdle", "guest")

WfiStay ==
    \/ ~WfiMustEnd /\ Move("wfi", "wfiHost")
    \/ TakeHostRequest("wfiHost", "wfiServe")
    \/ ServiceRequests("wfiServe", "wfiLine")
    \/ ~host_request /\ Move("wfiHost", "wfiLine")
    \/ ~irq_line /\ Move("wfiLine", "wfiIdle")
    \/ ~idle_wake_line /\ Move("wfiIdle", "idle")

(* IdleStep: run what is due, or wait for the event or the next deadline,  *)
(* which is never more than the throttle's slice away, and run it.         *)
IdleDue == Move("idle", "wfi")

(* Mutant: the event is reset before the wait. *)
IdleWaitAfresh ==
    /\ JitGoes("idle", "wait")
    /\ idle_event' = FALSE
    /\ UNCHANGED <<jitRest, chain_irq, chain_reset, host_request, work, reset_pending, masked>>

IdleWait == Move("idle", "wait")

WokenByEvent ==
    /\ idle_event
    /\ JitGoes("wait", "due")
    /\ idle_event' = FALSE
    /\ UNCHANGED <<jitRest, chain_irq, chain_reset, host_request, work, reset_pending, masked>>

WokenByTimer == Move("wait", "due")

WfiSteps == WfiLeave \/ WfiStay \/ Move("due", "wfi")
IdleSteps == IdleDue \/ IdleWait

Change(t) ==
    \/ \E s \in Source : AssertSource(t, s) \/ DeassertSource(t, s)
    \/ SetSourceLevel(t)

Next ==
    \/ \E t \in Device \cup {JIT} : Change(t)
    \/ WriteReg \/ NotifySteps
    \/ \E d \in Device : QueueWork(d) \/ RequestHostService(d) \/ RequestSignal(d)
    \/ SetHostChainExit \/ ResetChain \/ ResetPend \/ ResetWake
    \/ RunSteps \/ GuestPoll \/ GuestReturn \/ GuestSetMask \/ GuestWfi
    \/ WfiSteps \/ IdleSteps \/ WokenByEvent \/ WokenByTimer

Spec == Init /\ [][Next]_vars

-----------------------------------------------------------------------------
(* The types of the channel's and the controller's words; the lines are    *)
(* driven under the controller's mutex to the last signal.                 *)
TypeOK ==
    /\ icpr \subseteq Source /\ icmr \subseteq Source /\ dim \in BOOLEAN
    /\ intc \in Device \cup {JIT, FREE} /\ note \in Notes
    /\ intc = FREE <=> note = "done"
    /\ irq_line \in BOOLEAN /\ idle_wake_line \in BOOLEAN
    /\ host_request \in BOOLEAN /\ idle_event \in BOOLEAN
    /\ chain_irq \in BOOLEAN /\ chain_host \in BOOLEAN /\ chain_reset \in BOOLEAN
    /\ work \subseteq Device
    /\ ask \in [Device -> {"none", "request", "event"}]
    /\ reset_pending \in BOOLEAN /\ pend \in {"none", "pend", "wake"}
    /\ jit \in JitPcs /\ masked \in BOOLEAN

(* The channel's lines are those of the controller whenever nobody is      *)
(* driving them, whichever thread changed a source, a mask or DIM last.    *)
LinesFollow ==
    intc = FREE => irq_line = IrqLevel /\ idle_wake_line = IdleWake

(* Guest code that could take an interrupt the line is asking for is told  *)
(* to return: the chain bit is set, or the thread that raised the line is  *)
(* about to set it.  It holds although Run clears the bit with no lock.    *)
IrqNotMissed ==
    jit \in {"guest"} \cup WfiPcs /\ irq_line /\ ~masked =>
        chain_irq \/ note \in {"chainEdge", "chain"}

(* WFI never waits for its timer with a reason to go on: the event is      *)
(* signalled, or whoever raised the reason is about to signal it.          *)
NoSleepThroughWakeup ==
    jit = "wait" /\ ~idle_event =>
        /\ irq_line => note \in {"chainEdge", "event"}
        /\ idle_wake_line => note = "idleEvent"
        /\ host_request => \E d \in Device : ask[d] = "event"
        /\ reset_pending => pend = "wake"

(* Work that a device has queued is announced until the listeners collect  *)
(* it: the request is up, or the device is about to make it, or the JIT    *)
(* thread has just taken it and is about to call the listeners.            *)
WorkAnnounced ==
    work # {} =>
        \/ host_request \/ jit \in {"serve", "wfiServe"}
        \/ \E d \in Device : ask[d] = "request"
=============================================================================
