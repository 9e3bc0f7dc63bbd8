----------------------- MODULE ArmInterruptChannelProofs -----------------------
(***************************************************************************)
(* That no interrupt, request or reset is slept through or passed by, for  *)
(* any number of devices and sources.  Each property needs to know what    *)
(* holds in the steps that lead to it: Driven says what the lines are in   *)
(* the middle of NotifyLocked, Awake what WFI may rely on after each of    *)
(* its tests.                                                              *)
(***************************************************************************)
EXTENDS ArmInterruptChannel, TLAPS

(* The lines at each stage of NotifyLocked. *)
Driven ==
    /\ note # "line" => irq_line = IrqLevel
    /\ note \in {"chainEdge", "chain", "event"} => irq_line
    /\ note = "unchain" => ~irq_line
    /\ note \in {"done", "idleEvent"} => idle_wake_line = IdleWake

(* What WaitForInterrupt has found false stays false or will be signalled. *)
Awake ==
    ~idle_event =>
        /\ jit \in {"wfiIdle", "idle", "wait"} =>
              (irq_line => note \in {"chainEdge", "event"})
        /\ jit \in {"idle", "wait"} => (idle_wake_line => note = "idleEvent")
        /\ jit \in {"wfiServe", "wfiLine", "wfiIdle", "idle", "wait"} =>
              (host_request => \E d \in Device : ask[d] = "event")
        /\ jit \in WfiPcs \ {"wfi", "due"} => (reset_pending => pend = "wake")

IInv == TypeOK /\ Driven /\ IrqNotMissed /\ Awake /\ WorkAnnounced

-----------------------------------------------------------------------------
(* The initial states satisfy the invariant. *)
LEMMA Initial == Init => IInv
<1> USE DeviceAssumption
<1> SUFFICES ASSUME Init PROVE IInv
  OBVIOUS
<1>1. TypeOK
  BY DEF Init, TypeOK, Notes, JitPcs, RunPcs, WfiPcs, JIT, FREE
<1>2. Driven /\ IrqNotMissed /\ Awake /\ WorkAnnounced
  BY DEF Init, Driven, IrqNotMissed, Awake, WorkAnnounced, IrqLevel, IcIp, IdleWake,
         WfiPcs
<1> QED  BY <1>1, <1>2 DEF IInv

(* A change of the controller's registers begins a NotifyLocked, or leaves *)
(* the levels as they were.                                                *)
LEMMA ControllerKeeps ==
  ASSUME IInv, NEW t \in Device \cup {JIT}, Change(t) \/ WriteReg
  PROVE  IInv'
<1> USE DeviceAssumption
<1>1. /\ intc = FREE /\ note = "done"
      /\ UNCHANGED intcRest
      /\ icpr' \subseteq Source /\ icmr' \subseteq Source /\ dim' \in BOOLEAN
  BY DEF IInv, TypeOK, Change, AssertSource, DeassertSource, SetSourceLevel,
         WriteReg, MayLock
<1>2. \/ intc' \in Device \cup {JIT} /\ note' = "line"
      \/ UNCHANGED notifyVars /\ IrqLevel' = IrqLevel /\ IdleWake' = IdleWake
  BY DEF Change, AssertSource, DeassertSource, SetSourceLevel, WriteReg,
         NotifyIf, Notify, IrqLevel
<1>3. TypeOK'
  BY <1>1, <1>2 DEF IInv, TypeOK, Notes, intcRest, notifyVars, chain,
                    requestVars, resetVars, cpuVars, JIT, FREE
<1>4. Driven'
  BY <1>1, <1>2 DEF IInv, Driven, intcRest, notifyVars
<1>5. IrqNotMissed'
  BY <1>1, <1>2 DEF IInv, IrqNotMissed, intcRest, notifyVars, chain, cpuVars
<1>6. Awake'
  BY <1>1, <1>2 DEF IInv, Awake, intcRest, notifyVars, requestVars, resetVars, cpuVars
<1>7. WorkAnnounced'
  BY <1>1 DEF IInv, WorkAnnounced, intcRest, requestVars, cpuVars
<1> QED  BY <1>3, <1>4, <1>5, <1>6, <1>7 DEF IInv

(* NotifyLocked drives the lines, the chain bit and the event in an order  *)
(* in which every intermediate state is announced.                         *)
LEMMA NotifyKeeps ==
  ASSUME IInv, NotifySteps
  PROVE  IInv'
<1> USE DeviceAssumption DEF NoteGoes, noteRest, requestVars, resetVars, cpuVars, intcRegs
<1>1. TypeOK'
  <2> USE DEF IInv, TypeOK, Notes
  <2>1. CASE SetLine        BY <2>1 DEF SetLine
  <2>2. CASE ClearLine      BY <2>2 DEF ClearLine
  <2>3. CASE SetChainIrq    BY <2>3 DEF SetChainIrq
  <2>4. CASE ClearChainIrq  BY <2>4 DEF ClearChainIrq
  <2>5. CASE SignalEdge     BY <2>5 DEF SignalEdge
  <2>6. CASE SetIdleWake    BY <2>6 DEF SetIdleWake, IdleWake, IrqLevel, IcIp
  <2>7. CASE SignalIdleEdge BY <2>7 DEF SignalIdleEdge
  <2> QED  BY <2>1, <2>2, <2>3, <2>4, <2>5, <2>6, <2>7 DEF NotifySteps
<1>2. IrqLevel' = IrqLevel /\ IdleWake' = IdleWake
  BY DEF NotifySteps, SetLine, ClearLine, SetChainIrq, ClearChainIrq,
         SignalEdge, SetIdleWake, SignalIdleEdge, IrqLevel, IcIp, IdleWake
<1>3. Driven'
  <2> USE <1>2 DEF IInv, Driven, TypeOK
  <2>1. CASE SetLine        BY <2>1 DEF SetLine
  <2>2. CASE ClearLine      BY <2>2 DEF ClearLine, IrqLevel, IcIp
  <2>3. CASE SetChainIrq    BY <2>3 DEF SetChainIrq
  <2>4. CASE ClearChainIrq  BY <2>4 DEF ClearChainIrq
  <2>5. CASE SignalEdge     BY <2>5 DEF SignalEdge
  <2>6. CASE SetIdleWake    BY <2>6 DEF SetIdleWake
  <2>7. CASE SignalIdleEdge BY <2>7 DEF SignalIdleEdge
  <2> QED  BY <2>1, <2>2, <2>3, <2>4, <2>5, <2>6, <2>7 DEF NotifySteps
<1>4. IrqNotMissed'
  <2> USE DEF IInv, Driven, IrqNotMissed
  <2>1. CASE SetLine        BY <2>1 DEF SetLine
  <2>2. CASE ClearLine      BY <2>2 DEF ClearLine
  <2>3. CASE SetChainIrq    BY <2>3 DEF SetChainIrq
  <2>4. CASE ClearChainIrq  BY <2>4 DEF ClearChainIrq
  <2>5. CASE SignalEdge     BY <2>5 DEF SignalEdge
  <2>6. CASE SetIdleWake    BY <2>6 DEF SetIdleWake
  <2>7. CASE SignalIdleEdge BY <2>7 DEF SignalIdleEdge
  <2> QED  BY <2>1, <2>2, <2>3, <2>4, <2>5, <2>6, <2>7 DEF NotifySteps
<1>5. Awake'
  <2> USE DEF IInv, Driven, Awake
  <2>1. CASE SetLine        BY <2>1 DEF SetLine
  <2>2. CASE ClearLine      BY <2>2 DEF ClearLine
  <2>3. CASE SetChainIrq    BY <2>3 DEF SetChainIrq
  <2>4. CASE ClearChainIrq  BY <2>4 DEF ClearChainIrq
  <2>5. CASE SignalEdge     BY <2>5 DEF SignalEdge
  <2>6. CASE SetIdleWake    BY <2>6 DEF SetIdleWake
  <2>7. CASE SignalIdleEdge BY <2>7 DEF SignalIdleEdge
  <2> QED  BY <2>1, <2>2, <2>3, <2>4, <2>5, <2>6, <2>7 DEF NotifySteps
<1>6. WorkAnnounced'
  BY DEF IInv, WorkAnnounced, NotifySteps, SetLine, ClearLine, SetChainIrq,
         ClearChainIrq, SignalEdge, SetIdleWake, SignalIdleEdge
<1> QED  BY <1>1, <1>3, <1>4, <1>5, <1>6 DEF IInv

(* A host thread that stores a request signals the event after it. *)
LEMMA HostKeeps ==
  ASSUME IInv,
         \/ \E d \in Device : QueueWork(d) \/ RequestHostService(d) \/ RequestSignal(d)
         \/ SetHostChainExit \/ ResetChain \/ ResetPend \/ ResetWake
  PROVE  IInv'
<1> USE DEF hostRest, intcRegs, notifyVars, requestVars, resetVars, cpuVars
<1>1. /\ UNCHANGED hostRest
      /\ IrqLevel' = IrqLevel /\ IdleWake' = IdleWake
  BY DEF QueueWork, RequestHostService, RequestSignal, SetHostChainExit,
         ResetChain, ResetPend, ResetWake, IrqLevel, IcIp, IdleWake
<1>2. Driven' /\ IrqNotMissed'
  BY <1>1 DEF IInv, Driven, IrqNotMissed
<1>3. ASSUME NEW d \in Device, QueueWork(d)
      PROVE  TypeOK' /\ Awake' /\ WorkAnnounced'
  BY <1>3 DEF QueueWork, IInv, TypeOK, Awake, WorkAnnounced
<1>4. ASSUME NEW d \in Device, RequestHostService(d)
      PROVE  TypeOK' /\ Awake' /\ WorkAnnounced'
  BY <1>4 DEF RequestHostService, IInv, TypeOK, Awake, WorkAnnounced
<1>5. ASSUME NEW d \in Device, RequestSignal(d)
      PROVE  TypeOK' /\ Awake' /\ WorkAnnounced'
  BY <1>5 DEF RequestSignal, IInv, TypeOK, Awake, WorkAnnounced
<1>6. ASSUME SetHostChainExit
      PROVE  TypeOK' /\ Awake' /\ WorkAnnounced'
  BY <1>6 DEF SetHostChainExit, IInv, TypeOK, Awake, WorkAnnounced
<1>7. ASSUME ResetChain
      PROVE  TypeOK' /\ Awake' /\ WorkAnnounced'
  BY <1>7 DEF ResetChain, IInv, TypeOK, Awake, WorkAnnounced
<1>8. ASSUME ResetPend
      PROVE  TypeOK' /\ Awake' /\ WorkAnnounced'
  BY <1>8 DEF ResetPend, IInv, TypeOK, Awake, WorkAnnounced
<1>9. ASSUME ResetWake
      PROVE  TypeOK' /\ Awake' /\ WorkAnnounced'
  BY <1>9 DEF ResetWake, IInv, TypeOK, Awake, WorkAnnounced
<1> QED  BY <1>2, <1>3, <1>4, <1>5, <1>6, <1>7, <1>8, <1>9 DEF IInv

(* Dispatch: the request word is cleared before the listeners run, and the *)
(* chain bit before the gate reads the line.                               *)
LEMMA RunKeeps ==
  ASSUME IInv, RunSteps
  PROVE  IInv'
<1> USE DeviceAssumption
    DEF JitGoes, jitRest, lineVars, intcRegs, notifyVars, chain, requestVars, resetVars
<1>1. CASE ResetIntc
  <2> USE <1>1 DEF ResetIntc
  <2>1. IrqLevel' = IrqLevel
    BY DEF IrqLevel, IcIp
  <2>2. \/ intc' = JIT /\ note' = "line"
        \/ UNCHANGED notifyVars /\ IdleWake' = IdleWake
    BY DEF NotifyIf, Notify, IdleWake, IrqLevel, IcIp
  <2>3. TypeOK'
    <3>1. jit' \in JitPcs
      BY DEF JitPcs, RunPcs
    <3>2. /\ intc' \in Device \cup {JIT, FREE} /\ note' \in Notes
          /\ intc' = FREE <=> note' = "done"
      BY <2>2 DEF IInv, TypeOK, Notes, JIT, FREE
    <3> QED  BY <3>1, <3>2 DEF IInv, TypeOK
  <2>4. Driven'
    BY <2>1, <2>2 DEF IInv, TypeOK, Driven
  <2>5. IrqNotMissed' /\ Awake' /\ WorkAnnounced'
    BY DEF IInv, IrqNotMissed, Awake, WorkAnnounced, WfiPcs
  <2> QED  BY <2>3, <2>4, <2>5 DEF IInv
<1>2. CASE ~ResetIntc
  <2>0. UNCHANGED jitRest
    BY <1>2 DEF RunSteps, EnterRun, SeeReset, RaiseReset, TakeHostRequest,
         ServiceRequests, Move, ClockRun, ClearIrqExit, Gate
  <2>1. /\ UNCHANGED lineVars /\ UNCHANGED <<chain_host, ask, pend>>
        /\ IrqLevel' = IrqLevel /\ IdleWake' = IdleWake
    BY <2>0 DEF IrqLevel, IcIp, IdleWake
  <2>2. Driven'
    BY <2>1 DEF IInv, Driven
  <2>3. TypeOK'
    <3>1. masked' \in BOOLEAN
      BY <1>2 DEF RunSteps, EnterRun, SeeReset, RaiseReset, TakeHostRequest,
           ServiceRequests, Move, ClockRun, ClearIrqExit, Gate, IInv, TypeOK
    <3>2. /\ jit' \in JitPcs /\ host_request' \in BOOLEAN /\ work' \subseteq Device
          /\ chain_irq' \in BOOLEAN /\ chain_reset' \in BOOLEAN
          /\ reset_pending' \in BOOLEAN /\ idle_event' \in BOOLEAN
      BY <1>2 DEF RunSteps, EnterRun, SeeReset, RaiseReset, TakeHostRequest,
           ServiceRequests, Move, ClockRun, ClearIrqExit, Gate, IInv, TypeOK, JitPcs, RunPcs
    <3> QED  BY <2>1, <3>1, <3>2 DEF IInv, TypeOK
  <2>4. IrqNotMissed'
    BY <1>2, <2>1 DEF RunSteps, EnterRun, SeeReset, RaiseReset, TakeHostRequest,
         ServiceRequests, Move, ClockRun, ClearIrqExit, Gate, IInv, IrqNotMissed, WfiPcs
  <2>5. Awake'
    BY <1>2, <2>1 DEF RunSteps, EnterRun, SeeReset, RaiseReset, TakeHostRequest,
         ServiceRequests, Move, ClockRun, ClearIrqExit, Gate, IInv, Awake, WfiPcs
  <2>6. WorkAnnounced'
    BY <1>2, <2>1 DEF RunSteps, EnterRun, SeeReset, RaiseReset, TakeHostRequest,
         ServiceRequests, Move, ClockRun, ClearIrqExit, Gate, IInv, WorkAnnounced
  <2> QED  BY <2>2, <2>3, <2>4, <2>5, <2>6 DEF IInv
<1> QED  BY <1>1, <1>2

(* Guest code, and the tests of WFI in the order in which it makes them. *)
LEMMA GuestKeeps ==
  ASSUME IInv,
         \/ GuestPoll \/ GuestReturn \/ GuestSetMask \/ GuestWfi
         \/ WfiSteps \/ IdleSteps \/ WokenByEvent \/ WokenByTimer
  PROVE  IInv'
<1> USE DEF JitGoes, jitRest, lineVars, intcRegs, notifyVars,
        GuestPoll, GuestReturn, GuestSetMask, GuestWfi, WfiSteps, WfiLeave,
        WfiStay, WfiMustEnd, IdleSteps, IdleDue, IdleWait, WokenByEvent,
        WokenByTimer, Move, TakeHostRequest, ServiceRequests
<1>1. /\ UNCHANGED <<jitRest, chain_irq, chain_reset, reset_pending>>
      /\ IrqLevel' = IrqLevel /\ IdleWake' = IdleWake
  BY DEF IrqLevel, IcIp, IdleWake
<1>2. Driven'
  BY <1>1 DEF IInv, Driven
<1>3. TypeOK'
  <2>1. masked' \in BOOLEAN
    BY DEF IInv, TypeOK
  <2>2. /\ jit' \in JitPcs /\ host_request' \in BOOLEAN
        /\ work' \subseteq Device /\ idle_event' \in BOOLEAN
    BY DEF IInv, TypeOK, JitPcs, RunPcs, WfiPcs
  <2> QED  BY <1>1, <2>1, <2>2 DEF IInv, TypeOK
<1>4. IrqNotMissed'
  BY <1>1 DEF IInv, IrqNotMissed, WfiPcs
<1>5. Awake'
  BY <1>1 DEF IInv, Awake, WfiPcs
<1>6. WorkAnnounced'
  BY <1>1 DEF IInv, WorkAnnounced
<1> QED  BY <1>2, <1>3, <1>4, <1>5, <1>6 DEF IInv

(* The invariant is inductive. *)
LEMMA Inductive == IInv /\ [Next]_vars => IInv'
<1> SUFFICES ASSUME IInv, [Next]_vars PROVE IInv'
  OBVIOUS
<1>1. CASE UNCHANGED vars
  BY <1>1 DEF vars, intcRegs, notifyVars, chain, requestVars, resetVars, cpuVars,
       IInv, TypeOK, Driven, IrqNotMissed, Awake, WorkAnnounced, IrqLevel, IcIp, IdleWake
<1>2. CASE Next
  BY <1>2, ControllerKeeps, NotifyKeeps, HostKeeps, RunKeeps, GuestKeeps DEF Next
<1> QED  BY <1>1, <1>2

(* The invariant holds in every behaviour of the channel. *)
THEOREM Invariance == Spec => []IInv
<1>1. Init => IInv
  BY Initial
<1>2. IInv /\ [Next]_vars => IInv'
  BY Inductive
<1> QED  BY <1>1, <1>2, PTL DEF Spec

(* The words of the channel and the controller keep their types, and the   *)
(* controller's mutex is held exactly while the lines are being driven.    *)
THEOREM TypeCorrect == Spec => []TypeOK
<1>1. IInv => TypeOK
  BY DEF IInv
<1> QED  BY <1>1, Invariance, PTL

(* Lines that nobody is driving are the controller's. *)
THEOREM LinesAreTheControllers == Spec => []LinesFollow
<1>1. IInv => LinesFollow
  BY DEF IInv, TypeOK, Driven, LinesFollow
<1> QED  BY <1>1, Invariance, PTL

(* Guest code that could take an interrupt is told to return. *)
THEOREM NoInterruptMissed == Spec => []IrqNotMissed
<1>1. IInv => IrqNotMissed
  BY DEF IInv
<1> QED  BY <1>1, Invariance, PTL

(* WFI does not sleep through an interrupt, an idle wake, a host request   *)
(* or a reset.                                                             *)
THEOREM NoWakeupLost == Spec => []NoSleepThroughWakeup
<1>1. IInv => NoSleepThroughWakeup
  BY DEF IInv, Awake, NoSleepThroughWakeup, WfiPcs
<1> QED  BY <1>1, Invariance, PTL

(* Work that a device queued is announced until it is collected. *)
THEOREM WorkStaysAnnounced == Spec => []WorkAnnounced
<1>1. IInv => WorkAnnounced
  BY DEF IInv
<1> QED  BY <1>1, Invariance, PTL
=============================================================================
