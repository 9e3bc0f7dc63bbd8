------------------------ MODULE StateOperationsProofs ------------------------
(***************************************************************************)
(* The safety properties of StateOperations.tla, for any peripheral        *)
(* workers, both engines, both wake shapes, every boot decision and every  *)
(* bound.                                                                  *)
(*                                                                         *)
(* The proof has two storeys.  What the JIT thread does is JitRunner's     *)
(* next-state relation, or a restore that writes the engine flags: from    *)
(* this alone, pause_mutex_ and paused_ keep their discipline, and a JIT   *)
(* thread that was parked by a Pause() stays there while the request       *)
(* stands.  Above it, EmulationPause's mutex serialises whoever pauses and *)
(* resumes, so that the request stands as long as an operation runs.       *)
(***************************************************************************)
EXTENDS StateOperations, JitRunnerProofs

-----------------------------------------------------------------------------
(* The JIT thread's storey *)

(* A restore writes the engine flags and nothing else of the JitRunner. *)
FlagStep ==
    /\ host_exit' \in BOOLEAN /\ reset_pending' \in BOOLEAN
    /\ deep_sleep' \in BOOLEAN /\ wake_claimed' \in BOOLEAN
    /\ UNCHANGED <<jit, started, stop_requested, stopped, pause_requested,
                   paused, mutex, cv, call, active, hw_resumed, vclock_paused,
                   asleep, park_end, bounds>>

JitStepOrFlags == [Next]_vars \/ FlagStep

Pausing(t) == call[t] \in {"test", "sleep", "wait"}

(* The park is left under a standing request only for a stop or a reset,   *)
(* and once no Pause() is under way the JIT thread holds still.            *)
ParkInv ==
    /\ ~started => ~pause_requested /\ ~active
    /\ jit = "parkPoll" => ~pause_requested
    /\ jit = "parkExit" /\ pause_requested => stop_requested \/ park_end = "reset"
    /\ pause_requested /\ (\A t \in Host : ~Pausing(t)) =>
           JitQuiet \/ park_end = "reset"

JitInv == ThreadsOK /\ FlagsOK /\ LockDiscipline /\ ParkInv

LEMMA JitInit == Init => JitInv
<1> USE HostAssumption DEF HostAssumption
<1>1. Init => ThreadsOK /\ FlagsOK
  BY DEF Init, ThreadsOK, FlagsOK, JitPcs, CallPcs, ParkEnds
<1>2. Init => LockDiscipline
  BY DEF Init, LockDiscipline, LockedPark, ParkPcs, StopPcs, JIT, FREE
<1>3. Init => ParkInv
  BY DEF Init, ParkInv
<1> QED BY <1>1, <1>2, <1>3 DEF JitInv

(* The steps of a host thread. *)
LEMMA HostKeeps ==
  ASSUME JitInv, NEW t \in Host, HostNext(t)
  PROVE  JitInv'
<1> USE HostAssumption, EngineAssumption
        DEF HostAssumption, EngineAssumption, JitInv, ThreadsOK, FlagsOK,
            LockDiscipline, ParkInv, JitQuiet, Pausing, LockedPark, JitPcs,
            ParkPcs, StopPcs, CallPcs, ParkEnds, JIT, FREE, engine, sleepVars,
            bounds
<1>1. CASE PauseCall(t)
  <2>1. ThreadsOK' /\ FlagsOK'  BY <1>1 DEF PauseCall
  <2>2. LockDiscipline'         BY <1>1 DEF PauseCall
  <2>3. Pausing(t)'             BY <1>1 DEF PauseCall
  <2>4. ParkInv'                BY <1>1, <2>3 DEF PauseCall
  <2> QED BY <2>1, <2>2, <2>4
<1>2. CASE PauseReturn(t)
  <2>1. ThreadsOK' /\ FlagsOK'  BY <1>2 DEF PauseReturn
  <2>2. LockDiscipline'         BY <1>2 DEF PauseReturn
  <2>3. ParkInv'                BY <1>2 DEF PauseReturn
  <2> QED BY <2>1, <2>2, <2>3
<1>3. CASE PauseMustWait(t)
  <2>1. ThreadsOK' /\ FlagsOK'  BY <1>3 DEF PauseMustWait
  <2>2. LockDiscipline'         BY <1>3 DEF PauseMustWait
  <2>3. ParkInv'                BY <1>3 DEF PauseMustWait
  <2> QED BY <2>1, <2>2, <2>3
<1>4. CASE PauseSleep(t)
  <2>1. ThreadsOK' /\ FlagsOK'  BY <1>4 DEF PauseSleep
  <2>2. LockDiscipline'         BY <1>4 DEF PauseSleep
  <2>3. ParkInv'                BY <1>4 DEF PauseSleep
  <2> QED BY <2>1, <2>2, <2>3
<1>5. CASE PauseWake(t)
  <2>1. ThreadsOK' /\ FlagsOK'  BY <1>5 DEF PauseWake
  <2>2. LockDiscipline'         BY <1>5 DEF PauseWake
  <2>3. ParkInv'                BY <1>5 DEF PauseWake
  <2> QED BY <2>1, <2>2, <2>3
<1>6. CASE Resume(t)
  <2>1. ThreadsOK' /\ FlagsOK'
    <3>1. ThreadsOK'  BY <1>6 DEF Resume
    <3>2. FlagsOK'    BY <1>6 DEF Resume
    <3> QED BY <3>1, <3>2
  <2>2. LockDiscipline'         BY <1>6 DEF Resume
  <2>3. ParkInv'                BY <1>6 DEF Resume
  <2> QED BY <2>1, <2>2, <2>3
<1>7. CASE RequestStop(t)
  <2>1. ThreadsOK' /\ FlagsOK'  BY <1>7 DEF RequestStop
  <2>2. LockDiscipline'         BY <1>7 DEF RequestStop
  <2>3. ParkInv'                BY <1>7 DEF RequestStop
  <2> QED BY <2>1, <2>2, <2>3
<1>8. CASE RequestReset(t)
  <2>1. ThreadsOK' /\ FlagsOK'  BY <1>8 DEF RequestReset
  <2>2. LockDiscipline'         BY <1>8 DEF RequestReset
  <2>3. ParkInv'                BY <1>8 DEF RequestReset
  <2> QED BY <2>1, <2>2, <2>3
<1> QED BY <1>1, <1>2, <1>3, <1>4, <1>5, <1>6, <1>7, <1>8
        DEF HostNext, PauseNext

(* The steps of the recovery prompt. *)
LEMMA RecoverKeeps ==
  ASSUME JitInv, Recover
  PROVE  JitInv'
<1> USE HostAssumption, EngineAssumption
        DEF HostAssumption, EngineAssumption, JitInv, ThreadsOK, FlagsOK,
            LockDiscipline, ParkInv, JitQuiet, Pausing, LockedPark, JitPcs,
            ParkPcs, StopPcs, CallPcs, ParkEnds, JIT, FREE, engine, sleepVars,
            bounds
<1>1. CASE \E next \in {"none", "claimWake", "claimReset"} : RecoverAnswer(next)
  <2>0. PICK next \in {"none", "claimWake", "claimReset"} : RecoverAnswer(next)
    BY <1>1
  <2>1. ThreadsOK'       BY <2>0 DEF RecoverAnswer
  <2>2. FlagsOK'         BY <2>0 DEF RecoverAnswer
  <2>3. LockDiscipline'  BY <2>0 DEF RecoverAnswer
  <2>4. ParkInv'         BY <2>0 DEF RecoverAnswer
  <2> QED BY <2>1, <2>2, <2>3, <2>4
<1>2. CASE RecoverClaim
  <2>1. ThreadsOK'       BY <1>2 DEF RecoverClaim
  <2>2. FlagsOK'         BY <1>2 DEF RecoverClaim
  <2>3. LockDiscipline'  BY <1>2 DEF RecoverClaim
  <2>4. ParkInv'         BY <1>2 DEF RecoverClaim
  <2> QED BY <2>1, <2>2, <2>3, <2>4
<1>3. CASE RecoverDeliver
  <2>1. ThreadsOK'       BY <1>3 DEF RecoverDeliver, WakeEffect
  <2>2. FlagsOK'         BY <1>3 DEF RecoverDeliver, WakeEffect
  <2>3. LockDiscipline'  BY <1>3 DEF RecoverDeliver, WakeEffect
  <2>4. ParkInv'         BY <1>3 DEF RecoverDeliver, WakeEffect
  <2> QED BY <2>1, <2>2, <2>3, <2>4
<1> QED BY <1>1, <1>2, <1>3 DEF Recover

(* The steps of the JIT thread. *)
LEMMA JitKeeps ==
  ASSUME JitInv, JitNext
  PROVE  JitInv'
<1> USE HostAssumption, EngineAssumption
        DEF HostAssumption, EngineAssumption, JitInv, ThreadsOK, FlagsOK,
            LockDiscipline, ParkInv, JitQuiet, Pausing, LockedPark, JitPcs,
            ParkPcs, StopPcs, CallPcs, ParkEnds, JIT, FREE, engine, sleepVars,
            bounds, hostVars, JitGoes
<1>1. CASE LoopTest
  <2>1. ThreadsOK'       BY <1>1 DEF LoopTest
  <2>2. FlagsOK'         BY <1>1 DEF LoopTest
  <2>3. LockDiscipline'  BY <1>1 DEF LoopTest
  <2>4. ParkInv'         BY <1>1 DEF LoopTest
  <2> QED BY <2>1, <2>2, <2>3, <2>4
<1>2. CASE RunEnter
  <2>1. ThreadsOK'       BY <1>2 DEF RunEnter
  <2>2. FlagsOK'         BY <1>2 DEF RunEnter
  <2>3. LockDiscipline'  BY <1>2 DEF RunEnter
  <2>4. ParkInv'         BY <1>2 DEF RunEnter
  <2> QED BY <2>1, <2>2, <2>3, <2>4
<1>3. CASE RunDeliverReset
  <2>1. ThreadsOK'       BY <1>3 DEF RunDeliverReset
  <2>2. FlagsOK'         BY <1>3 DEF RunDeliverReset
  <2>3. LockDiscipline'  BY <1>3 DEF RunDeliverReset
  <2>4. ParkInv'         BY <1>3 DEF RunDeliverReset
  <2> QED BY <2>1, <2>2, <2>3, <2>4
<1>4. CASE GuestPowerDown
  <2>1. ThreadsOK'       BY <1>4 DEF GuestPowerDown
  <2>2. FlagsOK'         BY <1>4 DEF GuestPowerDown
  <2>3. LockDiscipline'  BY <1>4 DEF GuestPowerDown
  <2>4. ParkInv'         BY <1>4 DEF GuestPowerDown
  <2> QED BY <2>1, <2>2, <2>3, <2>4
<1>5. CASE GuestHalts
  <2>1. ThreadsOK'       BY <1>5 DEF GuestHalts
  <2>2. FlagsOK'         BY <1>5 DEF GuestHalts
  <2>3. LockDiscipline'  BY <1>5 DEF GuestHalts
  <2>4. ParkInv'         BY <1>5 DEF GuestHalts
  <2> QED BY <2>1, <2>2, <2>3, <2>4
<1>6. CASE GuestReturn
  <2>1. ThreadsOK'       BY <1>6 DEF GuestReturn
  <2>2. FlagsOK'         BY <1>6 DEF GuestReturn
  <2>3. LockDiscipline'  BY <1>6 DEF GuestReturn
  <2>4. ParkInv'         BY <1>6 DEF GuestReturn
  <2> QED BY <2>1, <2>2, <2>3, <2>4
<1>7. CASE ObserveAsleep
  <2>1. ThreadsOK'       BY <1>7 DEF ObserveAsleep
  <2>2. FlagsOK'         BY <1>7 DEF ObserveAsleep
  <2>3. LockDiscipline'  BY <1>7 DEF ObserveAsleep
  <2>4. ParkInv'         BY <1>7 DEF ObserveAsleep
  <2> QED BY <2>1, <2>2, <2>3, <2>4
<1>8. CASE ParkCheck
  <2>1. ThreadsOK'       BY <1>8 DEF ParkCheck
  <2>2. FlagsOK'         BY <1>8 DEF ParkCheck
  <2>3. LockDiscipline'  BY <1>8 DEF ParkCheck
  <2>4. ParkInv'         BY <1>8 DEF ParkCheck
  <2> QED BY <2>1, <2>2, <2>3, <2>4
<1>9. CASE ParkEnter
  <2>1. ThreadsOK'       BY <1>9 DEF ParkEnter
  <2>2. FlagsOK'         BY <1>9 DEF ParkEnter
  <2>3. LockDiscipline'  BY <1>9 DEF ParkEnter
  <2>4. ParkInv'         BY <1>9 DEF ParkEnter
  <2> QED BY <2>1, <2>2, <2>3, <2>4
<1>10. CASE ParkTest
  <2>1. ThreadsOK'       BY <1>10 DEF ParkTest, ParkLeave, StayParked
  <2>2. FlagsOK'         BY <1>10 DEF ParkTest, ParkLeave, StayParked
  <2>3. LockDiscipline'  BY <1>10 DEF ParkTest, ParkLeave, StayParked
  <2>4. ParkInv'         BY <1>10 DEF ParkTest, ParkLeave, StayParked
  <2> QED BY <2>1, <2>2, <2>3, <2>4
<1>11. CASE ParkPollQuiet
  <2>1. ThreadsOK'       BY <1>11 DEF ParkPollQuiet, ParkLeave
  <2>2. FlagsOK'         BY <1>11 DEF ParkPollQuiet, ParkLeave
  <2>3. LockDiscipline'  BY <1>11 DEF ParkPollQuiet, ParkLeave
  <2>4. ParkInv'         BY <1>11 DEF ParkPollQuiet, ParkLeave
  <2> QED BY <2>1, <2>2, <2>3, <2>4
<1>12. CASE ParkPollWake
  <2>1. ThreadsOK'       BY <1>12 DEF ParkPollWake, WakeEffect
  <2>2. FlagsOK'         BY <1>12 DEF ParkPollWake, WakeEffect
  <2>3. LockDiscipline'  BY <1>12 DEF ParkPollWake, WakeEffect
  <2>4. ParkInv'         BY <1>12 DEF ParkPollWake, WakeEffect
  <2> QED BY <2>1, <2>2, <2>3, <2>4
<1>13. CASE ParkWake
  <2>1. ThreadsOK'       BY <1>13 DEF ParkWake
  <2>2. FlagsOK'         BY <1>13 DEF ParkWake
  <2>3. LockDiscipline'  BY <1>13 DEF ParkWake
  <2>4. ParkInv'         BY <1>13 DEF ParkWake
  <2> QED BY <2>1, <2>2, <2>3, <2>4
<1>14. CASE ParkExit
  <2>1. ThreadsOK'       BY <1>14 DEF ParkExit
  <2>2. FlagsOK'         BY <1>14 DEF ParkExit
  <2>3. LockDiscipline'  BY <1>14 DEF ParkExit
  <2>4. ParkInv'         BY <1>14 DEF ParkExit
  <2> QED BY <2>1, <2>2, <2>3, <2>4
<1>15. CASE StopLock
  <2>1. ThreadsOK'       BY <1>15 DEF StopLock
  <2>2. FlagsOK'         BY <1>15 DEF StopLock
  <2>3. LockDiscipline'  BY <1>15 DEF StopLock
  <2>4. ParkInv'         BY <1>15 DEF StopLock
  <2> QED BY <2>1, <2>2, <2>3, <2>4
<1>16. CASE StopNotify
  <2>1. ThreadsOK'       BY <1>16 DEF StopNotify
  <2>2. FlagsOK'         BY <1>16 DEF StopNotify
  <2>3. LockDiscipline'  BY <1>16 DEF StopNotify
  <2>4. ParkInv'         BY <1>16 DEF StopNotify
  <2> QED BY <2>1, <2>2, <2>3, <2>4
<1> QED BY <1>1, <1>2, <1>3, <1>4, <1>5, <1>6, <1>7, <1>8,
           <1>9, <1>10, <1>11, <1>12, <1>13, <1>14, <1>15, <1>16 DEF JitNext

(* The JIT thread is born; a restore writes the flags; nothing happens. *)
LEMMA OthersKeep ==
  ASSUME JitInv, Start \/ FlagStep \/ UNCHANGED vars
  PROVE  JitInv'
<1> USE HostAssumption, EngineAssumption
        DEF HostAssumption, EngineAssumption, JitInv, ThreadsOK, FlagsOK,
            LockDiscipline, ParkInv, JitQuiet, Pausing, LockedPark, JitPcs,
            ParkPcs, StopPcs, CallPcs, ParkEnds, JIT, FREE, engine, sleepVars,
            bounds
<1>1. CASE Start
  <2>1. ThreadsOK'       BY <1>1 DEF Start
  <2>2. FlagsOK'         BY <1>1 DEF Start
  <2>3. LockDiscipline'  BY <1>1 DEF Start
  <2>4. ParkInv'         BY <1>1 DEF Start
  <2> QED BY <2>1, <2>2, <2>3, <2>4
<1>2. CASE FlagStep
  <2>1. ThreadsOK'       BY <1>2 DEF FlagStep
  <2>2. FlagsOK'         BY <1>2 DEF FlagStep
  <2>3. LockDiscipline'  BY <1>2 DEF FlagStep
  <2>4. ParkInv'         BY <1>2 DEF FlagStep
  <2> QED BY <2>1, <2>2, <2>3, <2>4
<1>3. CASE UNCHANGED vars
  <2>1. ThreadsOK'       BY <1>3 DEF vars
  <2>2. FlagsOK'         BY <1>3 DEF vars
  <2>3. LockDiscipline'  BY <1>3 DEF vars
  <2>4. ParkInv'         BY <1>3 DEF vars
  <2> QED BY <2>1, <2>2, <2>3, <2>4
<1> QED BY <1>1, <1>2, <1>3

LEMMA JitStorey == JitInv /\ JitStepOrFlags => JitInv'
BY HostKeeps, RecoverKeeps, JitKeeps, OthersKeep DEF JitStepOrFlags, Next

(* The last notification of RunLoop stays the last word, whatever a        *)
(* restore writes.                                                         *)
LEMMA LastNotifyStorey == JitInv /\ LastNotify /\ JitStepOrFlags => LastNotify'
<1> SUFFICES ASSUME JitInv, LastNotify, JitStepOrFlags PROVE LastNotify'
  OBVIOUS
<1> USE HostAssumption
        DEF JitInv, ThreadsOK, LockDiscipline, LastNotify, LockedPark, JitPcs,
            ParkPcs, StopPcs, CallPcs, JIT, FREE
<1>1. CASE Start \/ FlagStep \/ UNCHANGED vars
  BY <1>1 DEF Start, FlagStep, vars
<1>2. ASSUME NEW t \in Host, HostNext(t) PROVE LastNotify'
  <2>1. CASE PauseCall(t)      BY <2>1 DEF PauseCall
  <2>2. CASE PauseReturn(t)    BY <2>2 DEF PauseReturn
  <2>3. CASE PauseMustWait(t)  BY <2>3 DEF PauseMustWait
  <2>4. CASE PauseSleep(t)     BY <2>4 DEF PauseSleep
  <2>5. CASE PauseWake(t)      BY <2>5 DEF PauseWake
  <2>6. CASE Resume(t) \/ RequestStop(t) \/ RequestReset(t)
    BY <2>6 DEF Resume, RequestStop, RequestReset
  <2> QED BY <1>2, <2>1, <2>2, <2>3, <2>4, <2>5, <2>6 DEF HostNext, PauseNext
<1>3. CASE Recover
  BY <1>3 DEF Recover, RecoverAnswer, RecoverClaim, RecoverDeliver
<1>4. CASE JitNext
  <2>1. CASE StopLock    BY <2>1 DEF StopLock, JitGoes, hostVars
  <2>2. CASE StopNotify  BY <2>2 DEF StopNotify, JitGoes, hostVars
  <2>3. CASE jit' \notin {"stopNotify", "done"}
    BY <2>3
  <2> QED
    BY <1>4, <2>1, <2>2, <2>3
    DEF JitNext, LoopTest, RunEnter, RunDeliverReset, GuestPowerDown, GuestHalts,
        GuestReturn, ObserveAsleep, ParkCheck, ParkEnter, ParkTest, ParkLeave,
        ParkPollQuiet, ParkPollWake, ParkWake, ParkExit, JitGoes
<1> QED BY <1>1, <1>2, <1>3, <1>4 DEF JitStepOrFlags, Next

-----------------------------------------------------------------------------
(* EmulationPause's storey *)

(* The places of an operation that hold the SnapshotSection. *)
Snapping == {"image", "apply", "applying", "undo"}

(* The operation thread is between BeginStateOperation and its end. *)
Operating(t) ==
    op[t] \in Snapping \cup {"pauseCall", "pauseWait", "freeze", "restored", "end"}

Holding == {"pauseCall", "pauseWait", "resumeCall"}

(* The types of this module's own variables. *)
STypes ==
    /\ ep_mtx \in Host \cup {FREE}
    /\ user \in BOOLEAN /\ state_operation \in BOOLEAN
    /\ op \in [OpThreads -> OpPcs]
    /\ kind \in [OpThreads -> {"save", "restore", "warm"}]
    /\ op_ok \in [OpThreads -> BOOLEAN]
    /\ rollback \in BOOLEAN \X BOOLEAN
    /\ snapshot \in OpThreads \cup {FREE}
    /\ readers \subseteq Periph
    /\ ui \in UiPcs /\ exit_save \in BOOLEAN
    /\ ui_job \in {"none", "teardown", "cancel"}
    /\ shutdown_pending \in BOOLEAN /\ closing \in BOOLEAN
    /\ ops \in 0..MaxOps

(* Before Start only the boot gate's operation runs, after it only the     *)
(* worker's; the two mutexes are held where the code says; the user cannot *)
(* toggle during an operation.                                             *)
OpInv ==
    /\ started => op[MAIN] = "booted"
    /\ ~started => op[WORKER] = "idle" /\ ui = "idle" /\ ~user /\ ui_job = "none"
    /\ state_operation <=> \E t \in OpThreads : Operating(t)
    /\ \A t \in OpThreads :
           /\ ep_mtx = t <=> op[t] \in Holding
           /\ snapshot = t <=> op[t] \in Snapping
    /\ ep_mtx = UI <=> ui \in Holding
    /\ ui \in Holding => ~state_operation
    /\ snapshot # FREE => readers = {}

(* Only the holder of EmulationPause's mutex is in Pause(). *)
CallInv == \A t \in Host : Pausing(t) => ep_mtx = t

(* The request follows what was asked for, and where the mutex is held, it *)
(* is known which of the two is behind.                                    *)
RequestInv ==
    /\ PauseRequestAgrees
    /\ \A t \in OpThreads :
           /\ op[t] = "pauseWait" => pause_requested
           /\ op[t] = "resumeCall" => ~user
    /\ ui = "pauseCall" => user
    /\ ui = "pauseWait" => user /\ pause_requested
    /\ ui = "resumeCall" => ~user

PauseInv == OpInv /\ CallInv /\ RequestInv

SInv == STypeOK /\ JitInv /\ PauseInv

LEMMA TypesAre == STypeOK <=> TypeOK /\ STypes
BY DEF STypeOK, STypes

(* What this module does to the JitRunner is a step of its own, or writes  *)
(* its flags.                                                              *)
LEMMA Projection == STypeOK /\ [SNext]_allVars => JitStepOrFlags
<1> SUFFICES ASSUME STypeOK, [SNext]_allVars PROVE JitStepOrFlags
  OBVIOUS
<1> USE ThreadAssumption, HostAssumption DEF JitStepOrFlags
<1>1. CASE UNCHANGED allVars
  BY <1>1 DEF allVars
<1>2. CASE JitSteps \/ OpStart \/ Closed
  BY <1>2 DEF JitSteps, OpStart, Closed, Next, allVars
<1>3. CASE UiNext
  <2>1. CASE UNCHANGED vars
    BY <2>1
  <2>2. CASE UiPauseCall \/ UiResume \/ UiReset \/ PromptReset \/ PromptExit \/ UiJob
    BY <2>2
    DEF UiPauseCall, UiResume, UiReset, PromptReset, PromptExit, UiJob,
        BeginShutdownTeardown, Next, HostNext
  <2>3. CASE UiRecover \/ UiRecoverExit \/ UiRecoverEnd
    BY <2>3 DEF UiRecover, UiRecoverExit, UiRecoverEnd, Next, Recover
  <2> QED
    BY <1>3, <2>1, <2>2, <2>3
    DEF UiNext, UiToggle, UiPaused, UiAskOp, UiSpawn, UiClose, PromptCancel,
        PromptExitSave
<1>4. ASSUME NEW t \in OpThreads, OpNext(t) PROVE JitStepOrFlags
  <2>0. t \in Host
    BY DEF OpThreads
  <2>1. CASE UNCHANGED vars
    BY <2>1
  <2>2. CASE OpPauseCall(t) \/ OpResume(t)
    BY <2>0, <2>2 DEF OpPauseCall, OpResume, Next, HostNext
  <2>3. CASE OpApply(t)
    <3>1. CASE kind[t] = "warm"
      BY <2>3, <3>1
      DEF OpApply, jitVarsButFlags, vars, engine, sleepVars
    <3>2. CASE kind[t] # "warm"
      BY <2>3, <3>2
      DEF OpApply, RestoreFlags, FlagStep, jitVarsButFlags, sleepVars,
          STypeOK, TypeOK, FlagsOK
    <3> QED BY <3>1, <3>2
  <2>4. CASE OpRollBack(t)
    BY <2>4
    DEF OpRollBack, RestoreFlags, FlagStep, jitVarsButFlags, sleepVars,
        STypeOK, TypeOK, FlagsOK
  <2>5. CASE OpFullRestore(t)
    BY <2>5 DEF OpFullRestore, WakeEffect, FlagStep, STypeOK, TypeOK, FlagsOK
  <2> QED
    BY <1>4, <2>1, <2>2, <2>3, <2>4, <2>5
    DEF OpNext, OpUnreadable, OpBegin, OpPaused, OpFreeze, OpSave, OpRefuse,
        OpWriteRollback, OpApplied, OpRolledBack, OpEnd, OpFinish
<1>5. ASSUME NEW t \in Host, CallSteps(t) PROVE JitStepOrFlags
  BY <1>5 DEF CallSteps, Next, HostNext
<1>6. ASSUME NEW p \in Periph, PeriphEnter(p) \/ PeriphLeave(p) PROVE JitStepOrFlags
  BY <1>6 DEF PeriphEnter, PeriphLeave
<1> QED BY <1>1, <1>2, <1>3, <1>4, <1>5, <1>6 DEF SNext

(* The types, action by action. *)
LEMMA TypesKept == STypeOK /\ JitInv /\ [SNext]_allVars => STypeOK'
<1> SUFFICES ASSUME STypeOK, JitInv, [SNext]_allVars PROVE STypes' /\ TypeOK'
  BY TypesAre DEF STypeOK, STypes
<1>1. TypeOK'
  <2>1. JitStepOrFlags /\ JitInv'
    BY Projection, JitStorey
  <2>2. BoundsOK'
    <3>1. BoundsOK
      BY DEF STypeOK, TypeOK
    <3>2. CASE FlagStep
      BY <3>1, <3>2 DEF FlagStep, BoundsOK, bounds
    <3> QED BY <2>1, <3>1, <3>2, BoundsKept DEF JitStepOrFlags
  <2> QED BY <2>1, <2>2 DEF JitInv, TypeOK
<1>2. STypes'
  <2> USE ThreadAssumption, HostAssumption, MenuAssumption
  <2>0. STypes /\ FlagsOK
    BY DEF STypeOK, STypes, TypeOK
  <2> USE <2>0 DEF STypes, OpThreads, WORKER, MAIN, OpPcs, UiPcs
  <2>1. CASE UNCHANGED stateVars
    BY <2>1 DEF stateVars, pauseVars, opVars, uiVars
  <2>2. CASE UiNext
    <3> USE DEF UiGoes, pauseVars, opVars, uiVars
    <3>1. CASE UiToggle \/ UiPauseCall \/ UiPaused \/ UiResume
      <4> HIDE DEF OpPcs, opVars
      <4>1. UNCHANGED <<op, kind, op_ok, rollback, snapshot, readers, exit_save,
                        ui_job, shutdown_pending, closing, ops>>
        BY <3>1 DEF UiToggle, UiPauseCall, UiPaused, UiResume, opVars
      <4>2. CASE UiToggle
        BY <4>1, <4>2 DEF UiToggle, MenuLive
      <4>3. CASE UiPauseCall
        BY <4>1, <4>3 DEF UiPauseCall
      <4>4. CASE UiPaused
        BY <4>1, <4>4 DEF UiPaused
      <4>5. CASE UiResume
        BY <4>1, <4>5 DEF UiResume
      <4> QED BY <3>1, <4>2, <4>3, <4>4, <4>5
    <3>2. CASE UiAskOp
      BY <3>2 DEF UiAskOp
    <3>3. CASE UiSpawn
      BY <3>3 DEF UiSpawn
    <3>4. CASE UiRecoverExit
      BY <3>4 DEF UiRecoverExit
    <3>5. CASE UiClose
      BY <3>5 DEF UiClose
    <3>6. CASE PromptCancel
      BY <3>6 DEF PromptCancel
    <3>7. CASE PromptReset
      BY <3>7 DEF PromptReset
    <3>8. CASE PromptExit
      BY <3>8 DEF PromptExit, BeginShutdownTeardown
    <3>9. CASE PromptExitSave
      BY <3>9 DEF PromptExitSave
    <3>10. CASE UiJob
      BY <3>10 DEF UiJob, BeginShutdownTeardown
    <3> QED
      BY <2>1, <2>2, <3>1, <3>2, <3>3, <3>4, <3>5, <3>6, <3>7, <3>8, <3>9, <3>10
      DEF UiNext, UiReset, UiRecover, UiRecoverEnd
  <2>3. ASSUME NEW t \in OpThreads, OpNext(t) PROVE STypes'
    <3> USE DEF OpGoes, pauseVars, opVars, uiVars
    <3>1. CASE OpUnreadable(t)
      BY <3>1 DEF OpUnreadable
    <3>2. CASE OpBegin(t)
      BY <3>2 DEF OpBegin
    <3>3. CASE OpPauseCall(t)
      BY <3>3 DEF OpPauseCall
    <3>4. CASE OpPaused(t)
      BY <3>4 DEF OpPaused
    <3>5. CASE OpFreeze(t)
      BY <3>5 DEF OpFreeze
    <3>6. CASE OpSave(t)
      BY <3>6 DEF OpSave
    <3>7. CASE OpRefuse(t)
      BY <3>7 DEF OpRefuse
    <3>8. CASE OpWriteRollback(t)
      BY <3>8 DEF OpWriteRollback, FlagsOK
    <3>9. CASE OpApply(t)
      BY <3>9 DEF OpApply
    <3>10. CASE OpRollBack(t)
      BY <3>10 DEF OpRollBack
    <3>11. CASE OpFullRestore(t)
      BY <3>11 DEF OpFullRestore
    <3>12. CASE OpEnd(t)
      <4>1. user' \in BOOLEAN /\ state_operation' = FALSE
        BY <3>12, Zenon DEF OpEnd
      <4>2. ep_mtx' \in Host \cup {FREE} /\ op' \in [OpThreads -> OpPcs]
        <5>1. CASE user' = (user \/ state_operation)
          BY <3>12, <5>1 DEF OpEnd
        <5>2. CASE user' # (user \/ state_operation)
          BY <3>12, <5>2 DEF OpEnd
        <5> QED BY <5>1, <5>2
      <4> HIDE DEF STypes
      <4>3. UNCHANGED <<kind, op_ok, rollback, snapshot, readers, ui, exit_save,
                        ui_job, shutdown_pending, closing, ops>>
        BY <3>12 DEF OpEnd
      <4> QED BY <4>1, <4>2, <4>3 DEF STypes
    <3>13. CASE OpResume(t)
      BY <3>13 DEF OpResume
    <3>14. CASE OpFinish(t)
      <4>1. CASE t = WORKER
        <5>1. ui_job' \in {"none", "teardown", "cancel"} /\ exit_save' = FALSE
          BY <3>14, <4>1 DEF OpFinish
        <5>2. op' \in [OpThreads -> OpPcs]
          BY <3>14, <4>1 DEF OpFinish
        <5>3. UNCHANGED <<ep_mtx, user, state_operation, kind, op_ok, rollback,
                          snapshot, readers, ui, shutdown_pending, closing, ops>>
          BY <3>14 DEF OpFinish
        <5> HIDE DEF OpPcs, UiPcs
        <5> QED BY <5>1, <5>2, <5>3
      <4>2. CASE t # WORKER
        BY <3>14, <4>2 DEF OpFinish
      <4> QED BY <4>1, <4>2
    <3>15. CASE OpApplied(t)
      BY <3>15 DEF OpApplied
    <3>16. CASE OpRolledBack(t)
      BY <3>16 DEF OpRolledBack
    <3> QED
      BY <2>3, <3>1, <3>2, <3>3, <3>4, <3>5, <3>6, <3>7, <3>8, <3>9, <3>10,
         <3>11, <3>12, <3>13, <3>14, <3>15, <3>16 DEF OpNext
  <2>4. ASSUME NEW p \in Periph, PeriphEnter(p) \/ PeriphLeave(p) PROVE STypes'
    BY <2>4 DEF PeriphEnter, PeriphLeave, pauseVars, opVars, uiVars
  <2> QED
    BY <2>1, <2>2, <2>3, <2>4
    DEF SNext, Closed, JitSteps, OpStart, CallSteps, allVars
<1> QED BY <1>1, <1>2

(* A step that changes neither the request nor this storey's variables. *)
LEMMA PauseStill ==
  ASSUME PauseInv, UNCHANGED <<stateVars, started, pause_requested>>,
         \A t \in Host : Pausing(t)' => Pausing(t)
  PROVE  PauseInv'
BY DEF PauseInv, OpInv, CallInv, RequestInv, PauseRequestAgrees, Operating,
       stateVars, pauseVars, opVars, uiVars

(* The steps of the UI thread. *)
LEMMA UiKeeps ==
  ASSUME SInv, ~MenuBeforeStart, UiNext
  PROVE  PauseInv'
<1> USE ThreadAssumption, HostAssumption
        DEF SInv, PauseInv, STypeOK, TypeOK, ThreadsOK, FlagsOK, LockDiscipline,
            JitInv, ParkInv, OpInv, CallInv, RequestInv, PauseRequestAgrees,
            Operating, Snapping, Holding, OpThreads, WORKER, MAIN, FREE, Pausing, OpPcs,
            UiPcs, pauseVars, opVars, uiVars, UiGoes, vars
<1>1. CASE UiToggle
  <2>1. OpInv'       BY <1>1 DEF UiToggle, MenuLive
  <2>2. CallInv'     BY <1>1 DEF UiToggle, MenuLive
  <2>3. RequestInv'  BY <1>1 DEF UiToggle, MenuLive
  <2> QED BY <2>1, <2>2, <2>3 DEF PauseInv
<1>2. CASE UiPauseCall
  <2>1. OpInv'       BY <1>2 DEF UiPauseCall, PauseCall
  <2>2. CallInv'     BY <1>2 DEF UiPauseCall, PauseCall
  <2>3. RequestInv'  BY <1>2 DEF UiPauseCall, PauseCall
  <2> QED BY <2>1, <2>2, <2>3 DEF PauseInv
<1>3. CASE UiPaused
  <2>1. OpInv'       BY <1>3 DEF UiPaused
  <2>2. CallInv'     BY <1>3 DEF UiPaused
  <2>3. RequestInv'  BY <1>3 DEF UiPaused
  <2> QED BY <2>1, <2>2, <2>3 DEF PauseInv
<1>4. CASE UiResume
  <2>1. OpInv'       BY <1>4 DEF UiResume, Resume
  <2>2. CallInv'     BY <1>4 DEF UiResume, Resume
  <2>3. RequestInv'  BY <1>4 DEF UiResume, Resume
  <2> QED BY <2>1, <2>2, <2>3 DEF PauseInv
<1>5. CASE UiAskOp
  <2>1. OpInv'       BY <1>5 DEF UiAskOp, MenuLive
  <2>2. CallInv'     BY <1>5 DEF UiAskOp, MenuLive
  <2>3. RequestInv'  BY <1>5 DEF UiAskOp, MenuLive
  <2> QED BY <2>1, <2>2, <2>3 DEF PauseInv
<1>6. CASE UiSpawn
  <2>1. OpInv'       BY <1>6 DEF UiSpawn
  <2>2. CallInv'     BY <1>6 DEF UiSpawn
  <2>3. RequestInv'  BY <1>6 DEF UiSpawn
  <2> QED BY <2>1, <2>2, <2>3 DEF PauseInv
<1>7. CASE UiReset
  <2>1. OpInv'       BY <1>7 DEF UiReset, RequestReset, stateVars
  <2>2. CallInv'     BY <1>7 DEF UiReset, RequestReset, stateVars
  <2>3. RequestInv'  BY <1>7 DEF UiReset, RequestReset, stateVars
  <2> QED BY <2>1, <2>2, <2>3 DEF PauseInv
<1>8. CASE UiRecover
  <2>1. OpInv'       BY <1>8 DEF UiRecover, RecoverAnswer, stateVars
  <2>2. CallInv'     BY <1>8 DEF UiRecover, RecoverAnswer, stateVars
  <2>3. RequestInv'  BY <1>8 DEF UiRecover, RecoverAnswer, stateVars
  <2> QED BY <2>1, <2>2, <2>3 DEF PauseInv
<1>9. CASE UiRecoverExit
  <2>1. OpInv'       BY <1>9 DEF UiRecoverExit, RecoverAnswer
  <2>2. CallInv'     BY <1>9 DEF UiRecoverExit, RecoverAnswer
  <2>3. RequestInv'  BY <1>9 DEF UiRecoverExit, RecoverAnswer
  <2> QED BY <2>1, <2>2, <2>3 DEF PauseInv
<1>10. CASE UiRecoverEnd
  <2>1. OpInv'       BY <1>10 DEF UiRecoverEnd, RecoverClaim, RecoverDeliver, stateVars
  <2>2. CallInv'     BY <1>10 DEF UiRecoverEnd, RecoverClaim, RecoverDeliver, stateVars
  <2>3. RequestInv'  BY <1>10 DEF UiRecoverEnd, RecoverClaim, RecoverDeliver, stateVars
  <2> QED BY <2>1, <2>2, <2>3 DEF PauseInv
<1>11. CASE UiClose
  <2>1. OpInv'       BY <1>11 DEF UiClose, MenuLive
  <2>2. CallInv'     BY <1>11 DEF UiClose, MenuLive
  <2>3. RequestInv'  BY <1>11 DEF UiClose, MenuLive
  <2> QED BY <2>1, <2>2, <2>3 DEF PauseInv
<1>12. CASE PromptCancel
  <2>1. OpInv'       BY <1>12 DEF PromptCancel
  <2>2. CallInv'     BY <1>12 DEF PromptCancel
  <2>3. RequestInv'  BY <1>12 DEF PromptCancel
  <2> QED BY <2>1, <2>2, <2>3 DEF PauseInv
<1>13. CASE PromptReset
  <2>1. OpInv'       BY <1>13 DEF PromptReset, RequestReset
  <2>2. CallInv'     BY <1>13 DEF PromptReset, RequestReset
  <2>3. RequestInv'  BY <1>13 DEF PromptReset, RequestReset
  <2> QED BY <2>1, <2>2, <2>3 DEF PauseInv
<1>14. CASE PromptExit
  <2>1. OpInv'       BY <1>14 DEF PromptExit, BeginShutdownTeardown, RequestStop
  <2>2. CallInv'     BY <1>14 DEF PromptExit, BeginShutdownTeardown, RequestStop
  <2>3. RequestInv'  BY <1>14 DEF PromptExit, BeginShutdownTeardown, RequestStop
  <2> QED BY <2>1, <2>2, <2>3 DEF PauseInv
<1>15. CASE PromptExitSave
  <2>1. OpInv'       BY <1>15 DEF PromptExitSave
  <2>2. CallInv'     BY <1>15 DEF PromptExitSave
  <2>3. RequestInv'  BY <1>15 DEF PromptExitSave
  <2> QED BY <2>1, <2>2, <2>3 DEF PauseInv
<1>16. CASE UiJob
  <2>1. OpInv'       BY <1>16 DEF UiJob, BeginShutdownTeardown, RequestStop
  <2>2. CallInv'     BY <1>16 DEF UiJob, BeginShutdownTeardown, RequestStop
  <2>3. RequestInv'  BY <1>16 DEF UiJob, BeginShutdownTeardown, RequestStop
  <2> QED BY <2>1, <2>2, <2>3 DEF PauseInv
<1> QED
  BY <1>1, <1>2, <1>3, <1>4, <1>5, <1>6, <1>7, <1>8, <1>9, <1>10, <1>11,
     <1>12, <1>13, <1>14, <1>15, <1>16 DEF UiNext

(* The steps of an operation. *)
LEMMA OpKeeps ==
  ASSUME SInv, NEW t \in OpThreads, OpNext(t)
  PROVE  PauseInv'
<1> USE ThreadAssumption, HostAssumption
        DEF SInv, PauseInv, STypeOK, TypeOK, ThreadsOK, FlagsOK, LockDiscipline,
            JitInv, ParkInv, OpInv, CallInv, RequestInv, PauseRequestAgrees,
            Operating, Snapping, Holding, OpThreads, WORKER, MAIN, FREE, Pausing, OpPcs,
            UiPcs, pauseVars, opVars, uiVars, OpGoes, vars
<1>1. CASE OpUnreadable(t)
  <2>1. OpInv'       BY <1>1 DEF OpUnreadable
  <2>2. CallInv'     BY <1>1 DEF OpUnreadable
  <2>3. RequestInv'  BY <1>1 DEF OpUnreadable
  <2> QED BY <2>1, <2>2, <2>3 DEF PauseInv
<1>2. CASE OpBegin(t)
  <2>1. OpInv'       BY <1>2 DEF OpBegin
  <2>2. CallInv'     BY <1>2 DEF OpBegin
  <2>3. RequestInv'  BY <1>2 DEF OpBegin
  <2> QED BY <2>1, <2>2, <2>3 DEF PauseInv
<1>3. CASE OpPauseCall(t)
  <2>1. OpInv'       BY <1>3 DEF OpPauseCall, PauseCall
  <2>2. CallInv'     BY <1>3 DEF OpPauseCall, PauseCall
  <2>3. RequestInv'  BY <1>3 DEF OpPauseCall, PauseCall
  <2> QED BY <2>1, <2>2, <2>3 DEF PauseInv
<1>4. CASE OpPaused(t)
  <2>1. OpInv'       BY <1>4 DEF OpPaused
  <2>2. CallInv'     BY <1>4 DEF OpPaused
  <2>3. RequestInv'  BY <1>4 DEF OpPaused
  <2> QED BY <2>1, <2>2, <2>3 DEF PauseInv
<1>5. CASE OpFreeze(t)
  <2>1. OpInv'       BY <1>5 DEF OpFreeze
  <2>2. CallInv'     BY <1>5 DEF OpFreeze
  <2>3. RequestInv'  BY <1>5 DEF OpFreeze
  <2> QED BY <2>1, <2>2, <2>3 DEF PauseInv
<1>6. CASE OpSave(t)
  <2>1. OpInv'       BY <1>6 DEF OpSave
  <2>2. CallInv'     BY <1>6 DEF OpSave
  <2>3. RequestInv'  BY <1>6 DEF OpSave
  <2> QED BY <2>1, <2>2, <2>3 DEF PauseInv
<1>7. CASE OpRefuse(t)
  <2>1. OpInv'       BY <1>7 DEF OpRefuse
  <2>2. CallInv'     BY <1>7 DEF OpRefuse
  <2>3. RequestInv'  BY <1>7 DEF OpRefuse
  <2> QED BY <2>1, <2>2, <2>3 DEF PauseInv
<1>8. CASE OpWriteRollback(t)
  <2>1. OpInv'       BY <1>8 DEF OpWriteRollback
  <2>2. CallInv'     BY <1>8 DEF OpWriteRollback
  <2>3. RequestInv'  BY <1>8 DEF OpWriteRollback
  <2> QED BY <2>1, <2>2, <2>3 DEF PauseInv
<1>9. CASE OpApply(t)
  <2>1. OpInv'       BY <1>9 DEF OpApply, RestoreFlags, jitVarsButFlags
  <2>2. CallInv'     BY <1>9 DEF OpApply, RestoreFlags, jitVarsButFlags
  <2>3. RequestInv'  BY <1>9 DEF OpApply, RestoreFlags, jitVarsButFlags
  <2> QED BY <2>1, <2>2, <2>3 DEF PauseInv
<1>10. CASE OpRollBack(t)
  <2>1. OpInv'       BY <1>10 DEF OpRollBack, RestoreFlags, jitVarsButFlags
  <2>2. CallInv'     BY <1>10 DEF OpRollBack, RestoreFlags, jitVarsButFlags
  <2>3. RequestInv'  BY <1>10 DEF OpRollBack, RestoreFlags, jitVarsButFlags
  <2> QED BY <2>1, <2>2, <2>3 DEF PauseInv
<1>11. CASE OpFullRestore(t)
  <2>1. OpInv'       BY <1>11 DEF OpFullRestore, WakeEffect
  <2>2. CallInv'     BY <1>11 DEF OpFullRestore, WakeEffect
  <2>3. RequestInv'  BY <1>11 DEF OpFullRestore, WakeEffect
  <2> QED BY <2>1, <2>2, <2>3 DEF PauseInv
<1>12. CASE OpEnd(t)
  <2>1. OpInv'       BY <1>12 DEF OpEnd
  <2>2. CallInv'     BY <1>12 DEF OpEnd
  <2>3. RequestInv'  BY <1>12 DEF OpEnd
  <2> QED BY <2>1, <2>2, <2>3 DEF PauseInv
<1>13. CASE OpResume(t)
  <2>1. OpInv'       BY <1>13 DEF OpResume, Resume
  <2>2. CallInv'     BY <1>13 DEF OpResume, Resume
  <2>3. RequestInv'  BY <1>13 DEF OpResume, Resume
  <2> QED BY <2>1, <2>2, <2>3 DEF PauseInv
<1>14. CASE OpFinish(t)
  <2>1. OpInv'       BY <1>14 DEF OpFinish
  <2>2. CallInv'     BY <1>14 DEF OpFinish
  <2>3. RequestInv'  BY <1>14 DEF OpFinish
  <2> QED BY <2>1, <2>2, <2>3 DEF PauseInv
<1>15. CASE OpApplied(t)
  <2>1. OpInv'       BY <1>15 DEF OpApplied
  <2>2. CallInv'     BY <1>15 DEF OpApplied
  <2>3. RequestInv'  BY <1>15 DEF OpApplied
  <2> QED BY <2>1, <2>2, <2>3 DEF PauseInv
<1>16. CASE OpRolledBack(t)
  <2>1. OpInv'       BY <1>16 DEF OpRolledBack
  <2>2. CallInv'     BY <1>16 DEF OpRolledBack
  <2>3. RequestInv'  BY <1>16 DEF OpRolledBack
  <2> QED BY <2>1, <2>2, <2>3 DEF PauseInv
<1> QED
  BY <1>1, <1>2, <1>3, <1>4, <1>5, <1>6, <1>7, <1>8, <1>9, <1>10, <1>11,
     <1>12, <1>13, <1>14, <1>15, <1>16 DEF OpNext

(* The JIT thread's steps change no request, no caller and no other        *)
(* storey's variable; nor does a caller's way through Pause().             *)
LEMMA RestKeeps ==
  ASSUME SInv,
         \/ JitSteps \/ OpStart \/ Closed \/ UNCHANGED allVars
         \/ \E t \in Host : CallSteps(t)
         \/ \E p \in Periph : PeriphEnter(p) \/ PeriphLeave(p)
  PROVE  PauseInv'
<1> USE ThreadAssumption, HostAssumption DEF SInv
<1>1. CASE JitSteps
  <2>1. UNCHANGED <<stateVars, started, pause_requested, call>>
    BY <1>1
    DEF JitSteps, JitNext, LoopTest, RunEnter, RunDeliverReset, GuestPowerDown,
        GuestHalts, GuestReturn, ObserveAsleep, ParkCheck, ParkEnter, ParkTest,
        ParkPollQuiet, ParkPollWake, ParkWake, ParkExit, StopLock, StopNotify,
        hostVars
  <2> QED BY <2>1, PauseStill DEF Pausing
<1>2. CASE OpStart
  BY <1>2
  DEF OpStart, Start, PauseInv, OpInv, CallInv, RequestInv, PauseRequestAgrees,
      Operating, Snapping, OpThreads, WORKER, MAIN, stateVars, pauseVars, opVars, uiVars,
      JitInv, ParkInv, Pausing
<1>3. CASE Closed \/ UNCHANGED allVars
  BY <1>3, PauseStill DEF Closed, allVars, vars, Pausing
<1>4. ASSUME NEW t \in Host, CallSteps(t) PROVE PauseInv'
  <2>1. UNCHANGED <<stateVars, started, pause_requested>>
    BY <1>4
    DEF CallSteps, PauseNext, PauseReturn, PauseMustWait, PauseSleep, PauseWake
  <2>2. \A u \in Host : Pausing(u)' => Pausing(u)
    BY <1>4
    DEF CallSteps, PauseNext, PauseReturn, PauseMustWait, PauseSleep, PauseWake,
        Pausing, STypeOK, TypeOK, ThreadsOK
  <2> QED BY <2>1, <2>2, PauseStill
<1>5. ASSUME NEW p \in Periph, PeriphEnter(p) \/ PeriphLeave(p) PROVE PauseInv'
  BY <1>5
  DEF PeriphEnter, PeriphLeave, PauseInv, OpInv, CallInv, RequestInv,
      PauseRequestAgrees, Operating, pauseVars, opVars, uiVars, vars, Pausing
<1> QED BY <1>1, <1>2, <1>3, <1>4, <1>5

LEMMA SInitTypes == SInit => STypeOK /\ JitInv
<1> USE ThreadAssumption, HostAssumption DEF SInit
<1>1. SInit => STypes
  <2> SUFFICES ASSUME SInit PROVE STypes
    OBVIOUS
  <2>1. /\ op \in [OpThreads -> OpPcs]
        /\ kind \in [OpThreads -> {"save", "restore", "warm"}]
    BY DEF OpPcs
  <2>2. op_ok \in [OpThreads -> BOOLEAN] /\ rollback \in BOOLEAN \X BOOLEAN
    OBVIOUS
  <2>3. ops \in 0..MaxOps /\ ui \in UiPcs
    BY MenuAssumption DEF UiPcs
  <2> QED BY <2>1, <2>2, <2>3 DEF STypes
<1>2. SInit => BoundsOK
  BY BoundAssumption DEF Init, BoundsOK, BoundAssumption
<1> QED BY <1>1, <1>2, JitInit, TypesAre DEF JitInv, TypeOK

LEMMA SInitPause == SInit => PauseInv
<1> SUFFICES ASSUME SInit PROVE PauseInv
  OBVIOUS
<1> USE ThreadAssumption, HostAssumption, ModeAssumption
<1>1. op[WORKER] = "idle" /\ op[MAIN] \in {"booted", "begin"}
  BY DEF SInit, OpThreads, WORKER, MAIN
<1>2. OpInv
  BY <1>1 DEF SInit, Init, OpInv, Operating, Snapping, Holding, OpThreads, WORKER, MAIN, FREE
<1>3. CallInv /\ RequestInv
  BY <1>1
  DEF SInit, Init, CallInv, Pausing, RequestInv, PauseRequestAgrees, OpThreads
<1> QED BY <1>2, <1>3 DEF PauseInv

LEMMA TypesHold == SSpec => [](STypeOK /\ JitInv)
<1>1. STypeOK /\ JitInv /\ [SNext]_allVars => (STypeOK /\ JitInv)'
  BY TypesKept, Projection, JitStorey
<1> QED BY <1>1, SInitTypes, PTL DEF SSpec

LEMMA SNextKeeps == ~MenuBeforeStart /\ SInv /\ [SNext]_allVars => PauseInv'
BY UiKeeps, OpKeeps, RestKeeps DEF SNext

(* When the user waits for Start, the two storeys hold together. *)
LEMMA SInvariance == ~MenuBeforeStart => (SSpec => []SInv)
<1> SUFFICES ASSUME ~MenuBeforeStart PROVE SSpec => []SInv
  OBVIOUS
<1>1. SInv /\ [SNext]_allVars => SInv'
  BY SNextKeeps, TypesKept, Projection, JitStorey DEF SInv
<1>2. SInit => SInv
  BY SInitTypes, SInitPause DEF SInv
<1> QED BY <1>1, <1>2, PTL DEF SSpec

-----------------------------------------------------------------------------
(* The waiting pauser *)

(* Neither the request nor the chain exit is taken away from a Pause()     *)
(* that is under way.                                                      *)
HeardInv == \A t \in Host : Pausing(t) => pause_requested /\ host_exit

LEMMA HeardStill ==
  ASSUME HeardInv, \A u \in Host : Pausing(u)' => Pausing(u),
         pause_requested => pause_requested', host_exit => host_exit'
  PROVE  HeardInv'
BY DEF HeardInv

(* When an operation applies an image nobody is inside EmulationPause.     *)
LEMMA NobodyPauses ==
  ASSUME SInv, NEW t \in OpThreads, op[t] \in Snapping
  PROVE  ep_mtx = FREE /\ \A u \in Host : ~Pausing(u)
<1> USE ThreadAssumption, HostAssumption DEF SInv, PauseInv
<1>1. state_operation
  BY DEF OpInv, Operating, Snapping
<1>2. ep_mtx # UI /\ ep_mtx # t
  BY <1>1 DEF OpInv, Holding, Snapping
<1>3. \A u \in OpThreads : u # t => op[u] \in {"idle", "booted"} \/ ~started
  BY DEF OpInv, OpThreads, WORKER, MAIN, Snapping
<1>4. \A u \in OpThreads : ep_mtx # u
  <2> SUFFICES ASSUME NEW u \in OpThreads, u # t PROVE op[u] \notin Holding
    BY <1>2 DEF OpInv
  <2>1. CASE started
    BY <2>1, <1>3 DEF Holding
  <2>2. CASE ~started
    BY <2>2 DEF OpInv, OpThreads, WORKER, MAIN, Holding, Snapping
  <2> QED BY <2>1, <2>2
<1>5. ep_mtx = FREE
  BY <1>2, <1>4 DEF STypeOK, OpThreads
<1> QED BY <1>5 DEF CallInv

LEMMA HeardKeeps ==
  ASSUME SInv, HeardInv, [SNext]_allVars
  PROVE  HeardInv'
<1> USE ThreadAssumption, HostAssumption
<1>0. call \in [Host -> CallPcs] /\ WORKER \in Host /\ MAIN \in Host
  BY DEF SInv, STypeOK, TypeOK, ThreadsOK
<1>a. ASSUME NEW u \in Host, PauseCall(u) PROVE HeardInv'
  BY <1>a DEF PauseCall, HeardInv
<1>b. ASSUME NEW u \in Host, Resume(u), ep_mtx = u PROVE HeardInv'
  <2>1. \A v \in Host : ~Pausing(v)
    BY <1>b DEF Resume, SInv, PauseInv, CallInv, Pausing
  <2> QED BY <1>b, <2>1 DEF Resume, HeardInv, Pausing
<1>c. ASSUME UNCHANGED <<call, pause_requested, host_exit>> PROVE HeardInv'
  BY <1>c, HeardStill DEF Pausing
<1>d. ASSUME UNCHANGED vars PROVE HeardInv'
  BY <1>d, <1>c DEF vars, engine
<1>1. CASE JitSteps
  BY <1>1, <1>c
  DEF JitSteps, JitNext, LoopTest, RunEnter, RunDeliverReset, GuestPowerDown,
      GuestHalts, GuestReturn, ObserveAsleep, ParkCheck, ParkEnter, ParkTest,
      ParkPollQuiet, ParkPollWake, ParkWake, ParkExit, StopLock, StopNotify,
      hostVars, engine
<1>2. CASE OpStart
  BY <1>2, <1>c DEF OpStart, Start, engine
<1>3. CASE UiNext
  <2>1. CASE UiPauseCall
    BY <2>1, <1>a DEF UiPauseCall
  <2>2. CASE UiResume
    BY <2>2, <1>b
    DEF UiResume, UiGoes, SInv, PauseInv, OpInv, Holding
  <2>3. CASE \/ UiToggle \/ UiPaused \/ UiAskOp \/ UiSpawn \/ UiClose
            \/ PromptCancel \/ PromptExitSave
    BY <2>3, <1>d
    DEF UiToggle, UiPaused, UiAskOp, UiSpawn, UiClose, PromptCancel, PromptExitSave
  <2>4. CASE UiReset \/ PromptReset
    BY <2>4, <1>c DEF UiReset, PromptReset, RequestReset
  <2>5. ASSUME NEW next \in {"none", "claimWake", "claimReset"}, RecoverAnswer(next)
        PROVE  HeardInv'
    <3>1. \A u \in Host : Pausing(u)' => Pausing(u)
      BY <2>5, <1>0 DEF RecoverAnswer, Pausing
    <3> QED BY <2>5, <3>1, HeardStill DEF RecoverAnswer
  <2>6. CASE RecoverClaim \/ RecoverDeliver
    <3>1. \A u \in Host : Pausing(u)' => Pausing(u)
      BY <2>6, <1>0 DEF RecoverClaim, RecoverDeliver, Pausing
    <3> QED BY <2>6, <3>1, HeardStill DEF RecoverClaim, RecoverDeliver
  <2>7. ASSUME RequestStop(UI) PROVE HeardInv'
    <3>1. \A u \in Host : Pausing(u)' => Pausing(u)
      BY <2>7 DEF RequestStop, Pausing
    <3> QED BY <2>7, <3>1, HeardStill DEF RequestStop
  <2>8. CASE UiJob
    BY <2>8, <2>7, <1>d DEF UiJob, BeginShutdownTeardown
  <2> QED
    BY <1>3, <2>1, <2>2, <2>3, <2>4, <2>5, <2>6, <2>7, <2>8
    DEF UiNext, UiRecover, UiRecoverExit, UiRecoverEnd, PromptExit,
        BeginShutdownTeardown
<1>4. ASSUME NEW t \in OpThreads, OpNext(t) PROVE HeardInv'
  <2>0. t \in Host
    BY <1>0 DEF OpThreads
  <2>1. CASE OpPauseCall(t)
    BY <2>0, <2>1, <1>a DEF OpPauseCall
  <2>2. CASE OpResume(t)
    BY <2>0, <2>2, <1>b
    DEF OpResume, OpGoes, SInv, PauseInv, OpInv, Holding
  <2>3. CASE OpApply(t) \/ OpRollBack(t)
    <3>1. \A u \in Host : ~Pausing(u)
      BY <2>3, NobodyPauses DEF OpApply, OpRollBack, OpGoes, Snapping
    <3>2. UNCHANGED call
      BY <2>3 DEF OpApply, OpRollBack, jitVarsButFlags
    <3> QED BY <3>1, <3>2 DEF HeardInv, Pausing
  <2>4. CASE OpFullRestore(t)
    BY <2>4, <1>c DEF OpFullRestore
  <2>5. CASE \/ OpUnreadable(t) \/ OpBegin(t) \/ OpPaused(t) \/ OpFreeze(t)
            \/ OpSave(t) \/ OpRefuse(t) \/ OpWriteRollback(t) \/ OpApplied(t)
            \/ OpRolledBack(t) \/ OpEnd(t) \/ OpFinish(t)
    BY <2>5, <1>d
    DEF OpUnreadable, OpBegin, OpPaused, OpFreeze, OpSave, OpRefuse,
        OpWriteRollback, OpApplied, OpRolledBack, OpEnd, OpFinish
  <2> QED BY <1>4, <2>1, <2>2, <2>3, <2>4, <2>5 DEF OpNext
<1>5. ASSUME NEW u \in Host, CallSteps(u) PROVE HeardInv'
  <2>1. UNCHANGED <<pause_requested, host_exit>>
    BY <1>5
    DEF CallSteps, PauseNext, PauseReturn, PauseMustWait, PauseSleep, PauseWake,
        engine
  <2>2. \A v \in Host : Pausing(v)' => Pausing(v)
    BY <1>5, <1>0
    DEF CallSteps, PauseNext, PauseReturn, PauseMustWait, PauseSleep, PauseWake,
        Pausing
  <2> QED BY <2>1, <2>2, HeardStill
<1>6. ASSUME NEW p \in Periph, PeriphEnter(p) \/ PeriphLeave(p) PROVE HeardInv'
  BY <1>6, <1>d DEF PeriphEnter, PeriphLeave
<1>7. CASE Closed \/ UNCHANGED allVars
  BY <1>7, <1>d DEF Closed, allVars
<1> QED BY <1>1, <1>2, <1>3, <1>4, <1>5, <1>6, <1>7 DEF SNext

LEMMA HeardHolds == ~MenuBeforeStart => (SSpec => [](SInv /\ HeardInv))
<1> SUFFICES ASSUME ~MenuBeforeStart PROVE SSpec => [](SInv /\ HeardInv)
  OBVIOUS
<1>1. SInv /\ HeardInv /\ [SNext]_allVars => (SInv /\ HeardInv)'
  BY SNextKeeps, TypesKept, Projection, JitStorey, HeardKeeps DEF SInv
<1>2. SInit => SInv /\ HeardInv
  BY SInitTypes, SInitPause DEF SInv, SInit, Init, HeardInv, Pausing
<1> QED BY <1>1, <1>2, PTL DEF SSpec

-----------------------------------------------------------------------------
(* The invariants the run checks *)

(* EmulationPause, EmulationFreeze, Hibernation and the UI thread keep     *)
(* their types, menu before Start or not.                                  *)
THEOREM StateTypes == SSpec => []STypeOK
BY TypesHold, PTL

(* Pause() keeps its promise under operations that rewrite the engine's    *)
(* flags: it returns only on a parked or an ended JIT thread.              *)
THEOREM PauseStaysSound == SSpec => PauseReturnsParked
<1>1. JitInv =>
        \A t \in Host : PauseReturn(t) => jit \in {"parkWait"} \cup StopPcs
  BY HostAssumption
  DEF JitInv, LockDiscipline, LockedPark, ParkPcs, StopPcs, PauseReturn, JIT
<1> QED BY <1>1, TypesHold, PTL DEF PauseReturnsParked

(* Nor does the end of the JIT thread leave anybody asleep in Pause(), an  *)
(* operation's thread included.                                            *)
THEOREM OperationsWakeUp == SSpec => []NoSleeperAfterStop
<1>1. STypeOK /\ LastNotify /\ JitInv /\ [SNext]_allVars => LastNotify'
  BY Projection, LastNotifyStorey
<1>2. SInit => LastNotify
  BY DEF SInit, Init, LastNotify
<1>3. LastNotify => NoSleeperAfterStop
  BY DEF LastNotify, NoSleeperAfterStop
<1> QED BY <1>1, <1>2, <1>3, TypesHold, PTL DEF SSpec

(* EmulationPause's two flags and the JitRunner's one request agree        *)
(* whenever nobody is between them, for users that wait for Start().       *)
THEOREM OneRequest == ~MenuBeforeStart => (SSpec => []PauseRequestAgrees)
<1>1. SInv => PauseRequestAgrees
  BY DEF SInv, PauseInv, RequestInv
<1> QED BY <1>1, SInvariance, PTL

(* While SnapshotSection is held the peripheral workers are out and the    *)
(* JIT thread holds still, unless a reset has ended the park.              *)
THEOREM SafeSnapshot == ~MenuBeforeStart => (SSpec => []SnapshotQuietUnlessReset)
<1>1. SInv => SnapshotQuietUnlessReset
  <2> SUFFICES ASSUME SInv, snapshot # FREE
               PROVE  readers = {} /\ (JitQuiet \/ park_end = "reset")
    BY DEF SnapshotQuietUnlessReset
  <2> USE ThreadAssumption, HostAssumption DEF SInv, PauseInv
  <2>1. PICK t \in OpThreads : snapshot = t /\ op[t] \in Snapping
    BY DEF STypeOK, OpInv
  <2>2. state_operation /\ readers = {}
    BY <2>1 DEF OpInv, Operating, Snapping
  <2>3. CASE ~started
    BY <2>2, <2>3 DEF JitQuiet, JitInv, LockDiscipline
  <2>4. CASE started
    <3>1. ep_mtx = FREE
      <4>1. op[MAIN] = "booted" /\ t = WORKER
        BY <2>1, <2>4 DEF OpInv, OpThreads, Snapping
      <4>2. ep_mtx # MAIN /\ ep_mtx # WORKER
        BY <2>1, <4>1 DEF OpInv, OpThreads, Holding, Snapping
      <4>3. ep_mtx # UI
        BY <2>2 DEF OpInv
      <4> QED BY <4>2, <4>3 DEF STypeOK
    <3>2. pause_requested
      BY <2>2, <2>4, <3>1 DEF RequestInv, PauseRequestAgrees
    <3>3. \A u \in Host : ~Pausing(u)
      BY <3>1 DEF CallInv
    <3> QED BY <2>2, <3>2, <3>3 DEF JitInv, ParkInv
  <2> QED BY <2>3, <2>4
<1> QED BY <1>1, SInvariance, PTL

(* A Pause() that is under way keeps EmulationPause's mutex, its request   *)
(* and the engine's chain exit, so the JIT thread will see it; during an   *)
(* operation nobody pauses.                                                *)
THEOREM PausersHeard == ~MenuBeforeStart => (SSpec => []PauserIsHeard)
<1>1. SInv /\ HeardInv => PauserIsHeard
  <2> SUFFICES ASSUME SInv, HeardInv PROVE PauserIsHeard
    OBVIOUS
  <2>1. snapshot # FREE => \E t \in OpThreads : op[t] \in Snapping
    BY DEF SInv, STypeOK, PauseInv, OpInv
  <2>2. snapshot # FREE => ep_mtx = FREE
    BY <2>1, NobodyPauses
  <2> QED BY <2>2 DEF PauserIsHeard, SInv, PauseInv, CallInv, HeardInv, Pausing
<1> QED BY <1>1, HeardHolds, PTL
=============================================================================
