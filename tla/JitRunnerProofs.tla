--------------------------- MODULE JitRunnerProofs ---------------------------
(***************************************************************************)
(* The safety properties of JitRunner.tla, for every set of host threads,  *)
(* both engines, both wake shapes and every bound.                         *)
(*                                                                         *)
(* The invariant that carries them is lock discipline: pause_mutex_ is     *)
(* held by the JIT thread exactly in the park's locked states and by a     *)
(* host thread exactly between the lock and the wait of Pause(); paused_   *)
(* and the stopped virtual clock are exactly the states of the park.       *)
(***************************************************************************)
EXTENDS JitRunner, TLAPS

LockedPark == {"parkTest", "parkPoll", "parkExit"}

LockDiscipline ==
    /\ mutex = JIT <=> jit \in LockedPark
    /\ \A t \in Host : mutex = t <=> call[t] \in {"test", "sleep"}
    /\ paused <=> jit \in ParkPcs
    /\ vclock_paused <=> jit \in ParkPcs
    /\ stopped <=> jit \in StopPcs
    /\ started <=> jit # "unborn"

(* Once RunLoop has passed the lock between stopped_ and the notification, *)
(* no caller is between its test of the predicate and its sleep, and after *)
(* the notification nobody is asleep.                                      *)
LastNotify ==
    /\ jit \in {"stopNotify", "done"} => \A t \in Host : call[t] # "sleep"
    /\ jit = "done" => cv = {}

IInv == ThreadsOK /\ FlagsOK /\ LockDiscipline /\ LastNotify /\ ExitPublished

-----------------------------------------------------------------------------
LEMMA InitIInv == Init => IInv
<1> USE HostAssumption DEF HostAssumption
<1>1. Init => ThreadsOK /\ FlagsOK
  BY DEF Init, ThreadsOK, FlagsOK, JitPcs, CallPcs, ParkEnds
<1>2. Init => LockDiscipline
  BY DEF Init, LockDiscipline, LockedPark, ParkPcs, StopPcs, JIT, FREE
<1>3. Init => LastNotify /\ ExitPublished
  BY DEF Init, LastNotify, ExitPublished
<1> QED BY <1>1, <1>2, <1>3 DEF IInv

(* The steps of host thread t. *)
LEMMA HostStep ==
  ASSUME IInv, NEW t \in Host, HostNext(t)
  PROVE  IInv'
<1> USE HostAssumption, EngineAssumption
        DEF HostAssumption, EngineAssumption, IInv, ThreadsOK, FlagsOK,
            LockDiscipline, LastNotify, ExitPublished, LockedPark, JitPcs,
            ParkPcs, StopPcs, CallPcs, ParkEnds, JIT, FREE, engine, sleepVars,
            bounds
<1>1. CASE PauseCall(t)       BY <1>1 DEF PauseCall
<1>2. CASE PauseReturn(t)     BY <1>2 DEF PauseReturn
<1>3. CASE PauseMustWait(t)   BY <1>3 DEF PauseMustWait
<1>4. CASE PauseSleep(t)      BY <1>4 DEF PauseSleep
<1>5. CASE PauseWake(t)       BY <1>5 DEF PauseWake
<1>6. CASE Resume(t)
  <2>1. ThreadsOK'       BY <1>6 DEF Resume
  <2>2. FlagsOK'         BY <1>6 DEF Resume
  <2>3. LockDiscipline'  BY <1>6 DEF Resume
  <2>4. LastNotify'      BY <1>6 DEF Resume
  <2>5. ExitPublished'   BY <1>6 DEF Resume
  <2> QED BY <2>1, <2>2, <2>3, <2>4, <2>5
<1>7. CASE RequestStop(t)     BY <1>7 DEF RequestStop
<1>8. CASE RequestReset(t)    BY <1>8 DEF RequestReset
<1> QED BY <1>1, <1>2, <1>3, <1>4, <1>5, <1>6, <1>7, <1>8
        DEF HostNext, PauseNext

(* The steps of the recovery prompt. *)
LEMMA RecoverStep ==
  ASSUME IInv, Recover
  PROVE  IInv'
<1> USE HostAssumption, EngineAssumption
        DEF HostAssumption, EngineAssumption, IInv, ThreadsOK, FlagsOK,
            LockDiscipline, LastNotify, ExitPublished, LockedPark, JitPcs,
            ParkPcs, StopPcs, CallPcs, ParkEnds, JIT, FREE, engine, sleepVars,
            bounds
<1>1. CASE \E next \in {"none", "claimWake", "claimReset"} : RecoverAnswer(next)
  <2>1. PICK next \in {"none", "claimWake", "claimReset"} : RecoverAnswer(next)
    BY <1>1
  <2>2. ThreadsOK'       BY <2>1 DEF RecoverAnswer
  <2>3. FlagsOK'         BY <2>1 DEF RecoverAnswer
  <2>4. LockDiscipline'  BY <2>1 DEF RecoverAnswer
  <2>5. LastNotify'      BY <2>1 DEF RecoverAnswer
  <2>6. ExitPublished'   BY <2>1 DEF RecoverAnswer
  <2> QED BY <2>2, <2>3, <2>4, <2>5, <2>6
<1>2. CASE RecoverClaim
  <2>1. ThreadsOK'       BY <1>2 DEF RecoverClaim
  <2>2. FlagsOK'         BY <1>2 DEF RecoverClaim
  <2>3. LockDiscipline'  BY <1>2 DEF RecoverClaim
  <2>4. LastNotify'      BY <1>2 DEF RecoverClaim
  <2>5. ExitPublished'   BY <1>2 DEF RecoverClaim
  <2> QED BY <2>1, <2>2, <2>3, <2>4, <2>5
<1>3. CASE RecoverDeliver
  <2>1. ThreadsOK'       BY <1>3 DEF RecoverDeliver, WakeEffect
  <2>2. FlagsOK'         BY <1>3 DEF RecoverDeliver, WakeEffect
  <2>3. LockDiscipline'  BY <1>3 DEF RecoverDeliver, WakeEffect
  <2>4. LastNotify'      BY <1>3 DEF RecoverDeliver, WakeEffect
  <2>5. ExitPublished'   BY <1>3 DEF RecoverDeliver, WakeEffect
  <2> QED BY <2>1, <2>2, <2>3, <2>4, <2>5
<1> QED BY <1>1, <1>2, <1>3 DEF Recover

(* The steps of the JIT thread. *)
LEMMA JitStep ==
  ASSUME IInv, JitNext
  PROVE  IInv'
<1> USE HostAssumption, EngineAssumption
        DEF HostAssumption, EngineAssumption, IInv, ThreadsOK, FlagsOK,
            LockDiscipline, LastNotify, ExitPublished, LockedPark, JitPcs,
            ParkPcs, StopPcs, CallPcs, ParkEnds, JIT, FREE, engine, sleepVars,
            bounds, hostVars, JitGoes
<1>1. CASE LoopTest
  <2>1. ThreadsOK'       BY <1>1 DEF LoopTest
  <2>2. FlagsOK'         BY <1>1 DEF LoopTest
  <2>3. LockDiscipline'  BY <1>1 DEF LoopTest
  <2>4. LastNotify'      BY <1>1 DEF LoopTest
  <2>5. ExitPublished'   BY <1>1 DEF LoopTest
  <2> QED BY <2>1, <2>2, <2>3, <2>4, <2>5
<1>2. CASE RunEnter         BY <1>2 DEF RunEnter
<1>3. CASE RunDeliverReset  BY <1>3 DEF RunDeliverReset
<1>4. CASE GuestPowerDown   BY <1>4 DEF GuestPowerDown
<1>5. CASE GuestHalts       BY <1>5 DEF GuestHalts
<1>6. CASE GuestReturn      BY <1>6 DEF GuestReturn
<1>7. CASE ObserveAsleep    BY <1>7 DEF ObserveAsleep
<1>8. CASE ParkCheck        BY <1>8 DEF ParkCheck
<1>9. CASE ParkEnter        BY <1>9 DEF ParkEnter
<1>10. CASE ParkTest         BY <1>10 DEF ParkTest, ParkLeave
<1>11. CASE ParkPollQuiet    BY <1>11 DEF ParkPollQuiet, ParkLeave
<1>12. CASE ParkPollWake     BY <1>12 DEF ParkPollWake, WakeEffect
<1>13. CASE ParkWake         BY <1>13 DEF ParkWake
<1>14. CASE ParkExit         BY <1>14 DEF ParkExit
<1>15. CASE StopLock         BY <1>15 DEF StopLock
<1>16. CASE StopNotify       BY <1>16 DEF StopNotify
<1> QED BY <1>1, <1>2, <1>3, <1>4, <1>5, <1>6, <1>7, <1>8, <1>9,
           <1>10, <1>11, <1>12, <1>13, <1>14, <1>15, <1>16 DEF JitNext

LEMMA StartStep ==
  ASSUME IInv, Start
  PROVE  IInv'
BY DEF Start, IInv, ThreadsOK, FlagsOK, LockDiscipline, LastNotify, ExitPublished,
       LockedPark, JitPcs, ParkPcs, StopPcs, CallPcs, engine, sleepVars, bounds

LEMMA StutterStep ==
  ASSUME IInv, UNCHANGED vars
  PROVE  IInv'
BY DEF vars, IInv, ThreadsOK, FlagsOK, LockDiscipline, LastNotify, ExitPublished, engine,
       sleepVars, bounds

LEMMA NextIInv == IInv /\ [Next]_vars => IInv'
BY HostStep, RecoverStep, JitStep, StartStep, StutterStep DEF Next

THEOREM Invariance == Spec => []IInv
BY InitIInv, NextIInv, PTL DEF Spec

-----------------------------------------------------------------------------
(* The two counters that bound the model stay within their bounds. *)
LEMMA BoundsKept == BoundsOK /\ [Next]_vars => BoundsOK'
<1> SUFFICES ASSUME BoundsOK, [Next]_vars PROVE BoundsOK'
  OBVIOUS
<1> USE BoundAssumption DEF BoundAssumption, BoundsOK
<1>1. CASE resets' = resets /\ sleeps' = sleeps
  BY <1>1
<1>2. CASE \E t \in Host : RequestReset(t)
  BY <1>2 DEF RequestReset
<1>3. CASE GuestPowerDown
  BY <1>3 DEF GuestPowerDown
<1>4. \/ resets' = resets /\ sleeps' = sleeps
      \/ \E t \in Host : RequestReset(t)
      \/ GuestPowerDown
  BY DEF Next, Start, HostNext, PauseNext, JitNext, PauseCall, PauseReturn,
     PauseMustWait, PauseSleep, PauseWake, Resume, RequestStop, Recover,
     RecoverAnswer, RecoverClaim, RecoverDeliver, LoopTest, GuestHalts, RunEnter, RunDeliverReset, GuestReturn,
     ObserveAsleep, ParkCheck, ParkEnter, ParkTest, ParkPollQuiet,
     ParkPollWake, ParkWake, ParkExit, StopLock, StopNotify, bounds, vars
<1> QED BY <1>1, <1>2, <1>3, <1>4

(* Every variable keeps its type. *)
THEOREM TypeCorrect == Spec => []TypeOK
<1>1. Init => BoundsOK
  BY BoundAssumption DEF Init, BoundsOK, BoundAssumption
<1>2. IInv /\ BoundsOK => TypeOK
  BY DEF IInv, TypeOK
<1> QED BY <1>1, <1>2, BoundsKept, Invariance, PTL DEF Spec

(* A host thread that can take pause_mutex_ reads in paused_ whether the   *)
(* JIT thread sits in the park's wait with the virtual clock stopped.      *)
THEOREM ParkedWhenPaused == Spec => []PausedMeansParked
<1>1. IInv => PausedMeansParked
  BY DEF IInv, LockDiscipline, LockedPark, ParkPcs, PausedMeansParked
<1> QED BY <1>1, Invariance, PTL

(* Pause() returns only on a parked or an ended JIT thread. *)
THEOREM PauseIsSound == Spec => PauseReturnsParked
<1>1. IInv =>
        \A t \in Host : PauseReturn(t) => jit \in {"parkWait"} \cup StopPcs
  BY HostAssumption DEF HostAssumption, IInv, LockDiscipline, LockedPark, ParkPcs, StopPcs,
     PauseReturn, JIT
<1> QED BY <1>1, Invariance, PTL DEF PauseReturnsParked

(* The end of the JIT thread leaves no caller asleep in Pause(). *)
THEOREM NoLostWakeup == Spec => []NoSleeperAfterStop
<1>1. IInv => NoSleeperAfterStop
  BY DEF IInv, LastNotify, NoSleeperAfterStop
<1> QED BY <1>1, Invariance, PTL

(* The engine's host chain-exit request is the OR of pause and stop. *)
THEOREM PublishedExit == Spec => []ExitPublished
<1>1. IInv => ExitPublished BY DEF IInv
<1> QED BY <1>1, Invariance, PTL
=============================================================================
