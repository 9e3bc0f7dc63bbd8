--------------------------- MODULE GuestResetProofs ---------------------------
(***************************************************************************)
(* Theorems about GuestReset, for any set of requesting threads, on both   *)
(* engines, and with requests and deliveries that overlap in any way: the  *)
(* words of the reset path keep their types; an armed wipe has a delivery  *)
(* ahead of it unless ARM has dropped it; and whatever overlapping         *)
(* requests have mixed, a request that begins when the path is at rest and *)
(* meets no other is delivered as what it is.                              *)
(*                                                                         *)
(* IInv is inductive.  Its second half holds while nothing overlaps, and   *)
(* says why no lock is needed then: at most one thread is at its request,  *)
(* the JIT thread delivers nothing while that request is incomplete        *)
(* (OneAtATime), so the words an armed wipe will be delivered with are     *)
(* those its own request stored (ColdWords), and stay so in the delivery   *)
(* (ColdTaken); a resume that is marked is a wake's whose cause is latched *)
(* (WakeWords), or is left from before and will be stored over.            *)
(***************************************************************************)
EXTENDS GuestReset, TLAPS

USE HostAssumption, EngineAssumption DEF Thread
USE DEF words, lines, promptVars, sleepVars, history, requests, Step, JitStep

(* The two-valued words, and the others. *)
Flags ==
    /\ cold_pending \in BOOLEAN /\ pending_resume \in BOOLEAN
    /\ resume_pc \in BOOLEAN /\ wake_cause \in BOOLEAN
    /\ chain_reset \in BOOLEAN /\ reset_pending \in BOOLEAN
    /\ deep_sleep \in BOOLEAN /\ wake_claimed \in BOOLEAN
    /\ active \in BOOLEAN /\ hw_resumed \in BOOLEAN
    /\ dropped \in BOOLEAN /\ contended \in BOOLEAN

Data ==
    /\ arch \in Engines
    /\ at \in [Thread -> AtPcs] /\ want \in [Thread -> Wants]
    /\ jit \in JitPcs /\ pending_kind \in Kinds
    /\ recover \in {"none", "posted", "shown"}
    /\ taken \in [kind : Kinds, resume : BOOLEAN, wiped : BOOLEAN,
                  vector : BOOLEAN]

(* A thread that has begun a request and has not yet set it pending. *)
Early == AtPcs \ {"idle", "claim", "clear"}
Quiet == {"guest", "asleep", "poll", "loop"}

(* Each request takes the steps of its own kind. *)
StepsFit ==
    \A t \in Thread :
        /\ at[t] = "arm" => want[t] = "hard"
        /\ at[t] \in {"cause", "vector"} => want[t] = "wake"
        /\ at[t] = "kind" => want[t] # "wake"

(* While nothing overlaps: one request at a time, none during a delivery. *)
OneAtATime ==
    /\ \A t, u \in Thread : Asking(t) /\ Asking(u) => t = u
    /\ \A t \in Thread : at[t] \in Early => ~reset_pending /\ jit \in Quiet

(* ... so the words of an armed wipe are those its request stored. *)
ColdWords ==
    /\ cold_pending /\ jit \notin {"resume", "cold"} =>
        \/ pending_kind = "rtc"
        \/ \E t \in Thread : HardUnderWay(t) /\ at[t] = "kind"
    /\ cold_pending /\ jit # "cold" =>
        \/ ~pending_resume
        \/ \E t \in Thread : HardUnderWay(t) /\ at[t] \in {"kind", "resume"}
    /\ cold_pending => ~resume_pc

(* ... and what the delivery has taken of them is theirs too. *)
ColdTaken ==
    /\ cold_pending /\ jit \in {"resume", "cold"} => taken.kind = "rtc"
    /\ cold_pending /\ jit = "cold" => ~taken.resume
    /\ jit \in {"raise", "boot"} /\ taken.wiped =>
        taken.kind = "rtc" /\ ~taken.resume
    /\ jit = "raise" /\ taken.wiped => ~resume_pc
    /\ jit = "boot" /\ taken.wiped => ~taken.vector

(* ... and a resume vector belongs to a wake on its way. *)
VectorOwned ==
    resume_pc =>
        \/ \E t \in Thread : want[t] = "wake" /\ at[t] \in Early
        \/ reset_pending
        \/ jit \in BeforeWipe \cup {"raise"}

(* ... and a resume's cause is latched, with nobody about to clear it. *)
NoneAsking == \A t \in Thread : ~Asking(t)

WakeWords ==
    /\ \A t \in Thread :
        want[t] = "wake" /\ at[t] \in {"vector", "resume", "chain", "pend"}
            => wake_cause
    /\ pending_resume =>
        \/ \E t \in Thread : at[t] \in {"arm", "kind", "cause", "vector", "resume"}
        \/ \E t \in Thread : want[t] = "wake" /\ at[t] \in {"chain", "pend"}
        \/ /\ \/ reset_pending /\ jit \in Quiet
              \/ jit \in {"chain", "kind", "resume"}
           /\ wake_cause /\ NoneAsking
    /\ taken.resume /\ jit \in {"cold", "raise", "boot"}
        => wake_cause /\ NoneAsking

InOrder ==
    OneAtATime /\ ArmedMeansComing /\ ColdWords /\ ColdTaken /\ VectorOwned
    /\ WakeWords

IInv ==
    /\ Flags /\ Data
    /\ StepsFit /\ ArmedUnlessDropped
    /\ ~contended => InOrder

-----------------------------------------------------------------------------
(* The steps keep the types. *)
LEMMA RequestTypes ==
  ASSUME Flags, Data, NEW t \in Thread,
         AskHost(t) \/ AskGuest \/ AskWake \/ AnswerPrompt \/ Request(t)
  PROVE  Flags' /\ Data'
<1>1. Flags'
  <2>1. (~AtRest /\ (contended \/ ~Alone)) \in BOOLEAN
    OBVIOUS
  <2>2. (cold_pending /\ arch = "arm" /\ jit = "raise") \in BOOLEAN
    OBVIOUS
  <2>3. (arch = "arm" \/ resume_pc) \in BOOLEAN /\ (want[t] = "wake") \in BOOLEAN
    OBVIOUS
  <2>4. CASE AskHost(t)
    BY <2>1, <2>4, Zenon DEF Flags, AskHost, Ask, Begin, Count
  <2>5. CASE AskGuest
    BY <2>1, <2>5, Zenon DEF Flags, AskGuest, Ask, Begin, Count
  <2>6. CASE Claim(t)
    BY <2>1, <2>6, Zenon DEF Flags, Claim, Begin
  <2>7. CASE AskWake
    <3>1. (hw_resumed \/ active) \in BOOLEAN
      OBVIOUS
    <3> QED BY <2>7, <3>1, Zenon DEF Flags, AskWake
  <2>8. CASE AnswerPrompt
    BY <2>8, Zenon DEF Flags, AnswerPrompt
  <2>9. CASE ClaimFails(t)
    BY <2>9, Zenon DEF Flags, ClaimFails
  <2>10. CASE ArmCold(t)
    BY <2>10, Zenon DEF Flags, ArmCold
  <2>11. CASE StoreKind(t)
    BY <2>11, Zenon DEF Flags, StoreKind
  <2>12. CASE LatchCause(t)
    BY <2>12, Zenon DEF Flags, LatchCause
  <2>13. CASE SetVector(t)
    BY <2>3, <2>13, Zenon DEF Flags, SetVector
  <2>14. CASE StoreResume(t)
    BY <2>3, <2>14, Zenon DEF Flags, StoreResume
  <2>15. CASE SetChain(t)
    BY <2>15, Zenon DEF Flags, SetChain
  <2>16. CASE Pend(t)
    BY <2>2, <2>16, Zenon DEF Flags, Pend
  <2>17. CASE ClearCause(t)
    BY <2>17, Zenon DEF Flags, ClearCause
  <2> QED BY <2>4, <2>5, <2>6, <2>7, <2>8, <2>9, <2>10, <2>11, <2>12,
           <2>13, <2>14, <2>15, <2>16, <2>17 DEF Request
<1>2. Data'
  <2> USE DEF Data
  <2>1. ASSUME NEW u \in Thread, NEW w \in Wants, Begin(u, w)
        PROVE  at' \in [Thread -> AtPcs]
    BY <2>1 DEF Begin, FirstStep, AtPcs
  <2>2. CASE AskHost(t) \/ AskGuest
    <3>1. PICK u \in Thread, w \in Wants : Ask(u, w)
      BY <2>2 DEF AskHost, AskGuest, Wants
    <3> QED BY <2>1, <2>2, <3>1 DEF Ask, AskHost, AskGuest
  <2>3. CASE AskWake
    BY <2>3 DEF AskWake, AtPcs, Wants, JitPcs
  <2>4. CASE AnswerPrompt
    BY <2>4 DEF AnswerPrompt, AtPcs, Wants
  <2>5. CASE Claim(t)
    BY <2>1, <2>5 DEF Claim
  <2>6. CASE Request(t) /\ ~Claim(t)
    BY <2>6 DEF Request, ClaimFails, ArmCold, StoreKind, LatchCause, SetVector,
       StoreResume, SetChain, Pend, ClearCause, KindOf, AtPcs, Kinds
  <2> QED BY <2>2, <2>3, <2>4, <2>5, <2>6
<1> QED BY <1>1, <1>2

LEMMA JitTypes ==
  ASSUME Flags, Data,
         \/ RecoverTooLate \/ ShowPrompt \/ Deliver \/ RunGuest \/ Park
         \/ PollPark \/ PollEnds \/ Unpark \/ GuestReturn \/ GuestSleep
  PROVE  Flags' /\ Data'
<1>1. Flags'
  <2>1. (reset_pending /\ arch = "mips") \in BOOLEAN
    OBVIOUS
  <2>2. CASE RecoverTooLate
    BY <2>2, Zenon DEF Flags, RecoverTooLate
  <2>3. CASE ShowPrompt
    BY <2>3, Zenon DEF Flags, ShowPrompt
  <2>4. CASE SeeArm
    BY <2>4, Zenon DEF Flags, SeeArm
  <2>5. CASE ClearChain
    BY <2>5, Zenon DEF Flags, ClearChain
  <2>6. CASE TakeMips
    BY <2>6, Zenon DEF Flags, TakeMips
  <2>7. CASE TakeKind
    BY <2>7, Zenon DEF Flags, TakeKind
  <2>8. CASE TakeResume
    BY <2>8, Zenon DEF Flags, TakeResume
  <2>9. CASE ExecuteIfPending
    BY <2>9, Zenon DEF Flags, ExecuteIfPending
  <2>10. CASE Raise
    BY <2>1, <2>10, Zenon DEF Flags, Raise
  <2>11. CASE Boot
    BY <2>11, Zenon DEF Flags, Boot
  <2>12. CASE RunGuest
    BY <2>12, Zenon DEF Flags, RunGuest
  <2>13. CASE Park
    BY <2>13, Zenon DEF Flags, Park
  <2>14. CASE PollPark
    BY <2>14, Zenon DEF Flags, PollPark
  <2>15. CASE PollEnds
    BY <2>15, Zenon DEF Flags, PollEnds
  <2>16. CASE Unpark
    BY <2>16, Zenon DEF Flags, Unpark
  <2>17. CASE GuestReturn
    BY <2>17, Zenon DEF Flags, GuestReturn
  <2>18. CASE GuestSleep
    BY <2>18, Zenon DEF Flags, GuestSleep, Count
  <2> QED BY <2>2, <2>3, <2>4, <2>5, <2>6, <2>7, <2>8, <2>9, <2>10,
           <2>11, <2>12, <2>13, <2>14, <2>15, <2>16, <2>17, <2>18
           DEF Deliver
<1>2. Data'
  BY DEF Flags, Data, JitPcs, Taking, Kinds, RecoverTooLate, ShowPrompt, Deliver,
     SeeArm, ClearChain, TakeMips, TakeKind, TakeResume, ExecuteIfPending, Raise,
     Boot, RunGuest, Park, PollPark, PollEnds, Unpark, GuestReturn, GuestSleep,
     Count
<1> QED BY <1>1, <1>2

-----------------------------------------------------------------------------
(* A request that begins keeps IInv: if nothing overlaps from now on, the  *)
(* path was at rest.                                                       *)
LEMMA BeginStep ==
  ASSUME IInv, Flags', Data', NEW t \in Thread, NEW w \in Wants,
         at[t] \in {"idle", "claim"}, Begin(t, w),
         want' = [want EXCEPT ![t] = w],
         UNCHANGED <<arch, words, wake_cause, lines, jit, taken, dropped>>
  PROVE  IInv'
<1> USE DEF IInv, Flags, Data
<1>1. /\ at' = [at EXCEPT ![t] = FirstStep(w)]
      /\ at'[t] \in {"arm", "kind", "cause", "resume"}
  BY DEF Begin, FirstStep, Wants
<1>2. StepsFit'
  BY <1>1 DEF StepsFit, FirstStep, Wants
<1>3. ASSUME NEW u \in Thread, HardUnderWay(u) PROVE HardUnderWay(u)'
  BY <1>1, <1>3 DEF HardUnderWay
<1>4. ArmedUnlessDropped'
  BY <1>3 DEF ArmedUnlessDropped, ArmedMeansComing, ResetAhead
<1>5. ASSUME ~contended' PROVE InOrder'
  <2>1. AtRest \/ (~contended /\ Alone)
    BY <1>5 DEF Begin
  <2>2. ASSUME ~contended, Alone PROVE ~cold_pending /\ ~resume_pc
    <3>1. \A u \in Thread : at[u] \in {"idle", "claim"}
      BY <2>2 DEF Alone, Asking
    <3>2. ~reset_pending /\ jit \in Quiet
      BY <2>2 DEF Alone, Quiet
    <3> QED BY <2>2, <3>1, <3>2 DEF InOrder, ArmedMeansComing, HardUnderWay,
             ResetAhead, BeforeWipe, VectorOwned, Early, Quiet
  <2>3. ~cold_pending /\ ~resume_pc /\ Alone
    BY <2>1, <2>2 DEF AtRest
  <2>4. ~reset_pending /\ jit \in Quiet
    BY <2>3 DEF Alone, Quiet
  <2>5. \A u \in Thread : u # t => at'[u] \in {"idle", "claim"}
    BY <1>1, <2>3 DEF Alone, Asking
  <2>6. OneAtATime'
    BY <1>1, <2>4, <2>5 DEF OneAtATime, Asking, Early, AtPcs
  <2>7. ArmedMeansComing' /\ VectorOwned'
    BY <2>3 DEF ArmedMeansComing, VectorOwned
  <2>8. ColdWords' /\ ColdTaken'
    BY <2>3, <2>4 DEF ColdWords, ColdTaken, Quiet
  <2>9. WakeWords'
    <3>1. \A u \in Thread : at'[u] \notin {"vector", "chain", "pend"}
      BY <1>1, <2>5
    <3>2. at'[t] = "resume" => w # "wake" /\ want'[t] = w
      BY <1>1 DEF FirstStep, Wants
    <3>3. \A u \in Thread : u # t => at'[u] # "resume"
      BY <2>5
    <3>4. \A u \in Thread : want'[u] = "wake" => at'[u] # "resume"
      BY <3>2, <3>3
    <3> QED BY <1>1, <2>4, <3>1, <3>4 DEF WakeWords, Quiet
  <2> QED BY <2>6, <2>7, <2>8, <2>9 DEF InOrder
<1> QED BY <1>2, <1>4, <1>5

LEMMA AskStep ==
  ASSUME IInv, NEW t \in Thread, AskHost(t) \/ AskGuest
  PROVE  IInv'
<1>1. Flags' /\ Data'
  BY RequestTypes DEF IInv
<1>2. PICK u \in Thread, w \in Wants : Ask(u, w)
  BY DEF AskHost, AskGuest, Wants
<1> QED BY <1>1, <1>2, BeginStep DEF Ask

(* Between "idle" and the claim of a wake nothing of a request is stored.  *)
LEMMA ClaimingStep ==
  ASSUME IInv, Flags', Data', NEW t \in Thread, NEW w \in Wants,
         at[t] \in {"idle", "claim"},
         \E pc \in {"idle", "claim"} : at' = [at EXCEPT ![t] = pc],
         want' = [want EXCEPT ![t] = w],
         jit' = jit \/ (jit \in Quiet /\ jit' \in Quiet),
         UNCHANGED <<arch, words, wake_cause, lines, taken, history>>
  PROVE  IInv'
<1> USE DEF IInv, Flags, Data
<1>1. \A u \in Thread : \/ at'[u] = at[u] /\ want'[u] = want[u]
                        \/ /\ at[u] \in {"idle", "claim"}
                           /\ at'[u] \in {"idle", "claim"}
  OBVIOUS
<1>2. StepsFit'
  BY <1>1 DEF StepsFit
<1>3. \A u \in Thread : HardUnderWay(u)' <=> HardUnderWay(u)
  BY <1>1 DEF HardUnderWay
<1>4. ArmedUnlessDropped' /\ (ArmedMeansComing => ArmedMeansComing')
  BY <1>3 DEF ArmedUnlessDropped, ArmedMeansComing, ResetAhead, BeforeWipe,
     Quiet
<1>5. \A u \in Thread : Asking(u)' <=> Asking(u)
  BY <1>1 DEF Asking
<1>6. OneAtATime => OneAtATime'
  BY <1>1, <1>5 DEF OneAtATime, Early, Quiet
<1>7. ColdWords /\ ColdTaken => ColdWords' /\ ColdTaken'
  BY <1>1, <1>3 DEF ColdWords, ColdTaken, Quiet
<1>8. VectorOwned => VectorOwned'
  BY <1>1 DEF VectorOwned, Early, BeforeWipe, Quiet
<1>9. WakeWords => WakeWords'
  BY <1>1, <1>5 DEF WakeWords, NoneAsking, Quiet
<1> QED BY <1>2, <1>4, <1>6, <1>7, <1>8, <1>9 DEF InOrder

-----------------------------------------------------------------------------
(* Each access of a request to the words keeps IInv. *)
LEMMA StoreStep ==
  ASSUME IInv, Flags', Data', NEW t \in Thread,
         \/ ArmCold(t) \/ StoreKind(t) \/ LatchCause(t) \/ SetVector(t)
         \/ StoreResume(t) \/ SetChain(t) \/ Pend(t) \/ ClearCause(t)
  PROVE  IInv'
<1> USE DEF IInv, Flags, Data, InOrder, StepsFit, OneAtATime, Early, Quiet, AtPcs,
       ArmedUnlessDropped, ArmedMeansComing, ResetAhead, BeforeWipe,
       HardUnderWay, ColdWords, ColdTaken, VectorOwned, Asking, NoneAsking,
       WakeWords
<1>1. CASE ArmCold(t)
  BY <1>1 DEF ArmCold
<1>2. CASE StoreKind(t)
  BY <1>2 DEF StoreKind, KindOf
<1>3. CASE LatchCause(t)
  BY <1>3 DEF LatchCause
<1>4. CASE SetVector(t)
  BY <1>4 DEF SetVector
<1>5. CASE StoreResume(t)
  BY <1>5 DEF StoreResume
<1>6. CASE SetChain(t)
  BY <1>6 DEF SetChain
<1>7. CASE Pend(t)
  BY <1>7 DEF Pend
<1>8. CASE ClearCause(t)
  BY <1>8 DEF ClearCause
<1> QED BY <1>1, <1>2, <1>3, <1>4, <1>5, <1>6, <1>7, <1>8

LEMMA RequestStep ==
  ASSUME IInv, NEW t \in Thread, Request(t)
  PROVE  IInv'
<1>1. Flags' /\ Data'
  BY RequestTypes DEF IInv
<1>2. want[t] \in Wants /\ want = [want EXCEPT ![t] = want[t]]
  BY DEF IInv, Data
<1>3. CASE Claim(t)
  BY <1>1, <1>2, <1>3, BeginStep DEF Claim
<1>4. CASE ClaimFails(t)
  BY <1>1, <1>2, <1>4, ClaimingStep DEF ClaimFails
<1>5. CASE ~Claim(t) /\ ~ClaimFails(t)
  BY <1>1, <1>5, StoreStep DEF Request
<1> QED BY <1>3, <1>4, <1>5

(* The prompt's answer and the park's wake source go for the claim. *)
LEMMA WakeStep ==
  ASSUME IInv, AskWake \/ AnswerPrompt
  PROVE  IInv'
<1>1. Flags' /\ Data'
  BY RequestTypes DEF IInv
<1>2. CASE AskWake
  BY <1>1, <1>2, ClaimingStep DEF AskWake, Wants, Quiet
<1>3. CASE AnswerPrompt
  <2>1. PICK w \in {"hard", "warm", "wake"} :
          /\ want' = [want EXCEPT ![Ui] = w]
          /\ at' = [at EXCEPT ![Ui] =
                      IF w = "wake" /\ hw_resumed THEN "idle" ELSE "claim"]
    BY <1>3 DEF AnswerPrompt
  <2>2. \E pc \in {"idle", "claim"} : at' = [at EXCEPT ![Ui] = pc]
    BY <2>1
  <2> QED BY <1>1, <1>3, <2>1, <2>2, ClaimingStep DEF AnswerPrompt, Wants
<1> QED BY <1>2, <1>3

-----------------------------------------------------------------------------
(* Each access of the delivery to the words keeps IInv. *)
LEMMA DeliverStep ==
  ASSUME IInv, Deliver
  PROVE  IInv'
<1>1. Flags' /\ Data'
  BY JitTypes DEF IInv
<1> USE DEF IInv, Flags, Data, InOrder, StepsFit, OneAtATime, Early, Quiet, AtPcs,
       ArmedUnlessDropped, ArmedMeansComing, ResetAhead, BeforeWipe,
       HardUnderWay, ColdWords, ColdTaken, VectorOwned, Asking, NoneAsking,
       WakeWords
<1>3. CASE SeeArm
  BY <1>1, <1>3 DEF SeeArm
<1>4. CASE ClearChain
  BY <1>1, <1>4 DEF ClearChain
<1>5. CASE TakeMips
  BY <1>1, <1>5 DEF TakeMips
<1>6. CASE TakeKind
  BY <1>1, <1>6 DEF TakeKind
<1>7. CASE TakeResume
  BY <1>1, <1>7 DEF TakeResume
<1>8. CASE ExecuteIfPending
  BY <1>1, <1>8 DEF ExecuteIfPending
<1>9. CASE Raise
  BY <1>1, <1>9 DEF Raise
<1>10. CASE Boot
  BY <1>1, <1>10 DEF Boot
<1> QED BY <1>3, <1>4, <1>5, <1>6, <1>7, <1>8, <1>9, <1>10 DEF Deliver

-----------------------------------------------------------------------------
(* The rest of the JIT thread's loop, and of the prompt, keeps IInv. *)
LEMMA RunStep ==
  ASSUME IInv,
         \/ RecoverTooLate \/ ShowPrompt \/ RunGuest \/ Park \/ PollPark
         \/ PollEnds \/ Unpark \/ GuestReturn \/ GuestSleep
  PROVE  IInv'
<1>1. Flags' /\ Data'
  BY JitTypes DEF IInv
<1>2. /\ jit' = jit \/ (jit \in Quiet /\ jit' \in Quiet)
      /\ UNCHANGED <<arch, at, want, words, wake_cause, lines, taken, history>>
  BY DEF RecoverTooLate, ShowPrompt, RunGuest, Park, PollPark, PollEnds, Unpark,
     GuestReturn, GuestSleep, Quiet
<1> QED BY <1>1, <1>2 DEF IInv, Flags, Data, InOrder, StepsFit, OneAtATime,
       Early, Quiet, AtPcs, ArmedUnlessDropped, ArmedMeansComing, ResetAhead,
       BeforeWipe, HardUnderWay, ColdWords, ColdTaken, VectorOwned, Asking,
       NoneAsking, WakeWords

-----------------------------------------------------------------------------
(* The initial state satisfies IInv. *)
LEMMA InitIInv == Init => IInv
<1> SUFFICES ASSUME Init PROVE IInv
  OBVIOUS
<1>1. Flags
  BY Zenon DEF Init, Flags
<1>2. Data
  BY DEF Init, Data, AtPcs, Wants, Kinds, JitPcs, Taking
<1>3. StepsFit /\ ArmedUnlessDropped /\ InOrder
  BY DEF Init, StepsFit, ArmedUnlessDropped, InOrder, OneAtATime,
     ArmedMeansComing, ColdWords, ColdTaken, VectorOwned, WakeWords, Early, Asking
<1> QED BY <1>1, <1>2, <1>3 DEF IInv

(* A step that changes nothing keeps IInv. *)
LEMMA StutterStep == IInv /\ UNCHANGED vars => IInv'
<1> SUFFICES ASSUME IInv, UNCHANGED vars PROVE IInv'
  OBVIOUS
<1>1. Flags'
  BY Zenon DEF IInv, Flags, vars
<1>2. Data'
  BY DEF IInv, Data, vars
<1>3. StepsFit' /\ ArmedUnlessDropped' /\ (~contended => InOrder)'
  BY DEF IInv, vars, StepsFit, ArmedUnlessDropped, ArmedMeansComing, ResetAhead,
     HardUnderWay, InOrder, OneAtATime, ColdWords, ColdTaken, VectorOwned,
     WakeWords, Asking, NoneAsking
<1> QED BY <1>1, <1>2, <1>3 DEF IInv

(* IInv is an invariant: the words of the reset path relate as it says.    *)
THEOREM Invariance == Spec => []IInv
<1>1. IInv /\ [Next]_vars => IInv'
  <2> SUFFICES ASSUME IInv, [Next]_vars PROVE IInv'
    OBVIOUS
  <2>1. ASSUME NEW t \in Host, AskHost(t) PROVE IInv'
    BY <2>1, AskStep
  <2>2. ASSUME NEW t \in Thread, Request(t) PROVE IInv'
    BY <2>2, RequestStep
  <2>3. CASE AskGuest
    BY <2>3, AskStep
  <2>4. CASE AskWake \/ AnswerPrompt
    BY <2>4, WakeStep
  <2>5. CASE Deliver
    BY <2>5, DeliverStep
  <2>6. CASE \/ RecoverTooLate \/ ShowPrompt \/ RunGuest \/ Park \/ PollPark
             \/ PollEnds \/ Unpark \/ GuestReturn \/ GuestSleep
    BY <2>6, RunStep
  <2>7. CASE UNCHANGED vars
    BY <2>7, StutterStep
  <2> QED BY <2>1, <2>2, <2>3, <2>4, <2>5, <2>6, <2>7 DEF Next
<1> QED BY InitIInv, <1>1, PTL DEF Spec

(* TypeOK holds of every behaviour, whatever the bound on events is. *)
THEOREM TypeCorrect == Spec => []TypeOK
<1>1. Init => events \in Nat
  BY DEF Init
<1>2. events \in Nat /\ [Next]_vars => (events \in Nat)'
  <2> SUFFICES ASSUME events \in Nat, [Next]_vars PROVE events' \in Nat
    OBVIOUS
  <2>1. events' = events \/ events' = events + 1
    BY DEF Next, vars, AskHost, AnswerPrompt, AskGuest, AskWake, Ask, Count,
       Request, Claim, ClaimFails, ArmCold, StoreKind, LatchCause, SetVector,
       StoreResume, SetChain, Pend, ClearCause, RecoverTooLate, ShowPrompt,
       Deliver, SeeArm, ClearChain, TakeMips, TakeKind, TakeResume,
       ExecuteIfPending, Raise, Boot, RunGuest, Park, PollPark, PollEnds,
       Unpark, GuestReturn, GuestSleep
  <2> QED BY <2>1
<1>3. IInv /\ events \in Nat => TypeOK
  BY Zenon DEF IInv, Flags, Data, TypeOK
<1> QED BY Invariance, <1>1, <1>2, <1>3, PTL DEF Spec

(* GuestColdBoot::RequestHardReset: on either engine and however requests  *)
(* overlap, an armed wipe has a delivery ahead of it, unless the request   *)
(* pended last is one that ARM drops.                                      *)
THEOREM ArmedResetComes == Spec => []ArmedUnlessDropped
<1>1. IInv => ArmedUnlessDropped
  BY DEF IInv
<1> QED BY Invariance, <1>1, PTL

(* GuestCpuReset::OnResetDelivered: a wipe whose request overlaps no other *)
(* is announced as the RTC reset and starts the machine at its boot entry, *)
(* whatever requests have overlapped before.                               *)
THEOREM WipesAreCold == Spec => []WipeIsCold
<1>1. IInv => WipeIsCold
  BY DEF IInv, InOrder, ColdTaken, WipeIsCold
<1> QED BY Invariance, <1>1, PTL

(* GuestDeepSleep::DeliverWake: boot code entered by a wake that overlaps  *)
(* no other request finds the sleep-exit cause, whatever wakes and resets  *)
(* have raced before.                                                      *)
THEOREM ResumesHaveCause == Spec => []ResumeHasCause
<1>1. IInv => ResumeHasCause
  BY DEF IInv, InOrder, WakeWords, ResumeHasCause
<1> QED BY Invariance, <1>1, PTL

=============================================================================
