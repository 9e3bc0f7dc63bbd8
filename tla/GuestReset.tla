------------------------------ MODULE GuestReset ------------------------------
(***************************************************************************)
(* How a CPU reset is asked for and delivered.                             *)
(*                                                                         *)
(* GuestCpuReset (src/cerf/socs/guest_cpu_reset.cpp) and GuestColdBoot     *)
(* (src/cerf/boot/guest_cold_boot.cpp) carry a request from "any thread"   *)
(* to the JIT thread in five words that no lock relates: cold_pending,     *)
(* pending_kind, pending_resume, the engine's reset_pending, and on ARM    *)
(* the Reset bit of chain_exit_request.  A request writes them one after   *)
(* the other; the delivery, at the top of ArmJit::Run or MipsJit::Run,     *)
(* takes them one after the other.  Each step below is one such access.    *)
(*                                                                         *)
(* The two engines differ in one thing: MIPS takes the request with an     *)
(* exchange before it delivers, ARM stores zero when it has delivered.     *)
(*                                                                         *)
(* GuestDeepSleep (src/cerf/host/guest_deep_sleep.cpp) asks for the reset  *)
(* that ends a guest's sleep, from the JIT thread's park for a hardware    *)
(* wake, and from the recovery prompt on the UI thread: whoever claims the *)
(* wake first.  The prompt may be answered late, for a sleep that is over. *)
(*                                                                         *)
(* The SoC's own reset-cause register (ResetCauseLatch) is left out but    *)
(* for the bit a sleep exit sets in it, wake_cause.                        *)
(***************************************************************************)
EXTENDS Naturals

CONSTANTS
    Host,       \* the threads, other than the JIT, that ask for resets
    Ui,         \* the one of them that shows the recovery prompt
    Engines,    \* the engines a machine may have: "arm", "mips"
    MaxEvents   \* bound: guest sleeps, and resets not asked to end one

JIT == "jit"
Thread == Host \cup {JIT}

ASSUME HostAssumption == JIT \notin Host /\ Ui \in Host
ASSUME EngineAssumption == Engines \subseteq {"arm", "mips"}
ASSUME BoundAssumption == MaxEvents \in Nat

VARIABLES
    arch,            \* the engine of this machine
    at,              \* how far each thread is in the request it makes
    want,            \* what that request is
    cold_pending,    \* GuestColdBoot::pending_: wipe RAM at the delivery
    pending_kind,    \* GuestCpuReset::pending_kind_
    pending_resume,  \* GuestCpuReset::pending_is_resume_
    wake_cause,      \* the SoC's latched sleep-exit cause
    resume_pc,       \* ArmCpu::pending_resume_pc_set_
    chain_reset,     \* kChainExitReset in chain_exit_request (ARM)
    reset_pending,   \* GuestEngine::ResetPending()
    deep_sleep,      \* GuestEngine::DeepSleep()
    wake_claimed,    \* GuestDeepSleep::wake_claimed_
    active,          \* GuestDeepSleep::active_, until Recover() clears it
    hw_resumed,      \* GuestDeepSleep::hw_resumed_
    recover,         \* Recover(): none, posted to the UI thread, or its prompt
                     \* is shown
    jit,             \* where the JIT thread is
    taken,           \* what the latest delivery took
    dropped,         \* history: ARM drops the request, pended last, that an
                     \* armed wipe waits for
    contended,       \* history: requests or deliveries have overlapped since
                     \* they were last at rest
    events           \* requests and sleeps so far (bound)

words == <<cold_pending, pending_kind, pending_resume, resume_pc>>
lines == <<chain_reset, reset_pending>>
promptVars == <<active, hw_resumed, recover>>
sleepVars == <<deep_sleep, wake_claimed, active, hw_resumed, recover>>
history == <<dropped, contended>>
vars == <<arch, at, want, words, wake_cause, lines, sleepVars, jit, taken,
          history, events>>

Wants == {"hard", "warm", "watchdog", "software", "wake"}
Kinds == {"rtc", "other", "watchdog"}
AtPcs == {"idle", "claim", "arm", "kind", "cause", "vector", "resume", "chain",
          "pend", "clear"}
Taking == {"kind", "resume", "cold", "raise"}
JitPcs == {"loop", "asleep", "poll", "chain", "boot", "guest"} \cup Taking

(* RegisterResetListener's argument: the reset line a request drives. *)
KindOf(w) == CASE w = "hard"     -> "rtc"
               [] w = "watchdog" -> "watchdog"
               [] OTHER          -> "other"

(* The first thing each kind of request does. *)
FirstStep(w) == CASE w = "hard"     -> "arm"
                  [] w = "wake"     -> "cause"
                  [] w = "software" -> "resume"
                  [] OTHER          -> "kind"

Init ==
    /\ arch \in Engines
    /\ at = [t \in Thread |-> "idle"] /\ want = [t \in Thread |-> "warm"]
    /\ cold_pending = FALSE /\ pending_kind = "other"
    /\ pending_resume = FALSE /\ resume_pc = FALSE /\ wake_cause = FALSE
    /\ chain_reset = FALSE /\ reset_pending = FALSE
    /\ deep_sleep = FALSE /\ wake_claimed = FALSE
    /\ active = FALSE /\ hw_resumed = FALSE /\ recover = "none"
    /\ dropped = FALSE /\ contended = FALSE
    /\ jit = "loop"
    /\ taken = [kind |-> "other", resume |-> FALSE, wiped |-> FALSE,
                vector |-> FALSE]
    /\ events = 0

Step(t, from, to) == at[t] = from /\ at' = [at EXCEPT ![t] = to]

(* The JIT thread makes no step of its own while it makes a request. *)
JitStep(from, to) == at[JIT] = "idle" /\ jit = from /\ jit' = to

-----------------------------------------------------------------------------
(* Requests *)

(* Nobody is storing words of a request and none is to be delivered.       *)
Asking(t) == at[t] \notin {"idle", "claim"}
Alone ==
    /\ \A t \in Thread : ~Asking(t)
    /\ ~reset_pending /\ jit \in {"loop", "guest", "asleep", "poll"}

(* ... and no earlier one has left a wipe or a resume vector behind.       *)
AtRest == Alone /\ ~cold_pending /\ ~resume_pc

(* A request's words begin to be stored. *)
Begin(t, w) ==
    /\ at' = [at EXCEPT ![t] = FirstStep(w)]
    /\ contended' = (~AtRest /\ (contended \/ ~Alone))

Ask(t, w) ==
    /\ at[t] = "idle" /\ Begin(t, w)
    /\ want' = [want EXCEPT ![t] = w]
    /\ UNCHANGED <<arch, words, wake_cause, lines, sleepVars, jit, taken, dropped>>

Count == events < MaxEvents /\ events' = events + 1

(* The menu, a settings transaction, the guest additions' host calls.  The *)
(* prompt is modal: while it is shown the UI thread asks for nothing else. *)
AskHost(t) ==
    /\ t \in Host /\ (t = Ui => recover # "shown")
    /\ \E w \in {"hard", "warm"} : Ask(t, w)
    /\ Count

(* Guest code, or a timer event the JIT thread runs between blocks: a      *)
(* watchdog expiry, a software-reset register, a customization's reset.    *)
AskGuest ==
    /\ jit = "guest"
    /\ \E w \in {"warm", "watchdog", "software"} : Ask(JIT, w)
    /\ Count

(* Recover(): it finds the sleep over, or shows the prompt.                *)
RecoverTooLate ==
    /\ recover = "posted" /\ at[Ui] = "idle" /\ hw_resumed
    /\ recover' = "none" /\ hw_resumed' = FALSE /\ active' = FALSE
    /\ UNCHANGED <<arch, at, want, words, wake_cause, lines, deep_sleep,
                   wake_claimed, jit, taken, history, events>>

ShowPrompt ==
    /\ recover = "posted" /\ at[Ui] = "idle" /\ ~hw_resumed
    /\ recover' = "shown"
    /\ UNCHANGED <<arch, at, want, words, wake_cause, lines, deep_sleep,
                   wake_claimed, active, hw_resumed, jit, taken, history,
                   events>>

(* The prompt is answered, or dismissed as a Cancel.  active_ is cleared   *)
(* first; a Cancel of a sleep that the hardware has ended is no wake.      *)
AnswerPrompt ==
    /\ recover = "shown" /\ at[Ui] = "idle"
    /\ recover' = "none" /\ hw_resumed' = FALSE /\ active' = FALSE
    /\ \E w \in {"hard", "warm", "wake"} :
          /\ want' = [want EXCEPT ![Ui] = w]
          /\ at' = [at EXCEPT ![Ui] =
                      IF w = "wake" /\ hw_resumed THEN "idle" ELSE "claim"]
    /\ UNCHANGED <<arch, words, wake_cause, lines, deep_sleep, wake_claimed, jit,
                   taken, history, events>>

(* PollPark: a wake source fires while the JIT thread waits in the park,   *)
(* and the prompt, if one is still to be answered, is overtaken.  The poll *)
(* ends with the request.                                                  *)
AskWake ==
    /\ JitStep("poll", "asleep")
    /\ hw_resumed' = (hw_resumed \/ active)
    /\ at' = [at EXCEPT ![JIT] = "claim"]
    /\ want' = [want EXCEPT ![JIT] = "wake"]
    /\ UNCHANGED <<arch, words, wake_cause, lines, deep_sleep, wake_claimed, active,
                   recover, taken, history, events>>

(* DeliverWake, and Recover() before a reset: wake_claimed_.exchange(true). *)
Claim(t) ==
    /\ at[t] = "claim" /\ ~wake_claimed
    /\ wake_claimed' = TRUE
    /\ Begin(t, want[t])
    /\ UNCHANGED <<arch, want, words, wake_cause, lines, deep_sleep, promptVars,
                   jit, taken, dropped, events>>

ClaimFails(t) ==
    /\ at[t] = "claim" /\ wake_claimed
    /\ at' = [at EXCEPT ![t] = "idle"]
    /\ UNCHANGED <<arch, want, words, wake_cause, lines, sleepVars, jit, taken,
                   history, events>>

(* RequestHardReset arms the wipe before the reset that will carry it. *)
ArmCold(t) ==
    /\ Step(t, "arm", "kind")
    /\ cold_pending' = TRUE
    /\ UNCHANGED <<arch, want, pending_kind, pending_resume, resume_pc, wake_cause,
                   lines, sleepVars, jit, taken, history, events>>

(* Mutant: a hard reset drives the same reset line as a soft one. *)
StoreKindOther(t) ==
    /\ Step(t, "kind", "resume")
    /\ pending_kind' = "other"
    /\ UNCHANGED <<arch, want, cold_pending, pending_resume, resume_pc, wake_cause,
                   lines, sleepVars, jit, taken, history, events>>

StoreKind(t) ==
    /\ Step(t, "kind", "resume")
    /\ pending_kind' = KindOf(want[t])
    /\ UNCHANGED <<arch, want, cold_pending, pending_resume, resume_pc, wake_cause,
                   lines, sleepVars, jit, taken, history, events>>

LatchCause(t) ==
    /\ Step(t, "cause", "vector")
    /\ wake_cause' = TRUE
    /\ UNCHANGED <<arch, want, words, lines, sleepVars, jit, taken, history, events>>

(* ApplyPendingResume: only an ARM board provides a resume vector. *)
SetVector(t) ==
    /\ Step(t, "vector", "resume")
    /\ resume_pc' = (arch = "arm" \/ resume_pc)
    /\ UNCHANGED <<arch, want, cold_pending, pending_kind, pending_resume,
                   wake_cause, lines, sleepVars, jit, taken, history, events>>

(* SetResetPending, first line. *)
StoreResume(t) ==
    /\ Step(t, "resume", IF arch = "arm" THEN "chain" ELSE "pend")
    /\ pending_resume' = (want[t] = "wake")
    /\ UNCHANGED <<arch, want, cold_pending, pending_kind, resume_pc, wake_cause,
                   lines, sleepVars, jit, taken, history, events>>

SetChain(t) ==
    /\ Step(t, "chain", "pend")
    /\ chain_reset' = TRUE
    /\ UNCHANGED <<arch, want, words, wake_cause, reset_pending, sleepVars, jit,
                   taken, history, events>>

Pend(t) ==
    /\ Step(t, "pend", IF want[t] = "wake" THEN "idle" ELSE "clear")
    /\ reset_pending' = TRUE
    /\ dropped' = (cold_pending /\ arch = "arm" /\ jit = "raise")
    /\ UNCHANGED <<arch, want, words, wake_cause, chain_reset, sleepVars, jit,
                   taken, contended, events>>

(* SetResetPending, after the request is out: a reset is no sleep exit. *)
ClearCause(t) ==
    /\ Step(t, "clear", "idle")
    /\ wake_cause' = FALSE
    /\ UNCHANGED <<arch, want, words, lines, sleepVars, jit, taken, history, events>>

Request(t) ==
    \/ Claim(t) \/ ClaimFails(t)
    \/ ArmCold(t) \/ StoreKind(t) \/ LatchCause(t) \/ SetVector(t)
    \/ StoreResume(t) \/ SetChain(t) \/ Pend(t) \/ ClearCause(t)

-----------------------------------------------------------------------------
(* The JIT thread *)

requests == <<arch, at, want, events>>

(* The top of Run: guest code is entered only when no reset is pending. *)
RunGuest ==
    /\ JitStep("loop", "guest") /\ ~reset_pending /\ ~deep_sleep
    /\ UNCHANGED <<requests, words, wake_cause, lines, sleepVars, taken, history>>

(* RunLoop parks a sleeping CPU, and stays there until a reset is pending. *)
Park ==
    /\ JitStep("loop", "asleep") /\ ~reset_pending /\ deep_sleep
    /\ UNCHANGED <<requests, words, wake_cause, lines, sleepVars, taken, history>>

(* ... polling its wake sources.                                            *)
PollPark ==
    /\ JitStep("asleep", "poll") /\ ~reset_pending
    /\ UNCHANGED <<requests, words, wake_cause, lines, sleepVars, taken, history>>

PollEnds ==
    /\ JitStep("poll", "asleep")
    /\ UNCHANGED <<requests, words, wake_cause, lines, sleepVars, taken, history>>

Unpark ==
    /\ JitStep("asleep", "loop") /\ reset_pending
    /\ UNCHANGED <<requests, words, wake_cause, lines, sleepVars, taken, history>>

SeeArm ==
    /\ arch = "arm" /\ JitStep("loop", "chain") /\ reset_pending
    /\ UNCHANGED <<requests, words, wake_cause, lines, sleepVars, taken, history>>

ClearChain ==
    /\ JitStep("chain", "kind")
    /\ chain_reset' = FALSE
    /\ UNCHANGED <<requests, words, wake_cause, reset_pending, sleepVars,
                   taken, history>>

(* TakeDispatchRequests: MIPS takes the request with an exchange. *)
TakeMips ==
    /\ arch = "mips" /\ JitStep("loop", "kind") /\ reset_pending
    /\ reset_pending' = FALSE
    /\ UNCHANGED <<requests, words, wake_cause, chain_reset, sleepVars, taken, history>>

TakeKind ==
    /\ JitStep("kind", "resume")
    /\ taken' = [taken EXCEPT !.kind = pending_kind]
    /\ pending_kind' = "other"
    /\ UNCHANGED <<requests, cold_pending, pending_resume, resume_pc,
                   wake_cause, lines, sleepVars, history>>

(* Mutant: the resume mark of a delivered wake is left set. *)
TakeResumeKept ==
    /\ JitStep("resume", "cold")
    /\ taken' = [taken EXCEPT !.resume = taken.resume \/ pending_resume]
    /\ UNCHANGED <<requests, words, wake_cause, lines, sleepVars, history>>

TakeResume ==
    /\ JitStep("resume", "cold")
    /\ taken' = [taken EXCEPT !.resume = pending_resume]
    /\ pending_resume' = FALSE
    /\ UNCHANGED <<requests, cold_pending, pending_kind, resume_pc,
                   wake_cause, lines, sleepVars, history>>

(* Mutant: the wipe stays armed when a watchdog's reset delivers. *)
ExecuteUnlessWatchdog ==
    /\ JitStep("cold", "raise")
    /\ taken' = [taken EXCEPT !.wiped = cold_pending /\ taken.kind = "rtc"]
    /\ cold_pending' = (cold_pending /\ taken.kind # "rtc")
    /\ dropped' = FALSE
    /\ UNCHANGED <<requests, pending_kind, pending_resume, resume_pc,
                   wake_cause, lines, sleepVars, contended>>

(* The listeners have been told the kind; now ExecuteIfPending. *)
ExecuteIfPending ==
    /\ JitStep("cold", "raise")
    /\ taken' = [taken EXCEPT !.wiped = cold_pending]
    /\ cold_pending' = FALSE
    /\ dropped' = FALSE
    /\ UNCHANGED <<requests, pending_kind, pending_resume, resume_pc,
                   wake_cause, lines, sleepVars, contended>>

(* RaiseResetException / ResetState: the CPU is in its reset state.  ARM   *)
(* only now drops the request, and starts at the resume vector if one is   *)
(* set.                                                                    *)
Raise ==
    /\ JitStep("raise", "boot")
    /\ deep_sleep' = FALSE
    /\ reset_pending' = (reset_pending /\ arch = "mips")
    /\ taken' = [taken EXCEPT !.vector = resume_pc]
    /\ resume_pc' = FALSE
    /\ UNCHANGED <<requests, cold_pending, pending_kind, pending_resume,
                   wake_cause, chain_reset, wake_claimed, promptVars,
                   history>>

(* External: the guest's boot code reads the cause and clears it. *)
Boot ==
    /\ JitStep("boot", "loop")
    /\ wake_cause' = FALSE
    /\ UNCHANGED <<requests, words, lines, sleepVars, taken, history>>

(* Translated code returns: at the end of its budget, or at once when it   *)
(* is told to.                                                             *)
ToldToReturn == IF arch = "arm" THEN chain_reset ELSE reset_pending

GuestReturn ==
    /\ JitStep("guest", "loop")
    /\ UNCHANGED <<requests, words, wake_cause, lines, sleepVars, taken, history>>

(* Mutant: the claim of the sleep before is kept. *)
GuestSleepKeepsClaim ==
    /\ JitStep("guest", "loop")
    /\ ~reset_pending /\ ~active /\ Count
    /\ deep_sleep' = TRUE
    /\ active' = TRUE /\ hw_resumed' = FALSE /\ recover' = "posted"
    /\ UNCHANGED <<arch, at, want, words, wake_cause, lines, wake_claimed, taken,
                   history>>

(* GuestDeepSleep::Enter.  It does nothing, and the guest is not halted,   *)
(* while a reset is pending or the prompt of an earlier sleep is owed.     *)
GuestSleep ==
    /\ JitStep("guest", "loop")
    /\ ~reset_pending /\ ~active /\ Count
    /\ deep_sleep' = TRUE /\ wake_claimed' = FALSE
    /\ active' = TRUE /\ hw_resumed' = FALSE /\ recover' = "posted"
    /\ UNCHANGED <<arch, at, want, words, wake_cause, lines, taken, history>>

Deliver ==
    \/ SeeArm \/ ClearChain \/ TakeMips \/ TakeKind \/ TakeResume
    \/ ExecuteIfPending \/ Raise \/ Boot

Next ==
    \/ \E t \in Host : AskHost(t)
    \/ \E t \in Thread : Request(t)
    \/ AskGuest \/ AskWake
    \/ RecoverTooLate \/ ShowPrompt \/ AnswerPrompt
    \/ Deliver \/ RunGuest \/ Park \/ PollPark \/ PollEnds \/ Unpark
    \/ GuestReturn \/ GuestSleep

Spec == Init /\ [][Next]_vars

(* A request once begun runs to its end, the JIT thread's loop never       *)
(* stops, and translated code that is told to return returns.              *)
Fairness ==
    /\ \A t \in Thread : WF_vars(Request(t))
    /\ WF_vars(Deliver) /\ WF_vars(RunGuest) /\ WF_vars(Park)
    /\ WF_vars(PollEnds) /\ WF_vars(Unpark) /\ WF_vars(ToldToReturn /\ GuestReturn)

FairSpec == Spec /\ Fairness

-----------------------------------------------------------------------------
(* Properties *)

(* Every word of the reset path holds a value of its type. *)
TypeOK ==
    /\ arch \in Engines
    /\ at \in [Thread -> AtPcs] /\ want \in [Thread -> Wants]
    /\ jit \in JitPcs /\ pending_kind \in Kinds
    /\ cold_pending \in BOOLEAN /\ pending_resume \in BOOLEAN
    /\ resume_pc \in BOOLEAN /\ wake_cause \in BOOLEAN
    /\ chain_reset \in BOOLEAN /\ reset_pending \in BOOLEAN
    /\ deep_sleep \in BOOLEAN /\ wake_claimed \in BOOLEAN
    /\ active \in BOOLEAN /\ hw_resumed \in BOOLEAN
    /\ recover \in {"none", "posted", "shown"}
    /\ dropped \in BOOLEAN /\ contended \in BOOLEAN
    /\ taken \in [kind : Kinds, resume : BOOLEAN, wiped : BOOLEAN,
                  vector : BOOLEAN]
    /\ events \in Nat

(* A hard reset that has armed the wipe and not yet asked for the reset. *)
HardUnderWay(t) ==
    want[t] = "hard" /\ at[t] \in {"kind", "resume", "chain", "pend"}

(* What ARM has pending when it raises the reset, the raise drops. *)
ResetAhead == reset_pending /\ ~(arch = "arm" /\ jit = "raise")

BeforeWipe == {"chain", "kind", "resume", "cold"}

(* guest_cold_boot.h:30, "Arms the cold boot and triggers reset delivery": *)
(* an armed wipe has a delivery ahead of it that will carry it out, either *)
(* asked for or under way.  An armed wipe without one would erase the RAM  *)
(* of a guest that is warm-reset, or woken, at any later time.             *)
ArmedMeansComing ==
    cold_pending /\ (\A t \in Thread : ~HardUnderWay(t))
        => ResetAhead \/ jit \in BeforeWipe

(* It has one on either engine but for the one window ARM leaves: between  *)
(* ExecuteIfPending and the store that ends the delivery.                  *)
ArmedUnlessDropped == ArmedMeansComing \/ dropped

(* guest_cpu_reset.cpp:26-28: the reset that loses RAM is the RTC reset,   *)
(* and every unit is told so; the machine then starts at its boot entry    *)
(* and not where a sleep left off.  Requests that overlap may mix their    *)
(* words; the first one made when they are over is delivered right again.  *)
WipeIsCold ==
    jit = "boot" /\ taken.wiped /\ ~contended
        => taken.kind = "rtc" /\ ~taken.resume /\ ~taken.vector

(* deep_sleep.md, "A true reset cause must be latched": boot code that is  *)
(* entered by a wake reads the sleep-exit cause, unless the wake has met   *)
(* another request, which clears the cause; what that one leaves behind    *)
(* does not hurt the next wake.                                            *)
ResumeHasCause ==
    jit = "boot" /\ taken.resume /\ ~contended => wake_cause

(* An armed wipe is carried out: no order of requests leaves it behind but *)
(* the one whose request ARM drops.                                        *)
HardResetHappens == cold_pending ~> ~cold_pending \/ dropped

(* A sleep whose end somebody has claimed ends, also when it is the answer *)
(* to an earlier sleep's prompt that has claimed it.                       *)
ClaimedSleepEnds == wake_claimed /\ deep_sleep ~> ~deep_sleep
=============================================================================
