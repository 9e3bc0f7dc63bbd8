--------------------------- MODULE StateOperations ---------------------------
(***************************************************************************)
(* Who may touch the machine while its state is saved or restored.         *)
(*                                                                         *)
(* EmulationPause (src/cerf/host/emulation_pause.cpp) folds the user's     *)
(* pause and the state operation into one Pause/Resume of the JitRunner;   *)
(* EmulationFreeze (src/cerf/state/emulation_freeze.h) keeps peripheral    *)
(* worker threads out; Hibernation (src/cerf/state/hibernation.cpp) runs   *)
(* the operation on its worker thread, or on the main thread before Start  *)
(* (StateBootGate); the UI thread (HostMenu, HostWindow, ShutdownAction)   *)
(* asks for all of it.  What an image contains is Hibernation.tla's        *)
(* subject: here an operation only overwrites the engine flags.            *)
(***************************************************************************)
EXTENDS JitRunner

CONSTANTS
    Periph,           \* peripheral worker threads
    BootModes,        \* StateBootGate's decisions: of "cold", "warm", "resume"
    MenuBeforeStart,  \* TRUE: the user uses the menu before JitRunner::Start
    MaxOps            \* bound: state operations asked for in a behaviour

WORKER == "worker"
MAIN == "main"
OpThreads == {WORKER, MAIN}

ASSUME ThreadAssumption == Host = {UI, WORKER, MAIN} /\ UI \notin OpThreads
ASSUME ModeAssumption == BootModes \subseteq {"cold", "warm", "resume"}
ASSUME MenuAssumption == MenuBeforeStart \in BOOLEAN /\ MaxOps \in Nat

VARIABLES
    ep_mtx,            \* the holder of EmulationPause::mtx_, or FREE
    user,              \* user_: paused by the user
    state_operation,   \* state_operation_
    op,                \* where each operation thread is
    kind,              \* what it does: "save", "restore" or "warm"
    op_ok,             \* whether the image was written or applied
    rollback,          \* <<reset_pending, deep_sleep>> in the rollback image
    snapshot,          \* the holder of SnapshotSection(), or FREE
    readers,           \* the peripheral workers inside WorkerSection()
    ui,                \* where the UI thread is
    exit_save,         \* the worker's save was asked for by the exit prompt
    ui_job,            \* the job that save has posted to the UI thread
    shutdown_pending, closing,   \* HostWindow's flags
    ops                \* operations asked for so far (bound)

pauseVars == <<ep_mtx, user, state_operation>>
opVars    == <<op, kind, op_ok, rollback, snapshot>>
uiVars    == <<ui, exit_save, ui_job, shutdown_pending, closing, ops>>
stateVars == <<pauseVars, opVars, readers, uiVars>>
allVars   == <<vars, stateVars>>

OpPcs == {"idle", "begin", "pauseCall", "pauseWait", "freeze", "image",
          "apply", "applying", "undo", "restored", "end", "resumeCall",
          "finish", "booted"}
UiPcs == {"idle", "pauseCall", "pauseWait", "resumeCall", "join", "prompt",
          "exit"}

SInit ==
    /\ Init
    /\ ep_mtx = FREE /\ user = FALSE /\ state_operation = FALSE
    /\ \E mode \in BootModes :
         /\ op = [t \in OpThreads |-> IF t = WORKER THEN "idle"
                                     ELSE IF mode = "cold" THEN "booted"
                                     ELSE "begin"]
         /\ kind = [t \in OpThreads |-> IF t = WORKER THEN "save"
                                       ELSE IF mode = "warm" THEN "warm"
                                       ELSE "restore"]
    /\ op_ok = [t \in OpThreads |-> FALSE]
    /\ rollback = <<FALSE, FALSE>>
    /\ snapshot = FREE /\ readers = {}
    /\ ui = "idle" /\ exit_save = FALSE /\ ui_job = "none"
    /\ shutdown_pending = FALSE /\ closing = FALSE /\ ops = 0

OpGoes(t, from, to) == op[t] = from /\ op' = [op EXCEPT ![t] = to]
UiGoes(from, to) == ui = from /\ ui' = to

-----------------------------------------------------------------------------
(* A state operation: BeginStateOperation, SnapshotSection, the image,     *)
(* EndStateOperation.                                                      *)

(* Apply(user_, true).  A machine that is already paused, and one whose    *)
(* JIT thread has not been started, needs no Pause().                      *)
OpBegin(t) ==
    /\ ep_mtx = FREE
    /\ state_operation' = TRUE
    /\ IF user \/ state_operation \/ ~started
       THEN OpGoes(t, "begin", "freeze") /\ UNCHANGED ep_mtx
       ELSE OpGoes(t, "begin", "pauseCall") /\ ep_mtx' = t
    /\ UNCHANGED <<vars, user, kind, op_ok, rollback, snapshot, readers, uiVars>>

OpPauseCall(t) ==
    /\ OpGoes(t, "pauseCall", "pauseWait")
    /\ PauseCall(t)
    /\ UNCHANGED <<pauseVars, kind, op_ok, rollback, snapshot, readers, uiVars>>

(* Mutant: BeginStateOperation does not wait for the park. *)
OpPausedAtOnce(t) ==
    /\ OpGoes(t, "pauseWait", "freeze")
    /\ ep_mtx' = FREE
    /\ UNCHANGED <<vars, user, state_operation, kind, op_ok, rollback,
                   snapshot, readers, uiVars>>

OpPaused(t) ==
    /\ OpGoes(t, "pauseWait", "freeze")
    /\ call[t] = "none"
    /\ ep_mtx' = FREE
    /\ UNCHANGED <<vars, user, state_operation, kind, op_ok, rollback,
                   snapshot, readers, uiVars>>

OpFreeze(t) ==
    /\ OpGoes(t, "freeze", "image")
    /\ snapshot = FREE /\ readers = {}
    /\ snapshot' = t
    /\ UNCHANGED <<vars, pauseVars, kind, op_ok, rollback, readers, uiVars>>

(* Save: WriteImage succeeds or fails, the snapshot ends. *)
OpSave(t) ==
    /\ OpGoes(t, "image", "end")
    /\ kind[t] = "save"
    /\ \E ok \in BOOLEAN : op_ok' = [op_ok EXCEPT ![t] = ok]
    /\ snapshot' = FREE
    /\ UNCHANGED <<vars, pauseVars, kind, rollback, readers, uiVars>>

(* ApplyStateFile: the header is refused or the rollback image cannot be   *)
(* written, and nothing is applied; or the live machine is saved first.    *)
OpRefuse(t) ==
    /\ OpGoes(t, "image", "end")
    /\ kind[t] # "save"
    /\ op_ok' = [op_ok EXCEPT ![t] = FALSE]
    /\ snapshot' = FREE
    /\ UNCHANGED <<vars, pauseVars, kind, rollback, readers, uiVars>>

OpWriteRollback(t) ==
    /\ OpGoes(t, "image", "apply")
    /\ kind[t] # "save"
    /\ rollback' = <<reset_pending, deep_sleep>>
    /\ UNCHANGED <<vars, pauseVars, kind, op_ok, snapshot, readers, uiVars>>

(* RestoreCpuState writes the flags; the ARM engine also rewrites its      *)
(* chain-exit word, in which the host's request lives.                     *)
RestoreFlags(reset, sleep) ==
    /\ reset_pending' = reset
    /\ deep_sleep' = sleep
    /\ host_exit' = (host_exit /\ Arch = "mips")

(* The image file cannot be opened: nothing is begun. *)
OpUnreadable(t) ==
    /\ OpGoes(t, "begin", "finish")
    /\ kind[t] # "save"
    /\ op_ok' = [op_ok EXCEPT ![t] = FALSE]
    /\ UNCHANGED <<vars, pauseVars, kind, rollback, snapshot, readers, uiVars>>

jitVarsButFlags == <<jit, started, stop_requested, stopped, pause_requested,
                     paused, mutex, cv, call, sleepVars, vclock_paused,
                     asleep, park_end, bounds>>

(* The Cpu section is applied before all others, so the flags are in force *)
(* while those are; a warm boot skips it.                                  *)
OpApply(t) ==
    /\ OpGoes(t, "apply", "applying")
    /\ IF kind[t] = "warm"
       THEN UNCHANGED <<reset_pending, deep_sleep, host_exit>>
       ELSE \E reset, sleep \in BOOLEAN : RestoreFlags(reset, sleep)
    /\ UNCHANGED <<jitVarsButFlags, pauseVars, kind, op_ok, rollback, snapshot,
                   readers, uiVars>>

OpApplied(t) ==
    /\ OpGoes(t, "applying", IF kind[t] = "warm" THEN "end" ELSE "restored")
    /\ op_ok' = [op_ok EXCEPT ![t] = TRUE]
    /\ snapshot' = FREE
    /\ UNCHANGED <<vars, pauseVars, kind, rollback, readers, uiVars>>

(* A section is refused, the Cpu section or a later one: the rollback image *)
(* goes back, section by section again.                                    *)
OpRollBack(t) ==
    /\ op[t] \in {"apply", "applying"} /\ op' = [op EXCEPT ![t] = "undo"]
    /\ RestoreFlags(rollback[1], rollback[2])
    /\ UNCHANGED <<jitVarsButFlags, pauseVars, kind, op_ok, rollback, snapshot,
                   readers, uiVars>>

OpRolledBack(t) ==
    /\ OpGoes(t, "undo", "end")
    /\ op_ok' = [op_ok EXCEPT ![t] = FALSE]
    /\ snapshot' = FREE
    /\ UNCHANGED <<vars, pauseVars, kind, rollback, readers, uiVars>>

(* OnFullRestore wakes a machine that was saved asleep. *)
OpFullRestore(t) ==
    /\ OpGoes(t, "restored", "end")
    /\ wake_claimed' = deep_sleep
    /\ IF deep_sleep THEN WakeEffect ELSE UNCHANGED <<deep_sleep, reset_pending>>
    /\ UNCHANGED <<jit, started, stop_requested, stopped, pause_requested,
                   paused, mutex, cv, call, host_exit, active, hw_resumed,
                   vclock_paused, asleep, park_end, bounds>>
    /\ UNCHANGED <<pauseVars, kind, op_ok, rollback, snapshot, readers, uiVars>>

(* Mutants: the end of an operation resumes whatever the user asked for,   *)
(* or never resumes.                                                       *)
OpEndOverUser(t) ==
    /\ ep_mtx = FREE
    /\ user' = (user /\ ~(op_ok[t] /\ kind[t] # "save"))
    /\ state_operation' = FALSE
    /\ OpGoes(t, "end", "resumeCall") /\ ep_mtx' = t
    /\ UNCHANGED <<vars, kind, op_ok, rollback, snapshot, readers, uiVars>>

OpEndWithoutResume(t) ==
    /\ ep_mtx = FREE
    /\ user' = (user /\ ~(op_ok[t] /\ kind[t] # "save"))
    /\ state_operation' = FALSE
    /\ OpGoes(t, "end", "finish") /\ UNCHANGED ep_mtx
    /\ UNCHANGED <<vars, kind, op_ok, rollback, snapshot, readers, uiVars>>

(* Mutant: the flags are stored under EmulationPause's mutex, Resume() is   *)
(* called when it has been released.                                       *)
OpEndCallsUnlocked(t) ==
    /\ ep_mtx = FREE
    /\ user' = (user /\ ~(op_ok[t] /\ kind[t] # "save"))
    /\ state_operation' = FALSE
    /\ IF user' = (user \/ state_operation)
       THEN OpGoes(t, "end", "finish")
       ELSE OpGoes(t, "end", "resumeCall")
    /\ UNCHANGED <<vars, ep_mtx, kind, op_ok, rollback, snapshot, readers, uiVars>>

(* EndStateOperation(release): a restore that was applied also ends the    *)
(* user's pause.                                                           *)
OpEnd(t) ==
    /\ ep_mtx = FREE
    /\ user' = (user /\ ~(op_ok[t] /\ kind[t] # "save"))
    /\ state_operation' = FALSE
    /\ IF user' = (user \/ state_operation)
       THEN OpGoes(t, "end", "finish") /\ UNCHANGED ep_mtx
       ELSE OpGoes(t, "end", "resumeCall") /\ ep_mtx' = t
    /\ UNCHANGED <<vars, kind, op_ok, rollback, snapshot, readers, uiVars>>

OpResume(t) ==
    /\ OpGoes(t, "resumeCall", "finish")
    /\ Resume(t)
    /\ ep_mtx' = FREE
    /\ UNCHANGED <<user, state_operation, kind, op_ok, rollback, snapshot,
                   readers, uiVars>>

(* The worker's last act is the on_done callback of an exit save, which    *)
(* posts a job to the UI thread; the main thread goes on to Start.         *)
OpFinish(t) ==
    /\ IF t = WORKER
       THEN /\ OpGoes(t, "finish", "idle")
            /\ ui_job' = IF ~exit_save THEN ui_job
                         ELSE IF op_ok[t] THEN "teardown" ELSE "cancel"
            /\ exit_save' = FALSE
       ELSE OpGoes(t, "finish", "booted") /\ UNCHANGED <<ui_job, exit_save>>
    /\ UNCHANGED <<vars, pauseVars, kind, op_ok, rollback, snapshot, readers,
                   ui, shutdown_pending, closing, ops>>

OpStart ==
    /\ op[MAIN] = "booted"
    /\ Start
    /\ UNCHANGED stateVars

-----------------------------------------------------------------------------
(* Peripheral worker threads around WorkerSection(). *)

PeriphEnter(p) ==
    /\ snapshot = FREE
    /\ readers' = readers \cup {p}
    /\ UNCHANGED <<vars, pauseVars, opVars, uiVars>>

PeriphLeave(p) ==
    /\ p \in readers
    /\ readers' = readers \ {p}
    /\ UNCHANGED <<vars, pauseVars, opVars, uiVars>>

-----------------------------------------------------------------------------
(* The UI thread *)

MenuLive ==
    ui = "idle" /\ call[UI] = "none" /\ ~closing /\ (started \/ MenuBeforeStart)

(* Toggle(): refused during a state operation and before Start. *)
UiToggle ==
    /\ MenuLive /\ ep_mtx = FREE
    /\ ~state_operation /\ started
    /\ user' = ~user
    /\ ep_mtx' = UI
    /\ ui' = IF user THEN "resumeCall" ELSE "pauseCall"
    /\ UNCHANGED <<vars, state_operation, opVars, readers, exit_save, ui_job,
                   shutdown_pending, closing, ops>>

UiPauseCall ==
    /\ UiGoes("pauseCall", "pauseWait")
    /\ PauseCall(UI)
    /\ UNCHANGED <<pauseVars, opVars, readers, exit_save, ui_job,
                   shutdown_pending, closing, ops>>

UiPaused ==
    /\ UiGoes("pauseWait", "idle")
    /\ call[UI] = "none"
    /\ ep_mtx' = FREE
    /\ UNCHANGED <<vars, user, state_operation, opVars, readers, exit_save,
                   ui_job, shutdown_pending, closing, ops>>

UiResume ==
    /\ UiGoes("resumeCall", "idle")
    /\ Resume(UI)
    /\ ep_mtx' = FREE
    /\ UNCHANGED <<user, state_operation, opVars, readers, exit_save, ui_job,
                   shutdown_pending, closing, ops>>

(* SaveAsync and RestoreAsync: JoinWorker, then a new worker.  UiSpawn     *)
(* chooses the kind; an exit save is marked by its prompt.                 *)
UiAskOp ==
    /\ MenuLive /\ ops < MaxOps
    /\ ui' = "join"
    /\ ops' = ops + 1
    /\ UNCHANGED <<vars, pauseVars, opVars, readers, exit_save, ui_job,
                   shutdown_pending, closing>>

UiSpawn ==
    /\ UiGoes("join", "idle")
    /\ op[WORKER] = "idle"
    /\ op' = [op EXCEPT ![WORKER] = "begin"]
    /\ \E k \in {"save", "restore"} : kind' = [kind EXCEPT ![WORKER] = k]
    /\ UNCHANGED <<vars, pauseVars, op_ok, rollback, snapshot, readers,
                   exit_save, ui_job, shutdown_pending, closing, ops>>

(* The menu's resets are offered whatever the machine is doing. *)
UiReset ==
    /\ MenuLive /\ RequestReset(UI)
    /\ UNCHANGED stateVars

(* The recovery prompt of a sleeping guest runs from a posted job, inside  *)
(* the exit prompt's message loop too, where it counts as cancelled.       *)
UiRecover ==
    /\ ui \in {"idle", "prompt"}
    /\ \E next \in {"none", "claimWake", "claimReset"} :
         /\ ui = "prompt" => next = "claimWake" \/ hw_resumed
         /\ RecoverAnswer(next)
    /\ UNCHANGED stateVars

(* Its exit choices go on like those of the exit prompt. *)
UiRecoverExit ==
    /\ UiGoes("idle", "exit")
    /\ RecoverAnswer("none")
    /\ UNCHANGED <<pauseVars, opVars, readers, exit_save, ui_job,
                   shutdown_pending, closing, ops>>

(* WM_CLOSE asks once; the prompt may cancel, reset, exit, or save and     *)
(* exit.                                                                   *)
UiClose ==
    /\ MenuLive /\ ~shutdown_pending
    /\ ui' = "prompt"
    /\ shutdown_pending' = TRUE
    /\ UNCHANGED <<vars, pauseVars, opVars, readers, exit_save, ui_job,
                   closing, ops>>

PromptCancel ==
    /\ UiGoes("prompt", "idle")
    /\ call[UI] = "none"
    /\ shutdown_pending' = FALSE
    /\ UNCHANGED <<vars, pauseVars, opVars, readers, exit_save, ui_job,
                   closing, ops>>

PromptReset ==
    /\ UiGoes("prompt", "idle")
    /\ shutdown_pending' = FALSE
    /\ RequestReset(UI)
    /\ UNCHANGED <<pauseVars, opVars, readers, exit_save, ui_job, closing, ops>>

BeginShutdownTeardown == closing' = TRUE /\ RequestStop(UI)

PromptExit ==
    /\ ui \in {"prompt", "exit"} /\ ui' = "idle"
    /\ BeginShutdownTeardown
    /\ UNCHANGED <<pauseVars, opVars, readers, exit_save, ui_job,
                   shutdown_pending, ops>>

(* ExitSave joins an earlier operation before it starts its own. *)
PromptExitSave ==
    /\ call[UI] = "none"
    /\ ui \in {"prompt", "exit"} /\ ui' = "idle"
    /\ op[WORKER] = "idle"
    /\ op' = [op EXCEPT ![WORKER] = "begin"]
    /\ kind' = [kind EXCEPT ![WORKER] = "save"]
    /\ exit_save' = TRUE
    /\ UNCHANGED <<vars, pauseVars, op_ok, rollback, snapshot, readers,
                   ui_job, shutdown_pending, closing, ops>>

(* Mutant: a failed exit save does not release the close request. *)
UiJobKeepsPending ==
    /\ ui \in {"idle", "prompt"} /\ call[UI] = "none" /\ ui_job # "none"
    /\ ui_job' = "none"
    /\ IF ui_job = "teardown" /\ ~closing
       THEN BeginShutdownTeardown
       ELSE UNCHANGED <<vars, closing>>
    /\ UNCHANGED <<pauseVars, opVars, readers, ui, exit_save,
                   shutdown_pending, ops>>

(* The job an exit save has posted: tear down, or let the user ask again. *)
UiJob ==
    /\ ui \in {"idle", "prompt"} /\ call[UI] = "none" /\ ui_job # "none"
    /\ ui_job' = "none"
    /\ IF ui_job = "teardown" /\ ~closing
       THEN BeginShutdownTeardown /\ UNCHANGED shutdown_pending
       ELSE /\ shutdown_pending' = (shutdown_pending /\ ui_job = "teardown")
            /\ UNCHANGED <<vars, closing>>
    /\ UNCHANGED <<pauseVars, opVars, readers, ui, exit_save, ops>>

-----------------------------------------------------------------------------
CallSteps(t) ==
    PauseNext(t) /\ UNCHANGED stateVars

UiRecoverEnd == (RecoverClaim \/ RecoverDeliver) /\ UNCHANGED stateVars

JitSteps == JitNext /\ UNCHANGED stateVars

OpNext(t) ==
    \/ OpUnreadable(t) \/ OpBegin(t) \/ OpPauseCall(t) \/ OpPaused(t) \/ OpFreeze(t)
    \/ OpSave(t) \/ OpRefuse(t) \/ OpWriteRollback(t) \/ OpApply(t) \/ OpApplied(t)
    \/ OpRollBack(t) \/ OpRolledBack(t)
    \/ OpFullRestore(t) \/ OpEnd(t) \/ OpResume(t) \/ OpFinish(t)

UiNext ==
    \/ UiToggle \/ UiPauseCall \/ UiPaused \/ UiResume \/ UiAskOp \/ UiSpawn
    \/ UiReset \/ UiRecover \/ UiRecoverExit \/ UiRecoverEnd \/ UiClose \/ PromptCancel
    \/ PromptReset \/ PromptExit \/ PromptExitSave \/ UiJob

(* The program is over: the watchdog timer has found the JIT thread        *)
(* stopped and destroys the window.                                        *)
Closed ==
    /\ closing /\ stopped /\ jit = "done" /\ op[WORKER] = "idle"
    /\ UNCHANGED allVars

SNext ==
    \/ Closed \/ JitSteps \/ OpStart \/ UiNext
    \/ \E t \in OpThreads : OpNext(t)
    \/ \E t \in Host : CallSteps(t)
    \/ \E p \in Periph : PeriphEnter(p) \/ PeriphLeave(p)

SSpec == SInit /\ [][SNext]_allVars

(* Fairness: every thread is scheduled, and a lock that keeps being        *)
(* released is granted.  The UI thread reaches a posted job however often  *)
(* the menu is used.  The user need never touch the menu, but the exit     *)
(* prompt is answered (its countdown answers it).                          *)
UiObliged ==
    \/ UiPauseCall \/ CallSteps(UI) \/ UiPaused \/ UiResume \/ UiSpawn
    \/ UiRecoverEnd

PromptAnswer == PromptCancel \/ PromptReset \/ PromptExit \/ PromptExitSave

SFairness ==
    /\ WF_allVars(OpStart)
    /\ WF_allVars(JitRunnable /\ UNCHANGED stateVars)
    /\ SF_allVars(JitLocks /\ UNCHANGED stateVars)
    /\ \A t \in OpThreads : SF_allVars(OpNext(t) \/ CallSteps(t))
    /\ \A p \in Periph : WF_allVars(PeriphLeave(p))
    /\ SF_allVars(UiObliged) /\ SF_allVars(UiJob) /\ SF_allVars(PromptAnswer)

FairSSpec == SSpec /\ SFairness

-----------------------------------------------------------------------------
(* The types of EmulationPause, EmulationFreeze and Hibernation's state. *)
STypeOK ==
    /\ TypeOK
    /\ ep_mtx \in Host \cup {FREE}
    /\ user \in BOOLEAN /\ state_operation \in BOOLEAN
    /\ op \in [OpThreads -> OpPcs]
    /\ kind \in [OpThreads -> {"save", "restore", "warm"}]
    /\ op_ok \in [OpThreads -> BOOLEAN]
    /\ rollback \in BOOLEAN \X BOOLEAN
    /\ snapshot \in OpThreads \cup {FREE}
    /\ readers \subseteq Periph
    /\ ui \in UiPcs /\ exit_save \in BOOLEAN
    /\ ui_job \in {"none", "teardown", "cancel"}
    /\ shutdown_pending \in BOOLEAN /\ closing \in BOOLEAN
    /\ ops \in 0..MaxOps

(* The JIT thread neither runs guest code nor touches guest state: it is   *)
(* not born, or holds still in the park, or is on its way out.             *)
JitQuiet ==
    \/ jit \in {"unborn", "parkTest", "parkWait", "parkExit"} \cup StopPcs
    \/ jit = "loop" /\ stop_requested

(* "A safe snapshot requires a quiescent guest": while SnapshotSection is  *)
(* held no peripheral worker is in its section, and the JIT thread holds   *)
(* still unless a reset request has ended the park, which the menu can     *)
(* make during an operation.                                               *)
SnapshotQuietUnlessReset ==
    snapshot # FREE => readers = {} /\ (JitQuiet \/ park_end = "reset")

(* The user's pause and the state operation are one request to the         *)
(* JitRunner: outside EmulationPause's own critical section the request    *)
(* the JIT thread sees is their OR, so neither a nested nor an overlapping *)
(* one is lost or left behind.                                             *)
PauseRequestAgrees ==
    ep_mtx = FREE /\ started =>
        (pause_requested <=> (user \/ state_operation))

(* Whoever waits in Pause() is heard: it holds EmulationPause's mutex, and  *)
(* the request and the engine's chain exit stand until it returns, whatever *)
(* is resumed, restored or rolled back meanwhile; and while an operation    *)
(* holds the machine nobody is inside EmulationPause at all.                *)
PauserIsHeard ==
    /\ \A t \in Host : call[t] \in {"test", "sleep", "wait"} =>
           ep_mtx = t /\ pause_requested /\ host_exit
    /\ snapshot # FREE => ep_mtx = FREE

(* A state operation that was begun ends: BeginStateOperation gets its     *)
(* park, SnapshotSection its workers, and nobody waits for anybody forever. *)
OperationEnds ==
    op[WORKER] = "begin" ~> op[WORKER] = "idle"

(* After an operation the guest runs again, unless something else keeps it *)
(* still: the user's pause, another operation, sleep or the end.           *)
GuestRunsAgain ==
    (op[WORKER] = "finish" /\ ~user) ~>
        \/ jit \in {"run", "deliver", "guest"}
        \/ user \/ state_operation \/ deep_sleep \/ stop_requested

(* A close request ends in the teardown or in a window that can be closed  *)
(* again: a failed exit save does not leave it unclosable.                 *)
CloseSettles == shutdown_pending ~> closing \/ ~shutdown_pending
=============================================================================
