----------------------------- MODULE Hibernation -----------------------------
(***************************************************************************)
(* Saving and restoring the machine (src/cerf/state/hibernation.cpp,       *)
(* state_stream.cpp), step by step: the machine's parts are written to and *)
(* read from an image one section after the other, every access may fail,  *)
(* and the process may die between any two.                                *)
(*                                                                         *)
(* The guest is at rest throughout an operation (StateOperations says what *)
(* that takes).  A part's value is that of the guest that left it, so      *)
(* parts with different values do not belong together.  The Presentation   *)
(* section, the size of the host window's surface, is left out.            *)
(***************************************************************************)
EXTENDS Naturals, Sequences

CONSTANTS
    Off,            \* no process: the machine there is not
    None,           \* no file
    Torn,           \* a part restored half way, a section not written yet
    Value,          \* what a part can hold
    Cold            \* a part of a machine that has just been built

ASSUME ColdAssumption == Cold \in Value

(* kStateSectionOrder. *)
Order == <<"cpu", "mmu", "ram", "flash", "periph", "widget", "reset">>
Part == {Order[i] : i \in 1..Len(Order)}
Kept == {"ram", "flash"}
Image == [Part -> Value]

(* The three are none of the values they stand beside. *)
ASSUME NothingAssumption == Off \notin Image /\ None \notin Image /\ Torn \notin Value

VARIABLES
    machine,    \* the live machine's parts
    line,       \* the peripherals whose interrupt line is driven
    cache,      \* the RAM that translated code was made from
    state,      \* state.img
    temp,       \* the image file being written, "<path>.tmp"
    rollback,   \* rollback.img
    op,         \* what the worker is doing
    next,       \* the section it is at
    target,     \* the file a write is for
    ram_only    \* the restore is a warm boot's

derived == <<line, cache>>
disk == <<state, temp, rollback>>
vars == <<machine, derived, disk, op, next, target, ram_only>>

Whole(v) == [p \in Part |-> v]
Empty == Whole(Torn)    \* a file with no section yet

Init ==
    /\ machine = Whole(Cold) /\ line = Cold /\ cache = {}
    /\ state = None /\ temp = None /\ rollback = None
    /\ op = "off" /\ next = 1 /\ target = "state" /\ ram_only = FALSE

-----------------------------------------------------------------------------
(* The process and its guest *)

(* The services build a cold machine. *)
BootCold ==
    /\ op = "off"
    /\ machine' = Whole(Cold) /\ line' = Cold /\ cache' = {}
    /\ op' = "gate"
    /\ UNCHANGED <<disk, next, target, ram_only>>

(* StateBootGate::Run: no image or --boot cold, a warm boot, or a resume.  *)
Gate ==
    /\ op = "gate"
    /\ \/ op' = "idle" /\ UNCHANGED ram_only
       \/ state # None /\ op' = "open" /\ ram_only' \in BOOLEAN
    /\ UNCHANGED <<machine, derived, disk, next, target>>

(* The guest runs: translations are made from the RAM it has, its devices  *)
(* drive their lines.                                                      *)
GuestRuns ==
    /\ op = "idle"
    /\ \E v \in Value : machine' = Whole(v) /\ line' = v /\ cache' = {v}
    /\ UNCHANGED <<disk, op, next, target, ram_only>>

(* The process dies; what is on the disk stays. *)
Crash ==
    /\ op # "off"
    /\ op' = "off"
    /\ UNCHANGED <<machine, derived, disk, next, target, ram_only>>

-----------------------------------------------------------------------------
(* Writing an image: StateWriter and WriteImage *)

BeginSave ==
    /\ op = "idle"
    /\ op' = "create" /\ target' = "state"
    /\ UNCHANGED <<machine, derived, disk, next, ram_only>>

(* What a write that fails leads to. *)
WriteFailed(t) == IF t = "state" THEN "idle" ELSE "refused"

(* The file is created beside the one it will replace, empty. *)
Create ==
    /\ op = "create"
    /\ op' = "write" /\ next' = 1 /\ temp' = Empty
    /\ UNCHANGED <<machine, derived, state, rollback, target, ram_only>>

WriteSection ==
    /\ op = "write" /\ next <= Len(Order)
    /\ temp' = [temp EXCEPT ![Order[next]] = machine[Order[next]]]
    /\ next' = next + 1
    /\ UNCHANGED <<machine, derived, state, rollback, op, target, ram_only>>

(* Mutant: a writer that has failed is committed all the same. *)
CommitPartial ==
    /\ op = "write"
    /\ temp' = None
    /\ IF target = "state"
         THEN /\ state' = temp
              /\ op' = "idle" /\ UNCHANGED <<next, rollback>>
         ELSE /\ rollback' = temp
              /\ op' = "apply" /\ next' = 1 /\ UNCHANGED state
    /\ UNCHANGED <<machine, derived, target, ram_only>>

(* Commit: the temporary file replaces the other in one operation. *)
Commit ==
    /\ op = "write" /\ next > Len(Order)
    /\ temp' = None
    /\ IF target = "state"
         THEN /\ state' = temp
              /\ op' = "idle" /\ UNCHANGED <<next, rollback>>
         ELSE /\ rollback' = temp
              /\ op' = "apply" /\ next' = 1 /\ UNCHANGED state
    /\ UNCHANGED <<machine, derived, target, ram_only>>

(* The file cannot be created, a write fails, the rename fails: the        *)
(* temporary file is deleted.                                              *)
WriteFails ==
    /\ op \in {"create", "write"}
    /\ temp' = (IF op = "create" THEN temp ELSE None)
    /\ op' = WriteFailed(target)
    /\ UNCHANGED <<machine, derived, state, rollback, next, target, ram_only>>

-----------------------------------------------------------------------------
(* Applying an image: Restore and ApplyStateFile *)

BeginRestore ==
    /\ op = "idle" /\ state # None
    /\ op' = "open" /\ ram_only' = FALSE
    /\ UNCHANGED <<machine, derived, disk, next, target>>

(* The image cannot be opened: nothing else is touched. *)
CannotOpen ==
    /\ op = "open" /\ op' = "idle"
    /\ UNCHANGED <<machine, derived, disk, next, target, ram_only>>

(* ReadHeader: the identity is compared before the machine is mutated.     *)
HeaderRefused ==
    /\ op = "open" /\ op' = "refused"
    /\ UNCHANGED <<machine, derived, disk, next, target, ram_only>>

HeaderAccepted ==
    /\ op = "open" /\ op' = "create" /\ target' = "rollback"
    /\ UNCHANGED <<machine, derived, disk, next, ram_only>>

(* PostRestore, when every peripheral is restored, re-drives its line.     *)
LineAfter(p, v) == IF p = "periph" THEN v ELSE line

(* Sections a warm boot skips. *)
Skipped(p) == ram_only /\ p \notin Kept

ApplySection ==
    /\ op = "apply" /\ next <= Len(Order)
    /\ LET p == Order[next]
       IN  IF Skipped(p) THEN UNCHANGED <<machine, line>>
           ELSE /\ machine' = [machine EXCEPT ![p] = state[p]]
                /\ line' = LineAfter(p, state[p])
    /\ next' = next + 1
    /\ UNCHANGED <<cache, disk, op, target, ram_only>>

(* Mutant: a refused restore is not rolled back. *)
SectionRefusedOnly ==
    /\ op = "apply"
    /\ op' = "refused" /\ next' = 1
    /\ \/ UNCHANGED machine
       \/ /\ next <= Len(Order) /\ ~Skipped(Order[next])
          /\ machine' = [machine EXCEPT ![Order[next]] = Torn]
    /\ UNCHANGED <<derived, disk, target, ram_only>>

(* The reader refuses a section, before it or half way through it, or what *)
(* follows the last: the image has another layout, or cannot be read.      *)
SectionRefused ==
    /\ op = "apply"
    /\ op' = "rollback" /\ next' = 1
    /\ \/ UNCHANGED machine
       \/ /\ next <= Len(Order) /\ ~Skipped(Order[next])
          /\ machine' = [machine EXCEPT ![Order[next]] = Torn]
    /\ UNCHANGED <<derived, disk, target, ram_only>>

(* RollBack: every section, whatever the refused restore was to skip. *)
RollBackSection ==
    /\ op = "rollback" /\ next <= Len(Order)
    /\ LET p == Order[next]
       IN  /\ machine' = [machine EXCEPT ![p] = rollback[p]]
           /\ line' = LineAfter(p, rollback[p])
    /\ next' = next + 1
    /\ UNCHANGED <<cache, disk, op, target, ram_only>>

(* A rollback image that is refused is fatal. *)
RollBackRefused ==
    /\ op = "rollback" /\ next <= Len(Order)
    /\ op' = "off"
    /\ UNCHANGED <<machine, derived, disk, next, target, ram_only>>

RolledBack ==
    /\ op = "rollback" /\ next > Len(Order)
    /\ rollback' = None /\ op' = "refused"
    /\ UNCHANGED <<machine, derived, state, temp, next, target, ram_only>>

(* Mutant: only a refused restore flushes the translations. *)
AppliedUnflushed ==
    /\ op = "apply" /\ next > Len(Order)
    /\ rollback' = None /\ op' = "idle"
    /\ UNCHANGED <<machine, derived, state, temp, next, target, ram_only>>

(* FlushTranslationCache, on both ways out of a restore. *)
Applied ==
    /\ op = "apply" /\ next > Len(Order)
    /\ rollback' = None /\ cache' = {} /\ op' = "idle"
    /\ UNCHANGED <<machine, line, state, temp, next, target, ram_only>>

Refused ==
    /\ op = "refused"
    /\ cache' = {} /\ op' = "idle"
    /\ UNCHANGED <<machine, line, disk, next, target, ram_only>>

Write == Create \/ WriteSection \/ Commit \/ WriteFails
Restore ==
    \/ CannotOpen \/ HeaderRefused \/ HeaderAccepted \/ ApplySection
    \/ SectionRefused \/ RollBackSection \/ RollBackRefused \/ RolledBack
    \/ Applied \/ Refused

Next ==
    \/ BootCold \/ Gate \/ GuestRuns \/ Crash \/ BeginSave \/ BeginRestore
    \/ Write \/ Restore

Spec == Init /\ [][Next]_vars

-----------------------------------------------------------------------------
(* Properties *)

(* Every variable keeps its type; a file that is not being written is      *)
(* complete, so only the temporary one ever lacks a section                *)
(* (StateWriter::Commit), and only a machine that is rolled back is torn.  *)
TypeOK ==
    /\ machine \in [Part -> Value \cup {Torn}]
    /\ line \in Value /\ cache \subseteq Value
    /\ state \in Image \cup {None} /\ rollback \in Image \cup {None}
    /\ temp \in [Part -> Value \cup {Torn}] \cup {None}
    /\ op \in {"off", "gate", "idle", "create", "write", "open", "apply",
               "rollback", "refused"}
    /\ next \in 1..Len(Order) + 1
    /\ target \in {"state", "rollback"} /\ ram_only \in BOOLEAN

(* The machine as the guest would see it: none without a process, and the  *)
(* one before the restore until the restore has ended.                     *)
Saved == INSTANCE SavedMachine WITH
    image <- state,
    machine <- IF op = "off" THEN Off
               ELSE IF op \in {"apply", "rollback"} THEN rollback
               ELSE machine

(* A save and a restore happen at once or not at all: wherever a section   *)
(* is refused, a write fails or the process dies, the guest goes on with   *)
(* the machine it had or the one that was saved, never with parts of both, *)
(* and the saved image is the last one that was completely written         *)
(* (Hibernation::ApplyStateFile, StateWriter::Commit).                     *)
SavesAtomically == Saved!Spec

(* Whichever way a restore ends, no translation of other RAM is left, and  *)
(* the interrupt lines are those of the peripherals the guest goes on with *)
(* (Peripheral::PostRestore, FlushTranslationCache).                       *)
DerivedFollows ==
    op = "idle" => cache \subseteq {machine["ram"]} /\ line = machine["periph"]
=============================================================================
