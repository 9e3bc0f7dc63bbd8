-------------------------- MODULE HibernationProofs --------------------------
(***************************************************************************)
(* Hibernation implements SavedMachine, for every set of values: a save    *)
(* and a restore happen at once or not at all.                             *)
(***************************************************************************)
EXTENDS Hibernation, TLAPS

(* The machine is one the guest can go on with, except while sections are  *)
(* applied to it. *)
MachineWhole == op \notin {"off", "apply", "rollback"} => machine \in Image

(* What has been written so far is the machine's. *)
TempFollows ==
    op = "write" =>
        /\ temp \in [Part -> Value \cup {Torn}]
        /\ \A i \in 1..7 : i < next => temp[Order[i]] = machine[Order[i]]

(* A restore has an image to read. *)
ImageThere ==
    op \in {"open", "apply"} \/ (op \in {"create", "write"} /\ target = "rollback")
        => state \in Image

(* Half way through a restore, the sections before the current one are the *)
(* image's, and all others those that the rollback image holds. *)
AppliedSoFar ==
    op = "apply" =>
        /\ rollback \in Image
        /\ \A i \in 1..7 : machine[Order[i]] =
               IF i < next /\ ~Skipped(Order[i]) THEN state[Order[i]]
                                                 ELSE rollback[Order[i]]

(* Half way through a rollback, the sections before the current one. *)
RolledBackSoFar ==
    op = "rollback" =>
        /\ rollback \in Image
        /\ \A i \in 1..7 : i < next => machine[Order[i]] = rollback[Order[i]]

(* The lines are driven by the peripherals the machine has, except between *)
(* a torn one and the rollback of it. *)
LineFollows ==
    /\ op \notin {"off", "rollback"} => line = machine["periph"]
    /\ op = "rollback" /\ next > 5 => line = rollback["periph"]

(* Until sections are applied, translations are of the machine's RAM. *)
CacheFollows ==
    op \in {"gate", "idle", "create", "write", "open"} =>
        cache \subseteq {machine["ram"]}

IInv ==
    /\ TypeOK /\ MachineWhole /\ TempFollows /\ ImageThere
    /\ AppliedSoFar /\ RolledBackSoFar /\ LineFollows /\ CacheFollows

-----------------------------------------------------------------------------
(* Every part has its place in the order, and no part has two. *)
LEMMA OrderFacts ==
    /\ Len(Order) = 7
    /\ \A i \in 1..7 : Order[i] \in Part
    /\ \A p \in Part : \E i \in 1..7 : p = Order[i]
    /\ \A i, j \in 1..7 : Order[i] = Order[j] => i = j
    /\ Order[3] = "ram" /\ Order[5] = "periph"
    /\ "ram" \in Part /\ "periph" \in Part
<1>1. Len(Order) = 7
  BY DEF Order
<1>2. Part = {Order[i] : i \in 1..7}
  BY <1>1 DEF Part
<1>3. \A i, j \in 1..7 : Order[i] = Order[j] => i = j
  BY DEF Order
<1>4. Order[3] = "ram" /\ Order[5] = "periph"
  BY DEF Order
<1> QED
  BY <1>1, <1>2, <1>3, <1>4

(* Two images that agree on every section are the same. *)
LEMMA SameImage ==
    ASSUME NEW S, NEW f \in [Part -> S], NEW g,
           \E T : g \in [Part -> T],
           \A i \in 1..7 : f[Order[i]] = g[Order[i]]
    PROVE  f = g
<1>1. \A p \in Part : f[p] = g[p]
  BY OrderFacts
<1>2. PICK T : g \in [Part -> T]
  OBVIOUS
<1> QED
  BY <1>1, <1>2

LEMMA InitIInv == Init => IInv
<1> SUFFICES ASSUME Init PROVE IInv
  OBVIOUS
<1>1. TypeOK
  <2>1. machine \in [Part -> Value \cup {Torn}] /\ line \in Value
    BY ColdAssumption DEF Init, Whole
  <2>2. next \in 1..Len(Order) + 1
    BY OrderFacts DEF Init
  <2> QED
    BY <2>1, <2>2 DEF Init, TypeOK
<1>2. op = "off" /\ op # "rollback"
  BY DEF Init
<1> QED
  BY <1>1, <1>2
  DEF IInv, MachineWhole, TempFollows, ImageThere, AppliedSoFar,
      RolledBackSoFar, LineFollows, CacheFollows

(* The guest, a boot and a crash. *)
LEMMA ProcessStep == IInv /\ (BootCold \/ Gate \/ GuestRuns \/ Crash) => IInv'
<1> USE OrderFacts, ColdAssumption
    DEF TypeOK, MachineWhole, TempFollows, ImageThere, AppliedSoFar,
        RolledBackSoFar, LineFollows, CacheFollows, derived, disk
<1>1. IInv /\ BootCold => IInv'
  BY DEF IInv, BootCold, Whole, Image
<1>2. IInv /\ Gate => IInv'
  BY DEF IInv, Gate
<1>3. IInv /\ GuestRuns => IInv'
  BY DEF IInv, GuestRuns, Whole, Image
<1>4. IInv /\ Crash => IInv'
  BY DEF IInv, Crash
<1> QED
  BY <1>1, <1>2, <1>3, <1>4

(* Writing an image disturbs what is on the disk only. *)
LEMMA WriteStep == IInv /\ (BeginSave \/ Write) => IInv'
<1> USE OrderFacts
    DEF TypeOK, MachineWhole, TempFollows, ImageThere, AppliedSoFar,
        RolledBackSoFar, LineFollows, CacheFollows, derived, disk
<1>1. IInv /\ BeginSave => IInv'
  BY DEF IInv, BeginSave
<1>2. IInv /\ Create => IInv'
  BY DEF IInv, Create, Empty, Whole
<1>3. IInv /\ WriteSection => IInv'
  BY DEF IInv, WriteSection
<1>4. IInv /\ Commit => IInv'
  <2> SUFFICES ASSUME IInv, Commit PROVE IInv'
    OBVIOUS
  <2>1. temp = machine
    BY SameImage DEF IInv, Commit, Image
  <2> QED
    BY <2>1 DEF IInv, Commit
<1>5. IInv /\ WriteFails => IInv'
  BY DEF IInv, WriteFails, WriteFailed
<1> QED
  BY <1>1, <1>2, <1>3, <1>4, <1>5 DEF Write

(* Applying one, and rolling it back. *)
LEMMA RestoreStep == IInv /\ (BeginRestore \/ Restore) => IInv'
<1> USE OrderFacts
    DEF TypeOK, MachineWhole, TempFollows, ImageThere, AppliedSoFar,
        RolledBackSoFar, LineFollows, CacheFollows, derived, disk
<1>1. IInv /\ (BeginRestore \/ CannotOpen \/ HeaderRefused \/ HeaderAccepted) => IInv'
  BY DEF IInv, BeginRestore, CannotOpen, HeaderRefused, HeaderAccepted
<1>2. IInv /\ ApplySection => IInv'
  BY DEF IInv, ApplySection, Skipped, LineAfter, Image
<1>3. IInv /\ SectionRefused => IInv'
  BY DEF IInv, SectionRefused
<1>4. IInv /\ RollBackSection => IInv'
  BY DEF IInv, RollBackSection, LineAfter, Image
<1>5. IInv /\ RollBackRefused => IInv'
  BY DEF IInv, RollBackRefused
<1>6. IInv /\ RolledBack => IInv'
  BY SameImage DEF IInv, RolledBack, Image
<1>7. IInv /\ Applied => IInv'
  BY DEF IInv, Applied, Image
<1>8. IInv /\ Refused => IInv'
  BY DEF IInv, Refused
<1> QED
  BY <1>1, <1>2, <1>3, <1>4, <1>5, <1>6, <1>7, <1>8 DEF Restore

LEMMA StutterStep == IInv /\ UNCHANGED vars => IInv'
BY DEF IInv, TypeOK, MachineWhole, TempFollows, ImageThere, AppliedSoFar,
       RolledBackSoFar, LineFollows, CacheFollows, derived, disk, vars, Skipped

LEMMA NextIInv == IInv /\ [Next]_vars => IInv'
BY ProcessStep, WriteStep, RestoreStep, StutterStep DEF Next

(* Through every save, restore, failure and crash the machine and its      *)
(* images are what the section being processed says.                       *)
THEOREM Invariance == Spec => []IInv
<1>1. Init => IInv
  BY InitIInv
<1>2. IInv /\ [Next]_vars => IInv'
  BY NextIInv
<1> QED
  BY <1>1, <1>2, PTL DEF Spec

(* A file that is not being written is complete, and only a machine that   *)
(* is about to be rolled back is torn.                                     *)
THEOREM TypeCorrect == Spec => []TypeOK
<1>1. IInv => TypeOK
  BY DEF IInv
<1> QED
  BY <1>1, Invariance, PTL

(* Whichever way a restore ends, the translations and the interrupt lines  *)
(* are those of the machine the guest goes on with.                        *)
THEOREM DerivedState == Spec => []DerivedFollows
<1>1. IInv => DerivedFollows
  BY DEF IInv, LineFollows, CacheFollows, DerivedFollows
<1> QED
  BY <1>1, Invariance, PTL

-----------------------------------------------------------------------------
(* The refinement *)

seen == IF op = "off" THEN Off
        ELSE IF op \in {"apply", "rollback"} THEN rollback
        ELSE machine

LEMMA InitRefines == Init => Saved!Init
BY DEF Init, Saved!Init

(* A boot, a guest's step, a crash. *)
LEMMA ProcessRefines ==
    IInv /\ (BootCold \/ Gate \/ GuestRuns \/ Crash) => Saved!Next \/ UNCHANGED <<seen, state>>
<1> SUFFICES ASSUME IInv PROVE
        (BootCold \/ Gate \/ GuestRuns \/ Crash) => Saved!Next \/ UNCHANGED <<seen, state>>
  OBVIOUS
<1> USE DEF disk, derived, seen
<1>1. BootCold => Saved!Boot
  BY ColdAssumption DEF BootCold, Saved!Boot, Saved!Whole, Whole
<1>2. Gate => UNCHANGED <<seen, state>>
  BY DEF Gate
<1>3. GuestRuns => Saved!Run
  BY NothingAssumption DEF GuestRuns, Saved!Run, Saved!Whole, Whole, IInv, MachineWhole
<1>4. Crash => Saved!Die
  BY DEF Crash, Saved!Die
<1> QED
  BY <1>1, <1>2, <1>3, <1>4 DEF Saved!Next

(* The only step of a save that is seen is the commit, and no step of a    *)
(* rollback image's. *)
LEMMA WriteRefines ==
    IInv /\ (BeginSave \/ Write) => Saved!Next \/ UNCHANGED <<seen, state>>
<1> SUFFICES ASSUME IInv PROVE
        BeginSave \/ Write => Saved!Next \/ UNCHANGED <<seen, state>>
  OBVIOUS
<1> USE DEF disk, derived, seen
<1>1. BeginSave \/ Create \/ WriteSection => UNCHANGED <<seen, state>>
  BY DEF BeginSave, Create, WriteSection
<1>2. WriteFails => UNCHANGED <<seen, state>>
  BY DEF WriteFails, WriteFailed
<1>3. Commit => temp = machine
  BY SameImage, OrderFacts
  DEF Commit, Image, IInv, TypeOK, TempFollows, MachineWhole
<1>4. Commit /\ target = "state" => Saved!Save
  BY <1>3, NothingAssumption DEF Commit, Saved!Save, IInv, MachineWhole
<1>5. Commit /\ target # "state" => UNCHANGED <<seen, state>>
  BY <1>3 DEF Commit
<1> QED
  BY <1>1, <1>2, <1>4, <1>5 DEF Write, Saved!Next

(* The machine that is seen during a restore is the rollback image; it is  *)
(* replaced by all of the saved image, or its kept parts, in one step.     *)
LEMMA RestoreRefines ==
    IInv /\ (BeginRestore \/ Restore) => Saved!Next \/ UNCHANGED <<seen, state>>
<1> SUFFICES ASSUME IInv PROVE
        BeginRestore \/ Restore => Saved!Next \/ UNCHANGED <<seen, state>>
  OBVIOUS
<1> USE DEF disk, derived, seen
<1>1. BeginRestore \/ CannotOpen \/ HeaderRefused \/ HeaderAccepted
        => UNCHANGED <<seen, state>>
  BY DEF BeginRestore, CannotOpen, HeaderRefused, HeaderAccepted
<1>2. ApplySection \/ SectionRefused \/ RollBackSection => UNCHANGED <<seen, state>>
  BY DEF ApplySection, SectionRefused, RollBackSection
<1>3. RollBackRefused => Saved!Die
  BY DEF RollBackRefused, Saved!Die
<1>4. RolledBack => UNCHANGED <<seen, state>>
  <2> SUFFICES ASSUME RolledBack PROVE UNCHANGED <<seen, state>>
    OBVIOUS
  <2>1. machine = rollback
    BY SameImage, OrderFacts
    DEF RolledBack, IInv, TypeOK, RolledBackSoFar, Image
  <2> QED
    BY <2>1 DEF RolledBack
<1>5. Applied => Saved!Load
  <2> SUFFICES ASSUME Applied PROVE Saved!Load
    OBVIOUS
  <2>1. /\ machine \in [Part -> Value \cup {Torn}] /\ rollback \in Image
        /\ state \in Image /\ ram_only \in BOOLEAN
        /\ \A i \in 1..7 : machine[Order[i]] =
               IF ~Skipped(Order[i]) THEN state[Order[i]] ELSE rollback[Order[i]]
    BY OrderFacts DEF Applied, IInv, TypeOK, AppliedSoFar, ImageThere
  <2>2. machine = [p \in Part |-> IF Skipped(p) THEN rollback[p] ELSE state[p]]
    <3>1. \A p \in Part : machine[p] = IF Skipped(p) THEN rollback[p] ELSE state[p]
      BY <2>1, OrderFacts
    <3> QED
      BY <2>1, <3>1
  <2>3. CASE ram_only
    <3>1. machine = [p \in Part |-> IF p \in Kept THEN state[p] ELSE rollback[p]]
      BY <2>2, <2>3 DEF Skipped
    <3> QED
      BY <2>1, <3>1, NothingAssumption DEF Applied, Saved!Load, Saved!Warm
  <2>4. CASE ~ram_only
    <3>1. machine = state
      BY <2>1, <2>2, <2>4 DEF Skipped, Image
    <3> QED
      BY <2>1, <3>1, NothingAssumption DEF Applied, Saved!Load
  <2> QED
    BY <2>3, <2>4
<1>6. Refused => UNCHANGED <<seen, state>>
  BY DEF Refused
<1> QED
  BY <1>1, <1>2, <1>3, <1>4, <1>5, <1>6 DEF Restore, Saved!Next

(* A save and a restore happen at once or not at all, whatever fails and   *)
(* whenever the process dies: the step-by-step image implements            *)
(* SavedMachine.                                                           *)
THEOREM Refinement == Spec => SavesAtomically
<1>1. Init => Saved!Init
  BY InitRefines
<1>2. IInv /\ [Next]_vars => [Saved!Next]_(Saved!vars)
  <2>1. UNCHANGED vars => UNCHANGED <<seen, state>>
    BY DEF vars, disk, derived, seen
  <2>2. IInv /\ [Next]_vars => Saved!Next \/ UNCHANGED <<seen, state>>
    BY <2>1, ProcessRefines, WriteRefines, RestoreRefines DEF Next
  <2> QED
    BY <2>2 DEF Saved!vars, seen
<1> QED
  BY <1>1, <1>2, Invariance, PTL DEF Spec, SavesAtomically, Saved!Spec
=============================================================================
