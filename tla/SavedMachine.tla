----------------------------- MODULE SavedMachine -----------------------------
(* What hibernation promises (src/agent_docs/hibernation.md): a save and a *)
(* restore happen at once or not at all, whatever fails and whenever the   *)
(* process dies, and no failure touches the saved image.                   *)
CONSTANTS
    Part,       \* the parts of the machine an image has sections for
    Kept,       \* those a warm boot restores
    Value,      \* what a part can hold
    Off,        \* no process
    None        \* no file

VARIABLES
    machine,    \* the machine, or Off
    image       \* the saved image, or None

vars == <<machine, image>>

(* A machine whose parts belong together. *)
Whole(v) == [p \in Part |-> v]

(* The saved image's kept parts in the machine that boots. *)
Warm == [p \in Part |-> IF p \in Kept THEN image[p] ELSE machine[p]]

Init == machine = Off /\ image = None

Boot == machine = Off /\ \E v \in Value : machine' = Whole(v) /\ UNCHANGED image
Run == machine # Off /\ \E v \in Value : machine' = Whole(v) /\ UNCHANGED image
Save == machine # Off /\ image' = machine /\ UNCHANGED machine
Load ==
    /\ machine # Off /\ image # None
    /\ machine' = image \/ machine' = Warm
    /\ UNCHANGED image
Die == machine' = Off /\ UNCHANGED image

Next == Boot \/ Run \/ Save \/ Load \/ Die

Spec == Init /\ [][Next]_vars
=============================================================================
