----------------------------- MODULE MCJitRunner -----------------------------
(* Two host threads that call Pause, Resume, RequestStop, resets and wakes *)
(* in any order: more than EmulationPause lets them do.                    *)
EXTENDS JitRunner

=============================================================================
