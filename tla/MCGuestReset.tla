----------------------------- MODULE MCGuestReset -----------------------------
(* The UI thread and the JIT thread ask for resets, of every kind, with a  *)
(* sleeping or running guest.                                              *)
EXTENDS GuestReset

=============================================================================
