---------------------------- MODULE MCHibernation ----------------------------
(* Three guests are enough for the image, the machine that is restored and *)
(* the one that is rolled back to be told apart.  Nothing bounds the       *)
(* number of operations, failures and crashes.                             *)
EXTENDS Hibernation
CONSTANTS v1, v2
MCValue == {Cold, v1, v2}
=============================================================================
