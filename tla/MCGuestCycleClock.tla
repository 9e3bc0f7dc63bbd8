-------------------------- MODULE MCGuestCycleClock --------------------------
(* Two device events, a counter of seven values, and two rates: a cycle a  *)
(* nanosecond, and two cycles every three.                                  *)
EXTENDS GuestCycleClock

MCRates == {[ns_unit |-> 1, cyc_unit |-> 1], [ns_unit |-> 3, cyc_unit |-> 2]}
MCResetRate == [ns_unit |-> 1, cyc_unit |-> 1]

=============================================================================
