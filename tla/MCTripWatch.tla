----------------------------- MODULE MCTripWatch -----------------------------
(* Bounded instances of TripWatch for TLC.                                 *)
EXTENDS TripWatch
=============================================================================
