--------------------------- MODULE MCSosDelivery ---------------------------
(* Bounded instances of SosDelivery for TLC.                               *)
EXTENDS SosDelivery

CONSTANTS u1, u2, t1, t2

MCOwner == t1 :> u1 @@ t2 :> u2
\* Workers are alike, and so are the two recipients with their devices.
DeliverySymmetry ==
  Permutations(Worker) \cup {u1 :> u2 @@ u2 :> u1 @@ t1 :> t2 @@ t2 :> t1}
\* One fault in a run: a stop, an outage or a failed database call.
OneFault == stops + outages + dbFaults <= 1
============================================================================
