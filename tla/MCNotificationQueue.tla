----------------------- MODULE MCNotificationQueue -----------------------
(* Bounded instances of NotificationQueue for TLC.                         *)
EXTENDS NotificationQueue

QueueSymmetry == Permutations(Msg) \cup Permutations(Worker)
\* Two copies in a run: one of either payload, or two of the same.
TwoCopies == SumFunction(published) <= 2
==========================================================================
