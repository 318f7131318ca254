---------------------------- MODULE JobLifecycle ----------------------------
(***************************************************************************)
(* What the notification queue promises to whoever enqueues a payload once,*)
(* without lists, workers or attempts: a payload is pending until it is    *)
(* delivered or dead-lettered, delivery is final, an operator may revive or*)
(* discard a dead one, and nothing is lost unless something failed.        *)
(***************************************************************************)
CONSTANTS Msg

VARIABLES
  fate,     \* what has become of each payload
  faulted   \* a process was stopped or Redis was unreachable at some time

vars == <<fate, faulted>>

Fate == {"new", "pending", "delivered", "dead", "discarded", "lost"}

Init == fate = [m \in Msg |-> "new"] /\ faulted = FALSE

Becomes(m, from, to) ==
  /\ fate[m] \in from
  /\ fate' = [fate EXCEPT ![m] = to]
  /\ UNCHANGED faulted

Accept(m) == Becomes(m, {"new"}, "pending")
Deliver(m) == Becomes(m, {"pending"}, "delivered")
Bury(m) == Becomes(m, {"pending"}, "dead")
Revive(m) == Becomes(m, {"dead"}, "pending")
Lose(m) == faulted /\ Becomes(m, {"pending", "dead"}, "lost")

\* An operator empties the whole dead-letter list at once.
DiscardAll ==
  /\ \E dead \in SUBSET {m \in Msg : fate[m] = "dead"} :
       /\ dead # {}
       /\ fate' = [m \in Msg |-> IF m \in dead THEN "discarded" ELSE fate[m]]
  /\ UNCHANGED faulted

\* A fault may lose the payload it interrupts.
Fault ==
  /\ faulted' = TRUE
  /\ \/ UNCHANGED fate
     \/ \E m \in Msg : /\ fate[m] \in {"pending", "dead"}
                       /\ fate' = [fate EXCEPT ![m] = "lost"]

Next ==
  \/ \E m \in Msg : Accept(m) \/ Deliver(m) \/ Bury(m) \/ Revive(m) \/ Lose(m)
  \/ DiscardAll
  \/ Fault

Spec == Init /\ [][Next]_vars

\* Pending payloads leave that state, if an operator does not put them back.
FairSpec == Spec /\ \A m \in Msg : WF_vars(Deliver(m) \/ Bury(m) \/ Lose(m))
=============================================================================
