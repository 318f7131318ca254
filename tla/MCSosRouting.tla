----------------------------- MODULE MCSosRouting -----------------------------
(* Bounded instances of SosRouting for TLC.                                *)
EXTENDS SosRouting, TLC
CONSTANTS g1, g2
MCPriority == (g1 :> 1) @@ (g2 :> 5)
MCProfile ==
  {[skills |-> {"nurse"}, km |-> 4, ready |-> TRUE],
   [skills |-> {}, km |-> 40, ready |-> TRUE]}
RoutingSymmetry == Permutations(Other)
\* Starting points that differ: the creator is in the chosen circle, circles
\* are for everything or for something else, all or none of the others are
\* suspended, and profiles matter with a cap.
MCInit ==
  /\ Init
  /\ <<req.chosen, Me>> \in members
  /\ \A g \in Group : AlertType \notin types[g]
  /\ suspended \in {{}, Other}
  /\ cap = 0 => \A p \in Other : profile[p].km = 4
MCSpec == MCInit /\ [][Next]_vars
=============================================================================
