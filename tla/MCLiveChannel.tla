---------------------------- MODULE MCLiveChannel ----------------------------
(* Bounded instances of LiveChannel for TLC.                               *)
EXTENDS LiveChannel, TLC
CONSTANTS p, q, s1, s2
MCHome == (s1 :> p) @@ (s2 :> q)
\* One process serves a socket already, the other one is starting.
MCInit == Init /\ listener[p] = "listening" /\ stage[s1] = "open"
               /\ listener[q] = "subscribing" /\ stage[s2] = "connecting"
MCSpec == MCInit /\ [][Next]_vars /\ Fairness
=============================================================================
