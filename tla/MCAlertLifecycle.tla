-------------------------- MODULE MCAlertLifecycle --------------------------
(* Bounded instances of AlertLifecycle for TLC.                            *)
EXTENDS AlertLifecycle
=============================================================================
