-------------------------- MODULE MCTaskLifecycle --------------------------
(* TLC instances of TaskLifecycle.  Daemons are interchangeable.           *)
EXTENDS TaskLifecycle, TLC

DaemonSymmetry == Permutations(Daemons)
=============================================================================
