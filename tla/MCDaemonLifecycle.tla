------------------------- MODULE MCDaemonLifecycle -------------------------
(* Model checking of DaemonLifecycle: processes and clients are             *)
(* interchangeable.                                                        *)
EXTENDS DaemonLifecycle, TLC

Symmetry == Permutations(Procs) \cup Permutations(Clients)
=============================================================================
