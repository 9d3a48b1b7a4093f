---------------------------- MODULE MCAppDrivers ----------------------------
(* Model-checking instances of AppDrivers; each configuration says which     *)
(* runners, attachers and dispatchers it has.  Attachers (and dispatchers)   *)
(* are interchangeable: no definition tells one from another.                *)
EXTENDS AppDrivers, TLC

Symmetry == Permutations(Attachers) \cup Permutations(Dispatchers)
=============================================================================
