SPECIFICATION Spec
CONSTANTS
  Procs = {p1, p2, p3, p4}
  Clients = {c1, c2}
  Nobody = Nobody
SYMMETRY Symmetry
INVARIANTS PidfileInv ConnectionInv ServingIsReachable LeftoversNeverBlock
CHECK_DEADLOCK FALSE
