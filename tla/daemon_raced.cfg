SPECIFICATION Spec
CONSTANTS
  Procs = {p1, p2, p3}
  Clients = {c1, c2}
  Nobody = Nobody
SYMMETRY Symmetry
INVARIANTS OneConnection
CHECK_DEADLOCK FALSE
