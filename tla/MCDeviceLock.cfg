SPECIFICATION Spec
CONSTANTS
  Task = {t1, t2, t3}
  Host = {h1, h2, h3}
  Nobody = Nobody
  Ignores = FALSE
  t1 = t1
  t2 = t2
  t3 = t3
  h1 = h1
  h2 = h2
  h3 = h3
SYMMETRY Symmetry
INVARIANTS TypeOK ActingIsLocked LeftoversHaveCause
PROPERTIES ImplementsLease
CHECK_DEADLOCK FALSE
