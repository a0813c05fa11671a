SPECIFICATION Spec
CONSTANTS
  Task = {t1, t2}
  Host = {h1, h2}
  Nobody = Nobody
  Ignores = TRUE
INVARIANT ActingIsLocked
CHECK_DEADLOCK FALSE
