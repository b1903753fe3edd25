SPECIFICATION Spec
CONSTANTS
  Mead = {m1, m2}
  Mea = {e1, e2}
  Thread = {t1, t2}
  Name = {n1, n2}
  None = none
  MaxRestarts = 1
SYMMETRY Interchangeable
CHECK_DEADLOCK FALSE
INVARIANTS OnlyEarlyFailuresOrphan
PROPERTIES InlineGoesWithMea
