SPECIFICATION Spec
CONSTANTS
  Conn = {k1}
  Ctx = {x1, x2}
  Background = Background
  Nil = Nil
  Torn = Torn
  Plan = {p1}
  Thread = {t1, t2}
  MaxCalls = 3
SYMMETRY Symmetry
CHECK_DEADLOCK FALSE
INVARIANTS
  ContextOfThisCall
