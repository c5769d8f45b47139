CONSTANTS
  None = None
  Agents = {a1, a2}
  Conns = {n1}
  Jobs = {j1}
  Keys = {k1, k2}
  Results = {r1}
  Calls = {c1, c2}
  Operators = {o1}
  MaxActions = 1
  MaxTokens = 2
SPECIFICATION Spec
SYMMETRY Symmetry
CHECK_DEADLOCK FALSE
INVARIANTS
  TypeOK
  WithinBudget
  JobsReceipted
PROPERTIES
  RevokedIsDead
