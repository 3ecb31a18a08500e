CONSTANTS
  f1 = f1  f2 = f2  f3 = f3
  u1 = u1  u2 = u2
  None = None
  Flows = {f1, f2, f3}
  Subjects = {u1}
SPECIFICATION LiveSpec
CHECK_DEADLOCK FALSE
PROPERTY EveryFlowEnds
