CONSTANTS
  r1 = r1  r2 = r2  r3 = r3
  p1 = p1  p2 = p2
  None = None
  Requests = {r1, r2, r3}
  Passwords = {p1, p2}
  InitialPassword = p1
  SessionTtl = 1
  ResetTtl = 1
  MaxTime = 1
SYMMETRY Symmetry
SPECIFICATION Spec
INVARIANT LogoutEndsSession
