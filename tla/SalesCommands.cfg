CONSTANTS
  r1 = r1  r2 = r2  r3 = r3
  e1 = e1  e2 = e2  a1 = a1
  i1 = i1  i2 = i2  i3 = i3  i4 = i4  i5 = i5
  k1 = k1  k2 = k2  d1 = d1  f1 = f1  f2 = f2  f3 = f3
  p1 = p1  p2 = p2  p3 = p3
  None = None
  Requests = {r1, r2, r3}
  Employees = {e1, e2}
  Moving = {e1}
  Admins = {a1}
  CommandIds = {i1, i2, i3, i4, i5}
  Phones = {f1, f2, f3}
  KnownCustomers = {k1, k2}
  KnownDrafts = {d1}
  StartCustomers <- MCStartCustomers
  StartDrafts <- MCStartDrafts
  VersionLimit = 3
  Commands <- MCCommands
  Pieces = {p1, p2, p3}
  MaxPieces = 2
SYMMETRY Symmetry
SPECIFICATION Spec
INVARIANT TypeOK
INVARIANT HistoryExplainsSales
INVARIANT AnswersMatchReceipts
INVARIANT PiecesAreNeverReused
INVARIANT SnapshotsAreConsistent
PROPERTY AuthorisedAtCommit
PROPERTY ImplementsSales
