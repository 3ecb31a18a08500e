CONSTANTS
  r1 = r1  r2 = r2  r3 = r3
  c1 = c1  c2 = c2  c3 = c3
  d1 = d1  d2 = d2
  NoValue = NoValue
  None = NoValue
  Admins <- MCAdmins
  Staff <- MCStaff
  Ids <- MCIds
  Departments = {d1, d2}
  CommandIds = {c1, c2, c3}
  MaxAccessVersion = 2
  Requests = {r1, r2, r3}
  Commands <- MCFewCommands
  Starts <- MCOneStart
SYMMETRY Symmetry
SPECIFICATION Spec
INVARIANT TypeOK
INVARIANT HistoryIsChain
INVARIANT CommandsAppliedOnce
INVARIANT RowsSatisfyChecks
PROPERTY DecisionsExplainAccounts
PROPERTY ImplementsHistory
