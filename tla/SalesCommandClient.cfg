CONSTANTS
  None = None
  Commands = {c1, c2}
  Existing = {k}
  Drafts = {c1}
  Shared = {k}
  Phones = {p, q}
  Asked = {p}
  FirstPhone <- MCFirstPhone
  VersionLimit = 2
  AttemptLimit = 2
  Repeated = {c1}
SPECIFICATION FairSpec
CHECK_DEADLOCK FALSE
INVARIANT SavesAreReadBack
PROPERTY OutcomesAreTrue
PROPERTY BusyEnds
