CONSTANTS
  None = None
  c1 = c1
  c2 = c2
  Commands <- MCCommands
  Idle <- MCIdle
  VersionLimit = 3
  AttemptLimit = 2
SPECIFICATION FairSpec
PROPERTY OutcomesAreTrue
PROPERTY BuildsOnItsDecisions
PROPERTY NothingGoesBack
PROPERTY BusyEnds
