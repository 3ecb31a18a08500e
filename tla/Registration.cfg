CONSTANTS
  r1 = r1  r2 = r2  r3 = r3
  k1 = k1  k2 = k2
  m1 = m1  m2 = m2  m3 = m3
  None = None
  Requests = {r1, r2, r3}
  KnownUsers = {k1, k2}
  StartUsers <- MCStartUsers
  Emails = {m1, m2, m3}
  LinkTtl = 2
  Cooldown = 1
  MaxTime = 3
  Commands <- MCCommands
SYMMETRY Symmetry
SPECIFICATION Spec
INVARIANT LinksAreSingleUse
INVARIANT CooldownHolds
INVARIANT OneInitialAdministrator
PROPERTY RemovalSparesUsedAccounts
