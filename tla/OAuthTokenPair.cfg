SPECIFICATION Spec
CONSTANTS
  c1 = c1
  c2 = c2
  a1 = a1
  a2 = a2
  NoApp = noApp
  Conn <- TwoConns
  App <- TwoApps
  AppOf <- TwoAppsOf
  MaxGrant = 2
  Oversize <- SecondGrant
INVARIANT TypeOK
INVARIANT RefusedNeverResent
INVARIANT SendsWithTokens
INVARIANT TokensOfOwnApp
PROPERTY TokenlessOnlyInCleanThread
PROPERTY LockedOutStays
