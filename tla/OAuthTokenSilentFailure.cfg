SPECIFICATION Spec
CONSTANTS
  c1 = c1
  c2 = c2
  a1 = a1
  a2 = a2
  NoApp = noApp
  Conn <- OneConn
  App <- OneApp
  AppOf <- OneAppOf
  MaxGrant = 4
  Oversize <- ThirdGrant
PROPERTY FailedConnectSetsError
