SPECIFICATION FairSpec
CONSTANTS
  n1v4 = n1v4
  n2v4 = n2v4
  n2v6 = n2v6
  None = none
  Addr <- Addrs
  NodeAddrs <- TwoNodes
INVARIANT TypeOK
INVARIANT SuspectNotUsed
INVARIANT OneNodePerGet
INVARIANT GivesUpAfterAll
PROPERTY RetrySucceeds
