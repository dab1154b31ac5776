SPECIFICATION FairSpec
CONSTANTS
  s1 = s1
  s2 = s2
  Stream <- TwoStreams
INVARIANT TypeOK
INVARIANT StreamsClosedOnce
INVARIANT SilentOnlyWithoutRequest
PROPERTY AuthWaitSpec
PROPERTY SilentStreamEndsWait
CHECK_DEADLOCK FALSE
