SPECIFICATION FairSpec
CONSTANTS
  Sockets = {s1, s2, s3}
  None = None
  MaxHandlers = 2
INVARIANTS
  RetryHasAnEnd
  OpenIsSubscribed
  AtMostTwo
PROPERTIES
  Recovers
