SPECIFICATION FairSpec
CONSTANTS
  a = a  s1 = s1  s2 = s2  s3 = s3  x = x  None = None
  Operations <- MixedVotes
  Candidates <- BothRounds
  Power <- TwoDelegates
  Threshold = 2
  Heads <- NextHeads
  MaxEvents = 1
  Faults = {"rpc"}
INVARIANT ReportedQuorumInPool
PROPERTIES ImplementsMonitor QuorumIsReported
