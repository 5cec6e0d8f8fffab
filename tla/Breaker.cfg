SPECIFICATION FairSpec
CONSTANTS
  Threshold = 2
  Leaders = {l1}
  Agents = {}
  Plain = {p1}
  Direct = {}
  Streamers = {l1, p1}
  MaxRetries = 2
INVARIANTS TypeOK OpenExactlyWhenCounted
PROPERTIES OnlyAbortLosesProbe ServedAgain
