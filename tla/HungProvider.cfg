SPECIFICATION FairSpec
CONSTANTS
  Threshold = 2
  Leaders = {l1}
  Agents = {}
  Plain = {}
  Direct = {}
  Streamers = {l1}
  MaxRetries = 2
PROPERTIES LeaderGivesUp
