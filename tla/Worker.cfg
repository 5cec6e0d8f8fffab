SPECIFICATION Spec
CONSTANTS
  MaxProcs = 2
  MaxChatter = 1
  BatchSize = 3
  MaxQueueSize = 4
  AutoRetry = TRUE
INVARIANTS TypeOK OneWorkerProcess ActiveIsWatched
PROPERTIES QueuedCompletionWins CompletedStays StopSilencesWorker RunSettles
