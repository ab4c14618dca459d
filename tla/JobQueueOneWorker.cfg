\* The production deployment: one worker, two conversations, one crash, and a
\* debounce that every further message prolongs.
CONSTANTS
  w1 = w1
  w2 = w2
  alice = alice
  bob = bob
  Workers <- OneWorker
  Conversations <- AliceAndBob
  MaxAttempts = 2
  Debounce = TRUE
  MaxJobs = 2
  MaxReplies = 1
  MaxRetries = 0
  MaxCrashes = 1
SPECIFICATION FairSpec
INVARIANTS OneBotAnswer RetriesBounded
PROPERTIES AnsweredIsFinal EverySettled
