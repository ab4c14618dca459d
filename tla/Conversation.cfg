\* The production deployment end to end: one worker, one customer, one crash.
CONSTANTS
  w1 = w1
  alice = alice
  Workers <- OneWorker
  Conversations <- Alice
  SendableConversations <- Alice
  CanaryConversations <- Alice
  Modes <- Live
  MaxAttempts = 1
  Debounce = FALSE
  MaxJobs = 2
  MaxDeliveries = 2
  MaxReplies = 1
  MaxRetries = 1
  MaxInterventions = 1
  MaxCrashes = 1
SPECIFICATION FairSpec
PROPERTIES ImplementsPromise EverySeenTo
