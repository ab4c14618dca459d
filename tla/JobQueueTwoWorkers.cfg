\* Two workers, one conversation, a burst of two messages, a human reply, an
\* operator's retry and one crash.
CONSTANTS
  w1 = w1
  w2 = w2
  alice = alice
  bob = bob
  Workers <- TwoWorkers
  Conversations <- Alice
  MaxAttempts = 1
  Debounce = TRUE
  MaxJobs = 2
  MaxReplies = 1
  MaxRetries = 1
  MaxCrashes = 1
SPECIFICATION Spec
SYMMETRY WorkerSymmetry
INVARIANTS TypeOK Serialized SupersededByLater NothingForgotten CompletedIsExecuted
