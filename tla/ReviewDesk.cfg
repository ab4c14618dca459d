\* Two dashboard threads, two actions, two versions of a draft, one crash.
CONSTANTS
  t1 = t1
  t2 = t2
  alice = alice
  Threads <- TwoThreads
  Conversations <- Alice
  MaxActions = 2
  MaxEdits = 2
  MaxCrashes = 1
SPECIFICATION Spec
SYMMETRY ThreadSymmetry
INVARIANTS TypeOK PreparedWasSent WaitsForAReason
PROPERTIES DecidedIsFinal
