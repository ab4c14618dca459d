\* Two operators send or decide the same draft at once.
CONSTANTS
  t1 = t1
  t2 = t2
  alice = alice
  Threads <- TwoThreads
  Conversations <- Alice
  MaxActions = 3
  MaxEdits = 1
  MaxCrashes = 0
SPECIFICATION Spec
PROPERTIES DecidedIsNotSent
