\* Two workers, one customer, two messages to send, one crash.
CONSTANTS
  w1 = w1
  w2 = w2
  alice = alice
  Workers <- TwoWorkers
  Conversations <- Alice
  SendableConversations <- Alice
  CanaryConversations <- NoConversation
  Modes <- Live
  MaxDeliveries = 2
  MaxEvents = 1
  MaxCrashes = 1
SPECIFICATION Spec
SYMMETRY WorkerSymmetry
INVARIANTS TypeOK AtMostOnce StatusIsTrue LogAgrees UnsentIsReviewed
PROPERTIES ImplementsIntents
