\* The production deployment: one worker that crashes and restarts; the
\* customer is on the canary list and newer messages make answers stale.
CONSTANTS
  w1 = w1
  w2 = w2
  alice = alice
  Workers <- OneWorker
  Conversations <- Alice
  SendableConversations <- Alice
  CanaryConversations <- Alice
  Modes <- CanaryShadow
  MaxDeliveries = 2
  MaxEvents = 2
  MaxCrashes = 1
SPECIFICATION Spec
PROPERTIES NoBotPostWhileReconciling
