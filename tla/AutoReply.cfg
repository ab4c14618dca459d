\* Every message and every answer of the provider, two changes on the way.
CONSTANTS
  Channels = {"instagram", "local"}
  MaxChanges = 2
SPECIFICATION Spec
INVARIANTS TypeOK SentIsSafe OnlySpamIsIgnored SuspicionNeverHelps
