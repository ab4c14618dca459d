\* Two threads, two account registries, repeated bodies, two failures.
CONSTANTS
  t1 = t1
  t2 = t2
  club = club
  hall = hall
  customer = customer
  mid1 = mid1
  mid2 = mid2
  mid3 = mid3
  mid4 = mid4
  Threads <- MCThreads
  Mids <- MCMids
  Accounts <- MCAccounts
  Customers <- MCCustomers
  Bodies <- MCBodies
  Items <- MCItems
  Configurations <- MCConfigurations
  MaxFailures = 2
SPECIFICATION FairSpec
INVARIANTS TypeOK StoredOnce AnsweredIsStored
PROPERTIES EveryBodyAnswered
