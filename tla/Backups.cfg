\* The loop and one command, two days in two months, one fault.
CONSTANTS
  Recipient = TRUE
  Keep <- KeepOne
  DaysPerMonth = 2
  CommandKinds = {"monthly"}
  MaxDays = 2
  MaxCommands = 1
  MaxFaults = 1
SPECIFICATION FairSpec
INVARIANTS TypeOK KeptAreThere
PROPERTIES RemovedIsOld EveryDayIsCovered
