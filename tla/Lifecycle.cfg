\* One worker and the dashboard, three migrations, one restore, one death.
CONSTANTS
  w1 = w1
  web = web
  cli = cli
  fact = fact
  Monitored <- Worker
  LockFirst <- Dashboard
  Operator = cli
  Facts <- OneFact
  Latest = 3
  MaxRestores = 1
  MaxDeaths = 1
SPECIFICATION FairSpec
INVARIANTS TypeOK NothingLost RunningIsCurrent NoMigrationIsSkipped StoppedIsTrue
PROPERTIES ComesBack
