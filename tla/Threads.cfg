SPECIFICATION FairSpec
CHECK_DEADLOCK FALSE
CONSTANTS
  Thread = {main, t1, t2}
  NoThread = NoThread
  Condition = {main, t1, t2}
  Main = main
  NoCode = NoCode
  MaxRuns = 2
INVARIANT HandedOver
PROPERTY CreatorReturns
PROPERTY ExitStopsMain
