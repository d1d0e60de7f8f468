SPECIFICATION FairSpec
CONSTANTS
  Workers = {w1, w2}
  Data = {d1, d2}
  Session = {end, abort}
  Ends = {end, abort}
  Expedited = {abort}
  Aborts = {control_abort}
  Failing = {d2}
  Batches = {{d1, end}, {abort}, {d2, control_abort}}
  Stop = Stop
  None = None
  MaxOpens = 2
  MaxStops = 1
  MayFlush = TRUE
CHECK_DEADLOCK FALSE
INVARIANT TypeOK
INVARIANT CountIsExact
INVARIANT StopIsPassedOn
INVARIANT ServedQueueIsActive
INVARIANT LastThreadCleansUp
INVARIANT InOrder
INVARIANT OnlyLateMessagesAreLeftOver
PROPERTY StopStopsAll
PROPERTY EndStopsAll
PROPERTY ClosingModuleJoins
