SPECIFICATION FairSpec
CONSTANTS
  Putters = {p1}
  Getters = {g1, g2}
  Flushers = {f1}
  Data = {d1, d2}
  Session = {s1}
  Others = {abort}
  Urgent = {abort}
  Uses <- TogetherOrAlone
  Null = Null
  MaxFlushes = 2
CHECK_DEADLOCK FALSE
INVARIANT TypeOK
INVARIANT WellFormed
INVARIANT FlushFollowsLiveLinks
PROPERTY ImplementsBuffer
PROPERTY FlushIsComplete
PROPERTY MessagesAreTaken
PROPERTY WorkersLeave
