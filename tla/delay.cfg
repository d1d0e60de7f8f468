SPECIFICATION FairSpec
CONSTANTS
  First = First
  Second = Second
  Average = 3
  Frame = 2
  Lengths = {2, 3}
  Configurations <- AllUses
  MaxMessages = 2
  MaxSessions = 2
  MaxResizes = 1
CHECK_DEADLOCK FALSE
INVARIANT TypeOK
INVARIANT OneThreadPerQueue
INVARIANT Paced
INVARIANT NothingIsLeft
PROPERTY ImplementsChannel
PROPERTY HandlersReturn
PROPERTY DataIsPassedOn
