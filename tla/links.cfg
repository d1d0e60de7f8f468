SPECIFICATION FairSpec
CONSTANTS
  Upper = Upper
  Lower = Lower
  None = None
  Modules = 1
  Uses <- AllUses
  MaxContainers = 5
INVARIANT TypeOK
INVARIANT CountIsExact
INVARIANT LinkedShareData
INVARIANT ReadyHoldsNothing
PROPERTY UpstreamEndsDownstream
CHECK_DEADLOCK FALSE
