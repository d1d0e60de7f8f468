SPECIFICATION FairSpec
CONSTANTS
  u1 = u1
  u2 = u2
  Users = {u1, u2}
  Workers = {w1}
  None = None
  Applications <- OneController
CHECK_DEADLOCK FALSE
INVARIANT TypeOK
INVARIANT NoAssertionFailed
INVARIANT LeavesFinishedSession
INVARIANT InlineAbortIsTooEarlyOrTooLate
INVARIANT NothingLeftBehind
INVARIANT SessionEndIsNotified
PROPERTY ImplementsLifecycle
PROPERTY StoppingSessionFinishes
PROPERTY CallsReturn
