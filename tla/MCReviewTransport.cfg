CONSTANTS
  MaxLines = 2
  Uses = {"open", "fetch", "import"}
  MaxAttempts = 3
SPECIFICATION FairSpec
INVARIANT TypeOK
INVARIANT NothingLeftBehind
INVARIANT SessionHasPort
INVARIANT CommandLeavesNothing
INVARIANT AnswerAwaits
INVARIANT OwnerKnows
PROPERTY ImplementsLifecycle
PROPERTY ReviewEnds
PROPERTY StartReturnsAtLast
CHECK_DEADLOCK FALSE
