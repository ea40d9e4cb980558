SPECIFICATION Spec
CONSTANTS
    Modules <- MCModules
    MaxDepth = 2
INVARIANTS
    EndlessIsExact
    InfiniteIsExact
    ConstantsResolve
    OpenEndedIsExact
    StackBounded
PROPERTY Settles
CHECK_DEADLOCK FALSE
