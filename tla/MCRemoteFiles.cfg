CONSTANTS
    c1 = c1
    c2 = c2
    o1 = o1
    o2 = o2
    o3 = o3
    w1 = w1
    w2 = w2
    w3 = w3
    None = None
    Contexts <- MCContexts
    Openers <- MCOpeners
    CtxOf <- MCCtxOf
    Wrappers <- MCWrappers
    NumPages = 2
    MaxVersion = 3
    MaxOffset = 3

SPECIFICATION MCSpec

INVARIANTS
    NoUseAfterFree
    CountMatchesHandles
    NameTableValid
    ErrorOfConnection
    ServedIsCommitted
    CleanIsServed

PROPERTY
    RetiredIsReleased
