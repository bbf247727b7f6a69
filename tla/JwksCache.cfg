SPECIFICATION LiveSpec
CONSTANTS
    a = a
    b = b
    x = x
    Callers = {c1, c2}
    Kids <- MCKids
    Usable <- MCUsable
    KeySets <- MCKeySets
    MinRefresh = 2
    MaxTime = 3
INVARIANTS
    OneFetchAtATime
    AcceptedWasPublished
    CacheMissesOnlyNewKeys
PROPERTIES
    RefusalsExpire
    SuccessesAreSpaced
    CallersAreAnswered
