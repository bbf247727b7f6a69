SPECIFICATION LiveSpec
CONSTANTS
    a = a
    b = b
    x = x
    Callers = {c1}
    Kids <- MCKids
    Usable <- MCUsable
    KeySets <- MCKeySets
    MinRefresh = 2
    MaxTime = 2
PROPERTIES
    GetsAreSpaced
