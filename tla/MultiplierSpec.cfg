SPECIFICATION FairSpec
CONSTANT Radix = 6
INVARIANT ProductCorrect
INVARIANT IInv
PROPERTY ProductKept
PROPERTY ProductArrives
CHECK_DEADLOCK TRUE
