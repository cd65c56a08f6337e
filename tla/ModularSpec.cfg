SPECIFICATION FairSpec
CONSTANT Radix = 6
INVARIANT RemainderCorrect
INVARIANT IInv
PROPERTY RemainderArrives
CHECK_DEADLOCK TRUE
