SPECIFICATION FairSpec
CONSTANT BufLen = 3
CONSTANT MaxCount = 2
CONSTANT DefaultTimeout = 2
CONSTANT IntMax = 4
CONSTANT Configs <- MCConfigs
INVARIANT StreamsIntact
INVARIANT InterruptsArmed
INVARIANT NeverMeansNever
PROPERTY Flows
PROPERTY CallsEnd
CHECK_DEADLOCK TRUE
