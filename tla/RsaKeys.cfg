SPECIFICATION FairSpec
CONSTANT Radix = 256
CONSTANT Candidates = {3, 9}
CONSTANT Exponents = {3}
CONSTANT Texts = {2}
CONSTANT MaxResets = 2
CONSTANT MaxRestarts = 1
INVARIANT ChannelAgreement
INVARIANT DeliveredAsEntered
INVARIANT OneRequestPerReset
PROPERTY OperandsStable
PROPERTY CommandCompletes
PROPERTY MenuComesUp
CHECK_DEADLOCK TRUE
