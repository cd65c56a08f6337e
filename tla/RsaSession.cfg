SPECIFICATION Spec
CONSTANT Radix = 16384
CONSTANT Candidates <- SessionCandidates
CONSTANT Exponents = {1, 2, 3, 4, 7}
CONSTANT Texts = {0, 2, 14}
CONSTANT MaxResets = 0
CONSTANT MaxRestarts = 0
INVARIANT FetchedIsCurrent
INVARIANT RoundTrip
CHECK_DEADLOCK TRUE
