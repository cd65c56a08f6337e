SPECIFICATION FairSpec
CONSTANT Radix = 256
CONSTANT Candidates = {3}
CONSTANT Exponents = {3}
CONSTANT Texts = {2}
CONSTANT MaxResets = 1
CONSTANT MaxRestarts = 1
PROPERTY SessionGetsKey
