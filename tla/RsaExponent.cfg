SPECIFICATION Spec
CONSTANT Radix = 256
CONSTANT Candidates = {3}
CONSTANT Exponents = {1}
CONSTANT Texts = {2}
CONSTANT MaxResets = 0
CONSTANT MaxRestarts = 0
INVARIANT ExponentIsPrime
