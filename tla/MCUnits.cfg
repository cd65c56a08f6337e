SPECIFICATION MCSpec
CONSTANT Off = Off
CONSTANT Radix = 16
CONSTANT Bases = {5}
CONSTANT Powers = {0, 4, 15}
CONSTANT Denominators = {0, 2, 5}
CONSTANT ExpBases = {4}
CONSTANT ExpPowers = {2, 3}
CONSTANT ExpExponents = {0, 1, 3}
CONSTANT ExpDenominators = {0, 5}
CONSTANT KeyExponents = {2, 3}
CONSTANT Totients = {0, 3, 4}
CONSTANT Texts = {2, 3}
CONSTANT TextExponents = {0, 3}
CONSTANT Moduli = {0, 2, 5}
CONSTANT Primes = {0, 5, 15}
INVARIANT ResidueCorrect
 
 
PROPERTY UnitsAnswer
PROPERTY UnitsAreParents
PROPERTY UnitsAreComputeUnits
