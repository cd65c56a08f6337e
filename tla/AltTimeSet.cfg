SPECIFICATION Spec
CONSTANT US = 12
CONSTANT WordMod = 32
CONSTANT ClockRates = {0, 2, 3, 5}
CONSTANT Seconds = {0, 3}
CONSTANT Micros = {0, 5, 11}
CONSTANT Zones = {0, 1}
CONSTANT MaxTicks = 20
CONSTANT LoopRates = {1, 2, 5}
INVARIANT SetThenGet
