SPECIFICATION MCSpec
CONSTANT Off = Off
CONSTANT Alarms = {a, b}
CONSTANT ListHead = h
CONSTANT TickMod = 4
CONSTANT Delays = {0, 2}
CONSTANT Intervals = {0, 1, 3}
CONSTANT Rates = {1}
CONSTANT NIRQ = 3
CONSTANT Isrs = {r1, r2}
CONSTANT NULL = NULL
CONSTANT Functions = {f, g}
CONSTANT Callers = {c, d}
CONSTANT InterruptFns = {f}
CONSTANT HeapLimit = 12
CONSTANT Align = 2
CONSTANT Increments = {1, 2}
CONSTANT StackPointer = 11
CONSTANT Slab = 4
CONSTANT EntrySize = 2
CONSTANT TextSize = 9
CONSTANT BucketSize = 4
CONSTANT US = 12
CONSTANT WordMod = 32
CONSTANT ClockRates = {0, 2, 3, 5}
CONSTANT Seconds = {0, 3}
CONSTANT Micros = {0, 5, 11}
CONSTANT Zones = {0, 1}
CONSTANT MaxTicks = 20
CONSTANT LoopRates = {1, 2, 5}
CONSTANT WordBase = 16
CONSTANT WordDigits = 2
CONSTANT EchoLen = 3
CONSTANT FifoSize = 2
CONSTANT MessageLen = 2
CONSTANT LogRates = {1, 4}
CONSTANT Divisor = 2
CONSTANT MaxMessages = 5
CONSTANT MaxLogTicks = 10
CONSTANT MemSize = 12
CONSTANT LineSize = 2
CONSTANT CacheSize = 4
CONSTANT BlockSize = 6
CONSTANT Start = 1
CONSTANT Length = 2
CONSTANT DmaMemory = 8
CONSTANT IntMod = 512
CONSTANT Numbers = {0, 1, 2, 3, 5, 7, 8}
CONSTANT Messages = {0, 1, 2, 5, 9, 14}
INVARIANT AlarmList
INVARIANT AlarmOnTime
INVARIANT IrqHandlerMatches
INVARIANT IrqNestingKept
 
INVARIANT HeapArcsKept
INVARIANT TimeKept
 
INVARIANT CachesCoherent
INVARIANT SoftwareRoundTrip
PROPERTY AlarmTickEnds
