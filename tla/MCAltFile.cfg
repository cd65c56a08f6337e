SPECIFICATION Spec
CONSTANT uart = uart
CONSTANT tape = tape
CONSTANT nameless = nameless
CONSTANT zip = zip
CONSTANT null = null
CONSTANT None = None
CONSTANT Drivers <- MCDrivers
CONSTANT NameOf <- MCNameOf
CONSTANT OpsOf <- MCOpsOf
CONSTANT Mounted = {zip}
CONSTANT DevNull = null
CONSTANT MaxFd = 5
CONSTANT Stdio <- MCStdio
CONSTANT Names <- MCNames
CONSTANT OpenModes = {"RDONLY", "RDWR"}
CONSTANT Ctors = 1
CONSTANT MaxOpen = 3
INVARIANT NoDescriptorLost
INVARIANT StreamsConnected
PROPERTY LockExcludesOpens
CHECK_DEADLOCK TRUE
