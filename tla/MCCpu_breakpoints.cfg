SPECIFICATION CpuSpec
CONSTANTS
    Hardware = 1
    Dynamic = 2
    Wrap = 7
    Late = 3
    Kilo = 2
    Speeds = {2, 3}
    Cycles = {1, 2}
    Halt = 2
    Usage <- Sets
    Slices <- Due
    Background <- Unwritten
    NoSymbol = NoSymbol
    Origins = {32768}
    Bytes = {0}
    Words = {0, 1, 4095, 4096, 32767, 32768, 65535}
    Interrupts = 2
    MaxClock = 80
    Addresses = {16384, 33000, 33010, 33063, 33064, 40000}
    Parts = {"debugger"}
    Ltop <- Physical
    Asks <- Wanted
    MaxAddress = 1
    MaxDepth = 1
    Clients <- Retypers
    Labels = {"a", "b", "flags"}
INVARIANTS StopsAsAsked
