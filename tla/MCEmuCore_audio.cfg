SPECIFICATION CoreSpec
CONSTANTS
    Scenarios <- Musician
    MaxTasks = 2
    MaxChanges = 2
    MaxTransfers = 2
    Size = 3
    Octet <- Bits
    MaxHeld = 6
    MaxWrite = 2
    Width = 2
    Byte <- TwoBits
    Modes <- X4Modes
    Parts = {"core"}
INVARIANT FilterIsThere
