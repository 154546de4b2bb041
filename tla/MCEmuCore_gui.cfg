SPECIFICATION CoreSpec
CONSTANTS
    Scenarios <- Users
    MaxTasks = 2
    MaxChanges = 2
    MaxTransfers = 2
    Size = 3
    Octet <- Bits
    MaxHeld = 6
    MaxWrite = 2
    Width = 2
    Byte <- TwoBits
    Modes <- X4Modes
    Parts = {"core", "buffer", "port"}
INVARIANTS TasksAccounted CancelLeavesNone OptionsNotLost RingSound WaitsSound
PROPERTIES GuiIsServed TasksServed IsQueue PortServesProgram
