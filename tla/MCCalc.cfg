SPECIFICATION CalcSpec
CONSTANTS
    Roms = {"good", "missing", "unknown"}
    ResetSetsPower = FALSE
    Width = 2
    Byte <- TwoBytes
    Modes = {{}, {"ASSIST"}}
    Programs = {"lines", "assist", "quitter"}
    Turns = TRUE
    Burst = 3
    SliceEnds = TRUE
    Bound = 4
INVARIANTS LockDiscipline NoUseAfterFree NothingLost BytesStayWhole
PROPERTIES Control CallsAreServed Delivered
