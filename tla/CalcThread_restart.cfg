SPECIFICATION SafeSpec
CONSTANTS
    Roms = {"good", "missing", "unknown"}
    ResetSetsPower = FALSE
INVARIANTS LoadRunsAtFullSpeed
