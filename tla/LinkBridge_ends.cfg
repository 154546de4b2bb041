SPECIFICATION BridgeSpec
CONSTANTS
    Width = 2
    Byte <- TwoBytes
    Modes = {{}, {"ASSIST"}}
    Programs = {"lines"}
    Turns = TRUE
    Burst = 2
    SliceEnds = TRUE
    Bound = 2
INVARIANT TransferIsSeamless
