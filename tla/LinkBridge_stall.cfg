SPECIFICATION FairSpec
CONSTANTS
    Width = 2
    Byte <- TwoBytes
    Modes = {{}, {"ASSIST"}}
    Programs = {"lines"}
    Turns = FALSE
    Burst = 2
    SliceEnds = FALSE
    Bound = 2
PROPERTY HeldIsFetched
