SPECIFICATION Spec
CONSTANTS
    Port3Values <- Port3Bytes
    Settings <- ScreenSettings
    FrameSettings <- ImageSettings
    PageValues = {0, 65, 127, 199}
    SelectValues = {0, 1, 16}
    LimitValues = {0, 1, 255}
    ByteValues = {0, 237, 86, 243, 211}
    LimitBytes = {0, 37}
    Frequencies = {0, 65, 71, 128, 160}
    Values = {0, 1, 200}
    Rows = 3
    Strides = {12, 15}
    Commands = {0, 1, 3, 4, 5, 6, 7, 8, 32, 46, 47, 51, 63, 128, 130}
    LcdPortValues = {47, 255}
    MemPortValues = {68, 255}
    WaitPortValues = {0, 74}
    Word = 4
    Width = 3
    Height = 2
    LastColumn = 3
    LastRow = 2
    Columns = 4
    Unit = 2
    Levels = 32
INVARIANTS PortsSound InterruptsSound UserTimerSound LcdsSound PicturesSound
PROPERTIES OnlyTheSequenceUnlocks ClockGoesOn WakesByTimer
