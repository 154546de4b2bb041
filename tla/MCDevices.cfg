SPECIFICATION McSpec
CONSTANTS
    Addr <- Chip
    Sector <- Sectors
    Group = {"g"}
    Data <- TwoBytes
    SectorOf <- InSector
    Low12 <- Decoded
    Protect <- Protected
    Overrides <- NoOverride
    Preset = {"g"}
    Nspire = {TRUE, FALSE}
    Disks <- SmallDisks
    Speeds = {15000}
    Lefts <- FewLefts
    MaxOps = 5
    Half = 12
    Blank = 6
    InstTab = 10
    ExpTab = 6
    AppStart = 3
    AppEnd = 2
    Keys = {1, 3, 10, 41}
    HostKeys = {101, 102}
    Bindings <- Typed
    Matrix = {1, 3, 10, 18, 19}
    MaxEvents = 6
    PerUs = 6
    Kilo = 2
    Second = 20
    Length = 30
    Coeff <- Lobes
    HalfRange = 25
    VShift = 8
    Devices <- SoundCards
    Volumes = {2, 4}
    ClockSpeeds = {4, 6}
    Strides = {3}
    MaxFrames = 4
    MaxChanges = 2
    Outputs = {{}, {0, 1}}
    MinFrames = 2
    Latencies = {3, 8}
    SampleCounts = {2, 3}
    MaxWritten = 12
    MaxSilence = 2
INVARIANTS ChipSound KeyboardSound AudioSound DataSound
PROPERTIES ContentsGuarded BusyEnds KeysServed SoundFlows
