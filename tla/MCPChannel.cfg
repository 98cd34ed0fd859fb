SPECIFICATION MCSpec
CONSTANTS
    Machines = {"analog"}
    Circuits = {1, 2}
    Metered = {1}
    Words = 2
    MaxInbox = 2
    MaxBuilds = 2
    MaxClicks = 2
    BitCycles = 8
    DataBits = 2
    MaxInstruction = 4
    Interval = 20
    Capacity = 6
    MaxCycles = 80
    MaxBytes = 2
    Leaks = 4
    Ramp = 4
    MaxSolves = 4
    SpiOrder <- MCSpiOrder
    ActiveLow = {"adxl"}
    Streams = {"oled"}
    Unfit = {}
    I2cDevices = {"bmp", "mpu"}
    Absent = "nobody"
    Size = 2
    Specs <- MCSpecs
    LogLimit = 1
    MaxSaid = 6
    Columns = 4
    Upper <- MCUpper
    Lower <- MCLower
    Segments = 2
    Pins = {"gnd", "d13"}
    GroundPins = {"gnd"}
    Legs = {"led"}
    Ghosts = {"ghost"}
    WireEnds <- MCWireEnds
    MaxWires = 2
    Instances = {"old", "new"}
    Release <- MCRelease
    Attempts = 2
    Requests = {"r1", "r2"}
    Sound = {"r1"}
    MaxRestarts = 1
    Logins = {"first", "second"}
    Account = "account"
    Address = "address"
    Limit <- MCLimit
    Period = 2
    MaxTime = 3
    NodeCount = 2
    BranchCount = 1
    Gmin = 1
    Values = {2}
    MaxStamps = 3
    Kinds = {"pmos"}
    Volts <- MCVolts
    FewVolts = {0, 2}
    MaxCommits = 2
    Drafts <- MCDrafts
    HandCoded = {"led"}
    Shipped <- MCShipped
    MaxAttempts = 3
    MaxRetries = 2
    MaxTold = 2
    MaxAsked = 1
    MaxReloads = 1
    SolveInterval = 4
    Frame = 7
    Longest = 2
    MinTrigger = 2
    Delay = 3
    Timeout = 8
    Slew = 1
    Readings = {0, 2, 9}
    EndOfTime = 14
    Passwords <- MCPasswords
    Seeds <- MCSeeds
    Domains = {"localhost", "site"}
    MaxChanges = 1
    Places = {0, 3}
    Objects <- MCObjects
    Senses <- MCSenses
    Buzzer = 2
    MaxMoves = 2
    Headers = {"D1", "A4"}
    PortOf <- MCPortOf
    Tx = "D1"
    BusPins = {"A4"}
    Wirings <- MCWirings
    Gap = 2
    Chunk = 3
    ProgramWords = 1
    MaxTicks = 2
    MaxEdits = 1
    Pushed <- MCPushed
    Sources <- MCSources
    Unknowns = {0, 6}
    Severed = 99
    MaxMeasured = 2
    FlashBytes = 5
    Paragraph = 2
    Page = 6
    SignBit = 2
    Records <- MCRecords
    MaxLines = 5
    Bodies = {"board", "led", "buzzer"}
    Leads = {"leg"}
    Jobs = {"j1", "j2"}
    Quality <- MCQuality
    MaxDirs = 2
    MaxFaults = 1
    Depth = 7
    SolveGap = 2
    Points = 6
    ScreenPoints = 2
    SoundSpan = 6
    ScreenSpan = 4
    PanelSpan = 6
    Halves = {0, 1, 2, 9}
    ShortestPeriod = 1
    LongestPeriod = 4
    Declared = 5
    EndOfCapture = 8
    MaxCaptures = 2
    ChannelsOf <- MCChannelsOf
    Selections <- MCSelections
    MaxRefreshes = 2
CHECK_DEADLOCK FALSE
INVARIANTS CurrentsAreReported
