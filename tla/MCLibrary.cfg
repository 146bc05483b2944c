SPECIFICATION Spec
CONSTANTS
    SpaceSize = 6
    MaxString = 3
    WordSpan = 12
    Conversions <- SomeConversions
    MaxConversions = 4
    Directives <- SomeDirectives
    MaxDirectives = 3
    MaxInput = 3
    MaxSize = 4
    MaxEdge = 3
    kFingerHeldTicks = 2
    TypedTexts <- SomeTexts
    Readings = {0, 1, 2}
    MaxRounds = 6
    Seconds = {0, 2}
    MaxScheduled = 2
    ByteBase = 4
    Fraction = 4
    Exact = 8
    Saturation = 16
    MaxBlock = 40
    Dividends <- SomeWords
    Rounded <- SomeFloats
    Numerics <- SomeNumerics
    MaxNumerics = 4
    Radices = {10, 16}
    Classes <- SomeClasses
    LowerCase <- SomeCapitals
    OnDescriptor <- DescriptorCalls
    OnFile <- FileCalls
    MaxStreamCalls = 5
    Disk <- SomeBytes
    Chunks <- SomeChunks
    MaxChunks = 4
    Symbols <- SomeSymbols
    MaxSymbols = 3
    Relocations <- SomeRelocations
    MaxRelocations = 2
    Segments <- SomeSegments
    MaxSegments = 2
    ImageBase = 8
    ImageLimit = 16
    Trampolines = 16
    TrampSize = 16
    DataImports = 32
    DataSize = 32
    Guest <- GuestRoutines
    Tables <- HostTables
    GlNames = {"glf"}
    EglNames = {}
    JavaCalls <- SomeJavaCalls
    MaxJavaCalls = 4
    GlueBase = 64
    GlueSize = 12
    DataRoot <- Path
    ScreenWidth = 9
    Capabilities <- Controller
INVARIANTS FormatsFindTheirArguments StringsAreC DriverGetsItsData
           RoutinesAgree ScheduleIsPlayed
           ImageIsLinked JavaKeepsItsWord
PROPERTIES StreamsAreFiles
