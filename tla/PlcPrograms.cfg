SPECIFICATION ProgramsSpec
CONSTANTS
    MaxDint = 3
    MaxCount = 10
    Presets <- MCPresets
    InitialValues <- MCInitialValues
    a = a
    b = b
    x = x
    T = T
    C = C
    D = D
    nothing = nothing
    TimerPresets <- MCTimerPresets
    MaxStep = 3
    ModeBits <- MCModeBits
    EntryStates <- MCEntryStates
    Programs <- MCPrograms
    Timers <- MCTimers
    Counters <- MCCounters
    Diagrams <- MCDiagrams
    ByteBits = 2
    Contracts <- MCContracts
    Samples <- MCSamples
INVARIANTS
    BlockFollowsRungs
    BlockFollowsTimer
    EveryRungLoweredOnce
    LoweringKeepsLogic
    OneWritePerAssertion
    DoneAppliesLastRequest
    NetworkKeepsWiring
    NetworkComputesList
    OrderRespectsDependencies
    OrderFollowsPosition
    RoundTrip
PROPERTY EveryRequestStarts
