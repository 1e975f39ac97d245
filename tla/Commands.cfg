SPECIFICATION CommandsSpec
CONSTANTS
    Trees <- MCTrees
    VarbindBudgets = {1, 3, 8}
    ResponseBudgets = {1, 2, 4, 9}
    ControllerRoutes = {1, 2}
    Chassis = {1, 2}
    Slots <- MCSlots
    Count = 4
    Fields = {"logical_name", "firmware_revision"}
    Instances = {1, 2, 4, 5}
    MaxInstance = 5
    Kind <- MCKind
    CapabilitySets = {{"programs"}, {"programs", "tag_definitions"}, {"routines", "tasks"}}
    RequestBudgets = {1, 2, 4}
    MaxTableEdits = 1
    MaxCalls = 2
    ReviewVersions = {1, 2, 3}
    Reconciles <- MCReconciles
    ReviewItems <- MCItems
    BundleVersions = {1, 2}
    BundleReconciles <- MCBundleReconciles
    MaxEdits = 2
    Converters = {"a", "b"}
    WalkVersions = {1, 2}
    MaxInputEdits = 1
    MaxRuns = 3
    Comparisons <- MCComparisons
    unresolved = unresolved
INVARIANTS
    ShortOnlyAtBudget
    OneRequestPerRoute
    EveryItemAnswered
    FieldsMatchEvidence
    ObservationIsWhole
    QuietReceiptIsSound
    VerifiedBundleIsOneGeneration
    ReceiptMarksCompletion
    DriftIsExplained
CHECK_DEADLOCK FALSE
