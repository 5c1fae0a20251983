SPECIFICATION WorkspaceSpec
CONSTANTS
    Passes = {"pass1", "pass2"}
    ManualCalls = {"manual1"}
    OrderedWrites = TRUE
    LateThreads = {1}
    EarlyCalls = FALSE
    FailingSteps = {"thread", "send"}
    ActivityKinds = {"waiting_input"}
    Outcomes = {"succeeded", "failed"}
    MaxSlots = 2
    MaxEdits = 1
    MaxActivity = 1
    MaxRuntimes = 1
    ToolCalls = {u1, u2}
    UserGates = {g2}
    MaxStreams = 3
    MaxShells = 2
    Chats = {c1, c2}
    Files = {f1}
    NoTabId = NoTabId
    MaxColumns = 3
    Gates = {"g1"}
    Tools = {"exit", "tool"}
    ExitTool = "exit"
    Window = 3
    MaxLog = 4
    MaxListed = 3
    Hour = 2
    HoursPerDay = 4
    DaysPerWeek = 2
    Zones <- TheZones
    Creations = {0, 1, 2, 3, 4, 5, 6, 7, 8, 9, 10, 11}
    Delays = {7, 16}
    Horizon = 30
    DueLimit = 31
INVARIANTS SlotsRecordedOnce SlotsMatchRule RunsAndThreadsAgree PanesAreSound StatusesMatchLog
PROPERTIES EveryRunSettles TurnCleansUp EveryScriptStreamEnds
CHECK_DEADLOCK FALSE
