SPECIFICATION Spec
SYMMETRY SessionSymmetry
CONSTANTS
    s1 = s1
    s2 = s2
    j1 = j1
    Component = {"usr", "bin", "lib64", "opt", "bridge", "ws", "src", "note", "data", "sheet", "gone"}
    DotDot = ".."
    Label = {}
    Tool <- ToolName
    EmptyTool = EmptyTool
    NoArg = NoArg
    NotGiven = NotGiven
    Unreadable = Unreadable
    Blank = {" "}
    NoSession = NoSession
    NoJob = NoJob
    NoCommand = NoCommand
    Session = {s1, s2}
    Job = {j1}
    BaselineReadPath <- Baseline
    Files <- Machine
    MayVanish <- Vanishing
    located <- Location
    ServeArgs <- CommandLines
    OpenRequest <- Opens
    StartRequest <- Starts
    HostCall <- Calls
CHECK_DEADLOCK FALSE
INVARIANTS
    ChildIsConfined
    RunsWhatWasGranted
    JobExistsIffItStarted
    JobGrantsAreWithin
