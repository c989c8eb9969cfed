\* One worker under two run generations and three control requests.
SPECIFICATION DispatchSpec
CONSTANTS
    Claims = {c1}
    Allocations = {p1}
    Workspaces = {w1}
    Repositories = {ra}
    RepoKeys = {k1}
    RunnerKeys = {run}
    Natives = {n1}
    Specs <- OneSpecs
    Estimates = {1}
    Totals = {0}
    Bindings = {TRUE}
    MaxParallelTasks = 1
    None = None
    TaskRepo <- OneTaskRepo
    NativeOf <- OneNativeOf
    Phase = p1
    PhaseSpec <- OneSpec
    TaskEstimate = 1
    LocalLimit = 1
    MaxJournal = 4
    MaxRuns = 2
    MaxCommands = 3
    c1 = c1
    c2 = c2
    ra = ra
    rb = rb
    k1 = k1
    k2 = k2
    run = run
    alt = alt
    n1 = n1
    n2 = n2
    w1 = w1
INVARIANTS
    ReservedMeansUnstarted
    ParkedIsQuiet
    StopWins
    LagIsRecoverable
PROPERTIES
    PermitsNeedCurrentRun
    ResumeIsNotActivation
CHECK_DEADLOCK FALSE
