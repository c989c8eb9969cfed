\* A pause that is ready to park, after a creation that made no task.
SPECIFICATION DispatchSpec
CONSTANTS
    Claims = {c1}
    Allocations = {p1}
    Workspaces = {w1}
    Repositories = {ra}
    RepoKeys = {k1}
    RunnerKeys = {run}
    Natives = {n1}
    Specs <- OneSpecs
    Estimates = {1}
    Totals = {0}
    Bindings = {TRUE}
    MaxParallelTasks = 1
    None = None
    TaskRepo <- OneTaskRepo
    NativeOf <- OneNativeOf
    Phase = p1
    PhaseSpec <- OneSpec
    TaskEstimate = 1
    LocalLimit = 1
    MaxJournal = 1
    MaxRuns = 1
    MaxCommands = 1
    c1 = c1
    c2 = c2
    ra = ra
    rb = rb
    k1 = k1
    k2 = k2
    run = run
    alt = alt
    n1 = n1
    n2 = n2
    w1 = w1
INVARIANTS
    ReadyPauseParks
CHECK_DEADLOCK FALSE
