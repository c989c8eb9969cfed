\* Two workers with repositories of their own, contending for runners.
SPECIFICATION DispatchSpec
CONSTANTS
    Claims = {c1, c2}
    Allocations = {p1}
    Workspaces = {w1}
    Repositories = {ra, rb}
    RepoKeys = {k1, k2}
    RunnerKeys = {run, alt}
    Natives = {n1, n2}
    Specs <- TwoSpecs
    Estimates = {1}
    Totals = {0}
    Bindings = {TRUE}
    MaxParallelTasks = 2
    None = None
    TaskRepo <- TwoTaskRepo
    NativeOf <- TwoNativeOf
    Phase = p1
    PhaseSpec <- TwoSpec
    TaskEstimate = 1
    LocalLimit = 2
    MaxJournal = 3
    MaxRuns = 1
    MaxCommands = 0
    c1 = c1
    c2 = c2
    ra = ra
    rb = rb
    k1 = k1
    k2 = k2
    run = run
    alt = alt
    n1 = n1
    n2 = n2
    w1 = w1
INVARIANTS
    OneRunnerProcess
CONSTRAINT RunnersOnly
SYMMETRY Swaps
CHECK_DEADLOCK FALSE
