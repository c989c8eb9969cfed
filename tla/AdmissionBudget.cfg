\* The token arithmetic: two claims of one phase with a tight budget.
SPECIFICATION KernelSpec
CONSTANTS
    Claims = {c1, c2}
    Allocations = {p1}
    Workspaces = {w1}
    Repositories = {ra, rb}
    RepoKeys = {k1, k2}
    RunnerKeys = {}
    Natives = {n1, n2}
    Specs <- TightSpecs
    Estimates = {1, 2}
    Totals = {0, 1, 2}
    MaxParallelTasks = 2
    Bindings = {FALSE}
    None = None
    ra = ra
    rb = rb
    k1 = k1
    k2 = k2
    k3 = k3
    k4 = k4
    run = run
    w1 = w1
    w2 = w2
INVARIANTS
    SettledTokensCounted
PROPERTIES
    ReserveProtected
SYMMETRY Interchangeable
CHECK_DEADLOCK FALSE
