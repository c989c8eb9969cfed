\* Who owns what: three claims of two workspaces whose repositories alias.
SPECIFICATION KernelSpec
CONSTANTS
    Claims = {c1, c2, c3}
    Allocations = {p1, p2}
    Workspaces = {w1, w2}
    Repositories = {ra, rb}
    RepoKeys = {k1, k2, k3, k4}
    RunnerKeys = {run}
    Natives = {n1, n2}
    Specs <- AliasedSpecs
    Estimates = {1}
    Totals = {0}
    MaxParallelTasks = 2
    Bindings = {FALSE}
    None = None
    ra = ra
    rb = rb
    k1 = k1
    k2 = k2
    k3 = k3
    k4 = k4
    run = run
    w1 = w1
    w2 = w2
INVARIANTS
    KernelTypeOK
    ClaimsCoherent
    ExclusiveOwnership
    OwnershipFollowsClaim
    SlotsBounded
    NativeBelongsOnce
    ClosedPhaseIsIdle
PROPERTIES
    LeaseSpec
    QuarantineFreezes
    RunnerOutlivesSettlement
CONSTRAINT SteadyObservations
SYMMETRY Interchangeable
CHECK_DEADLOCK FALSE
