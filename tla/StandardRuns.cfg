\* Two workspaces of one repository, one of them with isolated producers.
SPECIFICATION Spec
CONSTANTS
    Workspaces = {wa, wb}
    TaskIds = {t1, t2}
    Repos = {ra}
    Phases = {1}
    FileScopes = {{1}}
    Limits <- TwoLimits
    Allowance = 1
    BrainAllowance = 1
    Counts = {0, 2}
    MaxVersion = 1
    MaxRuns = 1
    Requests = {q1, q2}
    PullRequests = {p1}
    None = None
    wa = wa
    wb = wb
    ra = ra
    t1 = t1
    t2 = t2
    q1 = q1
    q2 = q2
SYMMETRY Symmetry
INVARIANTS
    OneOwner
    MergeAlone
    MergeOnce
    RestsQuietly
    OneThreadPerTask
    QuarantineHolds
PROPERTY OverrunOnlyMeasured
CONSTRAINT Foreground
CHECK_DEADLOCK FALSE
