---------------------------- MODULE AdmissionStore ----------------------------
(***************************************************************************)
(* The shared admission kernel (src/orchestrator/admission.py): one SQLite *)
(* database in which every workspace of the platform reserves task slots,  *)
(* repository keys, runner keys and tokens.  Every operation is one        *)
(* BEGIN IMMEDIATE transaction, so it is one action here.                  *)
(*                                                                         *)
(* Kept: every guard and every row an operation writes.                    *)
(* Abstracted: identifiers are model values; the clock is gone - an        *)
(* observation is accepted fresh and may lapse at any moment, and one that *)
(* would be refused as stale or out of order is a step that never happens; *)
(* token counters are their total (input + output, admission.py:50-57).    *)
(* A refused call, or a replay that only returns the retained row, changes *)
(* nothing and is a stuttering step.                                       *)
(***************************************************************************)
EXTENDS Integers, FiniteSets, Functions

CONSTANTS
    Claims,             \* claim identifiers callers may use
    Allocations,        \* allocation identifiers
    Workspaces,
    Repositories,       \* repository names, meaningful within an allocation
    RepoKeys,           \* canonical repo-local: and repo-remote: keys
    RunnerKeys,         \* canonical runner: keys
    Natives,            \* native identities (hostId, threadId)
    Specs,              \* allocation contents a caller may pin
    Estimates,          \* estimatedTokens of a reservation
    Totals,             \* bound on every observed or settled token total
    Bindings,           \* {TRUE, FALSE}: whether reservations carry a bindingHash
    MaxParallelTasks,   \* policy: platform-wide task slots
    None

Keys == RepoKeys \cup RunnerKeys

SpecRecords ==
    [workspace : Workspaces,
     maxParallelTasks : Nat \ {0},
     maxTasks : Nat \ {0},
     tokenBudget : Nat,
     checkpointReserve : Nat,
     repositories : [Repositories -> SUBSET RepoKeys],
     runners : SUBSET RunnerKeys]

\* What validate_policy, open_allocation and reserve_in require of their
\* arguments.  A name outside the allocation's mapping has no keys here.
ASSUME SpecAssumption ==
    /\ Specs \subseteq SpecRecords
    /\ \A s \in Specs : /\ s.maxParallelTasks <= s.maxTasks
                        /\ s.checkpointReserve \in 1 .. (s.tokenBudget - 1)
ASSUME NumberAssumption ==
    /\ MaxParallelTasks \in Nat \ {0}
    /\ Estimates \subseteq Nat \ {0}
    /\ Totals \subseteq Nat
    /\ Bindings \subseteq BOOLEAN
ASSUME FiniteAssumption == IsFiniteSet(Claims)
ASSUME NoneAssumption ==
    /\ None \notin Claims \cup Allocations \cup Natives \cup Specs
    /\ None \notin [total : Totals, complete : BOOLEAN, fresh : BOOLEAN,
                    included : SUBSET Claims]
    /\ RepoKeys \cap RunnerKeys = {}

VARIABLES
    claims,         \* the claims table
    resources,      \* the resources table: rows [key, claim]
    allocations,    \* the allocations table
    account,        \* the retained account observation: "unknown", "fit", "unfit"
    quarantined     \* an adoption fence or a legacy binding exists

kernelVars == <<claims, resources, allocations, account, quarantined>>

Held == {"reserved", "starting", "running", "uncertain", "blocked"}

UsageRecords ==
    [total : Totals, complete : BOOLEAN, fresh : BOOLEAN, included : SUBSET Claims]

ClaimRecords ==
    [status : Held \cup {"absent", "settled"},
     allocation : Allocations \cup {None},
     repositories : SUBSET Repositories,
     estimate : Nat,
     bound : BOOLEAN,
     started : BOOLEAN,
     native : Natives \cup {None},
     actual : Nat]

AllocationRecords ==
    [spec : Specs \cup {None}, closed : BOOLEAN, usage : UsageRecords \cup {None}]

NoClaim ==
    [status |-> "absent", allocation |-> None, repositories |-> {}, estimate |-> 0,
     bound |-> FALSE, started |-> FALSE, native |-> None, actual |-> 0]

HeldClaims == {c \in Claims : claims[c].status \in Held}
ClaimsOf(a) == {c \in Claims : claims[c].allocation = a}
KeysOwned(c) == {r.key : r \in {x \in resources : x.claim = c}}
Owned(k) == \E r \in resources : r.key = k

\* The repository keys a scope expands to under an allocation.
ScopeKeys(a, repos) == UNION {allocations[a].spec.repositories[r] : r \in repos}

-------------------------------------------------------------------------------
(* The budget arithmetic shared by enforcement and presentation. *)

Spent(a) == IF allocations[a].usage = None THEN 0 ELSE allocations[a].usage.total
Included(a) == IF allocations[a].usage = None THEN {} ELSE allocations[a].usage.included

Actual == [c \in Claims |-> claims[c].actual]
Estimate == [c \in Claims |-> claims[c].estimate]

Settled(a) == {c \in ClaimsOf(a) : claims[c].status = "settled"}
Unincorporated(a) == SumFunctionOnSet(Actual, Settled(a) \ Included(a))
HeldTokens(a) == SumFunctionOnSet(Estimate, ClaimsOf(a) \cap HeldClaims)

\* Faulty variant: the held estimates are not deducted.
RemainingWithoutHeld(a) ==
    allocations[a].spec.tokenBudget - Spent(a) - Unincorporated(a)
        - allocations[a].spec.checkpointReserve

Remaining(a) ==
    allocations[a].spec.tokenBudget - Spent(a) - HeldTokens(a) - Unincorporated(a)
        - allocations[a].spec.checkpointReserve

\* Faulty variant: the adoption fence is not consulted.
CheckBudgetUnfenced(a, extra) ==
    /\ ~allocations[a].closed
    /\ account = "fit"
    /\ allocations[a].usage # None
    /\ allocations[a].usage.complete
    /\ allocations[a].usage.fresh
    /\ Remaining(a) >= extra

\* Faulty variant: a closed allocation still admits work.
CheckBudgetClosed(a, extra) ==
    /\ ~quarantined
    /\ account = "fit"
    /\ allocations[a].usage # None
    /\ allocations[a].usage.complete
    /\ allocations[a].usage.fresh
    /\ Remaining(a) >= extra

\* check_budget: every fence, then fresh healthy observations, then headroom.
CheckBudget(a, extra) ==
    /\ ~quarantined
    /\ ~allocations[a].closed
    /\ account = "fit"
    /\ allocations[a].usage # None
    /\ allocations[a].usage.complete
    /\ allocations[a].usage.fresh
    /\ Remaining(a) >= extra

\* Faulty variant: the first key of a repository stands for all of them.
CheckCapacityOneKey(a, repos) ==
    /\ Cardinality(HeldClaims) < MaxParallelTasks
    /\ Cardinality(ClaimsOf(a) \cap HeldClaims) < allocations[a].spec.maxParallelTasks
    /\ Cardinality(ClaimsOf(a)) < allocations[a].spec.maxTasks
    /\ \A r \in repos : \E k \in allocations[a].spec.repositories[r] : ~Owned(k)

\* Faulty variant: only running work counts against the slots.
CheckCapacityRunning(a, repos) ==
    /\ Cardinality({c \in Claims : claims[c].status \in {"starting", "running"}})
            < MaxParallelTasks
    /\ Cardinality(ClaimsOf(a) \cap HeldClaims) < allocations[a].spec.maxParallelTasks
    /\ Cardinality(ClaimsOf(a)) < allocations[a].spec.maxTasks
    /\ \A r \in repos : allocations[a].spec.repositories[r] # {}
    /\ \A k \in ScopeKeys(a, repos) : ~Owned(k)

\* check_capacity: slots, attempts and free repository keys.
CheckCapacity(a, repos) ==
    /\ Cardinality(HeldClaims) < MaxParallelTasks
    /\ Cardinality(ClaimsOf(a) \cap HeldClaims) < allocations[a].spec.maxParallelTasks
    /\ Cardinality(ClaimsOf(a)) < allocations[a].spec.maxTasks
    /\ \A r \in repos : allocations[a].spec.repositories[r] # {}
    /\ \A k \in ScopeKeys(a, repos) : ~Owned(k)

-------------------------------------------------------------------------------
(* Operations. *)

OpenAllocation(a, s) ==
    /\ ~quarantined
    /\ allocations[a].spec = None
    /\ \A b \in Allocations : allocations[b].spec # None /\ ~allocations[b].closed
                                => allocations[b].spec.workspace # s.workspace
    /\ allocations' = [allocations EXCEPT ![a].spec = s]
    /\ UNCHANGED <<claims, resources, account, quarantined>>

ObserveAccount(v) ==
    /\ account' = v
    /\ UNCHANGED <<claims, resources, allocations, quarantined>>

\* Faulty variant: the observed total need not cover what it incorporates.
ObserveUsageUncovered(a, total, complete, included) ==
    /\ allocations[a].spec # None
    /\ total >= Spent(a)
    /\ Included(a) \subseteq included
    /\ \A c \in included : claims[c].allocation = a /\ claims[c].status = "settled"
    /\ allocations' = [allocations EXCEPT ![a].usage =
            [total |-> total, complete |-> complete, fresh |-> TRUE, included |-> included]]
    /\ UNCHANGED <<claims, resources, account, quarantined>>

\* Cumulative: the total and the set of incorporated settlements only grow,
\* and the total covers what it says it incorporates.
ObserveUsage(a, total, complete, included) ==
    /\ allocations[a].spec # None
    /\ total >= Spent(a)
    /\ Included(a) \subseteq included
    /\ \A c \in included : claims[c].allocation = a /\ claims[c].status = "settled"
    /\ SumFunctionOnSet(Actual, included) <= total
    /\ allocations' = [allocations EXCEPT ![a].usage =
            [total |-> total, complete |-> complete, fresh |-> TRUE, included |-> included]]
    /\ UNCHANGED <<claims, resources, account, quarantined>>

\* Faulty variant: a settled identifier may be reserved again.
ReserveAgain(c, a, repos, est, bound) ==
    /\ claims[c].status \in {"absent", "settled"}
    /\ repos # {}
    /\ allocations[a].spec # None
    /\ CheckBudget(a, est)
    /\ CheckCapacity(a, repos)
    /\ claims' = [claims EXCEPT ![c] =
            [NoClaim EXCEPT !.status = "reserved", !.allocation = a, !.repositories = repos,
                            !.estimate = est, !.bound = bound]]
    /\ resources' = resources \cup {[key |-> k, claim |-> c] : k \in ScopeKeys(a, repos)}
    /\ UNCHANGED <<allocations, account, quarantined>>

ReserveIn(c, a, repos, est, bound) ==
    /\ claims[c].status = "absent"
    /\ repos # {}
    /\ allocations[a].spec # None
    /\ CheckBudget(a, est)
    /\ CheckCapacity(a, repos)
    /\ claims' = [claims EXCEPT ![c] =
            [NoClaim EXCEPT !.status = "reserved", !.allocation = a, !.repositories = repos,
                            !.estimate = est, !.bound = bound]]
    /\ resources' = resources \cup {[key |-> k, claim |-> c] : k \in ScopeKeys(a, repos)}
    /\ UNCHANGED <<allocations, account, quarantined>>

BeginIn(c) ==
    /\ claims[c].status = "reserved"
    /\ CheckBudget(claims[c].allocation, 0)
    /\ claims' = [claims EXCEPT ![c].status = "starting", ![c].started = TRUE]
    /\ UNCHANGED <<resources, allocations, account, quarantined>>

\* Faulty variant: only live claims are searched for the identity.
BindAmongHeld(c, n) ==
    /\ ~claims[c].bound
    /\ claims[c].status \in {"starting", "uncertain", "blocked", "running"}
    /\ claims[c].native = None
    /\ \A d \in HeldClaims : claims[d].native # n
    /\ claims' = [claims EXCEPT ![c].status = "running", ![c].native = n]
    /\ UNCHANGED <<resources, allocations, account, quarantined>>

\* A claim that already carries this identity is returned unchanged, so only
\* the first binding is a step.
Bind(c, n) ==
    /\ ~claims[c].bound
    /\ claims[c].status \in {"starting", "uncertain", "blocked", "running"}
    /\ claims[c].native = None
    /\ \A d \in Claims : claims[d].native # n
    /\ claims' = [claims EXCEPT ![c].status = "running", ![c].native = n]
    /\ UNCHANGED <<resources, allocations, account, quarantined>>

\* Faulty variant: every stopped creation is called blocked.
BlockUnidentified(c) ==
    /\ ~claims[c].bound
    /\ claims[c].status \in {"starting", "running", "uncertain", "blocked"}
    /\ claims' = [claims EXCEPT ![c].status = "blocked"]
    /\ UNCHANGED <<resources, allocations, account, quarantined>>

\* Faulty variant: a failed creation gets a status the schema does not know.
BlockFailed(c) ==
    /\ ~claims[c].bound
    /\ claims[c].status \in {"starting", "running", "uncertain", "blocked"}
    /\ claims' = [claims EXCEPT ![c].status =
            IF claims[c].native # None THEN "blocked" ELSE "failed"]
    /\ UNCHANGED <<resources, allocations, account, quarantined>>

Block(c) ==
    /\ ~claims[c].bound
    /\ claims[c].status \in {"starting", "running", "uncertain", "blocked"}
    /\ claims' = [claims EXCEPT ![c].status =
            IF claims[c].native # None THEN "blocked" ELSE "uncertain"]
    /\ UNCHANGED <<resources, allocations, account, quarantined>>

\* Faulty variant: a runner may be taken before the task is known.
AcquireRunnerEarly(c, k) ==
    /\ ~claims[c].bound
    /\ claims[c].status \in {"starting", "running"}
    /\ k \in allocations[claims[c].allocation].spec.runners
    /\ ~quarantined
    /\ ~Owned(k)
    /\ resources' = resources \cup {[key |-> k, claim |-> c]}
    /\ UNCHANGED <<claims, allocations, account, quarantined>>

AcquireRunner(c, k) ==
    /\ ~claims[c].bound
    /\ claims[c].status = "running"
    /\ k \in allocations[claims[c].allocation].spec.runners
    /\ ~quarantined
    /\ ~Owned(k)
    /\ resources' = resources \cup {[key |-> k, claim |-> c]}
    /\ UNCHANGED <<claims, allocations, account, quarantined>>

\* Release is refused neither by the claim's status nor by the quarantine.
ReleaseRunner(c, k) ==
    /\ ~claims[c].bound
    /\ claims[c].status # "absent"
    /\ k \in allocations[claims[c].allocation].spec.runners
    /\ [key |-> k, claim |-> c] \in resources
    /\ resources' = {r \in resources : r.key # k}
    /\ UNCHANGED <<claims, allocations, account, quarantined>>

\* Faulty variant: a claim settles while it still owns a runner.
SettleWithRunner(c, outcome, actual) ==
    /\ claims[c].status \notin {"absent", "settled"}
    /\ ~claims[c].bound
    /\ \/ outcome = "terminal" /\ claims[c].native # None
       \/ outcome = "not_created" /\ claims[c].native = None /\ actual = 0
    /\ claims' = [claims EXCEPT ![c].status = "settled", ![c].actual = actual]
    /\ resources' = {r \in resources : r.claim # c}
    /\ UNCHANGED <<allocations, account, quarantined>>

\* Nothing here asks for an attempted creation: a reserved claim settles too.
Settle(c, outcome, actual) ==
    /\ claims[c].status \notin {"absent", "settled"}
    /\ ~claims[c].bound
    /\ \/ outcome = "terminal" /\ claims[c].native # None
       \/ outcome = "not_created" /\ claims[c].native = None /\ actual = 0
    /\ \A k \in RunnerKeys : [key |-> k, claim |-> c] \notin resources
    /\ claims' = [claims EXCEPT ![c].status = "settled", ![c].actual = actual]
    /\ resources' = {r \in resources : r.claim # c}
    /\ UNCHANGED <<allocations, account, quarantined>>

CloseAllocation(a) ==
    /\ allocations[a].spec # None
    /\ ~allocations[a].closed
    /\ ClaimsOf(a) \cap HeldClaims = {}
    /\ allocations' = [allocations EXCEPT ![a].closed = TRUE]
    /\ UNCHANGED <<claims, resources, account, quarantined>>

-------------------------------------------------------------------------------
(* The environment: time passes and other maintenance runs. *)

\* The account observation ages out, or one of its windows resets.
AccountLapses ==
    /\ account = "fit"
    /\ account' = "unfit"
    /\ UNCHANGED <<claims, resources, allocations, quarantined>>

UsageLapses(a) ==
    /\ allocations[a].usage # None
    /\ allocations[a].usage.fresh
    /\ allocations' = [allocations EXCEPT ![a].usage.fresh = FALSE]
    /\ UNCHANGED <<claims, resources, account, quarantined>>

\* adoption.finish publishes the platform fence, before the import finds out
\* whether the store is empty: it may rise over claims, and nothing lowers it.
Quarantine ==
    /\ ~quarantined
    /\ quarantined' = TRUE
    /\ UNCHANGED <<claims, resources, allocations, account>>

KernelInit ==
    /\ claims = [c \in Claims |-> NoClaim]
    /\ resources = {}
    /\ allocations = [a \in Allocations |-> [spec |-> None, closed |-> FALSE, usage |-> None]]
    /\ account = "unknown"
    /\ quarantined = FALSE

ClaimStep(c) ==
    \/ \E a \in Allocations, repos \in SUBSET Repositories, e \in Estimates, b \in Bindings :
            ReserveIn(c, a, repos, e, b)
    \/ BeginIn(c)
    \/ \E n \in Natives : Bind(c, n)
    \/ Block(c)
    \/ \E k \in RunnerKeys : AcquireRunner(c, k) \/ ReleaseRunner(c, k)
    \/ \E o \in {"terminal", "not_created"}, t \in Totals : Settle(c, o, t)

AllocationStep(a) ==
    \/ \E s \in Specs : OpenAllocation(a, s)
    \/ \E t \in Totals, full \in BOOLEAN, inc \in SUBSET Claims : ObserveUsage(a, t, full, inc)
    \/ UsageLapses(a)
    \/ CloseAllocation(a)

KernelNext ==
    \/ \E c \in Claims : ClaimStep(c)
    \/ \E a \in Allocations : AllocationStep(a)
    \/ \E v \in {"fit", "unfit"} : ObserveAccount(v)
    \/ AccountLapses
    \/ Quarantine

KernelSpec == KernelInit /\ [][KernelNext]_kernelVars

-------------------------------------------------------------------------------
(* Properties. *)

\* Every table holds rows of its shape (admission.py, schema and records).
KernelTypeOK ==
    /\ claims \in [Claims -> ClaimRecords]
    /\ resources \subseteq [key : Keys, claim : Claims]
    /\ allocations \in [Allocations -> AllocationRecords]
    /\ account \in {"unknown", "fit", "unfit"}
    /\ quarantined \in BOOLEAN

\* The claim row tells how far its attempt got: a claim that was admitted has a
\* phase and keys to own, the creation boundary is on record before anything
\* native is, and a claim is only called running or blocked with a native task.
ClaimsCoherent ==
    \A c \in Claims :
        /\ claims[c].status # "absent" =>
                /\ claims[c].allocation \in Allocations
                /\ allocations[claims[c].allocation].spec # None
                /\ ScopeKeys(claims[c].allocation, claims[c].repositories) # {}
        /\ claims[c].status = "absent" => claims[c].allocation = None
        /\ claims[c].status \in {"starting", "running", "uncertain", "blocked"} => claims[c].started
        /\ claims[c].status \in {"absent", "reserved"} => ~claims[c].started
        /\ claims[c].status \in {"running", "blocked"} => claims[c].native # None
        /\ claims[c].native # None => claims[c].started

\* No key is ever owned twice, although repositories alias each other through
\* shared remote keys: the insert never meets the table's primary key.
ExclusiveOwnership ==
    \A r, x \in resources : r.key = x.key => r.claim = x.claim

\* A held claim owns exactly the repository keys of its scope, from before its
\* creation boundary until its settlement, and any other claim owns nothing;
\* a runner key is owned only by a claim whose native task is bound.
OwnershipFollowsClaim ==
    \A c \in Claims :
        /\ KeysOwned(c) \cap RepoKeys =
                IF claims[c].status \in Held
                    THEN ScopeKeys(claims[c].allocation, claims[c].repositories) ELSE {}
        /\ KeysOwned(c) \cap RunnerKeys # {} =>
                claims[c].status \in {"running", "blocked"} /\ claims[c].native # None

\* The slots are never oversubscribed: platform-wide, per allocation, and over
\* all attempts of a phase, the settled ones included.
SlotsBounded ==
    /\ Cardinality(HeldClaims) <= MaxParallelTasks
    /\ \A a \in Allocations : allocations[a].spec # None =>
            /\ Cardinality(ClaimsOf(a) \cap HeldClaims) <= allocations[a].spec.maxParallelTasks
            /\ Cardinality(ClaimsOf(a)) <= allocations[a].spec.maxTasks

\* A native task belongs to one claim for ever, settled claims included.
NativeBelongsOnce ==
    \A c, d \in Claims :
        c # d /\ claims[c].native # None => claims[c].native # claims[d].native

\* A closed allocation holds no work, and a workspace has one open allocation.
ClosedPhaseIsIdle ==
    /\ \A a \in Allocations : allocations[a].closed => ClaimsOf(a) \cap HeldClaims = {}
    /\ \A a, b \in Allocations :
            /\ a # b
            /\ allocations[a].spec # None /\ ~allocations[a].closed
            /\ allocations[b].spec # None /\ ~allocations[b].closed
            => allocations[a].spec.workspace # allocations[b].spec.workspace

\* Incorporating settlements into an observation never loses their tokens:
\* what is deducted always covers the tokens of every settled claim.
SettledTokensCounted ==
    \A a \in Allocations :
        Spent(a) + Unincorporated(a) >= SumFunctionOnSet(Actual, Settled(a))

\* Work that is admitted or started leaves the checkpoint reserve untouched,
\* counting every estimate that is still held.
ReserveProtected ==
    [][\A c \in Claims :
        claims[c].status # claims'[c].status /\ claims'[c].status \in {"reserved", "starting"}
            => LET a == claims'[c].allocation
                   live == {d \in Claims : claims'[d].allocation = a /\ claims'[d].status \in Held}
                   spent == Spent(a) + Unincorporated(a)
               IN  SumFunctionOnSet(Estimate', live) + spent
                        + allocations[a].spec.checkpointReserve <= allocations[a].spec.tokenBudget
      ]_kernelVars

\* Once the platform is quarantined nothing new is owned and nothing starts.
QuarantineFreezes ==
    [][quarantined =>
        /\ resources' \subseteq resources
        /\ \A c \in Claims : claims'[c].started = claims[c].started]_kernelVars

\* A runner key is given up only by an explicit release of that runner, never
\* as a side effect of settling its claim.
RunnerOutlivesSettlement ==
    [][\A r \in resources \ resources' :
        r.key \in RunnerKeys => claims'[r.claim] = claims[r.claim]]_kernelVars

\* Where a claim stands in the lease protocol.
LeasePhase(c) ==
    CASE claims[c].status = "absent" -> "none"
      [] claims[c].status = "settled" -> "done"
      [] OTHER -> "held"

Lease ==
    INSTANCE ResourceLease WITH
        Attempts <- Claims,
        phase <- [c \in Claims |-> LeasePhase(c)],
        holds <- [c \in Claims |-> KeysOwned(c)],
        begun <- {c \in Claims : claims[c].started}

\* The kernel implements the lease protocol: in particular the creation
\* boundary is crossed at most once, and an ended attempt never owns again.
LeaseSpec == Lease!Spec
===============================================================================
