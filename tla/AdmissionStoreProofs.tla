------------------------- MODULE AdmissionStoreProofs -------------------------
(***************************************************************************)
(* Theorems about the admission kernel, for any sets of claims,            *)
(* allocations and keys and any policy the kernel's assumptions allow.     *)
(***************************************************************************)
EXTENDS AdmissionStore, SumTheorems, TLAPS

\* What the provers need to know of the constants.
LEMMA ConstantFacts ==
    /\ \A s \in Specs : s \in SpecRecords
    /\ \A e \in Estimates : e \in Nat
    /\ \A t \in Totals : t \in Nat
    /\ \A b \in Bindings : b \in BOOLEAN
    /\ \A n \in Natives : n # None
    /\ \A a \in Allocations : a # None
    /\ None \notin Specs
    /\ RepoKeys \cap RunnerKeys = {}
BY SpecAssumption, NumberAssumption, NoneAssumption

-------------------------------------------------------------------------------
(* Type correctness. *)

\* The freshly created database (admission.py, AdmissionStore.__init__) has rows
\* of their shapes: none.
THEOREM InitTypeOK == KernelInit => KernelTypeOK
<1> SUFFICES ASSUME KernelInit PROVE KernelTypeOK
    OBVIOUS
<1>1. NoClaim \in ClaimRecords
    BY DEF NoClaim, ClaimRecords
<1>2. [spec |-> None, closed |-> FALSE, usage |-> None] \in AllocationRecords
    BY DEF AllocationRecords
<1> QED BY <1>1, <1>2 DEF KernelInit, KernelTypeOK

\* A step of one claim keeps the tables in shape.
LEMMA ClaimStepTypeOK ==
    ASSUME KernelTypeOK, NEW c \in Claims, ClaimStep(c)
    PROVE  KernelTypeOK'
<1> USE DEF KernelTypeOK, ClaimRecords, Held
<1>1. ASSUME NEW a \in Allocations, NEW repos \in SUBSET Repositories,
             NEW e \in Estimates, NEW b \in Bindings, ReserveIn(c, a, repos, e, b)
      PROVE  KernelTypeOK'
    <2>1. ScopeKeys(a, repos) \subseteq RepoKeys
        <3>1. allocations[a].spec \in SpecRecords
            BY <1>1, ConstantFacts DEF ReserveIn, AllocationRecords
        <3> QED BY <3>1 DEF ScopeKeys, SpecRecords
    <2>2. claims' \in [Claims -> ClaimRecords]
        BY <1>1, ConstantFacts DEF ReserveIn, NoClaim
    <2>3. resources' \subseteq [key : Keys, claim : Claims]
        BY <1>1, <2>1 DEF ReserveIn, Keys
    <2> QED BY <1>1, <2>2, <2>3 DEF ReserveIn
<1>2. CASE BeginIn(c)
    <2>1. claims[c] \in ClaimRecords
        OBVIOUS
    <2>2. [claims[c] EXCEPT !.status = "starting", !.started = TRUE] \in ClaimRecords
        BY <2>1
    <2> QED BY <1>2, <2>2 DEF BeginIn
<1>3. ASSUME NEW n \in Natives, Bind(c, n) PROVE KernelTypeOK'
    BY <1>3 DEF Bind
<1>4. CASE Block(c)
    BY <1>4 DEF Block
<1>5. ASSUME NEW k \in RunnerKeys, AcquireRunner(c, k) PROVE KernelTypeOK'
    BY <1>5 DEF AcquireRunner, Keys
<1>6. ASSUME NEW k \in RunnerKeys, ReleaseRunner(c, k) PROVE KernelTypeOK'
    BY <1>6 DEF ReleaseRunner
<1>7. ASSUME NEW o \in {"terminal", "not_created"}, NEW t \in Totals, Settle(c, o, t)
      PROVE  KernelTypeOK'
    <2>1. t \in Nat /\ claims[c] \in ClaimRecords
        BY ConstantFacts
    <2>2. [claims[c] EXCEPT !.status = "settled", !.actual = t] \in ClaimRecords
        BY <2>1
    <2> QED BY <1>7, <2>2 DEF Settle
<1> QED BY <1>1, <1>2, <1>3, <1>4, <1>5, <1>6, <1>7 DEF ClaimStep

\* So does a step of one allocation.
LEMMA AllocationStepTypeOK ==
    ASSUME KernelTypeOK, NEW a \in Allocations, AllocationStep(a)
    PROVE  KernelTypeOK'
<1> USE DEF KernelTypeOK, AllocationRecords
<1>1. ASSUME NEW s \in Specs, OpenAllocation(a, s) PROVE KernelTypeOK'
    BY <1>1 DEF OpenAllocation
<1>2. ASSUME NEW t \in Totals, NEW full \in BOOLEAN, NEW inc \in SUBSET Claims,
             ObserveUsage(a, t, full, inc)
      PROVE  KernelTypeOK'
    BY <1>2 DEF ObserveUsage, UsageRecords
<1>3. CASE UsageLapses(a)
    <2>1. allocations[a].usage \in UsageRecords BY <1>3 DEF UsageLapses
    <2>2. [allocations[a].usage EXCEPT !.fresh = FALSE] \in UsageRecords
        BY <2>1 DEF UsageRecords
    <2> QED BY <1>3, <2>2 DEF UsageLapses
<1>4. CASE CloseAllocation(a)
    BY <1>4 DEF CloseAllocation
<1> QED BY <1>1, <1>2, <1>3, <1>4 DEF AllocationStep

\* No operation of the kernel writes a row of another shape.
LEMMA StepTypeOK == KernelTypeOK /\ [KernelNext]_kernelVars => KernelTypeOK'
<1> SUFFICES ASSUME KernelTypeOK, [KernelNext]_kernelVars PROVE KernelTypeOK'
    OBVIOUS
<1>1. CASE \E c \in Claims : ClaimStep(c)
    BY <1>1, ClaimStepTypeOK
<1>2. CASE \E a \in Allocations : AllocationStep(a)
    BY <1>2, AllocationStepTypeOK
<1>3. CASE \E v \in {"fit", "unfit"} : ObserveAccount(v)
    BY <1>3 DEF ObserveAccount, KernelTypeOK
<1>4. CASE AccountLapses
    BY <1>4 DEF AccountLapses, KernelTypeOK
<1>5. CASE Quarantine
    BY <1>5 DEF Quarantine, KernelTypeOK
<1>6. CASE UNCHANGED kernelVars
    BY <1>6 DEF kernelVars, KernelTypeOK
<1> QED BY <1>1, <1>2, <1>3, <1>4, <1>5, <1>6 DEF KernelNext

\* Every table of the shared store keeps rows of its shape (admission.py).
THEOREM TypeCorrect == KernelSpec => []KernelTypeOK
BY InitTypeOK, StepTypeOK, PTL DEF KernelSpec

-------------------------------------------------------------------------------
(* Frames: what a step leaves alone. *)

\* The content of an allocation is never changed once it is pinned.
LEMMA SpecsPinned ==
    ASSUME KernelTypeOK, [KernelNext]_kernelVars
    PROVE  \A a \in Allocations :
                allocations[a].spec # None => allocations'[a].spec = allocations[a].spec
<1>1. CASE \E c \in Claims : ClaimStep(c)
    <2>1. UNCHANGED allocations
        BY <1>1 DEF ClaimStep, ReserveIn, BeginIn, Bind, Block, AcquireRunner, ReleaseRunner,
                    Settle
    <2> QED BY <2>1
<1>2. ASSUME NEW a \in Allocations, AllocationStep(a)
      PROVE  \A b \in Allocations :
                allocations[b].spec # None => allocations'[b].spec = allocations[b].spec
    <2>1. allocations \in [Allocations -> AllocationRecords]
        BY DEF KernelTypeOK
    <2>2. CASE \E s \in Specs : OpenAllocation(a, s)
        BY <2>1, <2>2 DEF OpenAllocation
    <2>3. CASE \E t \in Totals, full \in BOOLEAN, inc \in SUBSET Claims :
                ObserveUsage(a, t, full, inc)
        BY <2>1, <2>3 DEF ObserveUsage, AllocationRecords
    <2>4. CASE UsageLapses(a)
        BY <2>1, <2>4 DEF UsageLapses, AllocationRecords
    <2>5. CASE CloseAllocation(a)
        BY <2>1, <2>5 DEF CloseAllocation, AllocationRecords
    <2> QED BY <1>2, <2>2, <2>3, <2>4, <2>5 DEF AllocationStep
<1>3. CASE UNCHANGED allocations
    BY <1>3
<1> QED BY <1>1, <1>2, <1>3
        DEF KernelNext, ObserveAccount, AccountLapses, Quarantine, kernelVars

\* Only ClaimStep touches claims and resources.
LEMMA OtherStepsFrame ==
    ASSUME [KernelNext]_kernelVars, ~ \E c \in Claims : ClaimStep(c)
    PROVE  UNCHANGED <<claims, resources>>
BY DEF KernelNext, AllocationStep, OpenAllocation, ObserveUsage, UsageLapses, CloseAllocation,
       ObserveAccount, AccountLapses, Quarantine, kernelVars

\* A step of one claim leaves every other claim and its keys alone.
LEMMA ClaimStepFrame ==
    ASSUME KernelTypeOK, ExclusiveOwnership, NEW c \in Claims, ClaimStep(c)
    PROVE  /\ \A d \in Claims \ {c} : claims'[d] = claims[d]
           /\ \A r : r.claim # c => (r \in resources' <=> r \in resources)
           /\ UNCHANGED allocations
<1>1. claims \in [Claims -> ClaimRecords] BY DEF KernelTypeOK
<1>2. \A d \in Claims \ {c} : claims'[d] = claims[d]
    BY <1>1 DEF ClaimStep, ReserveIn, BeginIn, Bind, Block, AcquireRunner, ReleaseRunner, Settle
<1>3. UNCHANGED allocations
    BY DEF ClaimStep, ReserveIn, BeginIn, Bind, Block, AcquireRunner, ReleaseRunner, Settle
<1>4. ASSUME NEW k \in RunnerKeys, ReleaseRunner(c, k), NEW r, r.claim # c
      PROVE  r \in resources' <=> r \in resources
    <2>1. [key |-> k, claim |-> c] \in resources
        BY <1>4 DEF ReleaseRunner
    <2>2. ASSUME r \in resources PROVE r.key # k
        BY <1>4, <2>1, <2>2 DEF ExclusiveOwnership
    <2> QED BY <1>4, <2>2 DEF ReleaseRunner
<1>5. ASSUME NEW o, NEW t, Settle(c, o, t), NEW r, r.claim # c
      PROVE  r \in resources' <=> r \in resources
    BY <1>5 DEF Settle
<1>6. ASSUME NEW a, NEW repos, NEW e, NEW b, ReserveIn(c, a, repos, e, b), NEW r, r.claim # c
      PROVE  r \in resources' <=> r \in resources
    BY <1>6 DEF ReserveIn
<1>7. ASSUME NEW k, AcquireRunner(c, k), NEW r, r.claim # c
      PROVE  r \in resources' <=> r \in resources
    BY <1>7 DEF AcquireRunner
<1>8. ASSUME NEW r, r.claim # c PROVE r \in resources' <=> r \in resources
    BY <1>4, <1>5, <1>6, <1>7, <1>8 DEF ClaimStep, BeginIn, Bind, Block
<1> QED BY <1>2, <1>3, <1>8

-------------------------------------------------------------------------------
(* Claims tell how far their attempts got. *)

Coherent(x) ==
    /\ x.status \in {"starting", "running", "uncertain", "blocked"} => x.started
    /\ x.status \in {"absent", "reserved"} => ~x.started
    /\ x.status \in {"running", "blocked"} => x.native # None
    /\ x.native # None => x.started
    /\ x.status = "absent" => x.allocation = None

Admitted(x) ==
    x.status # "absent" =>
        /\ x.allocation \in Allocations
        /\ allocations[x.allocation].spec # None
        /\ ScopeKeys(x.allocation, x.repositories) # {}

\* ClaimsCoherent, split in what a claim row says of itself and what it says of
\* its allocation.
LEMMA CoherentParts == ClaimsCoherent <=> \A c \in Claims : Coherent(claims[c]) /\ Admitted(claims[c])
BY DEF ClaimsCoherent, Coherent, Admitted

\* The claim that steps stays coherent, whatever the operation.
LEMMA StepKeepsCoherent ==
    ASSUME KernelTypeOK, NEW c \in Claims, ClaimStep(c), Coherent(claims[c])
    PROVE  Coherent(claims'[c])
<1> USE DEF Coherent
<1>0. claims \in [Claims -> ClaimRecords] /\ claims[c] \in ClaimRecords
    BY DEF KernelTypeOK
<1>1. ASSUME NEW a, NEW repos, NEW e, NEW b, ReserveIn(c, a, repos, e, b)
      PROVE  Coherent(claims'[c])
    BY <1>0, <1>1 DEF ReserveIn, NoClaim
<1>2. CASE BeginIn(c)
    BY <1>0, <1>2 DEF BeginIn, ClaimRecords
<1>3. ASSUME NEW n \in Natives, Bind(c, n) PROVE Coherent(claims'[c])
    BY <1>0, <1>3, ConstantFacts DEF Bind, ClaimRecords
<1>4. CASE Block(c)
    BY <1>0, <1>4 DEF Block, ClaimRecords
<1>5. ASSUME NEW o, NEW t, Settle(c, o, t) PROVE Coherent(claims'[c])
    BY <1>0, <1>5 DEF Settle, ClaimRecords
<1>6. ASSUME NEW k, AcquireRunner(c, k) \/ ReleaseRunner(c, k) PROVE Coherent(claims'[c])
    BY <1>6 DEF AcquireRunner, ReleaseRunner
<1> QED BY <1>1, <1>2, <1>3, <1>4, <1>5, <1>6 DEF ClaimStep

\* An admitted claim keeps its allocation and its scope for ever.
LEMMA StepKeepsScope ==
    ASSUME KernelTypeOK, NEW c \in Claims, ClaimStep(c), claims[c].status # "absent"
    PROVE  /\ claims'[c].status # "absent"
           /\ claims'[c].allocation = claims[c].allocation
           /\ claims'[c].repositories = claims[c].repositories
           /\ claims'[c].status \in Held => claims[c].status \in Held
<1>0. claims \in [Claims -> ClaimRecords] /\ claims[c] \in ClaimRecords
    BY DEF KernelTypeOK
<1>1. ~ \E a, repos, e, b : ReserveIn(c, a, repos, e, b)
    BY DEF ReserveIn
<1>2. CASE BeginIn(c)
    BY <1>0, <1>2 DEF BeginIn, ClaimRecords, Held
<1>3. ASSUME NEW n, Bind(c, n) PROVE claims'[c] = [claims[c] EXCEPT !.status = "running", !.native = n]
    BY <1>0, <1>3 DEF Bind
<1>4. CASE Block(c)
    BY <1>0, <1>4 DEF Block, ClaimRecords, Held
<1>5. ASSUME NEW o, NEW t, Settle(c, o, t)
      PROVE  claims'[c] = [claims[c] EXCEPT !.status = "settled", !.actual = t]
    BY <1>0, <1>5 DEF Settle
<1>6. ASSUME NEW k, AcquireRunner(c, k) \/ ReleaseRunner(c, k) PROVE claims' = claims
    BY <1>6 DEF AcquireRunner, ReleaseRunner
<1>7. ASSUME NEW n, Bind(c, n) PROVE claims[c].status \in Held
    BY <1>7 DEF Bind, Held
<1> QED BY <1>0, <1>1, <1>2, <1>3, <1>4, <1>5, <1>6, <1>7 DEF ClaimStep, ClaimRecords, Held

\* No operation leaves a claim row that contradicts how far its attempt got.
LEMMA StepCoherent ==
    ASSUME KernelTypeOK, ExclusiveOwnership, ClaimsCoherent, [KernelNext]_kernelVars
    PROVE  ClaimsCoherent'
<1>1. ASSUME NEW d \in Claims, claims'[d].status # "absent", claims[d].status # "absent",
             claims'[d].allocation = claims[d].allocation,
             claims'[d].repositories = claims[d].repositories
      PROVE  Admitted(claims[d])'
    <2>1. /\ claims[d].allocation \in Allocations
          /\ allocations[claims[d].allocation].spec # None
          /\ ScopeKeys(claims[d].allocation, claims[d].repositories) # {}
        BY <1>1 DEF ClaimsCoherent
    <2>2. allocations'[claims[d].allocation].spec = allocations[claims[d].allocation].spec
        BY <2>1, SpecsPinned
    <2> QED BY <1>1, <2>1, <2>2 DEF Admitted, ScopeKeys
<1>2. ASSUME NEW c \in Claims, ClaimStep(c), NEW d \in Claims
      PROVE  (Coherent(claims[d]) /\ Admitted(claims[d]))'
    <2>1. Coherent(claims[d]) /\ Admitted(claims[d])
        BY CoherentParts
    <2>2. CASE d # c
        <3>1. claims'[d] = claims[d] /\ UNCHANGED allocations
            BY <1>2, <2>2, ClaimStepFrame
        <3> QED BY <2>1, <3>1 DEF Coherent, Admitted, ScopeKeys
    <2>3. CASE d = c /\ claims[c].status # "absent"
        BY <1>1, <1>2, <2>1, <2>3, StepKeepsScope, StepKeepsCoherent
    <2>4. CASE d = c /\ claims[c].status = "absent"
        <3>1. PICK a \in Allocations, repos \in SUBSET Repositories, e \in Estimates, b \in Bindings :
                    ReserveIn(c, a, repos, e, b)
            BY <1>2, <2>4 DEF ClaimStep, BeginIn, Bind, Block, AcquireRunner, ReleaseRunner, Settle
        <3>2. claims'[c].allocation = a /\ claims'[c].repositories = repos
            BY <3>1 DEF ReserveIn, NoClaim, KernelTypeOK
        <3>3. ScopeKeys(a, repos) # {}
            BY <3>1 DEF ReserveIn, CheckCapacity, ScopeKeys
        <3>4. allocations' = allocations /\ allocations[a].spec # None
            BY <3>1 DEF ReserveIn
        <3>5. Admitted(claims[c])'
            BY <3>2, <3>3, <3>4 DEF Admitted, ScopeKeys
        <3> QED BY <1>2, <2>1, <2>4, <3>5, StepKeepsCoherent
    <2> QED BY <2>2, <2>3, <2>4
<1>3. ASSUME ~ \E c \in Claims : ClaimStep(c), NEW d \in Claims
      PROVE  (Coherent(claims[d]) /\ Admitted(claims[d]))'
    <2>1. claims' = claims
        BY <1>3, OtherStepsFrame
    <2>2. Coherent(claims[d]) /\ Admitted(claims[d])
        BY CoherentParts
    <2>3. claims[d].status = "absent" => Admitted(claims[d])'
        BY <2>1 DEF Admitted
    <2>4. claims[d].status # "absent" => Admitted(claims[d])'
        BY <1>1, <2>1
    <2> QED BY <2>1, <2>2, <2>3, <2>4 DEF Coherent
<1>4. (\A d \in Claims : Coherent(claims[d]) /\ Admitted(claims[d]))'
    BY <1>2, <1>3
<1> QED BY <1>4 DEF ClaimsCoherent, Coherent, Admitted

-------------------------------------------------------------------------------
(* Ownership. *)

\* Rows are only added for keys that had no row, all of them to one claim.
LEMMA StepExclusive ==
    ASSUME KernelTypeOK, ExclusiveOwnership, [KernelNext]_kernelVars
    PROVE  ExclusiveOwnership'
<1> USE DEF ExclusiveOwnership
<1>1. ASSUME NEW c \in Claims, ClaimStep(c) PROVE ExclusiveOwnership'
    <2>1. ASSUME NEW a, NEW repos, NEW e, NEW b, ReserveIn(c, a, repos, e, b)
          PROVE  ExclusiveOwnership'
        <3>1. \A r \in resources : r.key \notin ScopeKeys(a, repos)
            BY <2>1 DEF ReserveIn, CheckCapacity, Owned
        <3> QED BY <2>1, <3>1 DEF ReserveIn
    <2>2. ASSUME NEW k, AcquireRunner(c, k) PROVE ExclusiveOwnership'
        BY <2>2 DEF AcquireRunner, Owned
    <2>3. ASSUME NEW k, ReleaseRunner(c, k) PROVE ExclusiveOwnership'
        BY <2>3 DEF ReleaseRunner
    <2>4. ASSUME NEW o, NEW t, Settle(c, o, t) PROVE ExclusiveOwnership'
        BY <2>4 DEF Settle
    <2>5. CASE UNCHANGED resources
        BY <2>5
    <2> QED BY <1>1, <2>1, <2>2, <2>3, <2>4, <2>5 DEF ClaimStep, BeginIn, Bind, Block
<1>2. CASE ~ \E c \in Claims : ClaimStep(c)
    BY <1>2, OtherStepsFrame
<1> QED BY <1>1, <1>2

\* New rows of a claim add exactly their keys to what it owns.
LEMMA RowsAdded ==
    ASSUME NEW c, NEW K, resources' = resources \cup {[key |-> k, claim |-> c] : k \in K}
    PROVE  KeysOwned(c)' = KeysOwned(c) \cup K
<1>1. ASSUME NEW k \in KeysOwned(c)' PROVE k \in KeysOwned(c) \cup K
    BY <1>1 DEF KeysOwned
<1>2. ASSUME NEW k \in KeysOwned(c) PROVE k \in KeysOwned(c)'
    BY <1>2 DEF KeysOwned
<1>3. ASSUME NEW k \in K PROVE k \in KeysOwned(c)'
    <2>1. [key |-> k, claim |-> c] \in resources'
        BY <1>3
    <2>2. \A x \in resources' : x.claim = c => x.key \in KeysOwned(c)'
        BY DEF KeysOwned
    <2> QED BY <2>1, <2>2
<1> QED BY <1>1, <1>2, <1>3

\* What OwnershipFollowsClaim says of one claim.
OwnsItsScope(c) ==
    /\ KeysOwned(c) \cap RepoKeys =
            IF claims[c].status \in Held
                THEN ScopeKeys(claims[c].allocation, claims[c].repositories) ELSE {}
    /\ KeysOwned(c) \cap RunnerKeys # {} =>
            claims[c].status \in {"running", "blocked"} /\ claims[c].native # None

\* The scope of an admitted claim consists of repository keys.
LEMMA ScopeOfRepoKeys ==
    ASSUME KernelTypeOK, NEW a \in Allocations, allocations[a].spec # None,
           NEW repos \in SUBSET Repositories
    PROVE  ScopeKeys(a, repos) \subseteq RepoKeys
<1>1. allocations[a].spec \in SpecRecords
    BY ConstantFacts DEF KernelTypeOK, AllocationRecords
<1> QED BY <1>1 DEF ScopeKeys, SpecRecords

\* A claim that steps still owns exactly the keys of its scope, or none.
LEMMA StepOwnsItsScope ==
    ASSUME KernelTypeOK, ExclusiveOwnership, ClaimsCoherent,
           NEW c \in Claims, OwnsItsScope(c), ClaimStep(c)
    PROVE  OwnsItsScope(c)'
<1>0. /\ claims \in [Claims -> ClaimRecords] /\ claims[c] \in ClaimRecords
      /\ UNCHANGED allocations
    BY ClaimStepFrame DEF KernelTypeOK
<1>1. ASSUME NEW a \in Allocations, NEW repos \in SUBSET Repositories, NEW e, NEW b,
             ReserveIn(c, a, repos, e, b)
      PROVE  OwnsItsScope(c)'
    <2>1. ScopeKeys(a, repos) \subseteq RepoKeys /\ RepoKeys \cap RunnerKeys = {}
        BY <1>1, ScopeOfRepoKeys, ConstantFacts DEF ReserveIn
    <2>2. KeysOwned(c) \cap RepoKeys = {} /\ KeysOwned(c) \cap RunnerKeys = {}
        BY <1>1 DEF OwnsItsScope, ReserveIn, Held
    <2>3. KeysOwned(c)' = KeysOwned(c) \cup ScopeKeys(a, repos)
        BY <1>1, RowsAdded DEF ReserveIn
    <2>4. claims'[c].status = "reserved" /\ claims'[c].allocation = a
          /\ claims'[c].repositories = repos
        BY <1>0, <1>1 DEF ReserveIn, NoClaim
    <2> QED BY <1>0, <2>1, <2>2, <2>3, <2>4 DEF OwnsItsScope, ScopeKeys, Held
<1>2. ASSUME claims[c].status # "absent", UNCHANGED resources,
             claims'[c].status \in Held, claims[c].status \in Held,
             KeysOwned(c) \cap RunnerKeys # {} =>
                claims'[c].status \in {"running", "blocked"} /\ claims'[c].native # None
      PROVE  OwnsItsScope(c)'
    BY <1>0, <1>2, StepKeepsScope DEF OwnsItsScope, KeysOwned, ScopeKeys
<1>3. CASE BeginIn(c)
    <2>1. KeysOwned(c) \cap RunnerKeys = {}
        BY <1>3 DEF BeginIn, OwnsItsScope
    <2> QED BY <1>0, <1>2, <1>3, <2>1 DEF BeginIn, ClaimRecords, Held
<1>4. ASSUME NEW n \in Natives, Bind(c, n) PROVE OwnsItsScope(c)'
    BY <1>0, <1>2, <1>4, ConstantFacts DEF Bind, ClaimRecords, Held
<1>5. CASE Block(c)
    BY <1>0, <1>2, <1>5 DEF Block, ClaimRecords, Held, OwnsItsScope
<1>6. ASSUME NEW k \in RunnerKeys, AcquireRunner(c, k) PROVE OwnsItsScope(c)'
    <2>1. KeysOwned(c)' = KeysOwned(c) \cup {k}
        <3>1. resources' = resources \cup {[key |-> x, claim |-> c] : x \in {k}}
            BY <1>6 DEF AcquireRunner
        <3> QED BY <3>1, RowsAdded
    <2>2. k \notin RepoKeys
        BY ConstantFacts
    <2>3. claims' = claims /\ claims[c].status = "running" /\ claims[c].native # None
        BY <1>6 DEF AcquireRunner, ClaimsCoherent
    <2> QED BY <1>0, <2>1, <2>2, <2>3 DEF OwnsItsScope, ScopeKeys
<1>7. ASSUME NEW k \in RunnerKeys, ReleaseRunner(c, k) PROVE OwnsItsScope(c)'
    <2>1. KeysOwned(c)' = KeysOwned(c) \ {k}
        BY <1>7 DEF ReleaseRunner, KeysOwned
    <2>2. k \notin RepoKeys
        BY ConstantFacts
    <2>3. claims' = claims
        BY <1>7 DEF ReleaseRunner
    <2> QED BY <1>0, <2>1, <2>2, <2>3 DEF OwnsItsScope, ScopeKeys
<1>8. ASSUME NEW o, NEW t, Settle(c, o, t) PROVE OwnsItsScope(c)'
    <2>1. KeysOwned(c)' = {}
        BY <1>8 DEF Settle, KeysOwned
    <2>2. claims'[c].status = "settled"
        BY <1>0, <1>8 DEF Settle, ClaimRecords
    <2> QED BY <2>1, <2>2 DEF OwnsItsScope, Held
<1> QED BY <1>1, <1>3, <1>4, <1>5, <1>6, <1>7, <1>8 DEF ClaimStep

\* Whatever steps, every claim's keys are those its row entitles it to.
LEMMA StepOwnership ==
    ASSUME KernelTypeOK, ExclusiveOwnership, ClaimsCoherent, OwnershipFollowsClaim,
           [KernelNext]_kernelVars
    PROVE  OwnershipFollowsClaim'
<1>0. \A d \in Claims : OwnsItsScope(d)
    BY DEF OwnershipFollowsClaim, OwnsItsScope
<1>1. ASSUME NEW d \in Claims, claims'[d] = claims[d], KeysOwned(d)' = KeysOwned(d)
      PROVE  OwnsItsScope(d)'
    <2>1. CASE claims[d].status \notin Held
        BY <1>0, <1>1, <2>1 DEF OwnsItsScope
    <2>2. CASE claims[d].status \in Held
        <3>1. claims[d].allocation \in Allocations /\ allocations[claims[d].allocation].spec # None
            BY <2>2 DEF ClaimsCoherent, Held
        <3>2. allocations'[claims[d].allocation].spec = allocations[claims[d].allocation].spec
            BY <3>1, SpecsPinned
        <3> QED BY <1>0, <1>1, <3>2 DEF OwnsItsScope, ScopeKeys
    <2> QED BY <2>1, <2>2
<1>2. ASSUME NEW c \in Claims, ClaimStep(c), NEW d \in Claims PROVE OwnsItsScope(d)'
    <2>1. CASE d = c
        BY <1>0, <1>2, <2>1, StepOwnsItsScope
    <2>2. CASE d # c
        BY <1>1, <1>2, <2>2, ClaimStepFrame DEF KeysOwned
    <2> QED BY <2>1, <2>2
<1>3. ASSUME ~ \E c \in Claims : ClaimStep(c), NEW d \in Claims PROVE OwnsItsScope(d)'
    BY <1>1, <1>3, OtherStepsFrame DEF KeysOwned
<1>4. \A d \in Claims : OwnsItsScope(d)'
    BY <1>2, <1>3
<1> QED BY <1>4 DEF OwnershipFollowsClaim, OwnsItsScope

-------------------------------------------------------------------------------
(* Native identities, phases and slots. *)

\* Binding searches every claim, the settled ones included, so no operation
\* gives a native task to a second claim.
LEMMA StepNativeOnce ==
    ASSUME KernelTypeOK, ExclusiveOwnership, NativeBelongsOnce, [KernelNext]_kernelVars
    PROVE  NativeBelongsOnce'
<1> USE DEF NativeBelongsOnce
<1>1. ASSUME NEW c \in Claims, ClaimStep(c) PROVE NativeBelongsOnce'
    <2>0. claims \in [Claims -> ClaimRecords]
        BY DEF KernelTypeOK
    <2>1. \A d \in Claims \ {c} : claims'[d].native = claims[d].native
        BY <1>1, ClaimStepFrame
    <2>2. ASSUME NEW n \in Natives, Bind(c, n) PROVE NativeBelongsOnce'
        <3>1. claims'[c].native = n /\ \A d \in Claims : claims[d].native # n
            BY <2>0, <2>2 DEF Bind, ClaimRecords
        <3> QED BY <2>1, <3>1
    <2>3. ASSUME NEW a, NEW repos, NEW e, NEW b, ReserveIn(c, a, repos, e, b)
          PROVE  NativeBelongsOnce'
        <3>1. claims'[c].native = None
            BY <2>0, <2>3 DEF ReserveIn, NoClaim
        <3> QED BY <2>1, <3>1
    <2>4. CASE claims'[c].native = claims[c].native
        BY <2>1, <2>4
    <2>5. ASSUME NEW o, NEW t, Settle(c, o, t) PROVE claims'[c].native = claims[c].native
        BY <2>0, <2>5 DEF Settle, ClaimRecords
    <2>6. CASE BeginIn(c) \/ Block(c)
        BY <2>0, <2>4, <2>6 DEF BeginIn, Block, ClaimRecords
    <2> QED BY <1>1, <2>2, <2>3, <2>4, <2>5, <2>6 DEF ClaimStep, AcquireRunner, ReleaseRunner
<1>2. CASE ~ \E c \in Claims : ClaimStep(c)
    BY <1>2, OtherStepsFrame
<1> QED BY <1>1, <1>2

\* A claim that is held after a step was held before, in the same phase, unless
\* the step reserved it.
LEMMA HeldBefore ==
    ASSUME KernelTypeOK, ExclusiveOwnership, [KernelNext]_kernelVars,
           NEW d \in Claims, claims'[d].status \in Held
    PROVE  \/ claims[d].status \in Held /\ claims'[d].allocation = claims[d].allocation
           \/ \E a \in Allocations, repos \in SUBSET Repositories, e \in Estimates, b \in Bindings :
                    ReserveIn(d, a, repos, e, b)
<1>1. ASSUME NEW c \in Claims, ClaimStep(c), d # c
      PROVE  claims'[d] = claims[d]
    BY <1>1, ClaimStepFrame
<1>2. ASSUME ClaimStep(d), claims[d].status # "absent"
      PROVE  claims[d].status \in Held /\ claims'[d].allocation = claims[d].allocation
    BY <1>2, StepKeepsScope
<1>3. ASSUME ClaimStep(d), claims[d].status = "absent"
      PROVE  \E a \in Allocations, repos \in SUBSET Repositories, e \in Estimates, b \in Bindings :
                    ReserveIn(d, a, repos, e, b)
    BY <1>3 DEF ClaimStep, BeginIn, Bind, Block, AcquireRunner, ReleaseRunner, Settle
<1>4. ASSUME ~ \E c \in Claims : ClaimStep(c) PROVE claims'[d] = claims[d]
    BY <1>4, OtherStepsFrame
<1> QED BY <1>1, <1>2, <1>3, <1>4

\* No operation admits work into a closed allocation, and none opens a second
\* allocation for a workspace.
LEMMA StepClosedPhaseIdle ==
    ASSUME KernelTypeOK, ExclusiveOwnership, ClosedPhaseIsIdle, [KernelNext]_kernelVars
    PROVE  ClosedPhaseIsIdle'
<1> DEFINE Open(a) == allocations[a].spec # None /\ ~allocations[a].closed
<1>0. allocations \in [Allocations -> AllocationRecords]
    BY DEF KernelTypeOK
<1>1. ASSUME UNCHANGED allocations PROVE ClosedPhaseIsIdle'
    <2>1. ASSUME NEW a \in Allocations, allocations'[a].closed,
                 NEW d \in Claims, claims'[d].status \in Held, claims'[d].allocation = a
          PROVE  FALSE
        <3>1. claims[d].status \notin Held \/ claims[d].allocation # a
            BY <1>1, <2>1 DEF ClosedPhaseIsIdle, ClaimsOf, HeldClaims
        <3>2. PICK b \in Allocations, repos \in SUBSET Repositories, e \in Estimates, f \in Bindings :
                    ReserveIn(d, b, repos, e, f)
            BY <2>1, <3>1, HeldBefore
        <3>3. ~allocations[b].closed /\ claims'[d].allocation = b
            BY <3>2 DEF ReserveIn, CheckBudget, NoClaim, KernelTypeOK
        <3> QED BY <1>1, <2>1, <3>3
    <2>2. \A a \in Allocations : allocations'[a].closed => (ClaimsOf(a) \cap HeldClaims = {})'
        BY <2>1 DEF ClaimsOf, HeldClaims
    <2> QED BY <1>1, <2>2 DEF ClosedPhaseIsIdle
<1>2. ASSUME NEW a \in Allocations, NEW s \in Specs, OpenAllocation(a, s)
      PROVE  ClosedPhaseIsIdle'
    <2>1. claims' = claims /\ \A b \in Allocations : allocations'[b].closed = allocations[b].closed
        BY <1>0, <1>2 DEF OpenAllocation, AllocationRecords
    <2>2. allocations'[a].spec = s /\ \A b \in Allocations \ {a} : allocations'[b] = allocations[b]
        BY <1>0, <1>2 DEF OpenAllocation, AllocationRecords
    <2>3. \A b \in Allocations : Open(b) => allocations[b].spec.workspace # s.workspace
        BY <1>2 DEF OpenAllocation
    <2> QED BY <2>1, <2>2, <2>3 DEF ClosedPhaseIsIdle, ClaimsOf, HeldClaims
<1>3. ASSUME NEW a \in Allocations, CloseAllocation(a) PROVE ClosedPhaseIsIdle'
    <2>1. /\ claims' = claims
          /\ \A b \in Allocations \ {a} : allocations'[b] = allocations[b]
          /\ allocations'[a].closed
          /\ ClaimsOf(a) \cap HeldClaims = {}
        BY <1>0, <1>3 DEF CloseAllocation, AllocationRecords
    <2> QED BY <2>1 DEF ClosedPhaseIsIdle, ClaimsOf, HeldClaims
<1>4. ASSUME NEW a \in Allocations,
             UsageLapses(a) \/ \E t, full, inc : ObserveUsage(a, t, full, inc)
      PROVE  ClosedPhaseIsIdle'
    <2>1. /\ claims' = claims
          /\ \A b \in Allocations : /\ allocations'[b].spec = allocations[b].spec
                                    /\ allocations'[b].closed = allocations[b].closed
        <3>1. CASE UsageLapses(a)
            BY <1>0, <3>1 DEF UsageLapses, AllocationRecords
        <3>2. ASSUME NEW t, NEW full, NEW inc, ObserveUsage(a, t, full, inc)
              PROVE  /\ claims' = claims
                     /\ \A b \in Allocations : /\ allocations'[b].spec = allocations[b].spec
                                               /\ allocations'[b].closed = allocations[b].closed
            BY <1>0, <3>2 DEF ObserveUsage, AllocationRecords
        <3> QED BY <1>4, <3>1, <3>2
    <2> QED BY <2>1 DEF ClosedPhaseIsIdle, ClaimsOf, HeldClaims
<1>5. CASE \E c \in Claims : ClaimStep(c)
    BY <1>1, <1>5, ClaimStepFrame
<1>6. CASE \E a \in Allocations : AllocationStep(a)
    BY <1>2, <1>3, <1>4, <1>6 DEF AllocationStep
<1>7. CASE (\E v \in {"fit", "unfit"} : ObserveAccount(v)) \/ AccountLapses \/ Quarantine
           \/ UNCHANGED kernelVars
    BY <1>1, <1>7 DEF ObserveAccount, AccountLapses, Quarantine, kernelVars
<1> QED BY <1>5, <1>6, <1>7 DEF KernelNext

\* A step adds at most one claim to those held, to those of a phase, and to
\* those held in a phase; it adds one only by a reservation.
LEMMA StepSlots ==
    ASSUME KernelTypeOK, ExclusiveOwnership, ClaimsCoherent, SlotsBounded,
           [KernelNext]_kernelVars
    PROVE  SlotsBounded'
<1>0. /\ IsFiniteSet(HeldClaims)
      /\ \A a \in Allocations : IsFiniteSet(ClaimsOf(a)) /\ IsFiniteSet(ClaimsOf(a) \cap HeldClaims)
    BY FiniteAssumption, FS_Subset DEF HeldClaims, ClaimsOf
<1>1. \A a \in Allocations : allocations[a].spec # None => allocations[a].spec \in SpecRecords
    BY ConstantFacts DEF KernelTypeOK, AllocationRecords
<1>2. ASSUME NEW c \in Claims, NEW a \in Allocations, NEW repos, NEW e, NEW b,
             ReserveIn(c, a, repos, e, b)
      PROVE  SlotsBounded'
    <2>1. /\ HeldClaims' = HeldClaims \cup {c}
          /\ ClaimsOf(a)' = ClaimsOf(a) \cup {c}
          /\ (ClaimsOf(a) \cap HeldClaims)' = (ClaimsOf(a) \cap HeldClaims) \cup {c}
          /\ c \notin HeldClaims /\ c \notin ClaimsOf(a)
        BY <1>2, ConstantFacts
           DEF ReserveIn, HeldClaims, ClaimsOf, NoClaim, Held, KernelTypeOK, ClaimsCoherent
    <2>2. \A x \in Allocations \ {a} :
                ClaimsOf(x)' = ClaimsOf(x) /\ (ClaimsOf(x) \cap HeldClaims)' = ClaimsOf(x) \cap HeldClaims
        <3>1. claims'[c].allocation = a /\ \A d \in Claims \ {c} : claims'[d] = claims[d]
            BY <1>2 DEF ReserveIn, NoClaim, KernelTypeOK
        <3>2. claims[c].allocation = None
            BY <1>2 DEF ReserveIn, ClaimsCoherent
        <3> QED BY <3>1, <3>2, ConstantFacts DEF ClaimsOf, HeldClaims
    <2>3. /\ Cardinality(HeldClaims)' = Cardinality(HeldClaims) + 1
          /\ Cardinality(ClaimsOf(a))' = Cardinality(ClaimsOf(a)) + 1
          /\ Cardinality(ClaimsOf(a) \cap HeldClaims)' = Cardinality(ClaimsOf(a) \cap HeldClaims) + 1
        BY <1>0, <2>1, FS_AddElement
    <2>4. /\ Cardinality(HeldClaims) < MaxParallelTasks
          /\ Cardinality(ClaimsOf(a) \cap HeldClaims) < allocations[a].spec.maxParallelTasks
          /\ Cardinality(ClaimsOf(a)) < allocations[a].spec.maxTasks
          /\ allocations' = allocations /\ allocations[a].spec # None
        BY <1>2 DEF ReserveIn, CheckCapacity
    <2>5. /\ Cardinality(HeldClaims) \in Nat /\ MaxParallelTasks \in Nat
          /\ Cardinality(ClaimsOf(a)) \in Nat /\ Cardinality(ClaimsOf(a) \cap HeldClaims) \in Nat
          /\ allocations[a].spec.maxParallelTasks \in Nat /\ allocations[a].spec.maxTasks \in Nat
        BY <1>0, <1>1, <2>4, FS_CardinalityType, NumberAssumption DEF SpecRecords
    <2>6. Cardinality(HeldClaims)' <= MaxParallelTasks
        BY <2>3, <2>4, <2>5
    <2>7. ASSUME NEW x \in Allocations, allocations'[x].spec # None
          PROVE  /\ Cardinality(ClaimsOf(x) \cap HeldClaims)' <= allocations'[x].spec.maxParallelTasks
                 /\ Cardinality(ClaimsOf(x))' <= allocations'[x].spec.maxTasks
        <3>1. CASE x = a
            BY <2>3, <2>4, <2>5, <3>1
        <3>2. CASE x # a
            BY <2>2, <2>4, <2>7, <3>2 DEF SlotsBounded
        <3> QED BY <3>1, <3>2
    <2> QED BY <2>6, <2>7 DEF SlotsBounded
<1>3. ASSUME ~ \E c \in Claims, a \in Allocations, repos \in SUBSET Repositories,
                   e \in Estimates, b \in Bindings : ReserveIn(c, a, repos, e, b),
             \A d \in Claims : claims'[d].allocation = claims[d].allocation
      PROVE  SlotsBounded'
    <2>1. /\ HeldClaims' \in SUBSET HeldClaims
          /\ \A a \in Allocations :
                /\ ClaimsOf(a)' = ClaimsOf(a)
                /\ (ClaimsOf(a) \cap HeldClaims)' \in SUBSET (ClaimsOf(a) \cap HeldClaims)
        <3>1. \A d \in Claims : claims'[d].status \in Held => claims[d].status \in Held
            BY <1>3, HeldBefore
        <3> QED BY <1>3, <3>1 DEF HeldClaims, ClaimsOf
    <2>2. /\ Cardinality(HeldClaims)' <= Cardinality(HeldClaims)
          /\ \A a \in Allocations : Cardinality(ClaimsOf(a) \cap HeldClaims)'
                                        <= Cardinality(ClaimsOf(a) \cap HeldClaims)
        BY <1>0, <2>1, FS_Subset
    <2>3. /\ IsFiniteSet(HeldClaims') /\ Cardinality(HeldClaims)' \in Nat
          /\ Cardinality(HeldClaims) \in Nat
        BY <1>0, <2>1, FS_Subset, FS_CardinalityType
    <2>4. Cardinality(HeldClaims)' <= MaxParallelTasks
        BY <2>2, <2>3, NumberAssumption DEF SlotsBounded
    <2>5. ASSUME NEW a \in Allocations, allocations'[a].spec # None
          PROVE  /\ Cardinality(ClaimsOf(a) \cap HeldClaims)' <= allocations'[a].spec.maxParallelTasks
                 /\ Cardinality(ClaimsOf(a))' <= allocations'[a].spec.maxTasks
        <3>0. /\ Cardinality(ClaimsOf(a) \cap HeldClaims) \in Nat
              /\ Cardinality(ClaimsOf(a) \cap HeldClaims)' \in Nat
              /\ Cardinality(ClaimsOf(a)) \in Nat
            BY <1>0, <2>1, FS_Subset, FS_CardinalityType
        <3>1. CASE allocations[a].spec # None
            <4>1. allocations'[a].spec = allocations[a].spec
                BY <3>1, SpecsPinned
            <4>2. allocations[a].spec.maxParallelTasks \in Nat /\ allocations[a].spec.maxTasks \in Nat
                BY <1>1, <3>1 DEF SpecRecords
            <4>3. /\ Cardinality(ClaimsOf(a) \cap HeldClaims) <= allocations[a].spec.maxParallelTasks
                  /\ Cardinality(ClaimsOf(a)) <= allocations[a].spec.maxTasks
                BY <3>1 DEF SlotsBounded
            <4> QED BY <2>1, <2>2, <3>0, <4>1, <4>2, <4>3
        <3>2. CASE allocations[a].spec = None
            <4>1. ClaimsOf(a) = {}
                BY <3>2, ConstantFacts DEF ClaimsOf, ClaimsCoherent
            <4>2. Cardinality(ClaimsOf(a))' = 0 /\ Cardinality(ClaimsOf(a) \cap HeldClaims)' = 0
                BY <2>1, <4>1, FS_EmptySet
            <4>3. allocations'[a].spec \in SpecRecords
                BY <2>5, StepTypeOK, ConstantFacts DEF KernelTypeOK, AllocationRecords
            <4> QED BY <4>2, <4>3 DEF SpecRecords
        <3> QED BY <3>1, <3>2
    <2> QED BY <2>4, <2>5 DEF SlotsBounded
<1>4. ASSUME ~ \E c \in Claims, a \in Allocations, repos \in SUBSET Repositories,
                   e \in Estimates, b \in Bindings : ReserveIn(c, a, repos, e, b),
             NEW d \in Claims
      PROVE  claims'[d].allocation = claims[d].allocation
    <2>1. ASSUME NEW c \in Claims, ClaimStep(c), d # c PROVE claims'[d] = claims[d]
        BY <2>1, ClaimStepFrame
    <2>2. ASSUME ClaimStep(d) PROVE claims[d].status # "absent"
        BY <1>4, <2>2 DEF ClaimStep, BeginIn, Bind, Block, AcquireRunner, ReleaseRunner, Settle
    <2>3. ASSUME ClaimStep(d) PROVE claims'[d].allocation = claims[d].allocation
        BY <2>2, <2>3, StepKeepsScope
    <2>4. ASSUME ~ \E c \in Claims : ClaimStep(c) PROVE claims' = claims
        BY <2>4, OtherStepsFrame
    <2> QED BY <2>1, <2>3, <2>4
<1> QED BY <1>2, <1>3, <1>4

-------------------------------------------------------------------------------
(* The inductive invariant and its consequences. *)

KernelInv ==
    /\ KernelTypeOK
    /\ ClaimsCoherent
    /\ ExclusiveOwnership
    /\ OwnershipFollowsClaim
    /\ SlotsBounded
    /\ NativeBelongsOnce
    /\ ClosedPhaseIsIdle

\* The inductive invariant holds of the freshly created database.
THEOREM InitKernelInv == KernelInit => KernelInv
<1> SUFFICES ASSUME KernelInit PROVE KernelInv
    OBVIOUS
<1>1. KernelTypeOK
    BY InitTypeOK
<1>2. \A c \in Claims : claims[c] = NoClaim
    BY DEF KernelInit
<1>3. \A a \in Allocations : allocations[a].spec = None /\ ~allocations[a].closed
    BY DEF KernelInit
<1>4. ClaimsCoherent /\ NativeBelongsOnce
    BY <1>2 DEF ClaimsCoherent, NativeBelongsOnce, NoClaim
<1>5. ExclusiveOwnership
    BY DEF KernelInit, ExclusiveOwnership
<1>6. OwnershipFollowsClaim
    <2>1. \A c \in Claims : KeysOwned(c) = {}
        BY DEF KernelInit, KeysOwned
    <2> QED BY <1>2, <2>1 DEF OwnershipFollowsClaim, NoClaim, Held
<1>7. SlotsBounded
    <2>1. HeldClaims = {}
        BY <1>2 DEF HeldClaims, NoClaim, Held
    <2> QED BY <1>3, <2>1, FS_EmptySet, NumberAssumption DEF SlotsBounded
<1>8. ClosedPhaseIsIdle
    BY <1>3 DEF ClosedPhaseIsIdle
<1> QED BY <1>1, <1>4, <1>5, <1>6, <1>7, <1>8 DEF KernelInv

\* Every operation, and every lapse of an observation, preserves the inductive
\* invariant.
THEOREM StepKernelInv == KernelInv /\ [KernelNext]_kernelVars => KernelInv'
BY StepTypeOK, StepCoherent, StepExclusive, StepOwnership, StepSlots, StepNativeOnce,
   StepClosedPhaseIdle DEF KernelInv

\* The conjunction is inductive, so every run keeps it.
THEOREM KernelInvariant == KernelSpec => []KernelInv
BY InitKernelInv, StepKernelInv, PTL DEF KernelSpec

\* A claim's row tells how far its attempt got (admission.py, reserve_in to settle).
THEOREM Coherence == KernelSpec => []ClaimsCoherent
BY KernelInvariant, PTL DEF KernelInv

\* No resource key is ever owned twice (admission.py, check_capacity).
THEOREM Exclusion == KernelSpec => []ExclusiveOwnership
BY KernelInvariant, PTL DEF KernelInv

\* A held claim owns exactly the keys of its scope, and a runner only while its
\* task is bound (admission.py, reserve_in, runner and settle).
THEOREM Ownership == KernelSpec => []OwnershipFollowsClaim
BY KernelInvariant, PTL DEF KernelInv

\* Slots of the platform and of every phase are never oversubscribed.
THEOREM Slots == KernelSpec => []SlotsBounded
BY KernelInvariant, PTL DEF KernelInv

\* A native task never belongs to two claims (admission.py, bind).
THEOREM NativeIdentity == KernelSpec => []NativeBelongsOnce
BY KernelInvariant, PTL DEF KernelInv

\* A closed phase stays without work (admission.py, close_allocation).
THEOREM ClosedPhase == KernelSpec => []ClosedPhaseIsIdle
BY KernelInvariant, PTL DEF KernelInv

-------------------------------------------------------------------------------
(* The kernel implements the lease protocol. *)

\* What a step does to the three variables of the lease, claim by claim.
LEMMA LeaseFrame ==
    ASSUME KernelInv, NEW c \in Claims, ClaimStep(c)
    PROVE  /\ \A d \in Claims \ {c} : /\ LeasePhase(d)' = LeasePhase(d)
                                       /\ KeysOwned(d)' = KeysOwned(d)
                                       /\ claims'[d].started = claims[d].started
<1>1. /\ \A d \in Claims \ {c} : claims'[d] = claims[d]
      /\ \A r : r.claim # c => (r \in resources' <=> r \in resources)
    BY ClaimStepFrame DEF KernelInv
<1> QED BY <1>1 DEF LeasePhase, KeysOwned

\* A claim step that moves no phase, key or start boundary is invisible in the
\* lease protocol.
LEMMA LeaseStutter ==
    ASSUME KernelInv, NEW c \in Claims, ClaimStep(c), LeasePhase(c)' = LeasePhase(c),
           KeysOwned(c)' = KeysOwned(c), claims'[c].started = claims[c].started
    PROVE  UNCHANGED Lease!leaseVars
BY LeaseFrame DEF Lease!leaseVars

\* A key without a row in the resources table is held by no attempt.
LEMMA UnownedIsFree ==
    ASSUME NEW k, ~Owned(k)
    PROVE  Lease!Free(k)
<1>1. \A d \in Claims : k \notin KeysOwned(d)
    BY DEF Owned, KeysOwned
<1> QED BY <1>1 DEF Lease!Free

\* A reservation takes the scope's keys, all of them free, all at once.
LEMMA LeaseTake ==
    ASSUME KernelInv, NEW c \in Claims, ClaimStep(c), NEW a \in Allocations,
           NEW repos \in SUBSET Repositories, NEW e, NEW b, ReserveIn(c, a, repos, e, b)
    PROVE  Lease!Next
<1> DEFINE K == ScopeKeys(a, repos)
<1>1. K \subseteq Keys
    BY ScopeOfRepoKeys DEF ReserveIn, Keys, KernelInv
<1>2. K # {}
    BY DEF ReserveIn, CheckCapacity, ScopeKeys
<1>3. KeysOwned(c) = {}
    <2>1. KeysOwned(c) \subseteq RepoKeys \cup RunnerKeys
        BY DEF KeysOwned, KernelInv, KernelTypeOK, Keys
    <2>2. KeysOwned(c) \cap RepoKeys = {} /\ KeysOwned(c) \cap RunnerKeys = {}
        BY DEF KernelInv, OwnershipFollowsClaim, ReserveIn, Held
    <2> QED BY <2>1, <2>2
<1>4. KeysOwned(c)' = K
    <2>1. resources' = resources \cup {[key |-> k, claim |-> c] : k \in K}
        BY DEF ReserveIn
    <2>2. KeysOwned(c)' = KeysOwned(c) \cup K
        <3> HIDE DEF K
        <3> QED BY <2>1, RowsAdded
    <2> QED BY <1>3, <2>2
<1>5. \A k \in K : Lease!Free(k)
    <2>1. \A k \in K : ~Owned(k)
        BY DEF ReserveIn, CheckCapacity
    <2>2. ASSUME NEW k \in K PROVE Lease!Free(k)
        <3> HIDE DEF K
        <3> QED BY <2>1, <2>2, UnownedIsFree
    <2> QED BY <2>2
<1>6. /\ claims'[c].status = "reserved" /\ ~claims'[c].started
      /\ claims[c].status = "absent" /\ ~claims[c].started
    BY DEF ReserveIn, NoClaim, KernelInv, KernelTypeOK, ClaimsCoherent
<1>7. LeasePhase(c) = "none" /\ LeasePhase(c)' = "held"
    BY <1>6 DEF LeasePhase
<1>8. Lease!Take(c, K)
    BY <1>2, <1>3, <1>4, <1>5, <1>6, <1>7, LeaseFrame DEF Lease!Take
<1> QED BY <1>1, <1>8 DEF Lease!Next

\* The creation boundary is the lease's start boundary.
LEMMA LeaseBegin ==
    ASSUME KernelInv, NEW c \in Claims, ClaimStep(c), BeginIn(c)
    PROVE  Lease!Next
<1>1. /\ claims[c].status = "reserved" /\ ~claims[c].started
      /\ claims'[c].status = "starting" /\ claims'[c].started
      /\ resources' = resources
    BY DEF BeginIn, KernelInv, KernelTypeOK, ClaimRecords, ClaimsCoherent
<1>2. LeasePhase(c) = "held" /\ LeasePhase(c)' = "held" /\ KeysOwned(c)' = KeysOwned(c)
    BY <1>1 DEF LeasePhase, KeysOwned
<1>3. Lease!Begin(c)
    BY <1>1, <1>2, LeaseFrame DEF Lease!Begin
<1> QED BY <1>3 DEF Lease!Next

\* Acquiring a runner borrows one free key, after the start boundary.
LEMMA LeaseBorrow ==
    ASSUME KernelInv, NEW c \in Claims, ClaimStep(c), NEW k \in RunnerKeys, AcquireRunner(c, k)
    PROVE  Lease!Next
<1>1. claims' = claims /\ claims[c].status = "running" /\ claims[c].started
    BY DEF AcquireRunner, KernelInv, ClaimsCoherent
<1>2. KeysOwned(c)' = KeysOwned(c) \cup {k}
    <2>1. resources' = resources \cup {[key |-> x, claim |-> c] : x \in {k}}
        BY DEF AcquireRunner
    <2> QED BY <2>1, RowsAdded
<1>3. Lease!Free(k)
    BY UnownedIsFree DEF AcquireRunner
<1>4. LeasePhase(c) = "held" /\ LeasePhase(c)' = "held"
    BY <1>1 DEF LeasePhase
<1>5. Lease!Borrow(c, k)
    BY <1>1, <1>2, <1>3, <1>4, LeaseFrame DEF Lease!Borrow
<1> QED BY <1>5 DEF Lease!Next, Keys

\* Releasing a runner returns a key that is not the last one: the repository
\* keys of the scope stay.
LEMMA LeaseReturn ==
    ASSUME KernelInv, NEW c \in Claims, ClaimStep(c), NEW k \in RunnerKeys, ReleaseRunner(c, k)
    PROVE  Lease!Next
<1>1. claims' = claims /\ [key |-> k, claim |-> c] \in resources
    BY DEF ReleaseRunner
<1>2. k \in KeysOwned(c)
    <2>1. \A r \in resources : r.claim = c => r.key \in KeysOwned(c)
        BY DEF KeysOwned
    <2> QED BY <1>1, <2>1
<1>3. claims[c].status \in {"running", "blocked"}
    BY <1>2 DEF KernelInv, OwnershipFollowsClaim
<1>4. KeysOwned(c) # {k}
    <2>1. KeysOwned(c) \cap RepoKeys = ScopeKeys(claims[c].allocation, claims[c].repositories)
        BY <1>3 DEF KernelInv, OwnershipFollowsClaim, Held
    <2>2. ScopeKeys(claims[c].allocation, claims[c].repositories) # {}
        BY <1>3 DEF KernelInv, ClaimsCoherent
    <2>3. k \notin RepoKeys
        BY ConstantFacts
    <2> QED BY <2>1, <2>2, <2>3
<1>5. KeysOwned(c)' = KeysOwned(c) \ {k}
    BY DEF ReleaseRunner, KeysOwned
<1>6. LeasePhase(c) = "held" /\ LeasePhase(c)' = "held"
    BY <1>1, <1>3 DEF LeasePhase
<1>7. Lease!Return(c, k)
    <2>1. [d \in Claims |-> KeysOwned(d)]' = [[d \in Claims |-> KeysOwned(d)] EXCEPT ![c] = @ \ {k}]
        BY <1>5, LeaseFrame
    <2>2. [d \in Claims |-> LeasePhase(d)]' = [d \in Claims |-> LeasePhase(d)]
        BY <1>6, LeaseFrame
    <2>3. {d \in Claims : claims[d].started}' = {d \in Claims : claims[d].started}
        BY <1>1
    <2> QED BY <1>2, <1>4, <1>6, <2>1, <2>2, <2>3 DEF Lease!Return
<1> QED BY <1>7 DEF Lease!Next, Keys

\* Settlement gives every key back in the step that ends the attempt.
LEMMA LeaseFinish ==
    ASSUME KernelInv, NEW c \in Claims, ClaimStep(c), NEW o, NEW t, Settle(c, o, t)
    PROVE  Lease!Next
<1>1. /\ claims[c].status \notin {"absent", "settled"}
      /\ claims'[c].status = "settled" /\ claims'[c].started = claims[c].started
    BY DEF Settle, KernelInv, KernelTypeOK, ClaimRecords
<1>2. KeysOwned(c)' = {}
    BY DEF Settle, KeysOwned
<1>3. LeasePhase(c) = "held" /\ LeasePhase(c)' = "done"
    BY <1>1 DEF LeasePhase
<1>4. Lease!Finish(c)
    BY <1>1, <1>2, <1>3, LeaseFrame DEF Lease!Finish
<1> QED BY <1>4 DEF Lease!Next

\* Every kernel step is a step of the lease protocol or leaves it unchanged.
LEMMA StepLease == KernelInv /\ [KernelNext]_kernelVars => [Lease!Next]_Lease!leaseVars
<1> SUFFICES ASSUME KernelInv, [KernelNext]_kernelVars PROVE [Lease!Next]_Lease!leaseVars
    OBVIOUS
<1>1. ASSUME NEW c \in Claims, ClaimStep(c), Block(c) \/ \E n \in Natives : Bind(c, n)
      PROVE  UNCHANGED Lease!leaseVars
    <2>1. /\ claims[c].status \notin {"absent", "settled"}
          /\ claims'[c].status \notin {"absent", "settled"}
          /\ claims'[c].started = claims[c].started
          /\ resources' = resources
        BY <1>1 DEF Block, Bind, KernelInv, KernelTypeOK, ClaimRecords
    <2>2. LeasePhase(c)' = LeasePhase(c) /\ KeysOwned(c)' = KeysOwned(c)
        BY <2>1 DEF LeasePhase, KeysOwned
    <2> QED BY <1>1, <2>1, <2>2, LeaseStutter
<1>2. ASSUME NEW c \in Claims, ClaimStep(c) PROVE [Lease!Next]_Lease!leaseVars
    BY <1>1, <1>2, LeaseTake, LeaseBegin, LeaseBorrow, LeaseReturn, LeaseFinish DEF ClaimStep
<1>3. ASSUME ~ \E c \in Claims : ClaimStep(c) PROVE UNCHANGED Lease!leaseVars
    <2>1. UNCHANGED <<claims, resources>>
        BY <1>3, OtherStepsFrame
    <2> QED BY <2>1 DEF Lease!leaseVars, LeasePhase, KeysOwned
<1> QED BY <1>2, <1>3

\* The empty database is the initial state of the lease protocol.
LEMMA InitLease == KernelInit => Lease!Init
<1> SUFFICES ASSUME KernelInit PROVE Lease!Init
    OBVIOUS
<1>1. \A c \in Claims : claims[c] = NoClaim /\ KeysOwned(c) = {}
    BY DEF KernelInit, KeysOwned
<1> QED BY <1>1 DEF Lease!Init, LeasePhase, NoClaim

\* The kernel implements the lease protocol of exclusive resources.
THEOREM KernelImplementsLease == KernelSpec => LeaseSpec
BY InitLease, StepLease, KernelInvariant, PTL DEF KernelSpec, LeaseSpec, Lease!Spec

-------------------------------------------------------------------------------
(* What a step may never do. *)

\* Under a maintenance fence no step takes a key or crosses a start boundary.
LEMMA StepQuarantineFreezes ==
    ASSUME KernelInv, [KernelNext]_kernelVars, quarantined
    PROVE  /\ resources' \subseteq resources
           /\ \A d \in Claims : claims'[d].started = claims[d].started
<1>0. claims \in [Claims -> ClaimRecords]
    BY DEF KernelInv, KernelTypeOK
<1>1. ASSUME NEW c \in Claims, ClaimStep(c)
      PROVE  /\ resources' \subseteq resources
             /\ \A d \in Claims : claims'[d].started = claims[d].started
    <2>1. ~ \E a, repos, e, b : ReserveIn(c, a, repos, e, b)
        BY DEF ReserveIn, CheckBudget
    <2>2. ~BeginIn(c) /\ ~ \E k : AcquireRunner(c, k)
        BY DEF BeginIn, CheckBudget, AcquireRunner
    <2>3. \/ \E n \in Natives : Bind(c, n)
          \/ Block(c)
          \/ \E k \in RunnerKeys : ReleaseRunner(c, k)
          \/ \E o, t : Settle(c, o, t)
        BY <1>1, <2>1, <2>2 DEF ClaimStep
    <2>4. resources' \subseteq resources
        BY <2>3 DEF Bind, Block, ReleaseRunner, Settle
    <2>5. \A d \in Claims : claims[d] \in ClaimRecords
        BY <1>0
    <2>6. ASSUME NEW d \in Claims PROVE claims'[d].started = claims[d].started
        <3>1. ASSUME NEW n, Bind(c, n) PROVE claims'[d].started = claims[d].started
            BY <1>0, <2>5, <3>1 DEF Bind, ClaimRecords
        <3>2. CASE Block(c)
            BY <1>0, <2>5, <3>2 DEF Block, ClaimRecords
        <3>3. ASSUME NEW o, NEW t, Settle(c, o, t) PROVE claims'[d].started = claims[d].started
            BY <1>0, <2>5, <3>3 DEF Settle, ClaimRecords
        <3> QED BY <2>3, <3>1, <3>2, <3>3 DEF ReleaseRunner
    <2> QED BY <2>4, <2>6
<1> QED BY <1>1, OtherStepsFrame

\* A quarantine admits and starts nothing (admission.py, check_budget and runner).
THEOREM QuarantineHolds == KernelSpec => QuarantineFreezes
<1>1. KernelInv /\ [KernelNext]_kernelVars =>
        [quarantined =>
            /\ resources' \subseteq resources
            /\ \A c \in Claims : claims'[c].started = claims[c].started]_kernelVars
    BY StepQuarantineFreezes
<1> QED BY <1>1, KernelInvariant, PTL DEF KernelSpec, QuarantineFreezes

\* A step that gives up a runner key leaves the claim row as it is, so it is
\* not a settlement.
LEMMA StepRunnerOutlives ==
    ASSUME KernelInv, [KernelNext]_kernelVars,
           NEW r \in resources \ resources', r.key \in RunnerKeys
    PROVE  claims'[r.claim] = claims[r.claim]
<1>1. ASSUME NEW c \in Claims, ClaimStep(c) PROVE claims'[r.claim] = claims[r.claim]
    <2>1. \/ \E k \in RunnerKeys : ReleaseRunner(c, k)
          \/ \E o, t : Settle(c, o, t)
        BY <1>1 DEF ClaimStep, ReserveIn, BeginIn, Bind, Block, AcquireRunner
    <2>2. CASE \E k \in RunnerKeys : ReleaseRunner(c, k)
        BY <2>2 DEF ReleaseRunner
    <2>3. ASSUME NEW o, NEW t, Settle(c, o, t) PROVE FALSE
        <3>1. r.claim = c
            BY <2>3 DEF Settle
        <3>2. r = [key |-> r.key, claim |-> c]
            BY <3>1 DEF KernelInv, KernelTypeOK
        <3> QED BY <2>3, <3>2 DEF Settle
    <2> QED BY <2>1, <2>2, <2>3
<1> QED BY <1>1, OtherStepsFrame

\* Settling never takes a runner along (admission.py, settle).
THEOREM RunnerKept == KernelSpec => RunnerOutlivesSettlement
<1>1. KernelInv /\ [KernelNext]_kernelVars =>
        [\A r \in resources \ resources' :
            r.key \in RunnerKeys => claims'[r.claim] = claims[r.claim]]_kernelVars
    BY StepRunnerOutlives
<1> QED BY <1>1, KernelInvariant, PTL DEF KernelSpec, RunnerOutlivesSettlement

-------------------------------------------------------------------------------
(* Tokens. *)

\* What an observation incorporates is settled and covered by its total.
UsageCovers ==
    \A a \in Allocations :
        /\ Included(a) \subseteq Settled(a)
        /\ SumFunctionOnSet(Actual, Included(a)) <= Spent(a)

\* Token counts are naturals and the sets they are summed over finite.
LEMMA TokenFacts ==
    ASSUME KernelTypeOK
    PROVE  /\ \A c \in Claims : Actual[c] \in Nat /\ Estimate[c] \in Nat
           /\ \A S \in SUBSET Claims : IsFiniteSet(S)
           /\ \A a \in Allocations : /\ Spent(a) \in Nat
                                     /\ Included(a) \in SUBSET Claims
<1>1. \A c \in Claims : Actual[c] \in Nat /\ Estimate[c] \in Nat
    BY DEF KernelTypeOK, ClaimRecords, Actual, Estimate
<1>2. \A S \in SUBSET Claims : IsFiniteSet(S)
    BY FiniteAssumption, FS_Subset
<1>3. ASSUME NEW a \in Allocations
      PROVE  Spent(a) \in Nat /\ Included(a) \in SUBSET Claims
    <2>1. allocations[a].usage \in UsageRecords \cup {None}
        BY DEF KernelTypeOK, AllocationRecords
    <2> QED
        BY <2>1, ConstantFacts DEF Spent, Included, UsageRecords
<1> QED
    BY <1>1, <1>2, <1>3

\* A settled claim is never touched again, and no other claim loses its estimate.
LEMMA SettledStands ==
    ASSUME KernelTypeOK, [KernelNext]_kernelVars, NEW d \in Claims, claims[d].status = "settled"
    PROVE  claims'[d] = claims[d]
<1>1. ASSUME NEW c \in Claims, ClaimStep(c)
      PROVE  claims'[d] = claims[d]
    BY <1>1 DEF KernelTypeOK, ClaimStep, ReserveIn, BeginIn, Bind, Block, AcquireRunner,
                ReleaseRunner, Settle
<1> QED
    BY <1>1, OtherStepsFrame

\* No step leaves the observed total short of what it incorporates.
LEMMA StepUsageCovers ==
    ASSUME KernelTypeOK, [KernelNext]_kernelVars, UsageCovers
    PROVE  UsageCovers'
<1> SUFFICES ASSUME NEW a \in Allocations
             PROVE  /\ Included(a)' \subseteq Settled(a)'
                    /\ SumFunctionOnSet(Actual', Included(a)') <= Spent(a)'
    BY DEF UsageCovers
<1>1. Included(a) \subseteq Settled(a) /\ SumFunctionOnSet(Actual, Included(a)) <= Spent(a)
    BY DEF UsageCovers
<1>2. \A d \in Settled(a) : claims'[d] = claims[d]
    BY SettledStands DEF Settled, ClaimsOf
<1>3. Settled(a) \subseteq Settled(a)'
    BY <1>2 DEF Settled, ClaimsOf
<1>4. CASE Included(a)' = Included(a) /\ Spent(a)' = Spent(a)
    <2>1. \A d \in Included(a) : Actual[d] = Actual'[d]
        BY <1>1, <1>2 DEF Actual, Settled, ClaimsOf
    <2>2. IsFiniteSet(Included(a))
        BY TokenFacts
    <2>3. SumFunctionOnSet(Actual, Included(a)) = SumFunctionOnSet(Actual', Included(a))
        BY <2>1, <2>2, SumSame
    <2> QED
        BY <1>1, <1>3, <1>4, <2>3
<1>5. ASSUME NEW t \in Totals, NEW full \in BOOLEAN, NEW inc \in SUBSET Claims,
             ObserveUsage(a, t, full, inc)
      PROVE  /\ Included(a)' \subseteq Settled(a)'
             /\ SumFunctionOnSet(Actual', Included(a)') <= Spent(a)'
    <2>1. UNCHANGED claims /\ inc \subseteq Settled(a) /\ SumFunctionOnSet(Actual, inc) <= t
        BY <1>5 DEF ObserveUsage, Settled, ClaimsOf
    <2>2. allocations'[a].usage = [total |-> t, complete |-> full, fresh |-> TRUE,
                                   included |-> inc]
        BY <1>5 DEF ObserveUsage, KernelTypeOK
    <2>3. [total |-> t, complete |-> full, fresh |-> TRUE, included |-> inc] # None
        <3>1. [total |-> t, complete |-> full, fresh |-> TRUE, included |-> inc] \in
                    [total : Totals, complete : BOOLEAN, fresh : BOOLEAN, included : SUBSET Claims]
            OBVIOUS
        <3> QED
            BY <3>1, NoneAssumption
    <2>4. Included(a)' = inc /\ Spent(a)' = t
        BY <2>2, <2>3 DEF Included, Spent
    <2>5. Settled(a)' = Settled(a) /\ Actual' = Actual
        BY <2>1 DEF Settled, ClaimsOf, Actual
    <2> QED
        BY <2>1, <2>4, <2>5
<1>6. \/ \E t \in Totals, full \in BOOLEAN, inc \in SUBSET Claims : ObserveUsage(a, t, full, inc)
      \/ allocations'[a].usage = allocations[a].usage
      \/ UsageLapses(a)
    <2>1. ASSUME NEW c \in Claims, ClaimStep(c)
          PROVE  UNCHANGED allocations
        BY <2>1 DEF ClaimStep, ReserveIn, BeginIn, Bind, Block, AcquireRunner, ReleaseRunner,
                    Settle
    <2>2. ASSUME NEW b \in Allocations, AllocationStep(b), b # a
          PROVE  allocations'[a] = allocations[a]
        BY <2>2 DEF AllocationStep, OpenAllocation, ObserveUsage, UsageLapses, CloseAllocation,
                    KernelTypeOK
    <2>3. ASSUME AllocationStep(a)
          PROVE  \/ \E t \in Totals, full \in BOOLEAN, inc \in SUBSET Claims :
                        ObserveUsage(a, t, full, inc)
                 \/ allocations'[a].usage = allocations[a].usage
                 \/ UsageLapses(a)
        <3>1. CASE \E s \in Specs : OpenAllocation(a, s)
            BY <3>1 DEF OpenAllocation, KernelTypeOK, AllocationRecords
        <3>2. CASE CloseAllocation(a)
            BY <3>2 DEF CloseAllocation, KernelTypeOK, AllocationRecords
        <3> QED
            BY <2>3, <3>1, <3>2, Zenon DEF AllocationStep
    <2> QED
        BY <2>1, <2>2, <2>3 DEF KernelNext, ObserveAccount, AccountLapses, Quarantine, kernelVars
<1>7. CASE UsageLapses(a)
    <2>1. allocations[a].usage # None /\ allocations[a].usage \in UsageRecords
        BY <1>7 DEF UsageLapses, KernelTypeOK, AllocationRecords
    <2>2. allocations'[a].usage = [allocations[a].usage EXCEPT !.fresh = FALSE]
        BY <1>7 DEF UsageLapses, KernelTypeOK, AllocationRecords
    <2>3. allocations'[a].usage \in UsageRecords
        BY <2>1, <2>2 DEF UsageRecords
    <2>4. allocations'[a].usage # None
        BY <2>3, NoneAssumption DEF UsageRecords
    <2>5. Included(a)' = Included(a) /\ Spent(a)' = Spent(a)
        BY <2>1, <2>2, <2>4 DEF Included, Spent, UsageRecords
    <2> QED
        BY <1>4, <2>5
<1> QED
    BY <1>4, <1>5, <1>6, <1>7 DEF Included, Spent

\* Nothing is incorporated in a freshly created database.
LEMMA InitUsageCovers == KernelInit => UsageCovers
<1> SUFFICES ASSUME KernelInit, NEW a \in Allocations
             PROVE  /\ Included(a) \subseteq Settled(a)
                    /\ SumFunctionOnSet(Actual, Included(a)) <= Spent(a)
    BY DEF UsageCovers
<1>1. Included(a) = {} /\ Spent(a) = 0
    BY DEF KernelInit, Included, Spent
<1>2. SumFunctionOnSet(Actual, {}) = 0
    BY SumEmpty
<1> QED
    BY <1>1, <1>2

\* An observation that covers what it incorporates leaves every settled token
\* in what is deducted.
LEMMA CoveredIsCounted ==
    ASSUME KernelTypeOK, UsageCovers
    PROVE  SettledTokensCounted
<1> SUFFICES ASSUME NEW a \in Allocations
             PROVE  Spent(a) + Unincorporated(a) >= SumFunctionOnSet(Actual, Settled(a))
    BY DEF SettledTokensCounted
<1>1. PICK I, R : I = Included(a) /\ R = Settled(a) \ Included(a)
    OBVIOUS
<1>2. /\ I \cup R = Settled(a)
      /\ I \cap R = {}
      /\ Settled(a) \in SUBSET Claims
    BY <1>1 DEF UsageCovers, Settled, ClaimsOf
<1>3. IsFiniteSet(I) /\ IsFiniteSet(R) /\ \A x \in I \cup R : Actual[x] \in Nat
    BY <1>2, TokenFacts
<1>4. SumFunctionOnSet(Actual, I \cup R) =
          SumFunctionOnSet(Actual, I) + SumFunctionOnSet(Actual, R)
    BY <1>2, <1>3, SumUnion
<1>5. SumFunctionOnSet(Actual, I) \in Nat /\ SumFunctionOnSet(Actual, R) \in Nat
    BY <1>3, SumNat
<1>6. SumFunctionOnSet(Actual, I) <= Spent(a) /\ Spent(a) \in Nat
    BY <1>1, TokenFacts DEF UsageCovers
<1>7. Unincorporated(a) = SumFunctionOnSet(Actual, R)
    BY <1>1 DEF Unincorporated
<1>8. SumFunctionOnSet(Actual, Settled(a)) =
          SumFunctionOnSet(Actual, I) + SumFunctionOnSet(Actual, R)
    BY <1>2, <1>4
<1> QED
    BY <1>5, <1>6, <1>7, <1>8

\* Incorporating settlements into an observation never loses their tokens
\* (admission.py, observe_usage and budget_projection).
THEOREM SettledTokens == KernelSpec => []SettledTokensCounted
<1>1. KernelInit => KernelTypeOK /\ UsageCovers
    BY InitTypeOK, InitUsageCovers
<1>2. KernelTypeOK /\ UsageCovers /\ [KernelNext]_kernelVars => (KernelTypeOK /\ UsageCovers)'
    BY StepTypeOK, StepUsageCovers
<1>3. KernelTypeOK /\ UsageCovers => SettledTokensCounted
    BY CoveredIsCounted
<1> QED
    BY <1>1, <1>2, <1>3, PTL DEF KernelSpec

-------------------------------------------------------------------------------
(* What is admitted or started leaves the checkpoint reserve untouched. *)

\* What the budget check promises of the tokens (admission.py, check_budget).
LEMMA BudgetChecked ==
    ASSUME KernelTypeOK, NEW a \in Allocations, NEW extra \in Nat,
           allocations[a].spec # None, CheckBudget(a, extra)
    PROVE  HeldTokens(a) + extra + (Spent(a) + Unincorporated(a))
                + allocations[a].spec.checkpointReserve <= allocations[a].spec.tokenBudget
<1>1. /\ allocations[a].spec.tokenBudget \in Nat
      /\ allocations[a].spec.checkpointReserve \in Nat
    <2>1. allocations[a].spec \in Specs
        BY DEF KernelTypeOK, AllocationRecords
    <2> QED
        BY <2>1, SpecAssumption DEF SpecRecords
<1>2. Spent(a) \in Nat
    BY TokenFacts
<1>3. HeldTokens(a) \in Nat
    <2>1. IsFiniteSet(ClaimsOf(a) \cap HeldClaims)
          /\ \A c \in ClaimsOf(a) \cap HeldClaims : Estimate[c] \in Nat
        BY TokenFacts DEF ClaimsOf
    <2> QED
        BY <2>1, SumNat DEF HeldTokens
<1>4. Unincorporated(a) \in Nat
    <2>1. IsFiniteSet(Settled(a) \ Included(a))
          /\ \A c \in Settled(a) \ Included(a) : Actual[c] \in Nat
        BY TokenFacts DEF Settled, ClaimsOf
    <2> QED
        BY <2>1, SumNat DEF Unincorporated
<1>5. allocations[a].spec.tokenBudget - Spent(a) - HeldTokens(a) - Unincorporated(a)
            - allocations[a].spec.checkpointReserve >= extra
    BY DEF CheckBudget, Remaining
<1> QED
    BY <1>1, <1>2, <1>3, <1>4, <1>5

\* The estimates held after a reservation are those before it and its own.
LEMMA ReservedTokens ==
    ASSUME KernelTypeOK, NEW c \in Claims, NEW a \in Allocations, NEW repos, NEW e \in Nat,
           NEW b, ReserveIn(c, a, repos, e, b)
    PROVE  SumFunctionOnSet(Estimate',
                {d \in Claims : claims'[d].allocation = a /\ claims'[d].status \in Held})
             = HeldTokens(a) + e
<1>1. PICK H : H = ClaimsOf(a) \cap HeldClaims
    OBVIOUS
<1>2. claims[c].status = "absent"
      /\ claims' = [claims EXCEPT ![c] =
            [NoClaim EXCEPT !.status = "reserved", !.allocation = a, !.repositories = repos,
                            !.estimate = e, !.bound = b]]
    BY DEF ReserveIn
<1>3. claims'[c].status = "reserved" /\ claims'[c].allocation = a /\ claims'[c].estimate = e
    BY <1>2 DEF NoClaim, KernelTypeOK
<1>4. \A d \in Claims \ {c} : claims'[d] = claims[d]
    BY <1>2 DEF KernelTypeOK
<1>5. H \subseteq Claims \ {c}
    BY <1>1, <1>2 DEF HeldClaims, ClaimsOf, Held
<1>6. {d \in Claims : claims'[d].allocation = a /\ claims'[d].status \in Held} = H \cup {c}
    BY <1>1, <1>3, <1>4, <1>5 DEF HeldClaims, ClaimsOf, Held
<1>7. Estimate'[c] = e /\ \A d \in H : Estimate[d] = Estimate'[d]
    BY <1>3, <1>4, <1>5 DEF Estimate
<1>8. IsFiniteSet(H) /\ IsFiniteSet(H \cup {c}) /\ \A d \in H : Estimate[d] \in Nat
    BY <1>5, TokenFacts
<1>9. \A d \in H \cup {c} : Estimate'[d] \in Nat
    BY <1>7, <1>8
<1>10. SumFunctionOnSet(Estimate', H \cup {c}) =
            Estimate'[c] + SumFunctionOnSet(Estimate', (H \cup {c}) \ {c})
    BY <1>8, <1>9, SumRemove
<1>11. (H \cup {c}) \ {c} = H
    BY <1>5
<1>12. SumFunctionOnSet(Estimate', H) = SumFunctionOnSet(Estimate, H)
    BY <1>7, <1>8, SumSame
<1>13. SumFunctionOnSet(Estimate, H) \in Nat
    BY <1>8, SumNat
<1>14. HeldTokens(a) = SumFunctionOnSet(Estimate, H)
    BY <1>1 DEF HeldTokens
<1> QED
    <2>1. SumFunctionOnSet(Estimate', H \cup {c}) = e + SumFunctionOnSet(Estimate, H)
        BY <1>7, <1>10, <1>11, <1>12
    <2>2. SumFunctionOnSet(Estimate', H \cup {c}) = HeldTokens(a) + e
        BY <2>1, <1>13, <1>14
    <2> QED
        BY <1>6, <2>2

\* Starting a reserved claim moves no estimate.
LEMMA StartedTokens ==
    ASSUME KernelTypeOK, NEW c \in Claims, BeginIn(c), NEW a
    PROVE  SumFunctionOnSet(Estimate',
                {d \in Claims : claims'[d].allocation = a /\ claims'[d].status \in Held})
             = HeldTokens(a)
<1>1. claims[c].status = "reserved"
      /\ claims' = [claims EXCEPT ![c].status = "starting", ![c].started = TRUE]
    BY DEF BeginIn
<1>2. \A d \in Claims :
        /\ claims'[d].allocation = claims[d].allocation
        /\ claims'[d].estimate = claims[d].estimate
        /\ claims'[d].status \in Held <=> claims[d].status \in Held
    BY <1>1 DEF KernelTypeOK, ClaimRecords, Held
<1>3. {d \in Claims : claims'[d].allocation = a /\ claims'[d].status \in Held}
        = ClaimsOf(a) \cap HeldClaims
    BY <1>2 DEF ClaimsOf, HeldClaims
<1>4. Estimate' = Estimate
    BY <1>2 DEF Estimate
<1> QED
    BY <1>3, <1>4 DEF HeldTokens

\* Only a reservation and a start make a claim reserved or starting, and both check.
LEMMA StepReserveProtected ==
    ASSUME KernelInv, [KernelNext]_kernelVars, NEW c \in Claims, NEW a, a = claims'[c].allocation,
           claims[c].status # claims'[c].status, claims'[c].status \in {"reserved", "starting"}
    PROVE  SumFunctionOnSet(Estimate',
                {d \in Claims : claims'[d].allocation = a /\ claims'[d].status \in Held})
             + (Spent(a) + Unincorporated(a)) + allocations[a].spec.checkpointReserve
                <= allocations[a].spec.tokenBudget
<1>0. KernelTypeOK /\ ExclusiveOwnership /\ ClaimsCoherent
    BY DEF KernelInv
<1>1. PICK b \in Claims : ClaimStep(b)
    BY OtherStepsFrame
<1>2. b = c
    BY <1>0, <1>1, ClaimStepFrame
<1>3. ASSUME NEW o \in Allocations, NEW repos \in SUBSET Repositories, NEW e \in Estimates,
             NEW y \in Bindings, ReserveIn(c, o, repos, e, y)
      PROVE  SumFunctionOnSet(Estimate',
                {d \in Claims : claims'[d].allocation = a /\ claims'[d].status \in Held})
             + (Spent(a) + Unincorporated(a)) + allocations[a].spec.checkpointReserve
                <= allocations[a].spec.tokenBudget
    <2>1. a = o /\ CheckBudget(o, e) /\ allocations[o].spec # None
        BY <1>0, <1>3 DEF ReserveIn, KernelTypeOK, NoClaim
    <2>2. e \in Nat
        BY ConstantFacts
    <2> QED
        BY <1>0, <1>3, <2>1, <2>2, ReservedTokens, BudgetChecked
<1>4. CASE BeginIn(c)
    <2>1. a = claims[c].allocation /\ CheckBudget(a, 0) /\ claims[c].status = "reserved"
        BY <1>0, <1>4 DEF BeginIn, KernelTypeOK, ClaimRecords
    <2>2. a \in Allocations /\ allocations[a].spec # None
        BY <1>0, <2>1 DEF ClaimsCoherent
    <2>3. HeldTokens(a) + 0 + (Spent(a) + Unincorporated(a))
                + allocations[a].spec.checkpointReserve <= allocations[a].spec.tokenBudget
        BY <1>0, <2>1, <2>2, BudgetChecked
    <2>4. HeldTokens(a) \in Nat
        <3>1. IsFiniteSet(ClaimsOf(a) \cap HeldClaims)
              /\ \A d \in ClaimsOf(a) \cap HeldClaims : Estimate[d] \in Nat
            BY <1>0, TokenFacts DEF ClaimsOf
        <3> QED
            BY <3>1, SumNat DEF HeldTokens
    <2> QED
        BY <1>0, <1>4, <2>3, <2>4, StartedTokens
<1>5. \/ \E o \in Allocations, repos \in SUBSET Repositories, e \in Estimates, y \in Bindings :
            ReserveIn(c, o, repos, e, y)
      \/ BeginIn(c)
    <2>1. claims \in [Claims -> ClaimRecords] /\ ClaimStep(c)
        BY <1>0, <1>1, <1>2 DEF KernelTypeOK
    <2>2. ~(\E n \in Natives : Bind(c, n)) /\ ~Block(c)
        <3>1. ASSUME NEW n \in Natives, Bind(c, n)
              PROVE  claims'[c].status = "running"
            BY <2>1, <3>1 DEF Bind, ClaimRecords
        <3>2. ASSUME Block(c)
              PROVE  claims'[c].status \in {"blocked", "uncertain"}
            BY <2>1, <3>2 DEF Block, ClaimRecords
        <3> QED
            BY <3>1, <3>2
    <2>3. ~(\E k \in RunnerKeys : AcquireRunner(c, k) \/ ReleaseRunner(c, k))
        BY DEF AcquireRunner, ReleaseRunner
    <2>4. ~(\E o \in {"terminal", "not_created"}, t \in Totals : Settle(c, o, t))
        <3>1. ASSUME NEW o, NEW t, Settle(c, o, t)
              PROVE  claims'[c].status = "settled"
            BY <2>1, <3>1 DEF Settle, ClaimRecords
        <3> QED
            BY <3>1
    <2> QED
        BY <2>1, <2>2, <2>3, <2>4, Zenon DEF ClaimStep
<1> QED
    BY <1>3, <1>4, <1>5

\* Work that is admitted or started leaves the checkpoint reserve untouched
\* (admission.py, check_budget in reserve_in and begin_in).
THEOREM ReserveIsProtected == KernelSpec => ReserveProtected
<1>1. KernelInv /\ [KernelNext]_kernelVars =>
        [\A c \in Claims :
            claims[c].status # claims'[c].status /\ claims'[c].status \in {"reserved", "starting"}
            => LET a == claims'[c].allocation
                   live == {d \in Claims : claims'[d].allocation = a /\ claims'[d].status \in Held}
                   spent == Spent(a) + Unincorporated(a)
               IN  SumFunctionOnSet(Estimate', live) + spent
                        + allocations[a].spec.checkpointReserve <= allocations[a].spec.tokenBudget
        ]_kernelVars
    BY StepReserveProtected
<1> QED
    BY <1>1, KernelInvariant, PTL DEF KernelSpec, ReserveProtected
===============================================================================
