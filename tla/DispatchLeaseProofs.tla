------------------------- MODULE DispatchLeaseProofs -------------------------
(***************************************************************************)
(* The dispatch system implements the lease protocol of ResourceLease: its *)
(* coordinators append to the shared journal and settle claims beside the  *)
(* kernel's own operations, and still every step is a step of the lease    *)
(* or invisible in it.                                                     *)
(***************************************************************************)
EXTENDS DispatchProofs

\* A claim that is not held owns no key; one that is has a scope, and owns one
\* runner at most.
Leased(c) ==
    /\ IF claims[c].status \in Held THEN ScopeKeys(Phase, {TaskRepo[c]}) # {}
                                    ELSE KeysOwned(c) = {}
    /\ \A y, z \in RunnerKeysOwned(c) : y = z

LeaseInv == \A c \in Claims : Leased(c)

-------------------------------------------------------------------------------
(* How a step of a worker moves its claim and its keys. *)

\* The claim is held before and after.
StaysHeld(c) == claims[c].status \in Held /\ claims'[c].status \in Held

\* It is held, and the start boundary is where it was.
GoesOn(c) == StaysHeld(c) /\ (claims'[c].started <=> claims[c].started)

LeaseMoves(c) ==
    \/ UNCHANGED resources /\ (claims'[c] = claims[c] \/ GoesOn(c))
    \/ UNCHANGED resources /\ StaysHeld(c) /\ ~claims[c].started /\ claims'[c].started
    \/ ReserveIn(c, Phase, {TaskRepo[c]}, TaskEstimate, TRUE)
    \/ /\ GoesOn(c) /\ ~Owns(journal[c].runner) /\ claims[c].started
       /\ \E y \in RunnerKeys : ~Owned(y) /\ resources' = resources \cup {[key |-> y, claim |-> c]}
    \/ /\ GoesOn(c) /\ Owns(journal[c].runner)
       /\ resources' = {r \in resources : r.key \notin RunnerKeysOwned(c)}
    \/ /\ claims[c].status \in Held /\ claims'[c].status = "settled"
       /\ claims'[c].started <=> claims[c].started
       /\ resources' = {r \in resources : r.claim # c}

\* One more journal record of an open journal keeps the claim held, and leaves
\* its start boundary.
LEMMA AppendGoesOn ==
    ASSUME CoreInv, NEW c \in Claims, JournalOpen(c), NEW state, NEW tokens,
           Append(c, state, tokens)
    PROVE  GoesOn(c)
<1>1. claims \in [Claims -> ClaimRecords]
    BY CoreTables DEF Tables
<1>2. ClaimStatus(state) \in Held
    BY ProjectedStatus
<1> DEFINE status == ClaimStatus(state)
           native == IF state.thread THEN NativeOf[c] ELSE None
<1>3. claims' = [claims EXCEPT ![c].status = status, ![c].native = native, ![c].estimate = @ + tokens]
    BY DEF Append
<1> HIDE DEF status, native
<1>4. claims'[c].status = status /\ claims'[c].started = claims[c].started
    BY <1>1, <1>3 DEF ClaimRecords
<1> QED BY <1>2, <1>4 DEF GoesOn, StaysHeld, JournalOpen, status

\* A journal that has begun belongs to a claim that crossed its start boundary.
LEMMA JournaledIsStarted ==
    ASSUME CoreInv, NEW c \in Claims, journal[c].count > 0
    PROVE  claims[c].started
BY CoreTables DEF Life, CreationOf, JournalRecords, Tables

\* The steps of the admission bridge.
LEMMA AdmissionLease ==
    ASSUME CoreInv, NEW c \in Claims, AdmissionStep(c)
    PROVE  LeaseMoves(c)
<1>1. claims \in [Claims -> ClaimRecords]
    BY CoreTables DEF Tables
<1>2. ASSUME NEW attached \in BOOLEAN, BeginShared(c, attached)
      PROVE  LeaseMoves(c)
    <2>1. BeginIn(c) /\ ~claims[c].started
        BY <1>2, CoreTables DEF BeginShared, BeginIn, Life, ClaimOf
    <2>2. /\ claims[c].status = "reserved" /\ claims'[c].status = "starting"
          /\ claims'[c].started /\ UNCHANGED resources
        BY <1>1, <2>1 DEF BeginIn, ClaimRecords
    <2> QED BY <2>1, <2>2 DEF LeaseMoves, StaysHeld, Held
<1>3. ASSUME NEW attached \in BOOLEAN, ReserveShared(c, attached)
      PROVE  LeaseMoves(c)
    BY <1>3 DEF ReserveShared, LeaseMoves, kernelVars
<1>4. CASE ReserveIntent(c) \/ BeginIntent(c) \/ RecoverAdmission(c)
    BY <1>4 DEF ReserveIntent, BeginIntent, RecoverAdmission, LeaseMoves, kernelVars
<1> QED BY <1>2, <1>3, <1>4 DEF AdmissionStep

\* The steps of the native lifecycle.
LEMMA LifecycleLease ==
    ASSUME CoreInv, NEW c \in Claims, NativeLifecycleStep(c)
    PROVE  LeaseMoves(c)
<1>1. ASSUME NEW attached \in BOOLEAN,
             NEW outcome \in {"pending", "uncertain", "confirmed"}, NEW thread \in BOOLEAN,
             NEW activity \in {"unknown", "running", "idle"},
             Observe(c, outcome, thread, activity, attached)
      PROVE  LeaseMoves(c)
    BY <1>1, AppendGoesOn DEF Observe, LeaseMoves
<1>2. ASSUME NEW attached \in BOOLEAN, ContinueShared(c, attached)
      PROVE  LeaseMoves(c)
    BY <1>2, AppendGoesOn DEF ContinueShared, LeaseMoves
<1>3. ASSUME NEW attached \in BOOLEAN,
             NEW outcome \in {"acknowledged", "uncertain", "finished"}, NEW progress \in BOOLEAN,
             Delivery(c, outcome, progress, attached)
      PROVE  LeaseMoves(c)
    BY <1>3, AppendGoesOn DEF Delivery, LeaseMoves
<1>4. CASE ContinueIntent(c) \/ RecoverNative(c)
    BY <1>4 DEF ContinueIntent, RecoverNative, LeaseMoves, kernelVars
<1> QED BY <1>1, <1>2, <1>3, <1>4 DEF NativeLifecycleStep

\* The steps of the acceptance runner.
LEMMA RunnerLease ==
    ASSUME CoreInv, NEW c \in Claims, RunnerStep(c)
    PROVE  LeaseMoves(c)
<1>1. ASSUME NEW attached \in BOOLEAN, NEW y \in RunnerKeys, Acquire(c, y, attached)
      PROVE  LeaseMoves(c)
    <2>1. GoesOn(c)
        BY <1>1, AppendGoesOn DEF Acquire
    <2>2. claims[c].started
        BY <1>1, JournaledIsStarted DEF Acquire
    <2>3. /\ ~Owns(journal[c].runner) /\ ~Owned(y)
          /\ resources' = resources \cup {[key |-> y, claim |-> c]}
        BY <1>1 DEF Acquire, Owns
    <2> QED BY <2>1, <2>2, <2>3 DEF LeaseMoves
<1>2. ASSUME NEW attached \in BOOLEAN, Release(c, attached)
      PROVE  LeaseMoves(c)
    <2>1. GoesOn(c)
        BY <1>2, AppendGoesOn DEF Release
    <2>2. /\ Owns(journal[c].runner)
          /\ resources' = {r \in resources : r.key \notin RunnerKeysOwned(c)}
        BY <1>2 DEF Release, Owns
    <2> QED BY <2>1, <2>2 DEF LeaseMoves
<1>3. ASSUME NEW attached \in BOOLEAN, LaunchShared(c, attached)
      PROVE  LeaseMoves(c)
    BY <1>3, AppendGoesOn DEF LaunchShared, LeaseMoves
<1>4. ASSUME NEW attached \in BOOLEAN, NEW outcome \in {"uncertain", "running", "exited"},
             ObserveProcess(c, outcome, attached)
      PROVE  LeaseMoves(c)
    BY <1>4, AppendGoesOn DEF ObserveProcess, LeaseMoves
<1>5. CASE LaunchIntent(c)
    BY <1>5 DEF LaunchIntent, LeaseMoves, kernelVars
<1> QED BY <1>1, <1>2, <1>3, <1>4, <1>5 DEF RunnerStep

\* Settlement, and its recovery.
LEMMA SettlementLease ==
    ASSUME CoreInv, NEW c \in Claims, SettlementStep(c)
    PROVE  LeaseMoves(c)
<1>1. claims \in [Claims -> ClaimRecords]
    BY CoreTables DEF Tables
<1>2. ASSUME NEW actual, Commit(c, actual), claims[c].status \in Held
      PROVE  LeaseMoves(c)
    <2>1. /\ claims'[c].status = "settled" /\ claims'[c].started = claims[c].started
          /\ resources' = {r \in resources : r.claim # c}
        BY <1>1, <1>2 DEF Commit, ClaimRecords
    <2> QED BY <1>2, <2>1 DEF LeaseMoves
<1>3. ASSUME NEW attached \in BOOLEAN, NEW actual \in Totals, SettleTerminal(c, actual, attached)
      PROVE  LeaseMoves(c)
    BY <1>2, <1>3 DEF SettleTerminal, JournalOpen
<1>4. ASSUME NEW attached \in BOOLEAN, SettleNotCreated(c, attached)
      PROVE  LeaseMoves(c)
    BY <1>2, <1>4 DEF SettleNotCreated, JournalOpen, Held
<1>5. CASE RecoverSettlement(c)
    BY <1>5 DEF RecoverSettlement, LeaseMoves, kernelVars
<1> QED BY <1>3, <1>4, <1>5 DEF SettlementStep

\* Every step of a worker.
LEMMA TaskStepLease ==
    ASSUME CoreInv, NEW c \in Claims, TaskStep(c)
    PROVE  LeaseMoves(c)
<1>1. CASE NativeStep(c)
    <2>1. UNCHANGED <<claims, resources>>
        BY <1>1 DEF NativeStep, SendCreation, CreationEnds, SendTurn, TurnEnds, SendLaunch,
                    ProcessExits, LosePermit, Abandon, Native, kernelVars, ledgerVars
    <2> QED BY <2>1 DEF LeaseMoves
<1> QED BY <1>1, AdmissionLease, LifecycleLease, RunnerLease, SettlementLease DEF TaskStep

-------------------------------------------------------------------------------
(* Keys are held by held claims only (LeaseInv).                            *)

\* The keys of the worker that moves, before and after.
LEMMA OwnLeased ==
    ASSUME CoreInv, Holdings, NEW c \in Claims, Leased(c), Moves(c), LeaseMoves(c)
    PROVE  Leased(c)'
<1>0. ScopeKeys(Phase, {TaskRepo[c]})' = ScopeKeys(Phase, {TaskRepo[c]})
    BY DEF Moves, ScopeKeys
<1>1. KernelTypeOK /\ RepoKeys \cap RunnerKeys = {} /\ allocations[Phase].spec # None
    BY CoreTables, NoneAssumption DEF Holdings
<1>2. CASE UNCHANGED resources /\ (claims'[c] = claims[c] \/ StaysHeld(c))
    BY <1>0, <1>2 DEF Leased, KeysOwned, RunnerKeysOwned, StaysHeld
<1>3. CASE ReserveIn(c, Phase, {TaskRepo[c]}, TaskEstimate, TRUE)
    <2> DEFINE K == ScopeKeys(Phase, {TaskRepo[c]})
    <2>1. K \subseteq RepoKeys
        <3>1. {TaskRepo[c]} \in SUBSET Repositories /\ Phase \in Allocations
            BY DispatchFacts
        <3> QED BY <1>1, <3>1, ScopeOfRepoKeys
    <2>2. /\ resources' = resources \cup {[key |-> k, claim |-> c] : k \in K}
          /\ K # {}
        BY <1>3 DEF ReserveIn, CheckCapacity, ScopeKeys
    <2> HIDE DEF K
    <2>3. KeysOwned(c)' = KeysOwned(c) \cup K
        BY <2>2, RowsAdded
    <2>4. KeysOwned(c) = {}
        BY <1>3 DEF ReserveIn, Leased, Held
    <2>5. claims'[c].status = "reserved"
        BY <1>1, <1>3 DEF ReserveIn, KernelTypeOK, NoClaim
    <2> QED BY <1>0, <1>1, <2>1, <2>2, <2>3, <2>4, <2>5 DEF Leased, RunnerKeysOwned, Held, K
<1>4. ASSUME StaysHeld(c), ~Owns(journal[c].runner), NEW y \in RunnerKeys,
             resources' = resources \cup {[key |-> y, claim |-> c]}
      PROVE  Leased(c)'
    <2>1. resources' = resources \cup {[key |-> k, claim |-> c] : k \in {y}}
        BY <1>4
    <2>2. KeysOwned(c)' = KeysOwned(c) \cup {y}
        BY <2>1, RowsAdded
    <2>3. RunnerKeysOwned(c) = {}
        BY <1>4 DEF Holdings
    <2> QED BY <1>0, <1>4, <2>2, <2>3 DEF Leased, RunnerKeysOwned, StaysHeld
<1>5. CASE StaysHeld(c) /\ resources' = {r \in resources : r.key \notin RunnerKeysOwned(c)}
    <2>1. KeysOwned(c)' \subseteq KeysOwned(c)
        BY <1>5 DEF KeysOwned
    <2> QED BY <1>0, <1>5, <2>1 DEF Leased, RunnerKeysOwned, StaysHeld
<1>6. CASE claims'[c].status = "settled" /\ resources' = {r \in resources : r.claim # c}
    <2>1. KeysOwned(c)' = {}
        BY <1>6 DEF KeysOwned
    <2> QED BY <1>6, <2>1 DEF Leased, RunnerKeysOwned, Held
<1> QED BY <1>2, <1>3, <1>4, <1>5, <1>6 DEF LeaseMoves, GoesOn

\* Every step keeps it for every claim.
LEMMA StepLeased == DispatchInv /\ LeaseInv /\ [DispatchNext]_dispatchVars => LeaseInv'
<1> SUFFICES ASSUME DispatchInv, LeaseInv, [DispatchNext]_dispatchVars PROVE LeaseInv'
    OBVIOUS
<1>0. CoreInv /\ Holdings /\ Controls
    BY DEF DispatchInv, CoreInv
<1>1. ASSUME NEW c \in Claims, TaskStep(c) PROVE LeaseInv'
    <2>1. Moves(c) /\ LeaseMoves(c)
        BY <1>0, <1>1, TaskStepMoves, TaskStepLease
    <2>2. KeyMoves(c)
        BY <1>0, <1>1, <2>1, TaskStepKeys
    <2>3. Leased(c)'
        BY <1>0, <2>1, OwnLeased DEF LeaseInv
    <2>4. ASSUME NEW d \in Claims \ {c} PROVE Leased(d)'
        <3>1. /\ KeysOwned(d)' = KeysOwned(d) /\ claims'[d] = claims[d]
              /\ ScopeKeys(Phase, {TaskRepo[d]})' = ScopeKeys(Phase, {TaskRepo[d]})
            BY <1>0, <2>1, <2>2, OthersKeepKeys DEF Holdings, Moves, Same, ScopeKeys
        <3> QED BY <3>1 DEF LeaseInv, Leased, RunnerKeysOwned
    <2> QED BY <2>3, <2>4 DEF LeaseInv
<1>2. CASE UNCHANGED <<claims, resources, allocations>>
    BY <1>2 DEF LeaseInv, Leased, KeysOwned, RunnerKeysOwned, ScopeKeys
<1>3. ASSUME ControlNext \/ Fenced PROVE UNCHANGED <<claims, resources, allocations>>
    BY <1>0, <1>3, ControlStepMoves DEF ControlMoves, ControlFrame
<1>4. ASSUME UNCHANGED dispatchVars PROVE UNCHANGED <<claims, resources, allocations>>
    BY <1>4 DEF dispatchVars, kernelVars, ledgerVars
<1> QED BY <1>1, <1>2, <1>3, <1>4 DEF DispatchNext, TaskStep

-------------------------------------------------------------------------------
(* Step by step, the dispatch system follows the lease protocol.            *)

\* What a step of one worker leaves of the lease of the others.
LEMMA LeaseOfOthers ==
    ASSUME CoreInv, Holdings, NEW c \in Claims, Moves(c), KeyMoves(c), NEW d \in Claims \ {c}
    PROVE  /\ LeasePhase(d)' = LeasePhase(d) /\ KeysOwned(d)' = KeysOwned(d)
           /\ claims'[d].started = claims[d].started
BY OthersKeepKeys DEF Holdings, Moves, Same, LeasePhase

\* Where a claim stands, by its status.
LEMMA PhaseOfStatus ==
    ASSUME NEW c \in Claims
    PROVE  /\ claims[c].status = "absent" => LeasePhase(c) = "none"
           /\ claims[c].status = "settled" => LeasePhase(c) = "done"
           /\ claims[c].status \in Held => LeasePhase(c) = "held"
BY DEF LeasePhase, Held

\* The scope of a task consists of repository keys, and none of them is a runner's.
LEMMA ScopeIsRepositories ==
    ASSUME CoreInv, Holdings, NEW c \in Claims
    PROVE  /\ ScopeKeys(Phase, {TaskRepo[c]}) \subseteq RepoKeys
           /\ RepoKeys \cap RunnerKeys = {}
<1>1. {TaskRepo[c]} \in SUBSET Repositories /\ Phase \in Allocations
    BY DispatchFacts
<1>2. KernelTypeOK /\ allocations[Phase].spec # None
    BY CoreTables DEF Holdings
<1> QED BY <1>1, <1>2, ScopeOfRepoKeys, NoneAssumption

\* A step of a worker is a step of the lease, or invisible in it.
LEMMA WorkerLease ==
    ASSUME DispatchInv, LeaseInv, NEW c \in Claims, TaskStep(c)
    PROVE  [Lease!Next]_Lease!leaseVars
<1>0. CoreInv /\ Holdings /\ Leased(c)
    BY DEF DispatchInv, CoreInv, LeaseInv
<1>1. Moves(c) /\ LeaseMoves(c) /\ Tables
    BY <1>0, TaskStepMoves, TaskStepLease, CoreTables
<1>2. KeyMoves(c)
    BY <1>0, <1>1, TaskStepKeys
<1>3. \A d \in Claims \ {c} : /\ LeasePhase(d)' = LeasePhase(d) /\ KeysOwned(d)' = KeysOwned(d)
                              /\ claims'[d].started = claims[d].started
    BY <1>0, <1>1, <1>2, LeaseOfOthers
<1>4. claims[c].started \in BOOLEAN /\ claims'[c].started \in BOOLEAN
    BY <1>1 DEF Moves, Tables, ClaimRecords
<1>5. StaysHeld(c) => LeasePhase(c) = "held" /\ LeasePhase(c)' = "held"
    BY PhaseOfStatus DEF StaysHeld, LeasePhase, Held
<1>6. CASE UNCHANGED resources /\ (claims'[c] = claims[c] \/ GoesOn(c))
    <2>1. LeasePhase(c)' = LeasePhase(c) /\ KeysOwned(c)' = KeysOwned(c)
             /\ (claims'[c].started <=> claims[c].started)
        BY <1>5, <1>6 DEF LeasePhase, KeysOwned, GoesOn
    <2> QED BY <1>3, <2>1 DEF Lease!leaseVars
<1>7. CASE UNCHANGED resources /\ StaysHeld(c) /\ ~claims[c].started /\ claims'[c].started
    <2>1. KeysOwned(c)' = KeysOwned(c)
        BY <1>7 DEF KeysOwned
    <2>2. Lease!Begin(c)
        BY <1>3, <1>5, <1>7, <2>1 DEF Lease!Begin
    <2> QED BY <2>2 DEF Lease!Next
<1>8. CASE ReserveIn(c, Phase, {TaskRepo[c]}, TaskEstimate, TRUE)
    <2> DEFINE K == ScopeKeys(Phase, {TaskRepo[c]})
    <2>1. K # {} /\ K \subseteq Keys
        BY <1>0, <1>8, ScopeIsRepositories DEF Keys, ReserveIn, CheckCapacity, ScopeKeys
    <2>2. resources' = resources \cup {[key |-> k, claim |-> c] : k \in K}
        BY <1>8 DEF ReserveIn
    <2>3. \A k \in K : ~Owned(k)
        BY <1>8 DEF ReserveIn, CheckCapacity
    <2> HIDE DEF K
    <2>4. KeysOwned(c)' = K
        <3>1. KeysOwned(c)' = KeysOwned(c) \cup K
            BY <2>2, RowsAdded
        <3>2. KeysOwned(c) = {}
            BY <1>0, <1>8 DEF ReserveIn, Leased, Held
        <3> QED BY <3>1, <3>2
    <2>5. \A k \in K : Lease!Free(k)
        BY <2>3, UnownedIsFree
    <2>6. /\ claims[c].status = "absent" /\ claims'[c].status = "reserved"
          /\ ~claims[c].started /\ ~claims'[c].started
        BY <1>0, <1>1, <1>8, CoreTables DEF ReserveIn, Tables, NoClaim, Life, ClaimOf
    <2>7. LeasePhase(c) = "none" /\ LeasePhase(c)' = "held"
        BY <2>6 DEF LeasePhase
    <2>8. Lease!Take(c, K)
        BY <1>3, <2>1, <2>4, <2>5, <2>6, <2>7 DEF Lease!Take
    <2> QED BY <2>1, <2>8 DEF Lease!Next
<1>9. ASSUME GoesOn(c), claims[c].started, NEW y \in RunnerKeys, ~Owned(y),
             resources' = resources \cup {[key |-> y, claim |-> c]}
      PROVE  [Lease!Next]_Lease!leaseVars
    <2>1. resources' = resources \cup {[key |-> k, claim |-> c] : k \in {y}}
        BY <1>9
    <2>2. KeysOwned(c)' = KeysOwned(c) \cup {y}
        BY <2>1, RowsAdded
    <2>3. Lease!Free(y)
        BY <1>9, UnownedIsFree
    <2>4. Lease!Borrow(c, y)
        BY <1>3, <1>5, <1>9, <2>2, <2>3 DEF Lease!Borrow, GoesOn
    <2> QED BY <2>4 DEF Lease!Next, Keys
<1>10. CASE /\ GoesOn(c) /\ Owns(journal[c].runner)
            /\ resources' = {r \in resources : r.key \notin RunnerKeysOwned(c)}
    <2>1. PICK k : RunnerKeysOwned(c) = {k}
        <3>1. RunnerKeysOwned(c) # {}
            BY <1>0, <1>10 DEF Holdings
        <3> QED BY <1>0, <3>1 DEF Leased
    <2>2. k \in KeysOwned(c) /\ k \in RunnerKeys
        BY <2>1 DEF RunnerKeysOwned
    <2>3. KeysOwned(c) # {k}
        <3>1. ScopeKeys(Phase, {TaskRepo[c]}) \subseteq KeysOwned(c)
            BY <1>0, <1>10 DEF Holdings, GoesOn, StaysHeld
        <3>2. ScopeKeys(Phase, {TaskRepo[c]}) # {}
            BY <1>0, <1>10 DEF Leased, GoesOn, StaysHeld
        <3> QED BY <1>0, <2>2, <3>1, <3>2, ScopeIsRepositories
    <2>4. KeysOwned(c)' = KeysOwned(c) \ {k}
        BY <1>10, <2>1 DEF KeysOwned
    <2>5. Lease!Return(c, k)
        <3>1. [d \in Claims |-> KeysOwned(d)]' = [[d \in Claims |-> KeysOwned(d)] EXCEPT ![c] = @ \ {k}]
            BY <1>3, <2>4
        <3>2. [d \in Claims |-> LeasePhase(d)]' = [d \in Claims |-> LeasePhase(d)]
            BY <1>3, <1>5, <1>10 DEF GoesOn
        <3>3. {d \in Claims : claims[d].started}' = {d \in Claims : claims[d].started}
            BY <1>3, <1>10 DEF GoesOn
        <3> QED BY <1>5, <1>10, <2>2, <2>3, <3>1, <3>2, <3>3 DEF Lease!Return, GoesOn
    <2> QED BY <2>2, <2>5 DEF Lease!Next, Keys
<1>11. CASE /\ claims[c].status \in Held /\ claims'[c].status = "settled"
            /\ claims'[c].started <=> claims[c].started
            /\ resources' = {r \in resources : r.claim # c}
    <2>1. KeysOwned(c)' = {}
        BY <1>11 DEF KeysOwned
    <2>2. LeasePhase(c) = "held" /\ LeasePhase(c)' = "done"
        BY <1>11 DEF LeasePhase, Held
    <2>3. Lease!Finish(c)
        BY <1>3, <1>11, <2>1, <2>2 DEF Lease!Finish
    <2> QED BY <2>3 DEF Lease!Next
<1> QED BY <1>1, <1>6, <1>7, <1>8, <1>9, <1>10, <1>11 DEF LeaseMoves

\* And so is every step of the system.
LEMMA DispatchStepLease ==
    DispatchInv /\ LeaseInv /\ [DispatchNext]_dispatchVars => [Lease!Next]_Lease!leaseVars
<1> SUFFICES ASSUME DispatchInv, LeaseInv, [DispatchNext]_dispatchVars
             PROVE  [Lease!Next]_Lease!leaseVars
    OBVIOUS
<1>1. CASE UNCHANGED <<claims, resources>>
    BY <1>1 DEF Lease!leaseVars, LeasePhase, KeysOwned
<1>2. ASSUME ControlNext \/ Fenced PROVE UNCHANGED <<claims, resources>>
    BY <1>2, ControlStepMoves DEF DispatchInv, CoreInv, ControlMoves, ControlFrame
<1>3. ASSUME UNCHANGED dispatchVars PROVE UNCHANGED <<claims, resources>>
    BY <1>3 DEF dispatchVars, kernelVars, ledgerVars
<1> QED BY <1>1, <1>2, <1>3, WorkerLease DEF DispatchNext, TaskStep

\* An initialised platform has taken nothing.
LEMMA DispatchInitLease == DispatchInit => Lease!Init /\ LeaseInv
<1> SUFFICES ASSUME DispatchInit PROVE Lease!Init /\ LeaseInv
    OBVIOUS
<1>1. \A c \in Claims : claims[c] = NoClaim /\ KeysOwned(c) = {}
    BY DEF DispatchInit, KeysOwned
<1>2. LeaseInv
    BY <1>1 DEF LeaseInv, Leased, RunnerKeysOwned, NoClaim, Held
<1> QED BY <1>1, <1>2 DEF Lease!Init, LeasePhase, NoClaim

\* The dispatch system implements the lease protocol: through the journal, the
\* runners, the settlements and their recoveries an attempt still takes its
\* scope at once, crosses its start boundary once, keeps its last key until the
\* end, and never owns again after it.
THEOREM DispatchImplementsLease == DispatchSpec => LeaseSpec
BY DispatchInitInv, DispatchInitLease, StepDispatchInv, StepLeased, DispatchStepLease, PTL
   DEF DispatchSpec, LeaseSpec, Lease!Spec
==============================================================================
