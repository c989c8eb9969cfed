------------------------------ MODULE StandardRun ------------------------------
(***************************************************************************)
(* Standard cooperative runs (src/orchestrator/standard.py): the owner's   *)
(* signed Play, Pause and Resume, the mission under review                 *)
(* (src/orchestrator/missions.py), the brain's journal operations on the   *)
(* tasks of the run, producer worktrees (standard_worktrees.py), the brain *)
(* allowance (standard_budget.py) and the quarantine of an expired empty   *)
(* run (standard_quarantine.py), over several workspaces of one registry.  *)
(*                                                                         *)
(* Every operation is a transaction of the workspace's ledger; those that  *)
(* hold the registry too are serialised by its lock.  A claim reads the    *)
(* other ledgers under that lock before it writes, in two steps here.      *)
(*                                                                         *)
(* Native threads belong to the Codex host: the brain creates them with    *)
(* the permission an issue returns, and loses that permission in a crash.  *)
(***************************************************************************)
EXTENDS Integers, FiniteSets, Functions

CONSTANTS
    Workspaces,      \* the registered standard workspaces
    TaskIds,         \* identities a brain gives to the tasks of a run
    Repos,           \* canonical Git common directories
    Phases,          \* phase identities a mission may name
    FileScopes,      \* the exact file sets a producer may ask for
    Limits,          \* per workspace: the authority its mission grants
    Allowance,       \* what every task claims
    BrainAllowance,  \* what every Play reserves for the brain
    Counts,          \* bound: the token counts an observation may report
    MaxVersion,      \* bound: versions of one mission
    MaxRuns,         \* bound: runs of one workspace
    None

ASSUME LimitsAssumption ==
    \A w \in Workspaces :
        /\ Limits[w].tokenBudget \in Nat
        /\ Limits[w].reserve \in Nat
        /\ Limits[w].maxTasks \in Nat
        /\ Limits[w].maxParallel \in Nat
        /\ Limits[w].isolated \in BOOLEAN
        /\ Limits[w].merge \in BOOLEAN
        /\ Limits[w].scope \subseteq Repos
ASSUME AmountAssumption ==
    /\ Allowance \in Nat \ {0}
    /\ BrainAllowance \in Nat \ {0}
    /\ Counts \subseteq Nat
    /\ {MaxVersion, MaxRuns} \subseteq Nat
ASSUME NoneAssumption == None \notin Workspaces

VARIABLES
    run,         \* meta.standardRun of each ledger
    mission,     \* meta.missionConfiguration
    catalog,     \* a native model catalog is recorded and current
    quarantine,  \* the quarantine file and its ledger commit
    registry,    \* the claim that holds the registry lock, if any
    permission,  \* tasks the brain may still create: lost in a crash
    thread,      \* the native thread of each task
    inspection   \* merge inspections running outside the locks

runVars == <<run, mission, catalog, quarantine, registry, permission, thread,
             inspection>>

-----------------------------------------------------------------------------
(* Records.  A merge entry is part of the run: StandardMerge moves it.      *)

Terminal == {"completed", "failed", "not_created"}
Closed == {"completed", "blocked"}
Unsettled == {"prepared", "issued", "uncertain"}
Pending == {"queued", "processing"}

NoTask ==
    [status |-> "absent", repo |-> None, kind |-> "repo", files |-> {}, allowance |-> 0,
     observed |-> 0, seen |-> "none", worktree |-> "none", effectIssued |-> FALSE]

NoClaim == [by |-> None, task |-> None, repo |-> None, kind |-> "repo", files |-> {}]

NoMerge == [status |-> "none", task |-> None, pr |-> None]

NoRun ==
    [serial |-> 0, phase |-> 0, review |-> 0, status |-> "none", expired |-> FALSE,
     brainAllowance |-> 0, brainObserved |-> 0, tasks |-> [t \in TaskIds |-> NoTask],
     merge |-> NoMerge, pauseRecovery |-> "none", receiptRecovery |-> "none",
     recovery |-> "none"]

\* Tasks of a run, those not settled, and those of one repository.
Claimed(r) == {t \in TaskIds : r.tasks[t].status # "absent"}
Unfinished(r) == {t \in Claimed(r) : r.tasks[t].status \notin Terminal}
InRepo(r, repo) == {t \in Claimed(r) : r.tasks[t].repo = repo}

Larger(a, b) == IF a > b THEN a ELSE b

Charges(r) == [t \in TaskIds |-> Larger(r.tasks[t].allowance, r.tasks[t].observed)]

\* charged: reservations, or what was observed where that is more.
Charged(r) ==
    Larger(r.brainAllowance, r.brainObserved)
        + SumFunctionOnSet(Charges(r), Claimed(r))

\* Faulty variant: the checkpoint reserve is forgotten.
RemainingWithReserve(w) == Larger(0, Limits[w].tokenBudget - Charged(run[w]))

\* remainingAllowance of the projection.
RemainingAllowance(w) ==
    Larger(0, Limits[w].tokenBudget - Charged(run[w]) - Limits[w].reserve)

-----------------------------------------------------------------------------
(* Locks and commits.                                                       *)

\* ledger.tx: refused while either quarantine marker exists, and serialised
\* with a claim that holds this ledger.
LedgerTx(w) ==
    /\ quarantine[w] = "none"
    /\ registry.by # w

\* registry.tx and ledger.tx together.
BothTx(w) == registry.by = None /\ quarantine[w] = "none"

NoInspection == [op |-> "none", task |-> None, pr |-> None, saw |-> "none"]

\* Faulty variant: the revision is not compared again.
TouchUnseen(w) == UNCHANGED inspection

\* Every commit moves the revision of the ledger: a merge inspection that read
\* the one before is refused at its second lock, and forgotten here.
Touch(w) == inspection' = [inspection EXCEPT ![w] = [q \in DOMAIN @ |-> NoInspection]]

\* save: the new run of w, and nothing else of these variables.
Save(w, r) ==
    /\ run' = [run EXCEPT ![w] = r]
    /\ Touch(w)

-----------------------------------------------------------------------------
(* The mission and what stands against a run.                               *)

Eligible(w) == quarantine[w] = "none" /\ mission[w].status = "reviewed"

\* current_blockers: the exact reviewed mission, within the run's window.
Blocked(w) ==
    \/ ~Eligible(w)
    \/ mission[w].version # run[w].review
    \/ run[w].expired

\* projection "available".
Available(w) ==
    /\ Eligible(w)
    /\ catalog[w]
    /\ ~(run[w].status \in Closed /\ mission[w].phase = run[w].phase)

\* guard of both Pause recoveries: a pending permit admits only its own
\* receipt and the checkpoint.
Guarded(w) == {run[w].pauseRecovery, run[w].receiptRecovery} \cap Pending # {}

\* missions.change: save a draft for a phase, review it, revoke it.
SaveMission(w, phase) ==
    /\ LedgerTx(w)
    /\ mission[w].version < MaxVersion
    /\ mission' = [mission EXCEPT ![w] =
                      [phase |-> phase, version |-> @.version + 1, status |-> "draft"]]
    /\ Touch(w)
    /\ UNCHANGED <<run, catalog, quarantine, registry, permission, thread>>

DecideMission(w, from, to) ==
    /\ LedgerTx(w)
    /\ mission[w].status = from
    /\ mission' = [mission EXCEPT ![w].status = to]
    /\ Touch(w)
    /\ UNCHANGED <<run, catalog, quarantine, registry, permission, thread>>

ChangeMission(w) ==
    \/ \E phase \in Phases : SaveMission(w, phase)
    \/ DecideMission(w, "draft", "reviewed")
    \/ DecideMission(w, "reviewed", "revoked")

\* catalog_in: the brain records the native models; never during a run.
RecordCatalog(w) ==
    /\ BothTx(w)
    /\ Eligible(w)
    /\ run[w].status \in Closed \cup {"none"}
    /\ ~catalog[w]
    /\ catalog' = [catalog EXCEPT ![w] = TRUE]
    /\ Touch(w)
    /\ UNCHANGED <<run, mission, quarantine, registry, permission, thread>>

-----------------------------------------------------------------------------
(* Owner controls.  A preview is a signed token the ledger does not keep,    *)
(* and its confirmation rebuilds the context it shows: one that passes is a  *)
(* preview of the present state, and its repetition returns the first one's  *)
(* command.                                                                  *)

Replied(w) == run[w].recovery \in {"none", "replied"}

Pause(w) ==
    /\ BothTx(w)
    /\ run[w].status \in {"running", "stopping"}
    /\ Save(w, [run[w] EXCEPT !.status = "stopping"])
    /\ UNCHANGED <<mission, catalog, quarantine, registry, permission, thread>>

Resume(w) ==
    /\ BothTx(w)
    /\ Replied(w)
    /\ run[w].status = "paused"
    /\ Unfinished(run[w]) = {}
    /\ ~Blocked(w)
    /\ run[w].merge.status \notin {"issued", "uncertain"}
    /\ Save(w, [run[w] EXCEPT !.status = "running"])
    /\ UNCHANGED <<mission, catalog, quarantine, registry, permission, thread>>

\* What Play asks of the run before: settled, and of another phase.
MayReplace(w) ==
    /\ run[w].status \in Closed \cup {"none"}
    /\ Unfinished(run[w]) = {}
    /\ run[w].merge.status \notin {"issued", "uncertain"}
    /\ run[w].phase # mission[w].phase

Play(w) ==
    /\ BothTx(w)
    /\ Available(w)
    /\ Replied(w)
    /\ MayReplace(w)
    /\ BrainAllowance + Limits[w].reserve < Limits[w].tokenBudget
    /\ run[w].serial < MaxRuns
    /\ Save(w, [NoRun EXCEPT !.serial = run[w].serial + 1, !.phase = mission[w].phase,
                               !.review = mission[w].version, !.status = "running",
                               !.brainAllowance = BrainAllowance])
    /\ thread' = [thread EXCEPT ![w] = [t \in TaskIds |-> "none"]]  \* other task identities
    /\ UNCHANGED <<mission, catalog, quarantine, registry, permission>>

\* standard_budget.Controls.confirm: more for the brain in an empty paused run.
ReallocateBrain(w, amount) ==
    /\ BothTx(w)
    /\ run[w].status = "paused"
    /\ ~Blocked(w)
    /\ Claimed(run[w]) = {} /\ run[w].merge = NoMerge
    /\ Replied(w)
    /\ amount \in run[w].brainAllowance + 1 .. Limits[w].tokenBudget - Limits[w].reserve - 1
    /\ amount > run[w].brainObserved
    /\ Save(w, [run[w] EXCEPT !.brainAllowance = amount])
    /\ UNCHANGED <<mission, catalog, quarantine, registry, permission, thread>>

\* Ledger.recover: an abandoned controller stops the run whatever it was.
RecoverController(w) ==
    /\ LedgerTx(w)
    /\ run[w].serial > 0 /\ run[w].status # "stopping"
    /\ Save(w, [run[w] EXCEPT !.status = "stopping"])
    /\ UNCHANGED <<mission, catalog, quarantine, registry, permission, thread>>

-----------------------------------------------------------------------------
(* Claiming a task.                                                         *)

Isolated(w) == Limits[w].isolated

\* Slots still owed to the integration of every repository with a producer.
PendingIntegration(r, repo) ==
    LET of(kind) == {r.tasks[t].repo : t \in {u \in Claimed(r) : r.tasks[u].kind = kind}}
    IN  Cardinality((of("producer") \cup {repo}) \ of("integration"))

\* The rules for one task among the tasks of its repository.
MayProduce(w, repo, files) ==
    LET same == InRepo(run[w], repo) IN
    /\ \A t \in same :
          run[w].tasks[t].kind = "producer" /\ run[w].tasks[t].files \cap files = {}
    /\ Cardinality(Claimed(run[w])) + 1 + PendingIntegration(run[w], repo) <= Limits[w].maxTasks
    /\ \A t \in same \cap Unfinished(run[w]) : run[w].tasks[t].worktree = "fresh"

MayIntegrate(w, repo) ==
    LET same == InRepo(run[w], repo) IN
    /\ same # {}
    /\ \A t \in same : run[w].tasks[t].kind = "producer" /\ run[w].tasks[t].status = "completed"

MayTake(w, repo, kind, files) ==
    \/ /\ ~Isolated(w)
       /\ kind = "repo" /\ files = {}
       /\ InRepo(run[w], repo) \cap Unfinished(run[w]) = {}
    \/ /\ Isolated(w)
       /\ kind = "producer" /\ files \in FileScopes
       /\ MayProduce(w, repo, files)
    \/ /\ Isolated(w)
       /\ kind = "integration" /\ files = {}
       /\ MayIntegrate(w, repo)

\* The checks of a claim on its own ledger, which it keeps locked.
MayClaim(w, t) ==
    /\ run[w].status = "running" /\ ~Blocked(w) /\ ~Guarded(w)
    /\ run[w].merge.status \notin Unsettled
    /\ run[w].tasks[t].status = "absent"
    /\ Cardinality(Claimed(run[w])) < Limits[w].maxTasks
    /\ Cardinality(Unfinished(run[w])) < Limits[w].maxParallel
    /\ Allowance <= RemainingAllowance(w)

\* Faulty variant: a quarantine file without its commit holds nothing.
HeldByRecord(o, repo) == quarantine[o] = "recorded" /\ repo \in Limits[o].scope

\* A quarantined ledger holds its repositories; an incomplete one refuses all.
HeldByQuarantine(o, repo) ==
    \/ quarantine[o] = "claimed"
    \/ quarantine[o] = "recorded" /\ repo \in Limits[o].scope

\* Faulty variant: the merges of other workspaces are not read.
ForeignTasks(o, repo) ==
    HeldByQuarantine(o, repo) \/ InRepo(run[o], repo) \cap Unfinished(run[o]) # {}

\* What another ledger shows against a claim of this repository.
ForeignOwner(o, repo) ==
    \/ HeldByQuarantine(o, repo)
    \/ InRepo(run[o], repo) \cap Unfinished(run[o]) # {}
    \/ run[o].merge.status \in Unsettled /\ run[o].tasks[run[o].merge.task].repo = repo

\* claim, up to the reading of the last foreign ledger.
ReadClaim(w, t, repo, kind, files) ==
    /\ BothTx(w)
    /\ repo \in Limits[w].scope
    /\ MayClaim(w, t)
    /\ MayTake(w, repo, kind, files)
    /\ \A o \in Workspaces \ {w} : ~ForeignOwner(o, repo)
    /\ registry' = [by |-> w, task |-> t, repo |-> repo, kind |-> kind, files |-> files]
    /\ UNCHANGED <<run, mission, catalog, quarantine, permission, thread, inspection>>

\* claim, the commit.
Claim(w) ==
    /\ registry.by = w
    /\ registry' = NoClaim
    /\ Save(w, [run[w] EXCEPT !.tasks[registry.task] =
                   [NoTask EXCEPT !.status = "claimed", !.repo = registry.repo,
                                  !.kind = registry.kind, !.files = registry.files,
                                  !.allowance = Allowance]])
    /\ UNCHANGED <<mission, catalog, quarantine, permission, thread>>

-----------------------------------------------------------------------------
(* The brain's other journal operations.                                    *)

BrainOp(w) == BothTx(w) /\ run[w].serial > 0 /\ ~Guarded(w)

SaveTask(w, t, task) == Save(w, [run[w] EXCEPT !.tasks[t] = task])

\* Faulty variant: an effect without a thread is issued again.
IssueAgain(w, t) ==
    /\ BrainOp(w)
    /\ run[w].status = "running" /\ ~Blocked(w)
    /\ run[w].tasks[t].status \in {"claimed", "creating"}
    /\ SaveTask(w, t, [run[w].tasks[t] EXCEPT !.effectIssued = TRUE, !.status = "creating"])
    /\ permission' = [permission EXCEPT ![w] = @ \cup {t}]
    /\ UNCHANGED <<mission, catalog, quarantine, registry, thread>>

Issue(w, t) ==
    /\ BrainOp(w)
    /\ run[w].status = "running" /\ ~Blocked(w)
    /\ run[w].tasks[t].status = "claimed" /\ ~run[w].tasks[t].effectIssued
    /\ SaveTask(w, t, [run[w].tasks[t] EXCEPT !.effectIssued = TRUE, !.status = "creating"])
    /\ permission' = [permission EXCEPT ![w] = @ \cup {t}]
    /\ UNCHANGED <<mission, catalog, quarantine, registry, thread>>

\* bind: a confirmed thread, or first only the client's identity of it.
Bind(w, t, to) ==
    /\ BrainOp(w)
    /\ run[w].tasks[t].effectIssued
    /\ run[w].tasks[t].status \in {"creating", "pending"}
    /\ to \in {"active", "pending"} \ {run[w].tasks[t].status}
    /\ thread[w][t] # "none"
    /\ SaveTask(w, t, [run[w].tasks[t] EXCEPT !.status = to])
    /\ UNCHANGED <<mission, catalog, quarantine, registry, permission, thread>>

\* worktree_bind: a fresh verified worktree of an active task; an exact
\* replay of the retained observation changes nothing.
BindWorktree(w, t) ==
    /\ BrainOp(w)
    /\ Isolated(w)
    /\ run[w].tasks[t].status = "active"
    /\ run[w].tasks[t].worktree # "fresh"
    /\ SaveTask(w, t, [run[w].tasks[t] EXCEPT !.worktree = "fresh"])
    /\ UNCHANGED <<mission, catalog, quarantine, registry, permission, thread>>

\* observe: what the host shows of the thread, with a cumulative count.  A run
\* whose budget is used up stops.
Observe(w, t, tokens) ==
    /\ BrainOp(w)
    /\ run[w].tasks[t].status = "active"
    /\ tokens >= run[w].tasks[t].observed
    /\ LET task == [run[w].tasks[t] EXCEPT !.observed = tokens,
                                           !.seen = IF thread[w][t] = "idle" THEN "idle" ELSE "active"]
           next == [run[w] EXCEPT !.tasks[t] = task]
           spent == Charged(next) + Limits[w].reserve >= Limits[w].tokenBudget
       IN  /\ task # run[w].tasks[t]
           /\ Save(w, IF spent THEN [next EXCEPT !.status = "stopping"] ELSE next)
    /\ UNCHANGED <<mission, catalog, quarantine, registry, permission, thread>>

\* Faulty variant: any fresh observation will do.
FinishObserved(w, t, outcome) ==
    /\ BrainOp(w)
    /\ t \in Unfinished(run[w])
    /\ run[w].tasks[t].seen # "none"
    /\ Isolated(w) /\ outcome = "completed" => run[w].tasks[t].worktree = "fresh"
    /\ LET next == [run[w] EXCEPT !.tasks[t] = [@ EXCEPT !.status = outcome, !.seen = "none"]]
       IN  Save(w, IF outcome = "failed" THEN [next EXCEPT !.status = "stopping"] ELSE next)
    /\ UNCHANGED <<mission, catalog, quarantine, registry, permission, thread>>

\* finish: on a fresh observation of an idle thread.
Finish(w, t, outcome) ==
    /\ BrainOp(w)
    /\ t \in Unfinished(run[w])
    /\ run[w].tasks[t].seen = "idle"
    /\ Isolated(w) /\ outcome = "completed" => run[w].tasks[t].worktree = "fresh"
    /\ LET next == [run[w] EXCEPT !.tasks[t] = [@ EXCEPT !.status = outcome, !.seen = "none"]]
       IN  Save(w, IF outcome = "failed" THEN [next EXCEPT !.status = "stopping"] ELSE next)
    /\ UNCHANGED <<mission, catalog, quarantine, registry, permission, thread>>

\* preserve: an artifact of a confirmed task; only the revision shows here.
Preserve(w, t) ==
    /\ BrainOp(w)
    /\ run[w].tasks[t].status \in {"active", "completed", "failed"}
    /\ \E q \in DOMAIN inspection[w] : inspection[w][q] # NoInspection
    /\ Touch(w)
    /\ UNCHANGED <<run, mission, catalog, quarantine, registry, permission, thread>>

CancelUnissued(w, t) ==
    /\ BrainOp(w)
    /\ run[w].tasks[t].status = "claimed"
    /\ ~run[w].tasks[t].effectIssued
    /\ SaveTask(w, t, [run[w].tasks[t] EXCEPT !.status = "not_created"])
    /\ UNCHANGED <<mission, catalog, quarantine, registry, permission, thread>>

\* What a checkpoint asks of the tasks and of the merge.
MayCheckpoint(w, outcome) ==
    /\ run[w].serial > 0
    /\ Unfinished(run[w]) = {}
    /\ outcome \in Closed => run[w].merge.status \notin Unsettled
    /\ outcome = "completed" =>
          Claimed(run[w]) # {}
              /\ \A t \in Claimed(run[w]) : run[w].tasks[t].status = "completed"

\* The run after a checkpoint that also measures the brain.
Checkpointed(r, outcome, tokens) ==
    [r EXCEPT !.status = outcome, !.brainObserved = tokens,
              !.brainAllowance = Larger(@, tokens)]

Checkpoint(w, outcome, tokens) ==
    /\ BothTx(w)
    /\ ~Guarded(w)
    /\ MayCheckpoint(w, outcome)
    /\ tokens >= run[w].brainObserved
    /\ <<run[w].status, run[w].brainObserved>> # <<outcome, tokens>>
    /\ Save(w, Checkpointed(run[w], outcome, tokens))
    /\ UNCHANGED <<mission, catalog, quarantine, registry, permission, thread>>

-----------------------------------------------------------------------------
(* Quarantine of an expired empty run: a permanent file, then the commit.   *)

MayQuarantine(w) ==
    /\ BothTx(w)
    /\ run[w].status = "paused" /\ run[w].expired
    /\ Claimed(run[w]) = {} /\ run[w].merge = NoMerge
    /\ \A o \in Workspaces \ {w} :
          /\ \A t \in Unfinished(run[o]) : run[o].tasks[t].repo \notin Limits[w].scope
          /\ run[o].merge.status \in Unsettled
                 => run[o].tasks[run[o].merge.task].repo \notin Limits[w].scope

\* The second disjunct is a crash between the file and the commit.
Quarantine(w) ==
    /\ MayQuarantine(w)
    /\ \/ quarantine' = [quarantine EXCEPT ![w] = "recorded"]
       \/ quarantine' = [quarantine EXCEPT ![w] = "claimed"]
    /\ UNCHANGED <<run, mission, catalog, registry, permission, thread, inspection>>

-----------------------------------------------------------------------------
(* The native host, the brain's crash and the clock.                        *)

\* External: the brain's one native creation under an issued permission.
CreateThread(w, t) ==
    /\ t \in permission[w]
    /\ permission' = [permission EXCEPT ![w] = @ \ {t}]
    /\ thread' = [thread EXCEPT ![w][t] = IF @ = "none" THEN "working" ELSE "twin"]
    /\ UNCHANGED <<run, mission, catalog, quarantine, registry, inspection>>

\* External: a native task ends its work.
ThreadIdles(w, t) ==
    /\ thread[w][t] = "working"
    /\ thread' = [thread EXCEPT ![w][t] = "idle"]
    /\ UNCHANGED <<run, mission, catalog, quarantine, registry, permission, inspection>>

\* External: the brain's turn dies; what it was allowed to do is forgotten.
BrainCrash(w) ==
    /\ permission[w] # {}
    /\ permission' = [permission EXCEPT ![w] = {}]
    /\ UNCHANGED <<run, mission, catalog, quarantine, registry, thread, inspection>>

\* Time: the window of a run ends.
Expire(w) ==
    /\ run[w].status \in {"running", "stopping", "paused"} /\ ~run[w].expired
    /\ registry.by = None
    /\ run' = [run EXCEPT ![w].expired = TRUE]
    /\ UNCHANGED <<mission, catalog, quarantine, registry, permission, thread,
                   inspection>>

\* Time: a native observation of a task is too old to be used.
Aged(task) ==
    [task EXCEPT !.seen = "none", !.worktree = IF @ = "fresh" THEN "stale" ELSE @]

Age(w, t) ==
    /\ t \in Unfinished(run[w])
    /\ <<run[w].tasks[t].seen, run[w].tasks[t].worktree>> # <<"none", "none">>
    /\ registry.by = None
    /\ run' = [run EXCEPT ![w] = [@ EXCEPT !.tasks[t] = Aged(run[w].tasks[t])]]
    /\ UNCHANGED <<mission, catalog, quarantine, registry, permission, thread,
                   inspection>>
===============================================================================
