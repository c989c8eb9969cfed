----------------------------- MODULE StandardProofs -----------------------------
(***************************************************************************)
(* Theorems about the cooperative runs of any number of workspaces, tasks, *)
(* repositories and pull requests: without the bounds and the constraint   *)
(* under which TLC searches Standard.                                      *)
(***************************************************************************)
EXTENDS Standard, SumTheorems, TLAPS

\* A task that is claimed and not settled, as Unfinished says of a whole run.
Working(r, t) == r.tasks[t].status \notin {"absent"} \cup Terminal

\* A repository that a run works on, as WorksOn says of a workspace.
Busy(r, repo) ==
    \/ \E t \in TaskIds : Working(r, t) /\ r.tasks[t].repo = repo
    \/ r.merge.status \in Unsettled /\ r.tasks[r.merge.task].repo = repo

\* What the journal says of a task agrees with its permission and its thread.
TaskAgrees(w, t) ==
    LET task == run[w].tasks[t] IN
    /\ task.status \in {"absent", "claimed", "not_created"} => ~task.effectIssued
    /\ ~task.effectIssued => thread[w][t] = "none" /\ t \notin permission[w]
    /\ t \in permission[w] => task.status = "creating" /\ thread[w][t] = "none"
    /\ thread[w][t] # "twin"
    /\ thread[w][t] = "working" => Working(run[w], t)
    /\ task.seen = "idle" => thread[w][t] = "idle"

\* A run that rests or has a merge to settle has no task at work; a merge is of a
\* completed task, and its pull request is retained.
RunAgrees(w) ==
    /\ run[w].status \in Closed \cup {"paused"} \/ run[w].merge.status \in Unsettled =>
          \A t \in TaskIds : ~Working(run[w], t)
    /\ \/ run[w].merge = NoMerge
       \/ /\ run[w].merge.status # "none"
          /\ run[w].merge.task \in TaskIds /\ run[w].tasks[run[w].merge.task].status = "completed"
          /\ run[w].merge.pr \in bound[w]

\* An inspection that was not forgotten read the merge entry that is still there,
\* and what it saw of the pull request stays true in part: a merge is final, and
\* one that was closed is never "open" again.
InspectionAgrees(w, q) ==
    LET i == inspection[w][q] IN
    /\ i.op = "none" => i.saw = "none"
    /\ i.op # "none" => i.task \in TaskIds /\ i.pr \in PullRequests
    /\ i.op = "prepare" => run[w].merge = NoMerge /\ i.pr \notin bound[w]
    /\ i.op = "check" => run[w].merge = [status |-> "prepared", task |-> i.task, pr |-> i.pr]
    /\ i.op = "reconcile" =>
          run[w].merge.status \in Unsettled /\ run[w].merge.task = i.task /\ run[w].merge.pr = i.pr
    /\ i.saw = "merged" => pull[i.pr] = "merged"
    /\ i.saw = "closed" => pull[i.pr] # "open"

\* What a claim has read is still so when it commits.
ClaimStands ==
    registry.by # None =>
        /\ run[registry.by].status = "running"
        /\ run[registry.by].merge.status \notin Unsettled
        /\ run[registry.by].tasks[registry.task].status = "absent"
        /\ \A o \in Workspaces \ {registry.by} :
              ~Busy(run[o], registry.repo) /\ ~HeldByQuarantine(o, registry.repo)

\* OneOwner, pair by pair.
OwnersApart ==
    \A w, o \in Workspaces : w # o =>
        \A repo \in Repos \cup {None} : ~(Busy(run[w], repo) /\ Busy(run[o], repo))

\* A pull request is retained by one workspace, and its merge command is permitted
\* at most once.  While it may still take effect, the merge is the workspace's own
\* and not settled, or it was settled when the pull request was closed.
Dropped(pr) == \A w \in Workspaces : run[w].merge.pr = pr => run[w].merge.status = "not-merged"
BoundApart == \A w, o \in Workspaces : w # o => bound[w] \cap bound[o] = {}
PullAgrees(pr) ==
    /\ sends[pr] <= 1 /\ (wire[pr] = "permit" => sends[pr] = 0)
    /\ (\A w \in Workspaces : pr \notin bound[w]) => sends[pr] = 0 /\ wire[pr] = "none"
    /\ \A w \in Workspaces : run[w].merge.pr = pr /\ run[w].merge.status = "prepared" =>
          sends[pr] = 0 /\ wire[pr] = "none"
    /\ wire[pr] # "none" /\ pull[pr] # "merged" =>
          \/ \E w \in Workspaces : run[w].merge.pr = pr /\ run[w].merge.status \in {"issued", "uncertain"}
          \/ pull[pr] # "open" /\ Dropped(pr)

\* QuarantineHolds, task by task.
QuarantineStands ==
    \A w, o \in Workspaces : w # o /\ quarantine[w] # "none" =>
        \A t \in TaskIds : Working(run[o], t) => run[o].tasks[t].repo \notin Limits[w].scope

IInv ==
    /\ StandardTypeOK
    /\ \A w \in Workspaces : RunAgrees(w)
    /\ \A w \in Workspaces, t \in TaskIds : TaskAgrees(w, t)
    /\ \A w \in Workspaces, q \in Requests : InspectionAgrees(w, q)
    /\ ClaimStands
    /\ OwnersApart
    /\ BoundApart
    /\ \A pr \in PullRequests : PullAgrees(pr)
    /\ QuarantineStands
-------------------------------------------------------------------------------
(* Type correctness (StandardTypeOK): the shape of every ledger. *)

\* The empty records of the model have their types.
LEMMA NoRunTyped ==
    /\ NoTask \in TaskRecords /\ NoMerge \in MergeRecords /\ NoRun \in RunRecords
    /\ NoInspection \in InspectionRecords
<1>1. NoTask \in TaskRecords
    BY DEF NoTask, TaskRecords
<1>2. NoMerge \in MergeRecords
    BY DEF NoMerge, MergeRecords
<1>3. NoRun \in RunRecords
    BY <1>1, <1>2 DEF NoRun, RunRecords
<1>4. NoInspection \in InspectionRecords
    BY DEF NoInspection, InspectionRecords
<1> QED BY <1>1, <1>2, <1>3, <1>4

\* The first state has its types.
LEMMA InitTypeOK == Init => StandardTypeOK
<1> SUFFICES ASSUME Init PROVE StandardTypeOK
    OBVIOUS
<1> QED BY NoRunTyped DEF Init, StandardTypeOK, PullStates

\* A commit: the other workspaces, and the inspections it forgets.
LEMMA SaveEffect ==
    ASSUME StandardTypeOK, NEW w \in Workspaces, NEW r \in RunRecords, Save(w, r)
    PROVE  /\ run' \in [Workspaces -> RunRecords]
           /\ run'[w] = r /\ \A o \in Workspaces \ {w} : run'[o] = run[o]
           /\ inspection' \in [Workspaces -> [Requests -> InspectionRecords]]
           /\ \A q \in Requests : inspection'[w][q] = NoInspection
           /\ \A o \in Workspaces \ {w} : inspection'[o] = inspection[o]
BY NoRunTyped DEF StandardTypeOK, Save, Touch

\* A commit that leaves the run alone still forgets the inspections of its workspace.
LEMMA TouchEffect ==
    ASSUME StandardTypeOK, NEW w \in Workspaces, Touch(w)
    PROVE  /\ inspection' \in [Workspaces -> [Requests -> InspectionRecords]]
           /\ \A q \in Requests : inspection'[w][q] = NoInspection
           /\ \A o \in Workspaces \ {w} : inspection'[o] = inspection[o]
BY NoRunTyped DEF StandardTypeOK, Touch

\* One field of a run, or one of its tasks, in its new shape.
LEMMA TaskSet ==
    ASSUME NEW r \in RunRecords, NEW t \in TaskIds, NEW task \in TaskRecords
    PROVE  LET n == [r EXCEPT !.tasks[t] = task] IN
           /\ n \in RunRecords
           /\ n.tasks[t] = task /\ \A u \in TaskIds \ {t} : n.tasks[u] = r.tasks[u]
           /\ n.merge = r.merge /\ n.status = r.status
BY DEF RunRecords

\* A run in another status keeps its tasks and its merge.
LEMMA StatusSet ==
    ASSUME NEW r \in RunRecords,
           NEW s \in {"none", "running", "stopping", "paused"} \cup Closed
    PROVE  LET n == [r EXCEPT !.status = s] IN
           n \in RunRecords /\ n.status = s /\ n.tasks = r.tasks /\ n.merge = r.merge
BY DEF RunRecords
-------------------------------------------------------------------------------
(* The operators of the model in terms of single tasks. *)

\* Unfinished tasks, and those of one repository, task by task.
LEMMA WorkingTasks ==
    ASSUME NEW r
    PROVE  /\ \A t : t \in Unfinished(r) <=> t \in TaskIds /\ Working(r, t)
           /\ \A repo : InRepo(r, repo) \cap Unfinished(r) = {} <=>
                 \A t \in TaskIds : Working(r, t) => r.tasks[t].repo # repo
BY DEF Unfinished, Claimed, Working, InRepo

\* OneOwner's workspaces are those whose run is busy with the repository.
LEMMA BusyWorkspaces ==
    \A w, repo : WorksOn(w, repo) <=> Busy(run[w], repo)
BY WorkingTasks DEF WorksOn, MergeOwns, Busy

\* A claim that holds the registry is of a workspace, a task and a repository.
LEMMA ClaimTyped ==
    StandardTypeOK /\ registry.by # None =>
        registry.by \in Workspaces /\ registry.task \in TaskIds /\ registry.repo \in Repos
BY NoneAssumption DEF StandardTypeOK, NoClaim

-------------------------------------------------------------------------------
(* Moves: all that the invariant needs to know of the steps that are alike. *)

Elsewhere(w) ==
    \A o \in Workspaces \ {w} :
        /\ run'[o] = run[o] /\ inspection'[o] = inspection[o]
        /\ permission'[o] = permission[o] /\ thread'[o] = thread[o]

Forgets(w) == \A q \in Requests : inspection'[w][q] \in {inspection[w][q], NoInspection}

\* Neither a task nor the merge of w moves, and it comes to rest only without tasks.
Stays(w) ==
    /\ Elsewhere(w) /\ Forgets(w)
    /\ run'[w].tasks = run[w].tasks /\ run'[w].merge = run[w].merge
    /\ permission'[w] = permission[w] /\ thread'[w] = thread[w]
    /\ registry.by = w => run'[w].status = run[w].status
    /\ run'[w].status \in Closed \cup {"paused"} =>
          \/ run[w].status \in Closed \cup {"paused"}
          \/ \A t \in TaskIds : ~Working(run[w], t)
    /\ UNCHANGED <<quarantine, registry, mergeVars>>

\* One unsettled task of w moves, while no claim holds the registry.
TaskMoves(w, t) ==
    /\ Elsewhere(w) /\ Forgets(w)
    /\ registry.by = None
    /\ Working(run[w], t)
    /\ run'[w].merge = run[w].merge /\ run'[w].status \in {run[w].status, "stopping"}
    /\ run'[w].tasks[t].repo = run[w].tasks[t].repo
    /\ TaskAgrees(w, t)'
    /\ \A u \in TaskIds \ {t} :
          /\ run'[w].tasks[u] = run[w].tasks[u] /\ thread'[w][u] = thread[w][u]
          /\ u \in permission'[w] <=> u \in permission[w]
    /\ UNCHANGED <<quarantine, registry, mergeVars>>

\* The native host or the brain moves beside the ledger of w.
HostMoves(w) ==
    /\ Elsewhere(w)
    /\ \A t \in TaskIds : TaskAgrees(w, t)'
    /\ UNCHANGED <<run, inspection, quarantine, registry, mergeVars>>

\* A step that moves neither tasks nor merge keeps the invariant.
LEMMA StaysKeeps ==
    ASSUME IInv, StandardTypeOK', NEW w \in Workspaces, Stays(w)
    PROVE  IInv'
<1> USE DEF Stays, Elsewhere, Forgets, mergeVars
<1>1. \A o \in Workspaces, t \in TaskIds : Working(run'[o], t) <=> Working(run[o], t)
    BY DEF Working
<1>2. \A o \in Workspaces : \A repo : Busy(run'[o], repo) <=> Busy(run[o], repo)
    BY <1>1 DEF Busy, Working
<1>3. ASSUME NEW o \in Workspaces PROVE RunAgrees(o)'
    BY <1>1 DEF IInv, RunAgrees
<1>4. ASSUME NEW o \in Workspaces, NEW t \in TaskIds PROVE TaskAgrees(o, t)'
    BY <1>1 DEF IInv, TaskAgrees
<1>5. ASSUME NEW o \in Workspaces, NEW q \in Requests PROVE InspectionAgrees(o, q)'
    BY DEF IInv, InspectionAgrees, NoInspection
<1>6. ClaimStands'
    <2>1. registry.by # None => registry.by \in Workspaces
        BY ClaimTyped DEF IInv
    <2> QED BY <1>2, <2>1 DEF IInv, ClaimStands, HeldByQuarantine
<1>7. OwnersApart' /\ BoundApart'
    BY <1>2 DEF IInv, OwnersApart, BoundApart
<1>8. ASSUME NEW pr \in PullRequests PROVE PullAgrees(pr)'
    BY DEF IInv, PullAgrees, Dropped
<1>9. QuarantineStands'
    BY <1>1 DEF IInv, QuarantineStands
<1> QED BY <1>3, <1>4, <1>5, <1>6, <1>7, <1>8, <1>9 DEF IInv

\* A step of one unsettled task keeps the invariant.
LEMMA TaskMovesKeeps ==
    ASSUME IInv, StandardTypeOK', NEW w \in Workspaces, NEW t \in TaskIds, TaskMoves(w, t)
    PROVE  IInv'
<1> USE DEF TaskMoves, Elsewhere, Forgets, mergeVars
<1>1. \A o \in Workspaces, u \in TaskIds :
         Working(run'[o], u) => Working(run[o], u) /\ run'[o].tasks[u].repo = run[o].tasks[u].repo
    BY DEF Working
<1>2. \A o \in Workspaces : RunAgrees(o)
    BY DEF IInv
<1>3. \A o \in Workspaces : \A repo : Busy(run'[o], repo) => Busy(run[o], repo)
    BY <1>1, <1>2 DEF Busy, RunAgrees, Working, Terminal, NoMerge, Unsettled
<1>4. ASSUME NEW o \in Workspaces PROVE RunAgrees(o)'
    BY <1>1, <1>2 DEF RunAgrees, Working, Terminal, Closed
<1>5. ASSUME NEW o \in Workspaces, NEW u \in TaskIds PROVE TaskAgrees(o, u)'
    BY DEF IInv, TaskAgrees, Working
<1>6. ASSUME NEW o \in Workspaces, NEW q \in Requests PROVE InspectionAgrees(o, q)'
    BY DEF IInv, InspectionAgrees, NoInspection
<1>7. ClaimStands'
    BY DEF ClaimStands
<1>8. OwnersApart' /\ BoundApart'
    BY <1>3 DEF IInv, OwnersApart, BoundApart
<1>9. ASSUME NEW pr \in PullRequests PROVE PullAgrees(pr)'
    BY DEF IInv, PullAgrees, Dropped
<1>10. QuarantineStands'
    BY <1>1 DEF IInv, QuarantineStands
<1> QED BY <1>4, <1>5, <1>6, <1>7, <1>8, <1>9, <1>10 DEF IInv

\* A step beside the ledgers and the registry leaves their claims as they are.
LEMMA SameLedgers ==
    ASSUME IInv, UNCHANGED <<run, registry, quarantine, bound>>
    PROVE  /\ \A o \in Workspaces : RunAgrees(o)'
           /\ ClaimStands' /\ OwnersApart' /\ BoundApart' /\ QuarantineStands'
<1>1. \A o \in Workspaces : RunAgrees(o)'
    BY DEF IInv, RunAgrees, Working
<1>2. ClaimStands'
    BY DEF IInv, ClaimStands, HeldByQuarantine, Busy, Working
<1>3. OwnersApart' /\ BoundApart'
    BY DEF IInv, OwnersApart, BoundApart, Busy, Working
<1>4. QuarantineStands'
    BY DEF IInv, QuarantineStands, Working
<1> QED BY <1>1, <1>2, <1>3, <1>4

\* A step of the host beside the ledger keeps the invariant.
LEMMA HostMovesKeeps ==
    ASSUME IInv, StandardTypeOK', NEW w \in Workspaces, HostMoves(w)
    PROVE  IInv'
<1> USE DEF HostMoves, Elsewhere, mergeVars
<1>1. /\ \A o \in Workspaces : RunAgrees(o)'
      /\ ClaimStands' /\ OwnersApart' /\ BoundApart' /\ QuarantineStands'
    BY SameLedgers
<1>2. ASSUME NEW o \in Workspaces, NEW u \in TaskIds PROVE TaskAgrees(o, u)'
    BY DEF IInv, TaskAgrees, Working
<1>3. ASSUME NEW o \in Workspaces, NEW q \in Requests PROVE InspectionAgrees(o, q)'
    BY DEF IInv, InspectionAgrees
<1>5. ASSUME NEW pr \in PullRequests PROVE PullAgrees(pr)'
    BY DEF IInv, PullAgrees, Dropped
<1> QED BY <1>1, <1>2, <1>3, <1>5 DEF IInv
-------------------------------------------------------------------------------
(* The steps, by their moves. *)

\* A commit of another status, budget or recovery state of the same run.
LEMMA SaveStays ==
    ASSUME StandardTypeOK, NEW w \in Workspaces, NEW r \in RunRecords, Save(w, r),
           r.tasks = run[w].tasks, r.merge = run[w].merge,
           registry.by # w \/ r.status = run[w].status,
           r.status \in Closed \cup {"paused"} =>
               \/ run[w].status \in Closed \cup {"paused"}
               \/ \A t \in TaskIds : ~Working(run[w], t),
           UNCHANGED <<mission, catalog, quarantine, registry, permission, thread, mergeVars>>
    PROVE  StandardTypeOK' /\ Stays(w)
<1>1. StandardTypeOK'
    BY SaveEffect DEF StandardTypeOK, mergeVars
<1>2. Stays(w)
    BY SaveEffect DEF Stays, Elsewhere, Forgets
<1> QED BY <1>1, <1>2

\* The owner's controls, but for Play and the quarantine.
LEMMA OwnerStays ==
    ASSUME StandardTypeOK, NEW w \in Workspaces, OwnerStep(w), UNCHANGED mergeVars
    PROVE  (StandardTypeOK' /\ Stays(w)) \/ Play(w) \/ Quarantine(w)
<1> run[w] \in RunRecords
    BY DEF StandardTypeOK
<1>1. CASE ChangeMission(w)
    <2>1. Touch(w) /\ UNCHANGED <<run, catalog, quarantine, registry, permission, thread>>
        BY <1>1 DEF ChangeMission, SaveMission, DecideMission
    <2>2. mission' \in [Workspaces -> [phase : Phases \cup {0}, version : Nat,
                                       status : {"none", "draft", "reviewed", "revoked"}]]
        <3> DEFINE Missions == [phase : Phases \cup {0}, version : Nat,
                                status : {"none", "draft", "reviewed", "revoked"}]
        <3>1. mission \in [Workspaces -> Missions] /\ mission[w] \in Missions
            BY DEF StandardTypeOK
        <3>2. ASSUME NEW phase \in Phases, SaveMission(w, phase)
              PROVE  mission' \in [Workspaces -> Missions]
            BY <3>1, <3>2 DEF SaveMission
        <3>3. ASSUME NEW to \in {"reviewed", "revoked"},
                     mission' = [mission EXCEPT ![w].status = to]
              PROVE  mission' \in [Workspaces -> Missions]
            BY <3>1, <3>3
        <3> QED BY <1>1, <3>2, <3>3 DEF ChangeMission, DecideMission
    <2>3. StandardTypeOK'
        BY <2>1, <2>2, TouchEffect DEF StandardTypeOK, mergeVars
    <2>4. Stays(w)
        BY <2>1, TouchEffect DEF Stays, Elsewhere, Forgets, mergeVars
    <2> QED BY <2>3, <2>4
<1>2. CASE Pause(w)
    <2> DEFINE r == [run[w] EXCEPT !.status = "stopping"]
    <2>1. Save(w, r) /\ UNCHANGED <<mission, catalog, quarantine, registry, permission, thread>>
        BY <1>2 DEF Pause
    <2>2. registry.by # w
        BY <1>2, NoneAssumption DEF Pause, BothTx
    <2>3. r \in RunRecords /\ r.tasks = run[w].tasks /\ r.merge = run[w].merge /\ r.status = "stopping"
        BY StatusSet
    <2> HIDE DEF r
    <2> QED BY <2>1, <2>2, <2>3, SaveStays DEF Closed
<1>3. CASE Resume(w)
    <2> DEFINE r == [run[w] EXCEPT !.status = "running"]
    <2>1. Save(w, r) /\ UNCHANGED <<mission, catalog, quarantine, registry, permission, thread>>
        BY <1>3 DEF Resume
    <2>2. registry.by # w
        BY <1>3, NoneAssumption DEF Resume, BothTx
    <2>3. r \in RunRecords /\ r.tasks = run[w].tasks /\ r.merge = run[w].merge /\ r.status = "running"
        BY StatusSet
    <2> HIDE DEF r
    <2> QED BY <2>1, <2>2, <2>3, SaveStays DEF Closed
<1>4. ASSUME NEW amount \in 1 .. Limits[w].tokenBudget, ReallocateBrain(w, amount)
      PROVE  StandardTypeOK' /\ Stays(w)
    <2> DEFINE r == [run[w] EXCEPT !.brainAllowance = amount]
    <2>1. r \in RunRecords /\ r.tasks = run[w].tasks /\ r.merge = run[w].merge
             /\ r.status = run[w].status
        BY DEF RunRecords
    <2>2. Save(w, r) /\ UNCHANGED <<mission, catalog, quarantine, registry, permission, thread>>
        BY <1>4 DEF ReallocateBrain
    <2> HIDE DEF r
    <2> QED BY <2>1, <2>2, SaveStays
<1>5. CASE RecoverController(w)
    <2> DEFINE r == [run[w] EXCEPT !.status = "stopping"]
    <2>1. Save(w, r) /\ UNCHANGED <<mission, catalog, quarantine, registry, permission, thread>>
        BY <1>5 DEF RecoverController
    <2>2. registry.by # w
        BY <1>5 DEF RecoverController, LedgerTx
    <2>3. r \in RunRecords /\ r.tasks = run[w].tasks /\ r.merge = run[w].merge /\ r.status = "stopping"
        BY StatusSet
    <2> HIDE DEF r
    <2> QED BY <2>1, <2>2, <2>3, SaveStays DEF Closed
<1> QED BY <1>1, <1>2, <1>3, <1>4, <1>5 DEF OwnerStep

\* The brain's operations on its ledger as a whole, but for a claim; and time.
LEMMA BrainStays ==
    ASSUME StandardTypeOK, NEW w \in Workspaces, BrainStep(w), UNCHANGED mergeVars
    PROVE  (StandardTypeOK' /\ Stays(w)) \/ Claim(w) \/ BrainCrash(w)
<1> run[w] \in RunRecords
    BY DEF StandardTypeOK
<1>1. CASE RecordCatalog(w)
    BY <1>1, TouchEffect DEF RecordCatalog, StandardTypeOK, Stays, Elsewhere, Forgets, mergeVars
<1>2. ASSUME NEW outcome \in {"completed", "blocked", "paused"}, NEW tokens \in Counts,
             Checkpoint(w, outcome, tokens)
      PROVE  StandardTypeOK' /\ Stays(w)
    <2> DEFINE r == Checkpointed(run[w], outcome, tokens)
    <2>1. r \in RunRecords /\ r.tasks = run[w].tasks /\ r.merge = run[w].merge
        <3>1. tokens \in Nat /\ Larger(run[w].brainAllowance, tokens) \in Nat
            BY AmountAssumption DEF Larger, RunRecords
        <3> QED BY <3>1 DEF Checkpointed, RunRecords, Closed
    <2>2. Save(w, r) /\ UNCHANGED <<mission, catalog, quarantine, registry, permission, thread>>
        BY <1>2 DEF Checkpoint
    <2>3. registry.by # w /\ \A t \in TaskIds : ~Working(run[w], t)
        BY <1>2, WorkingTasks, NoneAssumption DEF Checkpoint, BothTx, MayCheckpoint
    <2> HIDE DEF r
    <2> QED BY <2>1, <2>2, <2>3, SaveStays
<1>3. CASE Expire(w)
    <2>1. [run[w] EXCEPT !.expired = TRUE] \in RunRecords
        BY DEF RunRecords
    <2>2. StandardTypeOK'
        BY <1>3, <2>1 DEF Expire, StandardTypeOK, mergeVars
    <2>3. Stays(w)
        BY <1>3 DEF Expire, StandardTypeOK, RunRecords, Stays, Elsewhere, Forgets, mergeVars
    <2> QED BY <2>2, <2>3
<1> QED BY <1>1, <1>2, <1>3 DEF BrainStep

\* A commit of one unsettled task of w, with its permission.
LEMMA SaveTaskMoves ==
    ASSUME StandardTypeOK, NEW w \in Workspaces, NEW t \in TaskIds, NEW task \in TaskRecords,
           NEW r \in RunRecords, Save(w, r),
           r.tasks[t] = task, \A u \in TaskIds \ {t} : r.tasks[u] = run[w].tasks[u],
           r.merge = run[w].merge, r.status \in {run[w].status, "stopping"},
           registry.by = None, Working(run[w], t), task.repo = run[w].tasks[t].repo,
           permission' = permission \/ permission' = [permission EXCEPT ![w] = @ \cup {t}],
           TaskAgrees(w, t)',
           UNCHANGED <<mission, catalog, quarantine, registry, thread, mergeVars>>
    PROVE  StandardTypeOK' /\ TaskMoves(w, t)
<1>1. permission' \in [Workspaces -> SUBSET TaskIds]
    <2>1. permission \in [Workspaces -> SUBSET TaskIds] /\ permission[w] \cup {t} \in SUBSET TaskIds
        BY DEF StandardTypeOK
    <2> QED BY <2>1
<1>2. StandardTypeOK'
    BY <1>1, SaveEffect DEF StandardTypeOK, mergeVars
<1>3. \A o \in Workspaces \ {w} : permission'[o] = permission[o]
    BY DEF StandardTypeOK
<1>4. \A u \in TaskIds \ {t} : u \in permission'[w] <=> u \in permission[w]
    BY DEF StandardTypeOK
<1>5. TaskMoves(w, t)
    BY <1>3, <1>4, SaveEffect DEF TaskMoves, Elsewhere, Forgets
<1> QED BY <1>2, <1>5

\* One that neither issues an effect nor moves a thread.
LEMMA EditMoves ==
    ASSUME IInv, NEW w \in Workspaces, NEW t \in TaskIds, NEW task \in TaskRecords,
           NEW status \in {run[w].status, "stopping"},
           Save(w, [[run[w] EXCEPT !.tasks[t] = task] EXCEPT !.status = status]),
           registry.by = None, Working(run[w], t), task.repo = run[w].tasks[t].repo,
           task.effectIssued = run[w].tasks[t].effectIssued,
           task.status \in {"absent", "claimed", "not_created"} => ~task.effectIssued,
           t \in permission[w] => task.status = "creating",
           thread[w][t] = "working" => task.status \notin {"absent"} \cup Terminal,
           task.seen = "idle" => thread[w][t] = "idle",
           UNCHANGED <<mission, catalog, quarantine, registry, permission, thread, mergeVars>>
    PROVE  StandardTypeOK' /\ TaskMoves(w, t)
<1> DEFINE r == [[run[w] EXCEPT !.tasks[t] = task] EXCEPT !.status = status]
<1>1. StandardTypeOK /\ run[w] \in RunRecords /\ TaskAgrees(w, t)
    BY DEF IInv, StandardTypeOK
<1>2. status \in {"none", "running", "stopping", "paused"} \cup Closed
    BY <1>1 DEF RunRecords
<1>3. /\ r \in RunRecords /\ r.status = status /\ r.merge = run[w].merge
      /\ r.tasks[t] = task /\ \A u \in TaskIds \ {t} : r.tasks[u] = run[w].tasks[u]
    <2> DEFINE n == [run[w] EXCEPT !.tasks[t] = task]
    <2>1. /\ n \in RunRecords /\ n.merge = run[w].merge
          /\ n.tasks[t] = task /\ \A u \in TaskIds \ {t} : n.tasks[u] = run[w].tasks[u]
        BY <1>1, TaskSet
    <2> HIDE DEF n
    <2>2. LET m == [n EXCEPT !.status = status] IN
          m \in RunRecords /\ m.status = status /\ m.tasks = n.tasks /\ m.merge = n.merge
        BY <1>2, <2>1, StatusSet
    <2>3. r = [n EXCEPT !.status = status]
        BY DEF n
    <2> HIDE DEF r
    <2> QED BY <2>1, <2>2, <2>3
<1> HIDE DEF r
<1>4. run'[w].tasks[t] = task
    BY <1>1, <1>3, SaveEffect DEF r
<1>5. TaskAgrees(w, t)'
    BY <1>1, <1>4 DEF TaskAgrees, Working
<1> QED BY <1>1, <1>3, <1>5, SaveTaskMoves DEF r

\* A new task leaves the status as it was.
LEMMA SameStatus ==
    ASSUME NEW r \in RunRecords, NEW t \in TaskIds, NEW task \in TaskRecords
    PROVE  [r EXCEPT !.tasks[t] = task]
             = [[r EXCEPT !.tasks[t] = task] EXCEPT !.status = r.status]
<1> DEFINE n == [r EXCEPT !.tasks[t] = task]
<1>1. n \in RunRecords /\ n.status = r.status
    BY TaskSet
<1> HIDE DEF n
<1>2. n = [n EXCEPT !.status = r.status]
    BY <1>1 DEF RunRecords
<1> QED BY <1>2 DEF n

\* The brain's operations on one task, and the age of what was observed of it.
LEMMA TaskStepMoves ==
    ASSUME IInv, NEW w \in Workspaces, NEW t \in TaskIds, TaskStep(w, t), UNCHANGED mergeVars
    PROVE  \/ StandardTypeOK' /\ (Stays(w) \/ TaskMoves(w, t))
           \/ \E repo \in Repos, kind \in {"repo", "producer", "integration"},
                 files \in FileScopes \cup {{}} : ReadClaim(w, t, repo, kind, files)
           \/ CreateThread(w, t) \/ ThreadIdles(w, t)
<1> DEFINE old == run[w].tasks[t]
<1>1. StandardTypeOK /\ run[w] \in RunRecords /\ old \in TaskRecords /\ TaskAgrees(w, t)
    BY DEF IInv, StandardTypeOK, RunRecords
<1>2. BrainOp(w) => registry.by = None
    BY DEF BrainOp, BothTx
<1>3. CASE Issue(w, t)
    <2> DEFINE task == [old EXCEPT !.effectIssued = TRUE, !.status = "creating"]
               r == [run[w] EXCEPT !.tasks[t] = task]
    <2>1. task \in TaskRecords /\ task.repo = old.repo /\ task.status = "creating"
             /\ task.effectIssued /\ task.seen = old.seen
        BY <1>1 DEF TaskRecords
    <2> HIDE DEF task
    <2>2. /\ r \in RunRecords /\ r.tasks[t] = task /\ \A u \in TaskIds \ {t} : r.tasks[u] = run[w].tasks[u]
          /\ r.merge = run[w].merge /\ r.status = run[w].status
        BY <1>1, <2>1, TaskSet
    <2>3. Save(w, r) /\ UNCHANGED thread /\ permission' = [permission EXCEPT ![w] = @ \cup {t}]
             /\ UNCHANGED <<mission, catalog, quarantine, registry>> /\ registry.by = None
        BY <1>2, <1>3 DEF Issue, SaveTask, task
    <2> HIDE DEF r
    <2>4. old.status = "claimed" /\ ~old.effectIssued
        BY <1>3 DEF Issue
    <2>5. run'[w] = r
        BY <1>1, <2>2, <2>3, SaveEffect
    <2>6. TaskAgrees(w, t)'
        BY <1>1, <2>1, <2>2, <2>3, <2>4, <2>5 DEF TaskAgrees, Working, Terminal
    <2> QED BY <1>1, <2>1, <2>2, <2>3, <2>4, <2>6, SaveTaskMoves DEF Working, Terminal
<1>4. ASSUME NEW to \in {"active", "pending"}, Bind(w, t, to)
      PROVE  StandardTypeOK' /\ TaskMoves(w, t)
    <2> DEFINE task == [old EXCEPT !.status = to]
    <2>1. task \in TaskRecords /\ task.repo = old.repo /\ task.status = to
             /\ task.effectIssued = old.effectIssued /\ task.seen = old.seen
        BY <1>1 DEF TaskRecords
    <2>2. Working(run[w], t) /\ thread[w][t] # "none" /\ registry.by = None
        BY <1>2, <1>4 DEF Bind, Working, Terminal
    <2>3. Save(w, [run[w] EXCEPT !.tasks[t] = task])
             /\ UNCHANGED <<mission, catalog, quarantine, registry, permission, thread>>
        BY <1>4 DEF Bind, SaveTask
    <2> HIDE DEF task
    <2> QED BY <1>1, <2>1, <2>2, <2>3, SameStatus, EditMoves DEF TaskAgrees, Terminal
<1>5. CASE BindWorktree(w, t)
    <2> DEFINE task == [old EXCEPT !.worktree = "fresh"]
    <2>1. task \in TaskRecords /\ task.repo = old.repo /\ task.status = old.status
             /\ task.effectIssued = old.effectIssued /\ task.seen = old.seen
        BY <1>1 DEF TaskRecords
    <2>2. old.status = "active" /\ registry.by = None
        BY <1>2, <1>5 DEF BindWorktree
    <2>3. Save(w, [run[w] EXCEPT !.tasks[t] = task])
             /\ UNCHANGED <<mission, catalog, quarantine, registry, permission, thread>>
        BY <1>5 DEF BindWorktree, SaveTask
    <2> HIDE DEF task
    <2> QED BY <1>1, <2>1, <2>2, <2>3, SameStatus, EditMoves DEF TaskAgrees, Working, Terminal
<1>6. ASSUME NEW tokens \in Counts, Observe(w, t, tokens)
      PROVE  StandardTypeOK' /\ TaskMoves(w, t)
    <2> DEFINE task == [old EXCEPT !.observed = tokens,
                                   !.seen = IF thread[w][t] = "idle" THEN "idle" ELSE "active"]
               next == [run[w] EXCEPT !.tasks[t] = task]
    <2>1. task \in TaskRecords /\ task.repo = old.repo /\ task.status = old.status
             /\ task.effectIssued = old.effectIssued
             /\ (task.seen = "idle" => thread[w][t] = "idle")
        BY <1>1, AmountAssumption DEF TaskRecords
    <2>2. old.status = "active" /\ registry.by = None
        BY <1>2, <1>6 DEF Observe
    <2>3. /\ Save(w, [next EXCEPT !.status = "stopping"]) \/ Save(w, next)
          /\ UNCHANGED <<mission, catalog, quarantine, registry, permission, thread>>
        BY <1>6 DEF Observe
    <2> HIDE DEF task
    <2> QED BY <1>1, <2>1, <2>2, <2>3, SameStatus, EditMoves DEF TaskAgrees, Working, Terminal
<1>7. ASSUME NEW outcome \in {"completed", "failed"}, Finish(w, t, outcome)
      PROVE  StandardTypeOK' /\ TaskMoves(w, t)
    <2> DEFINE task == [old EXCEPT !.status = outcome, !.seen = "none"]
               next == [run[w] EXCEPT !.tasks[t] = task]
    <2>1. task \in TaskRecords /\ task.repo = old.repo /\ task.status = outcome
             /\ task.effectIssued = old.effectIssued /\ task.seen = "none"
        BY <1>1 DEF TaskRecords, Terminal
    <2>2. Working(run[w], t) /\ old.seen = "idle" /\ registry.by = None
        BY <1>2, <1>7, WorkingTasks DEF Finish
    <2>3. /\ Save(w, [next EXCEPT !.status = "stopping"]) \/ Save(w, next)
          /\ UNCHANGED <<mission, catalog, quarantine, registry, permission, thread>>
        BY <1>1, <1>7 DEF Finish, TaskRecords
    <2> HIDE DEF task
    <2> QED BY <1>1, <2>1, <2>2, <2>3, SameStatus, EditMoves DEF TaskAgrees
<1>8. CASE Preserve(w, t)
    BY <1>1, <1>8, TouchEffect DEF Preserve, StandardTypeOK, Stays, Elsewhere, Forgets, mergeVars
<1>9. CASE CancelUnissued(w, t)
    <2> DEFINE task == [old EXCEPT !.status = "not_created"]
    <2>1. task \in TaskRecords /\ task.repo = old.repo /\ task.status = "not_created"
             /\ task.effectIssued = old.effectIssued /\ task.seen = old.seen
        BY <1>1 DEF TaskRecords, Terminal
    <2>2. old.status = "claimed" /\ ~old.effectIssued /\ registry.by = None
        BY <1>2, <1>9 DEF CancelUnissued
    <2>3. Save(w, [run[w] EXCEPT !.tasks[t] = task])
             /\ UNCHANGED <<mission, catalog, quarantine, registry, permission, thread>>
        BY <1>9 DEF CancelUnissued, SaveTask
    <2> HIDE DEF task
    <2> QED BY <1>1, <2>1, <2>2, <2>3, SameStatus, EditMoves DEF TaskAgrees, Working, Terminal
<1>10. CASE Age(w, t)
    <2> DEFINE task == Aged(old)
               r == [run[w] EXCEPT !.tasks[t] = task]
    <2>1. task \in TaskRecords /\ task.repo = old.repo /\ task.status = old.status
             /\ task.effectIssued = old.effectIssued /\ task.seen = "none"
        BY <1>1 DEF TaskRecords, Aged
    <2>2. Working(run[w], t) /\ registry.by = None
             /\ UNCHANGED <<mission, catalog, quarantine, registry, permission, thread, inspection>>
        BY <1>10, WorkingTasks DEF Age
    <2>3. run' = [run EXCEPT ![w] = r]
        BY <1>10 DEF Age
    <2> HIDE DEF task
    <2>4. /\ r \in RunRecords /\ r.status = run[w].status /\ r.merge = run[w].merge
          /\ r.tasks[t] = task /\ \A u \in TaskIds \ {t} : r.tasks[u] = run[w].tasks[u]
        BY <1>1, <2>1, TaskSet
    <2> HIDE DEF r
    <2>5. run' \in [Workspaces -> RunRecords] /\ run'[w] = r
             /\ \A o \in Workspaces \ {w} : run'[o] = run[o]
        BY <1>1, <2>3, <2>4 DEF StandardTypeOK
    <2>6. StandardTypeOK'
        BY <1>1, <2>2, <2>5 DEF StandardTypeOK, mergeVars
    <2>7. TaskAgrees(w, t)'
        BY <1>1, <2>1, <2>2, <2>4, <2>5 DEF TaskAgrees, Working
    <2>8. TaskMoves(w, t)
        BY <2>1, <2>2, <2>4, <2>5, <2>7 DEF TaskMoves, Elsewhere, Forgets
    <2> QED BY <2>6, <2>8
<1> QED BY <1>3, <1>4, <1>5, <1>6, <1>7, <1>8, <1>9, <1>10 DEF TaskStep
-------------------------------------------------------------------------------
(* The steps that create, end or take over work: each by itself. *)

\* Play leaves nothing of the run before: with no unfinished task there is no
\* permission, and a merge that is only prepared has no command.
LEMMA PlayKeeps ==
    ASSUME IInv, NEW w \in Workspaces, Play(w), UNCHANGED mergeVars
    PROVE  IInv'
<1> USE DEF mergeVars
<1>1. StandardTypeOK /\ registry.by = None
    BY DEF IInv, Play, BothTx
<1>2. \A t \in TaskIds : ~Working(run[w], t)
    BY WorkingTasks DEF Play, MayReplace
<1>3. \A t \in TaskIds : t \notin permission[w]
    BY <1>2 DEF IInv, TaskAgrees, Working, Terminal
<1> DEFINE r == [NoRun EXCEPT !.serial = run[w].serial + 1, !.phase = mission[w].phase,
                              !.review = mission[w].version, !.status = "running",
                              !.brainAllowance = BrainAllowance]
<1>4. r \in RunRecords /\ r.tasks = [t \in TaskIds |-> NoTask] /\ r.merge = NoMerge
         /\ r.status = "running"
    <2>1. run[w] \in RunRecords /\ mission[w].phase \in Phases \cup {0} /\ mission[w].version \in Nat
        BY <1>1 DEF StandardTypeOK
    <2>2. run[w].serial + 1 \in Nat /\ BrainAllowance \in Nat
        BY <2>1, AmountAssumption DEF RunRecords
    <2> QED BY <2>1, <2>2, NoRunTyped DEF RunRecords, NoRun
<1>5. Save(w, r) /\ UNCHANGED <<mission, catalog, quarantine, registry, permission>>
         /\ thread' = [thread EXCEPT ![w] = [t \in TaskIds |-> "none"]]
    BY DEF Play
<1> HIDE DEF r
<1>6. /\ run' \in [Workspaces -> RunRecords] /\ run'[w] = r
      /\ \A o \in Workspaces \ {w} : run'[o] = run[o]
      /\ inspection' \in [Workspaces -> [Requests -> InspectionRecords]]
      /\ \A q \in Requests : inspection'[w][q] = NoInspection
      /\ \A o \in Workspaces \ {w} : inspection'[o] = inspection[o]
    BY <1>1, <1>4, <1>5, SaveEffect
<1>7. /\ thread' \in [Workspaces -> [TaskIds -> {"none", "working", "idle", "twin"}]]
      /\ \A t \in TaskIds : thread'[w][t] = "none"
      /\ \A o \in Workspaces \ {w} : thread'[o] = thread[o]
    BY <1>1, <1>5 DEF StandardTypeOK
<1>8. StandardTypeOK'
    BY <1>1, <1>5, <1>6, <1>7 DEF StandardTypeOK
<1>9. \A t \in TaskIds : ~Working(run'[w], t) /\ run'[w].tasks[t] = NoTask
    <2>1. \A t \in TaskIds : run'[w].tasks[t] = NoTask
        BY <1>4, <1>6
    <2>2. NoTask.status = "absent"
        BY DEF NoTask
    <2> QED BY <2>1, <2>2 DEF Working
<1>10. \A o \in Workspaces : \A repo : Busy(run'[o], repo) => Busy(run[o], repo)
    BY <1>4, <1>6, <1>9 DEF Busy, NoMerge, Unsettled, Working
<1>11. ASSUME NEW o \in Workspaces PROVE RunAgrees(o)'
    BY <1>4, <1>5, <1>6, <1>9 DEF IInv, RunAgrees, Working
<1>12. ASSUME NEW o \in Workspaces, NEW t \in TaskIds PROVE TaskAgrees(o, t)'
    <2>1. CASE o = w
        BY <2>1, <1>3, <1>5, <1>7, <1>9 DEF TaskAgrees, NoTask
    <2>2. CASE o # w
        BY <2>2, <1>5, <1>6, <1>7 DEF IInv, TaskAgrees, Working
    <2> QED BY <2>1, <2>2
<1>13. ASSUME NEW o \in Workspaces, NEW q \in Requests PROVE InspectionAgrees(o, q)'
    BY <1>6 DEF IInv, InspectionAgrees, NoInspection
<1>14. ClaimStands' /\ OwnersApart' /\ BoundApart'
    BY <1>1, <1>5, <1>10 DEF IInv, ClaimStands, OwnersApart, BoundApart
<1>15. ASSUME NEW pr \in PullRequests PROVE PullAgrees(pr)'
    <2>1. run[w].merge.status \notin {"issued", "uncertain"}
        BY DEF Play, MayReplace
    <2>2. PullAgrees(pr) /\ run'[w].merge.pr = None /\ run'[w].merge.status = "none"
        BY <1>4, <1>6 DEF IInv, NoMerge
    <2> QED BY <1>6, <2>1, <2>2, PullAssumption DEF PullAgrees, Dropped
<1>16. QuarantineStands'
    BY <1>5, <1>6, <1>9 DEF IInv, QuarantineStands, Working
<1> QED BY <1>8, <1>11, <1>12, <1>13, <1>14, <1>15, <1>16 DEF IInv

\* A claim commits what it has read.
LEMMA ClaimKeeps ==
    ASSUME IInv, NEW w \in Workspaces, Claim(w), UNCHANGED mergeVars
    PROVE  IInv'
<1> USE DEF mergeVars
<1> DEFINE t == registry.task
           task == [NoTask EXCEPT !.status = "claimed", !.repo = registry.repo,
                                  !.kind = registry.kind, !.files = registry.files,
                                  !.allowance = Allowance]
           r == [run[w] EXCEPT !.tasks[t] = task]
<1>1. /\ StandardTypeOK /\ run[w] \in RunRecords /\ registry.by = w /\ w # None
      /\ t \in TaskIds /\ registry.repo \in Repos
      /\ registry.kind \in {"repo", "producer", "integration"}
      /\ registry.files \in FileScopes \cup {{}}
    BY NoneAssumption DEF IInv, StandardTypeOK, NoClaim, Claim
<1>2. /\ run[w].status = "running" /\ run[w].merge.status \notin Unsettled
      /\ run[w].tasks[t].status = "absent"
      /\ \A o \in Workspaces \ {w} :
            ~Busy(run[o], registry.repo) /\ ~HeldByQuarantine(o, registry.repo)
    BY <1>1 DEF IInv, ClaimStands
<1>3. task \in TaskRecords /\ task.status = "claimed" /\ task.repo = registry.repo
         /\ ~task.effectIssued /\ task.seen = "none"
    BY <1>1, AmountAssumption DEF TaskRecords, NoTask
<1>4. registry' = NoClaim /\ Save(w, r)
         /\ UNCHANGED <<mission, catalog, quarantine, permission, thread>>
    BY DEF Claim
<1> HIDE DEF task
<1>5. /\ r \in RunRecords /\ r.tasks[t] = task /\ \A u \in TaskIds \ {t} : r.tasks[u] = run[w].tasks[u]
      /\ r.merge = run[w].merge /\ r.status = run[w].status
    BY <1>1, <1>3, TaskSet
<1> HIDE DEF r
<1>6. /\ run' \in [Workspaces -> RunRecords] /\ run'[w] = r
      /\ \A o \in Workspaces \ {w} : run'[o] = run[o]
      /\ inspection' \in [Workspaces -> [Requests -> InspectionRecords]]
      /\ \A q \in Requests : inspection'[w][q] = NoInspection
      /\ \A o \in Workspaces \ {w} : inspection'[o] = inspection[o]
    BY <1>1, <1>4, <1>5, SaveEffect
<1>7. StandardTypeOK'
    BY <1>1, <1>4, <1>6 DEF StandardTypeOK
<1>8. ASSUME NEW o \in Workspaces, NEW u \in TaskIds, Working(run'[o], u)
      PROVE  \/ Working(run[o], u) /\ run'[o].tasks[u] = run[o].tasks[u]
             \/ o = w /\ u = t /\ run'[o].tasks[u].repo = registry.repo
    BY <1>3, <1>5, <1>6, <1>8 DEF Working
<1>9. ASSUME NEW o \in Workspaces, NEW repo, Busy(run'[o], repo)
      PROVE  Busy(run[o], repo) \/ (o = w /\ repo = registry.repo)
    <2>1. CASE \E u \in TaskIds : Working(run'[o], u) /\ run'[o].tasks[u].repo = repo
        BY <2>1, <1>8 DEF Busy
    <2>2. CASE run'[o].merge.status \in Unsettled /\ run'[o].tasks[run'[o].merge.task].repo = repo
        BY <2>2, <1>2, <1>5, <1>6 DEF Busy
    <2> QED BY <1>9, <2>1, <2>2 DEF Busy
<1>10. ASSUME NEW o \in Workspaces PROVE RunAgrees(o)'
    <2>1. RunAgrees(o)
        BY DEF IInv
    <2>2. CASE o = w
        <3>1. run'[w].status = "running" /\ run'[w].merge = run[w].merge
            BY <1>2, <1>5, <1>6
        <3>2. run[w].merge # NoMerge => run'[w].tasks[run[w].merge.task].status = "completed"
            BY <1>2, <1>5, <1>6, <2>1, <2>2 DEF RunAgrees
        <3> QED BY <1>2, <2>1, <2>2, <3>1, <3>2 DEF RunAgrees, Closed
    <2>3. CASE o # w
        BY <2>1, <2>3, <1>6 DEF RunAgrees, Working
    <2> QED BY <2>2, <2>3
<1>11. ASSUME NEW o \in Workspaces, NEW u \in TaskIds PROVE TaskAgrees(o, u)'
    <2>1. TaskAgrees(o, u)
        BY DEF IInv
    <2>2. CASE o = w /\ u = t
        BY <2>1, <2>2, <1>2, <1>3, <1>4, <1>5, <1>6 DEF TaskAgrees, Working, Terminal
    <2>3. CASE ~(o = w /\ u = t)
        BY <2>1, <2>3, <1>4, <1>5, <1>6 DEF TaskAgrees, Working
    <2> QED BY <2>2, <2>3
<1>12. ASSUME NEW o \in Workspaces, NEW q \in Requests PROVE InspectionAgrees(o, q)'
    BY <1>6 DEF IInv, InspectionAgrees, NoInspection
<1>13. ClaimStands' /\ BoundApart'
    BY <1>4 DEF IInv, ClaimStands, BoundApart, NoClaim
<1>14. OwnersApart'
    BY <1>2, <1>9 DEF IInv, OwnersApart
<1>15. ASSUME NEW pr \in PullRequests PROVE PullAgrees(pr)'
    <2>1. PullAgrees(pr) /\ \A o \in Workspaces : run'[o].merge = run[o].merge
        BY <1>5, <1>6 DEF IInv
    <2> QED BY <2>1 DEF PullAgrees, Dropped
<1>16. QuarantineStands'
    <2>1. quarantine \in [Workspaces -> {"none", "claimed", "recorded"}]
        BY <1>1 DEF StandardTypeOK
    <2> QED BY <1>2, <1>4, <1>8, <2>1 DEF IInv, QuarantineStands, HeldByQuarantine
<1> QED BY <1>7, <1>10, <1>11, <1>12, <1>13, <1>14, <1>15, <1>16 DEF IInv

\* A claim that has read the other ledgers holds the registry's lock.
LEMMA ReadClaimKeeps ==
    ASSUME IInv, NEW w \in Workspaces, NEW t \in TaskIds, NEW repo \in Repos,
           NEW kind \in {"repo", "producer", "integration"}, NEW files \in FileScopes \cup {{}},
           ReadClaim(w, t, repo, kind, files), UNCHANGED mergeVars
    PROVE  IInv'
<1> USE DEF mergeVars
<1>1. registry' = [by |-> w, task |-> t, repo |-> repo, kind |-> kind, files |-> files]
         /\ UNCHANGED <<run, mission, catalog, quarantine, permission, thread, inspection>>
    BY DEF ReadClaim
<1>2. StandardTypeOK'
    BY <1>1 DEF IInv, StandardTypeOK
<1>3. ClaimStands'
    <2>1. \A o \in Workspaces \ {w} : ~Busy(run[o], repo) /\ ~HeldByQuarantine(o, repo)
        BY WorkingTasks DEF ReadClaim, ForeignOwner, Busy
    <2>2. \A o \in Workspaces \ {w} : ~Busy(run[o], repo)' /\ ~HeldByQuarantine(o, repo)'
        BY <1>1, <2>1 DEF Busy, Working, HeldByQuarantine
    <2> QED BY <1>1, <2>2 DEF ReadClaim, MayClaim, ClaimStands
<1>4. ASSUME NEW o \in Workspaces PROVE RunAgrees(o)'
    BY <1>1 DEF IInv, RunAgrees, Working
<1>5. ASSUME NEW o \in Workspaces, NEW u \in TaskIds PROVE TaskAgrees(o, u)'
    BY <1>1 DEF IInv, TaskAgrees, Working
<1>6. ASSUME NEW o \in Workspaces, NEW q \in Requests PROVE InspectionAgrees(o, q)'
    BY <1>1 DEF IInv, InspectionAgrees
<1>7. OwnersApart' /\ BoundApart' /\ QuarantineStands'
    BY <1>1 DEF IInv, OwnersApart, BoundApart, QuarantineStands, Busy, Working
<1>8. ASSUME NEW pr \in PullRequests PROVE PullAgrees(pr)'
    BY <1>1 DEF IInv, PullAgrees, Dropped
<1> QED BY <1>2, <1>3, <1>4, <1>5, <1>6, <1>7, <1>8 DEF IInv

\* A quarantine is of repositories that no other ledger works on.
LEMMA QuarantineKeeps ==
    ASSUME IInv, NEW w \in Workspaces, Quarantine(w), UNCHANGED mergeVars
    PROVE  IInv'
<1> USE DEF mergeVars
<1>1. registry.by = None
         /\ UNCHANGED <<run, mission, catalog, registry, permission, thread, inspection>>
    BY DEF Quarantine, MayQuarantine, BothTx
<1>2. quarantine' \in [Workspaces -> {"none", "claimed", "recorded"}]
         /\ \A o \in Workspaces \ {w} : quarantine'[o] = quarantine[o]
    BY DEF IInv, StandardTypeOK, Quarantine
<1>3. StandardTypeOK'
    BY <1>1, <1>2 DEF IInv, StandardTypeOK
<1>4. QuarantineStands'
    <2>1. \A o \in Workspaces \ {w}, t \in TaskIds :
             Working(run[o], t) => run[o].tasks[t].repo \notin Limits[w].scope
        BY WorkingTasks DEF Quarantine, MayQuarantine
    <2> QED BY <1>1, <1>2, <2>1 DEF IInv, QuarantineStands, Working
<1>5. ASSUME NEW o \in Workspaces PROVE RunAgrees(o)'
    BY <1>1 DEF IInv, RunAgrees, Working
<1>6. ASSUME NEW o \in Workspaces, NEW u \in TaskIds PROVE TaskAgrees(o, u)'
    BY <1>1 DEF IInv, TaskAgrees, Working
<1>7. ASSUME NEW o \in Workspaces, NEW q \in Requests PROVE InspectionAgrees(o, q)'
    BY <1>1 DEF IInv, InspectionAgrees
<1>8. ClaimStands' /\ OwnersApart' /\ BoundApart'
    BY <1>1 DEF IInv, ClaimStands, OwnersApart, BoundApart, Busy, Working
<1>9. ASSUME NEW pr \in PullRequests PROVE PullAgrees(pr)'
    BY <1>1 DEF IInv, PullAgrees, Dropped
<1> QED BY <1>3, <1>4, <1>5, <1>6, <1>7, <1>8, <1>9 DEF IInv

\* The native host and a dying brain.
LEMMA HostStepKeeps ==
    ASSUME IInv, NEW w \in Workspaces, NEW t \in TaskIds, UNCHANGED mergeVars,
           CreateThread(w, t) \/ ThreadIdles(w, t) \/ BrainCrash(w)
    PROVE  IInv'
<1> USE DEF mergeVars
<1>1. /\ permission \in [Workspaces -> SUBSET TaskIds] /\ permission[w] \in SUBSET TaskIds
      /\ thread \in [Workspaces -> [TaskIds -> {"none", "working", "idle", "twin"}]]
      /\ \A u \in TaskIds : TaskAgrees(w, u)
    BY DEF IInv, StandardTypeOK
<1>2. UNCHANGED <<run, mission, catalog, quarantine, registry, inspection>>
    BY DEF CreateThread, ThreadIdles, BrainCrash
<1>3. CASE CreateThread(w, t)
    <2>1. /\ permission' \in [Workspaces -> SUBSET TaskIds] /\ permission'[w] = permission[w] \ {t}
          /\ thread' \in [Workspaces -> [TaskIds -> {"none", "working", "idle", "twin"}]]
          /\ thread[w][t] = "none" => thread'[w][t] = "working"
          /\ \A u \in TaskIds \ {t} : thread'[w][u] = thread[w][u]
          /\ \A o \in Workspaces \ {w} : permission'[o] = permission[o] /\ thread'[o] = thread[o]
        BY <1>1, <1>3 DEF CreateThread
    <2>2. StandardTypeOK'
        BY <1>2, <2>1 DEF IInv, StandardTypeOK
    <2>3. ASSUME NEW u \in TaskIds PROVE TaskAgrees(w, u)'
        BY <1>1, <1>2, <1>3, <2>1 DEF CreateThread, TaskAgrees, Working, Terminal
    <2> QED BY <1>2, <2>1, <2>2, <2>3, HostMovesKeeps DEF HostMoves, Elsewhere
<1>4. CASE ThreadIdles(w, t)
    <2>1. /\ UNCHANGED permission
          /\ thread' \in [Workspaces -> [TaskIds -> {"none", "working", "idle", "twin"}]]
          /\ thread[w][t] = "working" /\ thread'[w][t] = "idle"
          /\ \A u \in TaskIds \ {t} : thread'[w][u] = thread[w][u]
          /\ \A o \in Workspaces \ {w} : thread'[o] = thread[o]
        BY <1>1, <1>4 DEF ThreadIdles
    <2>2. StandardTypeOK'
        BY <1>2, <2>1 DEF IInv, StandardTypeOK
    <2>3. ASSUME NEW u \in TaskIds PROVE TaskAgrees(w, u)'
        BY <1>1, <1>2, <2>1 DEF TaskAgrees, Working
    <2> QED BY <1>2, <2>1, <2>2, <2>3, HostMovesKeeps DEF HostMoves, Elsewhere
<1>5. CASE BrainCrash(w)
    <2>1. /\ UNCHANGED thread
          /\ permission' \in [Workspaces -> SUBSET TaskIds] /\ permission'[w] = {}
          /\ \A o \in Workspaces \ {w} : permission'[o] = permission[o]
        BY <1>1, <1>5 DEF BrainCrash
    <2>2. StandardTypeOK'
        BY <1>2, <2>1 DEF IInv, StandardTypeOK
    <2>3. ASSUME NEW u \in TaskIds PROVE TaskAgrees(w, u)'
        BY <1>1, <1>2, <2>1 DEF TaskAgrees, Working
    <2> QED BY <1>2, <2>1, <2>2, <2>3, HostMovesKeeps DEF HostMoves, Elsewhere
<1> QED BY <1>3, <1>4, <1>5
-------------------------------------------------------------------------------
(* The merge and GitHub. *)

\* A request and its reading outside the locks change the inspection only.
LEMMA InspectionKeeps ==
    ASSUME IInv, NEW w \in Workspaces, NEW q \in Requests, NEW i \in InspectionRecords,
           inspection' = [inspection EXCEPT ![w][q] = i], InspectionAgrees(w, q)',
           UNCHANGED <<run, mission, catalog, quarantine, registry, permission, thread, mergeVars>>
    PROVE  IInv'
<1> USE DEF mergeVars
<1>1. /\ inspection' \in [Workspaces -> [Requests -> InspectionRecords]]
      /\ \A p \in Requests \ {q} : inspection'[w][p] = inspection[w][p]
      /\ \A o \in Workspaces \ {w} : inspection'[o] = inspection[o]
    BY DEF IInv, StandardTypeOK
<1>2. StandardTypeOK'
    BY <1>1 DEF IInv, StandardTypeOK
<1>3. ASSUME NEW o \in Workspaces, NEW p \in Requests PROVE InspectionAgrees(o, p)'
    BY <1>1 DEF IInv, InspectionAgrees
<1>4. /\ \A o \in Workspaces : RunAgrees(o)'
      /\ ClaimStands' /\ OwnersApart' /\ BoundApart' /\ QuarantineStands'
    BY SameLedgers DEF mergeVars
<1>5. ASSUME NEW o \in Workspaces, NEW t \in TaskIds PROVE TaskAgrees(o, t)'
    BY DEF IInv, TaskAgrees, Working
<1>6. ASSUME NEW pr \in PullRequests PROVE PullAgrees(pr)'
    BY DEF IInv, PullAgrees, Dropped
<1> QED BY <1>2, <1>3, <1>4, <1>5, <1>6 DEF IInv

\* Begin, read and abandon an inspection: no ledger moves.
LEMMA InspectingKeeps ==
    ASSUME IInv, NEW w \in Workspaces, NEW q \in Requests,
           \/ \E op \in Commands, t \in TaskIds, pr \in PullRequests : BeginMerge(w, q, op, t, pr)
           \/ InspectMerge(w, q)
           \/ AbandonMerge(w, q)
    PROVE  IInv'
<1>1. /\ inspection \in [Workspaces -> [Requests -> InspectionRecords]]
      /\ inspection[w][q] \in InspectionRecords /\ pull \in [PullRequests -> PullStates]
      /\ InspectionAgrees(w, q)
    BY DEF IInv, StandardTypeOK
<1>2. UNCHANGED <<run, mission, catalog, quarantine, registry, permission, thread, mergeVars>>
    BY DEF BeginMerge, InspectMerge, AbandonMerge, mergeVars
<1>3. ASSUME NEW op \in Commands, NEW t \in TaskIds, NEW pr \in PullRequests,
             BeginMerge(w, q, op, t, pr)
      PROVE  IInv'
    <2> DEFINE i == [op |-> op, task |-> t, pr |-> pr, saw |-> "none"]
    <2>1. inspection' = [inspection EXCEPT ![w][q] = i]
        BY <1>3 DEF BeginMerge
    <2>2. inspection'[w][q] = i
        BY <1>1, <2>1
    <2>3. /\ op = "prepare" => run[w].merge = NoMerge /\ pr \notin bound[w]
          /\ op = "check" => run[w].merge = [status |-> "prepared", task |-> t, pr |-> pr]
          /\ op = "reconcile" => /\ run[w].merge.status \in Unsettled
                                 /\ run[w].merge.task = t /\ run[w].merge.pr = pr
        BY <1>3 DEF BeginMerge
    <2>4. i \in InspectionRecords
        BY DEF InspectionRecords
    <2>5. i.op = op /\ i.task = t /\ i.pr = pr /\ i.saw = "none"
        OBVIOUS
    <2>6. op # "none"
        BY DEF Commands
    <2> HIDE DEF i
    <2>7. InspectionAgrees(w, q)'
        BY <1>2, <2>2, <2>3, <2>5, <2>6 DEF InspectionAgrees, mergeVars
    <2> QED BY <1>2, <2>1, <2>4, <2>7, InspectionKeeps
<1>4. CASE InspectMerge(w, q)
    <2> DEFINE i == [inspection[w][q] EXCEPT !.saw = Seen(inspection[w][q].pr)]
    <2>1. inspection[w][q].op # "none" /\ inspection[w][q].pr \in PullRequests
        BY <1>1, <1>4 DEF InspectMerge, InspectionAgrees
    <2>2. /\ i \in InspectionRecords /\ i.saw = Seen(i.pr)
          /\ i.op = inspection[w][q].op /\ i.task = inspection[w][q].task
          /\ i.pr = inspection[w][q].pr
        BY <1>1, <2>1 DEF InspectionRecords, Seen, PullStates
    <2>3. inspection' = [inspection EXCEPT ![w][q] = i]
        BY <1>1, <1>4 DEF InspectMerge, InspectionRecords
    <2> HIDE DEF i
    <2>4. inspection'[w][q] = i
        BY <1>1, <2>3
    <2>5. InspectionAgrees(w, q)'
        BY <1>1, <1>2, <2>1, <2>2, <2>4 DEF InspectionAgrees, Seen, PullStates, mergeVars
    <2> QED BY <1>2, <2>2, <2>3, <2>5, InspectionKeeps
<1>5. CASE AbandonMerge(w, q)
    <2>1. inspection' = [inspection EXCEPT ![w][q] = NoInspection]
        BY <1>5 DEF AbandonMerge
    <2>2. inspection'[w][q] = NoInspection
        BY <1>1, <2>1
    <2>3. InspectionAgrees(w, q)'
        BY <2>2 DEF InspectionAgrees, NoInspection
    <2> QED BY <1>2, <2>1, <2>3, NoRunTyped, InspectionKeeps
<1> QED BY <1>3, <1>4, <1>5

\* The merge entry of w moves to n: all that a commit and a receipt have in common.
LEMMA MergeMovesKeeps ==
    ASSUME IInv, StandardTypeOK', NEW w \in Workspaces, NEW n \in MergeRecords,
           NEW pr \in PullRequests,
           registry.by = None,
           run'[w].merge = n, run'[w].tasks = run[w].tasks, run'[w].status = run[w].status,
           \A o \in Workspaces \ {w} : run'[o] = run[o],
           \A o \in Workspaces \ {w} : inspection'[o] = inspection[o],
           \A q \in Requests : inspection'[w][q] = NoInspection,
           UNCHANGED <<quarantine, registry, permission, thread, pull, sends>>,
           n.pr = pr, n.status # "none",
           n.task \in TaskIds /\ run[w].tasks[n.task].status = "completed",
           n.status \in Unsettled => \A t \in TaskIds : ~Working(run[w], t),
           \* the pull request is retained now, and by no other workspace
           pr \in bound'[w] /\ bound'[w] \subseteq bound[w] \cup {pr} /\ bound[w] \subseteq bound'[w],
           \A o \in Workspaces \ {w} : bound'[o] = bound[o] /\ pr \notin bound[o],
           \* the repository is taken over from no other workspace
           n.status \in Unsettled =>
               \/ run[w].merge.status \in Unsettled /\ run[w].merge.task = n.task
               \/ \A o \in Workspaces \ {w} : ~Busy(run[o], run[w].tasks[n.task].repo),
           \* the entry was of this pull request, or none
           run[w].merge = NoMerge \/ run[w].merge.pr = pr,
           \* the command, if it may still take effect, belongs to the entry
           \A other \in PullRequests \ {pr} : wire'[other] = wire[other],
           wire'[pr] = wire[pr] \/ (n.status = "issued" /\ sends[pr] = 0 /\ wire'[pr] = "permit"),
           n.status = "prepared" => sends[pr] = 0 /\ wire'[pr] = "none",
           wire'[pr] # "none" /\ pull[pr] # "merged" =>
               n.status \in {"issued", "uncertain"} \/ (pull[pr] # "open" /\ n.status = "not-merged")
    PROVE  IInv'
<1>1. \A o \in Workspaces, t \in TaskIds : Working(run'[o], t) <=> Working(run[o], t)
    BY DEF Working
<1>2. \A o \in Workspaces : RunAgrees(o)
    BY DEF IInv
<1>3. ASSUME NEW o \in Workspaces PROVE RunAgrees(o)'
    <2>1. CASE o = w
        BY <1>1, <1>2, <2>1 DEF RunAgrees
    <2>2. CASE o # w
        BY <1>1, <1>2, <2>2 DEF RunAgrees
    <2> QED BY <2>1, <2>2
<1>4. ASSUME NEW o \in Workspaces, NEW t \in TaskIds PROVE TaskAgrees(o, t)'
    <2>1. TaskAgrees(o, t) /\ run'[o].tasks[t] = run[o].tasks[t]
        BY DEF IInv
    <2> QED BY <1>1, <2>1 DEF TaskAgrees
<1>5. ASSUME NEW o \in Workspaces, NEW q \in Requests PROVE InspectionAgrees(o, q)'
    BY DEF IInv, InspectionAgrees, NoInspection
<1>6. ClaimStands' /\ QuarantineStands'
    BY <1>1 DEF IInv, ClaimStands, QuarantineStands
<1>7. ASSUME NEW o \in Workspaces, NEW repo, Busy(run'[o], repo)
      PROVE  \/ Busy(run[o], repo)
             \/ /\ o = w /\ repo = run[w].tasks[n.task].repo
                /\ \A u \in Workspaces \ {w} : ~Busy(run[u], repo)
    <2>1. CASE o # w
        BY <1>7, <2>1
    <2>2. CASE o = w
        <3>1. CASE \E t \in TaskIds : Working(run[w], t) /\ run[w].tasks[t].repo = repo
            BY <2>2, <3>1 DEF Busy
        <3>2. CASE n.status \in Unsettled /\ run[w].tasks[n.task].repo = repo
            BY <2>2, <3>2 DEF Busy
        <3>3. \/ \E t \in TaskIds : Working(run[w], t) /\ run[w].tasks[t].repo = repo
              \/ n.status \in Unsettled /\ run[w].tasks[n.task].repo = repo
            BY <1>1, <1>7, <2>2 DEF Busy
        <3> QED BY <3>1, <3>2, <3>3
    <2> QED BY <2>1, <2>2
<1>8. OwnersApart'
    BY <1>7 DEF IInv, OwnersApart
<1>9. BoundApart'
    BY DEF IInv, BoundApart
<1>10. ASSUME NEW other \in PullRequests PROVE PullAgrees(other)'
    <2>1. PullAgrees(other)
        BY DEF IInv
    <2>2. \A o \in Workspaces \ {w} : run'[o].merge = run[o].merge
        OBVIOUS
    <2>3. CASE other = pr
        <3>1. \A o \in Workspaces \ {w} : run[o].merge.pr # pr
            BY <1>2, PullAssumption DEF RunAgrees, NoMerge
        <3> QED BY <2>1, <2>2, <2>3, <3>1 DEF PullAgrees, Dropped
    <2>4. CASE other # pr
        <3>1. run[w].merge.pr # other
            BY <2>4, PullAssumption DEF NoMerge
        <3>2. n.pr # other
            BY <2>4
        <3> QED BY <2>1, <2>2, <2>4, <3>1, <3>2 DEF PullAgrees, Dropped
    <2> QED BY <2>3, <2>4
<1> QED BY <1>3, <1>4, <1>5, <1>6, <1>8, <1>9, <1>10 DEF IInv

\* What an inspection makes of the entry it commits.
LEMMA OutcomeEffect ==
    ASSUME NEW op \in Commands, NEW status \in Unsettled, NEW saw,
           op = "prepare" \/ op = "check" => status = "prepared"
    PROVE  LET s == Outcome(op, status, saw) IN
           /\ s \in {"merged", "not-merged"} \cup Unsettled
           /\ (s = "merged" => saw = "merged") /\ (s = "not-merged" => saw = "closed")
           /\ s = "issued" => op = "check"
           /\ s = "prepared" => status = "prepared" /\ op # "check"
BY DEF Outcome, Commands, Unsettled

\* The second lock of the merge: the entry, its pull request and the permission move together.
LEMMA CommitMergeKeeps ==
    ASSUME IInv, NEW w \in Workspaces, NEW q \in Requests, CommitMerge(w, q)
    PROVE  IInv'
<1> DEFINE i == inspection[w][q]
           entry == IF i.op = "prepare"
                    THEN [status |-> "prepared", task |-> i.task, pr |-> i.pr]
                    ELSE run[w].merge
           n == [entry EXCEPT !.status = Outcome(i.op, @, i.saw)]
<1>1. /\ StandardTypeOK /\ run[w] \in RunRecords /\ run[w].merge \in MergeRecords
      /\ i \in InspectionRecords /\ InspectionAgrees(w, q) /\ RunAgrees(w)
      /\ \A t \in PullRequests : PullAgrees(t)
      /\ \A t \in TaskIds : TaskAgrees(w, t)
    BY DEF IInv, StandardTypeOK, RunRecords
<1>2. /\ i.saw # "none" /\ registry.by = None /\ Touch(w)
      /\ bound' = [bound EXCEPT ![w] = @ \cup {i.pr}]
      /\ UNCHANGED <<mission, catalog, quarantine, registry, permission, thread, pull, sends>>
    BY DEF CommitMerge, BothTx
<1>3. run' = [run EXCEPT ![w].merge = n]
    BY DEF CommitMerge
<1>4. wire' = IF n.status = "issued" THEN [wire EXCEPT ![i.pr] = "permit"] ELSE wire
    BY DEF CommitMerge
<1>5. i.op \in Commands /\ i.saw \in PullStates /\ i.task \in TaskIds /\ i.pr \in PullRequests
    BY <1>1, <1>2 DEF InspectionRecords, InspectionAgrees
<1>6. /\ i.op = "prepare" => run[w].merge = NoMerge /\ i.pr \notin bound[w]
      /\ i.op = "check" => run[w].merge = [status |-> "prepared", task |-> i.task, pr |-> i.pr]
      /\ i.op = "reconcile" =>
            run[w].merge.status \in Unsettled /\ run[w].merge.task = i.task /\ run[w].merge.pr = i.pr
      /\ i.saw = "merged" => pull[i.pr] = "merged"
      /\ i.saw = "closed" => pull[i.pr] # "open"
    BY <1>1 DEF InspectionAgrees
<1>7. /\ entry \in MergeRecords /\ entry.task = i.task /\ entry.pr = i.pr
      /\ entry.status \in Unsettled
      /\ i.op = "prepare" \/ i.op = "check" => entry.status = "prepared"
    BY <1>1, <1>5, <1>6 DEF MergeRecords, Unsettled, Commands
<1>8. /\ n \in MergeRecords /\ n.task = i.task /\ n.pr = i.pr
      /\ n.status \in {"merged", "not-merged"} \cup Unsettled
      /\ (n.status = "merged" => i.saw = "merged") /\ (n.status = "not-merged" => i.saw = "closed")
      /\ n.status = "issued" => i.op = "check"
      /\ n.status = "prepared" => entry.status = "prepared" /\ i.op # "check"
    <2> HIDE DEF entry
    <2> DEFINE s == Outcome(i.op, entry.status, i.saw)
    <2>1. /\ s \in {"merged", "not-merged"} \cup Unsettled
          /\ (s = "merged" => i.saw = "merged") /\ (s = "not-merged" => i.saw = "closed")
          /\ s = "issued" => i.op = "check"
          /\ s = "prepared" => entry.status = "prepared" /\ i.op # "check"
        BY <1>5, <1>7, OutcomeEffect
    <2>2. n = [entry EXCEPT !.status = s]
        OBVIOUS
    <2> HIDE DEF s, n
    <2> QED BY <1>7, <2>1, <2>2 DEF MergeRecords
<1>9. i.op # "reconcile" => Authority(w, i.task) /\ RegistryGuard(w, run[w].tasks[i.task].repo, i.pr)
    BY DEF CommitMerge
<1>10. entry = run[w].merge \/ i.op = "prepare"
    OBVIOUS
<1> HIDE DEF entry, n
<1>11. /\ run' \in [Workspaces -> RunRecords] /\ run'[w].merge = n
       /\ run'[w].tasks = run[w].tasks /\ run'[w].status = run[w].status
       /\ \A o \in Workspaces \ {w} : run'[o] = run[o]
    <2> DEFINE r == [run[w] EXCEPT !.merge = n]
    <2>1. r \in RunRecords /\ r.merge = n /\ r.tasks = run[w].tasks /\ r.status = run[w].status
        BY <1>1, <1>8 DEF RunRecords
    <2>2. run' = [run EXCEPT ![w] = r]
        BY <1>3
    <2> HIDE DEF r
    <2> QED BY <1>1, <2>1, <2>2 DEF StandardTypeOK
<1>12. /\ inspection' \in [Workspaces -> [Requests -> InspectionRecords]]
       /\ \A p \in Requests : inspection'[w][p] = NoInspection
       /\ \A o \in Workspaces \ {w} : inspection'[o] = inspection[o]
    BY <1>1, <1>2, TouchEffect
<1>13. /\ bound' \in [Workspaces -> SUBSET PullRequests] /\ bound'[w] = bound[w] \cup {i.pr}
       /\ \A o \in Workspaces \ {w} : bound'[o] = bound[o]
    <2>1. bound \in [Workspaces -> SUBSET PullRequests] /\ bound[w] \cup {i.pr} \in SUBSET PullRequests
        BY <1>1, <1>5 DEF StandardTypeOK
    <2> QED BY <1>2, <2>1
<1>14. /\ wire' \in [PullRequests -> {"none", "permit", "sent"}]
       /\ \A other \in PullRequests \ {i.pr} : wire'[other] = wire[other]
       /\ wire'[i.pr] = IF n.status = "issued" THEN "permit" ELSE wire[i.pr]
    BY <1>1, <1>4, <1>5 DEF StandardTypeOK
<1>15. StandardTypeOK'
    BY <1>1, <1>2, <1>11, <1>12, <1>13, <1>14 DEF StandardTypeOK
\* what holds of the entry before, or is asked again for a permission
<1>16. run[w].tasks[i.task].status = "completed"
    BY <1>1, <1>5, <1>6, <1>9 DEF Authority, RunAgrees, Commands, NoMerge, Unsettled
<1>17. \A t \in TaskIds : ~Working(run[w], t)
    BY <1>1, <1>5, <1>6, <1>9, WorkingTasks DEF Authority, RunAgrees, Commands
<1>18. \A o \in Workspaces \ {w} : i.pr \notin bound[o]
    <2>1. CASE i.op = "reconcile"
        <3>1. i.pr \in bound[w]
            BY <1>1, <1>6, <2>1 DEF RunAgrees, NoMerge, Unsettled
        <3> QED BY <3>1 DEF IInv, BoundApart
    <2>2. CASE i.op # "reconcile"
        BY <1>9, <2>2 DEF RegistryGuard
    <2> QED BY <2>1, <2>2
<1>19. \/ run[w].merge.status \in Unsettled /\ run[w].merge.task = n.task
       \/ \A o \in Workspaces \ {w} : ~Busy(run[o], run[w].tasks[n.task].repo)
    <2>1. CASE i.op = "reconcile"
        BY <1>6, <1>8, <2>1
    <2>2. CASE i.op # "reconcile"
        BY <1>8, <1>9, <2>2, WorkingTasks DEF RegistryGuard, MergeOwns, Busy
    <2> QED BY <2>1, <2>2
<1>20. run[w].merge = NoMerge \/ run[w].merge.pr = i.pr
    BY <1>5, <1>6 DEF Commands
<1>21. entry.status = "prepared" => sends[i.pr] = 0 /\ wire[i.pr] = "none"
    <2>1. PullAgrees(i.pr)
        BY <1>1, <1>5
    <2>2. CASE i.op = "prepare"
        BY <1>6, <1>18, <2>1, <2>2 DEF PullAgrees
    <2>3. CASE i.op # "prepare"
        BY <1>7, <1>10, <2>1, <2>3 DEF PullAgrees
    <2> QED BY <2>2, <2>3
<1>22. wire'[i.pr] = wire[i.pr] \/ (n.status = "issued" /\ sends[i.pr] = 0 /\ wire'[i.pr] = "permit")
    BY <1>7, <1>8, <1>14, <1>21
<1>23. n.status = "prepared" => sends[i.pr] = 0 /\ wire'[i.pr] = "none"
    BY <1>8, <1>14, <1>21
<1>24. wire'[i.pr] # "none" /\ pull[i.pr] # "merged" =>
           n.status \in {"issued", "uncertain"} \/ (pull[i.pr] # "open" /\ n.status = "not-merged")
    BY <1>6, <1>8, <1>23 DEF Unsettled
<1>25. n.status # "none"
    BY <1>8 DEF Unsettled
<1> DEFINE pr == i.pr
<1>26. n.pr = pr /\ pr \in PullRequests /\ n \in MergeRecords
    BY <1>5, <1>8
<1>27. n.task \in TaskIds /\ run[w].tasks[n.task].status = "completed"
    BY <1>5, <1>8, <1>16
<1>28. /\ pr \in bound'[w] /\ bound'[w] \subseteq bound[w] \cup {pr} /\ bound[w] \subseteq bound'[w]
       /\ \A o \in Workspaces \ {w} : bound'[o] = bound[o] /\ pr \notin bound[o]
    BY <1>13, <1>18
<1>29. \A other \in PullRequests \ {pr} : wire'[other] = wire[other]
    BY <1>14
<1>30. /\ wire'[pr] = wire[pr] \/ (n.status = "issued" /\ sends[pr] = 0 /\ wire'[pr] = "permit")
       /\ n.status = "prepared" => sends[pr] = 0 /\ wire'[pr] = "none"
       /\ wire'[pr] # "none" /\ pull[pr] # "merged" =>
             n.status \in {"issued", "uncertain"} \/ (pull[pr] # "open" /\ n.status = "not-merged")
       /\ run[w].merge = NoMerge \/ run[w].merge.pr = pr
    BY <1>20, <1>22, <1>23, <1>24
<1> HIDE DEF i, pr
<1> QED
    BY <1>2, <1>11, <1>12, <1>15, <1>17, <1>19, <1>25, <1>26, <1>27, <1>28, <1>29, <1>30,
       MergeMovesKeeps

\* A receipt makes the issued merge uncertain and sends nothing.
LEMMA MergeReceiptKeeps ==
    ASSUME IInv, NEW w \in Workspaces, MergeReceipt(w)
    PROVE  IInv'
<1> DEFINE n == [run[w].merge EXCEPT !.status = "uncertain"]
           r == [run[w] EXCEPT !.merge = n]
           pr == run[w].merge.pr
<1>1. /\ StandardTypeOK /\ run[w] \in RunRecords /\ run[w].merge \in MergeRecords
      /\ RunAgrees(w) /\ BoundApart
    BY DEF IInv, StandardTypeOK, RunRecords
<1>2. /\ registry.by = None /\ run[w].merge.status = "issued"
      /\ UNCHANGED <<mission, catalog, quarantine, registry, permission, thread,
                     pull, bound, wire, sends>>
    BY DEF MergeReceipt, BothTx
<1>3. /\ n \in MergeRecords /\ n.status = "uncertain" /\ n.task = run[w].merge.task /\ n.pr = pr
    BY <1>1 DEF MergeRecords, Unsettled
<1>4. Save(w, r)
    BY <1>1 DEF MergeReceipt, RunRecords
<1> HIDE DEF n
<1>5. r \in RunRecords /\ r.merge = n /\ r.tasks = run[w].tasks /\ r.status = run[w].status
    BY <1>1, <1>3 DEF RunRecords
<1> HIDE DEF r
<1>6. /\ run' \in [Workspaces -> RunRecords] /\ run'[w] = r
      /\ \A o \in Workspaces \ {w} : run'[o] = run[o]
      /\ inspection' \in [Workspaces -> [Requests -> InspectionRecords]]
      /\ \A q \in Requests : inspection'[w][q] = NoInspection
      /\ \A o \in Workspaces \ {w} : inspection'[o] = inspection[o]
    BY <1>1, <1>4, <1>5, SaveEffect
<1>7. StandardTypeOK'
    BY <1>1, <1>2, <1>6 DEF StandardTypeOK
<1>8. /\ n.task \in TaskIds /\ run[w].tasks[n.task].status = "completed"
      /\ pr \in bound[w] /\ \A t \in TaskIds : ~Working(run[w], t)
    BY <1>1, <1>2, <1>3 DEF RunAgrees, NoMerge, Unsettled
<1>9. pr \in PullRequests /\ \A o \in Workspaces \ {w} : pr \notin bound[o]
    BY <1>1, <1>8 DEF StandardTypeOK, BoundApart
<1>10. run[w].merge.status \in Unsettled
    BY <1>2 DEF Unsettled
<1> HIDE DEF pr
<1> QED BY <1>2, <1>3, <1>5, <1>6, <1>7, <1>8, <1>9, <1>10, MergeMovesKeeps DEF pr

\* A command and the people at GitHub move one pull request.
LEMMA PullMovesKeeps ==
    ASSUME IInv, StandardTypeOK', NEW pr \in PullRequests, UNCHANGED <<runVars, bound>>,
           \A other \in PullRequests \ {pr} :
              pull'[other] = pull[other] /\ wire'[other] = wire[other] /\ sends'[other] = sends[other],
           pull[pr] # "open" => pull'[pr] # "open",
           pull[pr] = "merged" => pull'[pr] = "merged",
           PullAgrees(pr)'
    PROVE  IInv'
<1> USE DEF runVars
<1>1. /\ \A o \in Workspaces : RunAgrees(o)'
      /\ ClaimStands' /\ OwnersApart' /\ BoundApart' /\ QuarantineStands'
    BY SameLedgers
<1>2. ASSUME NEW o \in Workspaces, NEW t \in TaskIds PROVE TaskAgrees(o, t)'
    BY DEF IInv, TaskAgrees, Working
<1>3. ASSUME NEW o \in Workspaces, NEW q \in Requests PROVE InspectionAgrees(o, q)'
    <2>1. InspectionAgrees(o, q)
        BY DEF IInv
    <2>2. inspection[o][q].saw # "none" => inspection[o][q].pr \in PullRequests
        BY <2>1 DEF InspectionAgrees
    <2> QED BY <2>1, <2>2 DEF InspectionAgrees
<1>4. ASSUME NEW other \in PullRequests PROVE PullAgrees(other)'
    <2>1. CASE other = pr
        BY <2>1
    <2>2. CASE other # pr
        BY <2>2 DEF IInv, PullAgrees, Dropped
    <2> QED BY <2>1, <2>2
<1> QED BY <1>1, <1>2, <1>3, <1>4 DEF IInv

\* The command, its arrival, its loss, and people's own decisions.
LEMMA GitHubStepKeeps ==
    ASSUME IInv, NEW pr \in PullRequests, GitHubStep(pr)
    PROVE  IInv'
<1>1. /\ StandardTypeOK /\ PullAgrees(pr) /\ pull \in [PullRequests -> PullStates]
      /\ wire \in [PullRequests -> {"none", "permit", "sent"}] /\ sends \in [PullRequests -> Nat]
    BY DEF IInv, StandardTypeOK
<1>2. UNCHANGED <<runVars, bound>>
    BY DEF GitHubStep, SendMerge, MergeArrives, ForgetMerge, PeopleDecide
<1>3. CASE SendMerge(pr)
    <2>1. /\ UNCHANGED pull /\ wire' \in [PullRequests -> {"none", "permit", "sent"}]
          /\ sends' \in [PullRequests -> Nat] /\ wire[pr] = "permit"
          /\ wire'[pr] = "sent" /\ sends'[pr] = sends[pr] + 1
          /\ \A other \in PullRequests \ {pr} :
                wire'[other] = wire[other] /\ sends'[other] = sends[other]
        BY <1>1, <1>3 DEF SendMerge
    <2>2. StandardTypeOK'
        BY <1>1, <1>2, <2>1 DEF StandardTypeOK, runVars
    <2>3. PullAgrees(pr)'
        BY <1>1, <1>2, <2>1 DEF PullAgrees, Dropped, runVars
    <2> QED BY <1>2, <2>1, <2>2, <2>3, PullMovesKeeps
<1>4. CASE MergeArrives(pr)
    <2>1. /\ UNCHANGED sends /\ wire' \in [PullRequests -> {"none", "permit", "sent"}]
          /\ pull' \in [PullRequests -> PullStates] /\ wire'[pr] = "none"
          /\ pull[pr] # "open" => pull'[pr] # "open"
          /\ pull[pr] = "merged" => pull'[pr] = "merged"
          /\ \A other \in PullRequests \ {pr} :
                wire'[other] = wire[other] /\ pull'[other] = pull[other]
        BY <1>1, <1>4 DEF MergeArrives, Seen, PullStates
    <2>2. StandardTypeOK'
        BY <1>1, <1>2, <2>1 DEF StandardTypeOK, runVars
    <2>3. PullAgrees(pr)'
        BY <1>1, <1>2, <2>1 DEF PullAgrees, Dropped, runVars
    <2> QED BY <1>2, <2>1, <2>2, <2>3, PullMovesKeeps
<1>5. CASE ForgetMerge(pr)
    <2>1. /\ UNCHANGED <<pull, sends>> /\ wire' \in [PullRequests -> {"none", "permit", "sent"}]
          /\ wire'[pr] = "none"
          /\ \A other \in PullRequests \ {pr} : wire'[other] = wire[other]
        BY <1>1, <1>5 DEF ForgetMerge
    <2>2. StandardTypeOK'
        BY <1>1, <1>2, <2>1 DEF StandardTypeOK, runVars
    <2>3. PullAgrees(pr)'
        BY <1>1, <1>2, <2>1 DEF PullAgrees, Dropped, runVars
    <2> QED BY <1>2, <2>1, <2>2, <2>3, PullMovesKeeps
<1>6. CASE PeopleDecide(pr)
    <2>1. /\ UNCHANGED <<wire, sends>> /\ pull' \in [PullRequests -> PullStates]
          /\ pull[pr] # "merged"
          /\ pull'[pr] # "open"
          /\ \A other \in PullRequests \ {pr} : pull'[other] = pull[other]
        BY <1>1, <1>6 DEF PeopleDecide, Seen, PullStates
    <2>2. StandardTypeOK'
        BY <1>1, <1>2, <2>1 DEF StandardTypeOK, runVars
    <2>3. PullAgrees(pr)'
        BY <1>1, <1>2, <2>1 DEF PullAgrees, Dropped, runVars
    <2> QED BY <1>2, <2>1, <2>2, <2>3, PullMovesKeeps
<1> QED BY <1>3, <1>4, <1>5, <1>6 DEF GitHubStep
-------------------------------------------------------------------------------
(* The invariant of the cooperative runs. *)

\* No workspace has a run, a claim, an inspection or a merge at first.
LEMMA InitIInv == Init => IInv
<1> SUFFICES ASSUME Init PROVE IInv
    OBVIOUS
<1>1. StandardTypeOK
    BY InitTypeOK
<1>2. \A w \in Workspaces : run[w] = NoRun /\ quarantine[w] = "none" /\ bound[w] = {}
    BY DEF Init
<1>3. NoRun.merge = NoMerge /\ NoRun.status = "none" /\ \A t \in TaskIds : NoRun.tasks[t] = NoTask
    BY DEF NoRun
<1>4. NoTask.status = "absent" /\ ~NoTask.effectIssued /\ NoTask.seen = "none"
    BY DEF NoTask
<1>5. \A w \in Workspaces, t \in TaskIds : ~Working(run[w], t)
    BY <1>2, <1>3, <1>4 DEF Working
<1>6. \A w \in Workspaces : \A repo : ~Busy(run[w], repo)
    BY <1>2, <1>3, <1>5 DEF Busy, NoMerge, Unsettled
<1>7. \A w \in Workspaces : RunAgrees(w)
    BY <1>2, <1>3, <1>5 DEF RunAgrees
<1>8. \A w \in Workspaces, t \in TaskIds : TaskAgrees(w, t)
    BY <1>2, <1>3, <1>4 DEF Init, TaskAgrees
<1>9. \A w \in Workspaces, q \in Requests : InspectionAgrees(w, q)
    BY DEF Init, InspectionAgrees, NoInspection
<1>10. ClaimStands /\ OwnersApart /\ BoundApart /\ QuarantineStands
    BY <1>2, <1>6 DEF Init, NoClaim, ClaimStands, OwnersApart, BoundApart, QuarantineStands
<1>11. \A pr \in PullRequests : PullAgrees(pr)
    BY <1>2, <1>3 DEF Init, PullAgrees, NoMerge
<1> QED BY <1>1, <1>7, <1>8, <1>9, <1>10, <1>11 DEF IInv

\* Every step of a workspace or of GitHub keeps the invariant.
LEMMA NextKeeps == IInv /\ [Next]_standardVars => IInv'
<1> SUFFICES ASSUME IInv, [Next]_standardVars PROVE IInv'
    OBVIOUS
<1>1. IInv => StandardTypeOK
    BY DEF IInv
<1>2. ASSUME NEW w \in Workspaces, OwnerStep(w), UNCHANGED mergeVars PROVE IInv'
    BY <1>1, <1>2, OwnerStays, StaysKeeps, PlayKeeps, QuarantineKeeps
<1>3. ASSUME NEW w \in Workspaces, NEW t \in TaskIds, TaskStep(w, t), UNCHANGED mergeVars
      PROVE  IInv'
    <2>1. ASSUME NEW repo \in Repos, NEW kind \in {"repo", "producer", "integration"},
                 NEW files \in FileScopes \cup {{}}, ReadClaim(w, t, repo, kind, files)
          PROVE  IInv'
        BY <1>3, <2>1, ReadClaimKeeps
    <2>2. CASE CreateThread(w, t) \/ ThreadIdles(w, t)
        BY <1>3, <2>2, HostStepKeeps
    <2>3. CASE StandardTypeOK' /\ (Stays(w) \/ TaskMoves(w, t))
        BY <2>3, StaysKeeps, TaskMovesKeeps
    <2> QED BY <1>3, <2>1, <2>2, <2>3, TaskStepMoves
<1>4. ASSUME NEW w \in Workspaces, BrainStep(w), UNCHANGED mergeVars PROVE IInv'
    <2>1. CASE BrainCrash(w)
        <3>1. PICK t \in TaskIds : t \in permission[w]
            BY <1>1, <2>1 DEF BrainCrash, StandardTypeOK
        <3> QED BY <1>4, <2>1, <3>1, HostStepKeeps
    <2> QED BY <1>1, <1>4, <2>1, BrainStays, StaysKeeps, ClaimKeeps
<1>5. ASSUME NEW w \in Workspaces, MergeStep(w) PROVE IInv'
    BY <1>5, InspectingKeeps, CommitMergeKeeps, MergeReceiptKeeps DEF MergeStep
<1>6. ASSUME NEW pr \in PullRequests, GitHubStep(pr) PROVE IInv'
    BY <1>6, GitHubStepKeeps
<1>7. CASE UNCHANGED standardVars
    BY <1>7 DEF standardVars, runVars, mergeVars, IInv, StandardTypeOK, RunAgrees, TaskAgrees,
                InspectionAgrees, ClaimStands, OwnersApart, BoundApart, PullAgrees, Dropped,
                QuarantineStands, HeldByQuarantine, Busy, Working
<1> QED BY <1>2, <1>3, <1>4, <1>5, <1>6, <1>7 DEF Next

\* The invariant, from which the theorems below follow.
THEOREM Invariant == Spec => []IInv
BY InitIInv, NextKeeps, PTL DEF Spec

\* The ledgers, the registry's claim and the pull requests keep their shape,
\* whatever the brains, the owners and GitHub do.
THEOREM TypeCorrect == Spec => []StandardTypeOK
<1>1. IInv => StandardTypeOK
    BY DEF IInv
<1> QED BY <1>1, Invariant, PTL

\* No repository is worked on from two workspaces, by tasks or by a merge not
\* settled: for any number of workspaces that share the registry.
THEOREM RepositoryHasOneOwner == Spec => []OneOwner
<1>1. ASSUME IInv PROVE OneOwner
    <2>1. SUFFICES ASSUME NEW repo \in Repos
                   PROVE  Cardinality({w \in Workspaces : WorksOn(w, repo)}) <= 1
        BY DEF OneOwner
    <2> DEFINE owners == {w \in Workspaces : WorksOn(w, repo)}
    <2>2. \A w, o \in owners : w = o
        BY <1>1, BusyWorkspaces DEF IInv, OwnersApart
    <2>3. CASE owners = {}
        BY <2>3, FS_EmptySet
    <2>4. CASE owners # {}
        <3>1. PICK w \in owners : TRUE
            BY <2>4
        <3>2. owners = {w}
            BY <2>2, <3>1
        <3> QED BY <3>2, FS_Singleton
    <2> QED BY <2>3, <2>4
<1> QED BY <1>1, Invariant, PTL

\* While a merge command may still take effect, no task of any workspace is at
\* work in its repository, unless its merge was settled when the pull request was
\* closed and the pull request was reopened since.
THEOREM MergeIsAlone == Spec => []MergeAlone
<1>1. ASSUME IInv, NEW pr \in PullRequests, wire[pr] # "none", Seen(pr) = "open"
      PROVE  \/ \E w \in Workspaces :
                   /\ run[w].merge.pr = pr
                   /\ \A o \in Workspaces :
                         InRepo(run[o], run[w].tasks[run[w].merge.task].repo) \cap Unfinished(run[o]) = {}
             \/ pull[pr] = "reopened" /\ Dropped(pr)
    <2>1. pull[pr] # "merged" /\ (pull[pr] # "open" => pull[pr] = "reopened")
        BY <1>1 DEF Seen
    <2>2. CASE pull[pr] # "open" /\ Dropped(pr)
        BY <2>1, <2>2
    <2>3. ASSUME NEW w \in Workspaces,
                 run[w].merge.pr = pr, run[w].merge.status \in {"issued", "uncertain"},
                 NEW o \in Workspaces
          PROVE  \A t \in TaskIds : Working(run[o], t) =>
                     run[o].tasks[t].repo # run[w].tasks[run[w].merge.task].repo
        <3>1. run[w].merge.status \in Unsettled /\ RunAgrees(w)
            BY <1>1, <2>3 DEF IInv, Unsettled
        <3> DEFINE repo == run[w].tasks[run[w].merge.task].repo
        <3>2. run[w].merge.task \in TaskIds /\ \A t \in TaskIds : ~Working(run[w], t)
            BY <3>1 DEF RunAgrees, NoMerge, Unsettled
        <3>3. repo \in Repos \cup {None}
            <4>1. run[w] \in RunRecords
                BY <1>1 DEF IInv, StandardTypeOK
            <4>2. run[w].tasks[run[w].merge.task] \in TaskRecords
                BY <3>2, <4>1 DEF RunRecords
            <4> QED BY <4>2 DEF TaskRecords
        <3>4. Busy(run[w], repo)
            BY <3>1 DEF Busy
        <3> HIDE DEF repo
        <3>5. o # w => ~Busy(run[o], repo)
            BY <1>1, <3>3, <3>4 DEF IInv, OwnersApart
        <3> QED BY <3>2, <3>5 DEF Busy, repo
    <2>4. PullAgrees(pr)
        BY <1>1 DEF IInv
    <2> QED BY <1>1, <2>1, <2>2, <2>3, <2>4, WorkingTasks DEF PullAgrees
<1>2. IInv => MergeAlone
    BY <1>1 DEF MergeAlone, Dropped
<1> QED BY <1>2, Invariant, PTL

\* The merge of a pull request is sent at most once, from any workspace, run,
\* brain or request.
THEOREM MergeIsSentOnce == Spec => []MergeOnce
<1>1. ASSUME IInv PROVE MergeOnce
    <2>1. ASSUME NEW pr \in PullRequests
          PROVE  sends[pr] + (IF wire[pr] = "permit" THEN 1 ELSE 0) <= 1
        <3>1. PullAgrees(pr) /\ sends[pr] \in Nat
            BY <1>1 DEF IInv, StandardTypeOK
        <3> QED BY <3>1 DEF PullAgrees
    <2> QED BY <2>1 DEF MergeOnce
<1> QED BY <1>1, Invariant, PTL

\* A run that rests left no thread at work and no permission to create one.
THEOREM RunsRestQuietly == Spec => []RestsQuietly
<1>1. ASSUME IInv PROVE RestsQuietly
    <2>1. SUFFICES ASSUME NEW w \in Workspaces, run[w].status \in Closed \cup {"paused"},
                          NEW t \in TaskIds
                   PROVE  thread[w][t] \in {"none", "idle"} /\ t \notin permission[w]
        BY DEF RestsQuietly
    <2>2. ~Working(run[w], t) /\ TaskAgrees(w, t)
        BY <1>1, <2>1 DEF IInv, RunAgrees
    <2>3. thread[w][t] \in {"none", "working", "idle", "twin"}
        BY <1>1 DEF IInv, StandardTypeOK
    <2> QED BY <2>2, <2>3 DEF TaskAgrees, Working, Terminal
<1> QED BY <1>1, Invariant, PTL

\* No task gets a second native thread, and none is at work for a task that the
\* journal has settled.
THEOREM ThreadsAreSingle == Spec => []OneThreadPerTask
<1>1. ASSUME IInv PROVE OneThreadPerTask
    BY <1>1, WorkingTasks DEF IInv, TaskAgrees, OneThreadPerTask
<1> QED BY <1>1, Invariant, PTL

\* No workspace works on the repositories of a quarantined one.
THEOREM QuarantineIsRespected == Spec => []QuarantineHolds
<1>1. ASSUME IInv PROVE QuarantineHolds
    BY <1>1, WorkingTasks DEF IInv, QuarantineStands, QuarantineHolds
<1> QED BY <1>1, Invariant, PTL
-------------------------------------------------------------------------------
(* The budget of a run (OverrunOnlyMeasured).                               *)

\* Finitely many tasks are claimed, and a claim that holds the registry still
\* fits what remains of its run's budget.
BudgetInv ==
    /\ \A w \in Workspaces : IsFiniteSet(Claimed(run[w]))
    /\ registry.by # None => Allowance <= RemainingAllowance(registry.by)

\* A task costs the same after as before.
SameCost(old, new) ==
    /\ new.status = "absent" <=> old.status = "absent"
    /\ new.allowance = old.allowance /\ new.observed = old.observed

\* The run of w costs the same after as before, and no other run moves.
Level(w) ==
    /\ \A o \in Workspaces \ {w} : run'[o] = run[o]
    /\ run'[w].brainAllowance = run[w].brainAllowance
    /\ run'[w].brainObserved = run[w].brainObserved
    /\ \A t \in TaskIds : SameCost(run[w].tasks[t], run'[w].tasks[t])

\* Beyond what it was, and beyond the budget, only by measured use.
Measured(w) ==
    Charged(run'[w]) > Charged(run[w])
        /\ Charged(run'[w]) + Limits[w].reserve > Limits[w].tokenBudget =>
        \/ run'[w].brainObserved > run[w].brainObserved
        \/ \E t \in TaskIds : run'[w].tasks[t].observed > run[w].tasks[t].observed

\* The charges of a run are numbers, and so is their sum.
LEMMA ChargesAreNumbers ==
    ASSUME NEW r \in RunRecords, IsFiniteSet(Claimed(r))
    PROVE  /\ Claimed(r) \subseteq TaskIds
           /\ \A t \in TaskIds : /\ Charges(r)[t] = Larger(r.tasks[t].allowance, r.tasks[t].observed)
                                 /\ Charges(r)[t] \in Nat
           /\ SumFunctionOnSet(Charges(r), Claimed(r)) \in Nat /\ Charged(r) \in Nat
<1>1. Claimed(r) \subseteq TaskIds
    BY DEF Claimed
<1>2. ASSUME NEW t \in TaskIds
      PROVE  /\ Charges(r)[t] = Larger(r.tasks[t].allowance, r.tasks[t].observed)
             /\ Charges(r)[t] \in Nat
    <2>1. r.tasks[t] \in TaskRecords
        BY DEF RunRecords
    <2> QED BY <2>1 DEF Charges, Larger, TaskRecords
<1>3. SumFunctionOnSet(Charges(r), Claimed(r)) \in Nat
    BY <1>1, <1>2, SumNat
<1>4. Larger(r.brainAllowance, r.brainObserved) \in Nat
    BY DEF RunRecords, Larger
<1> QED BY <1>1, <1>2, <1>3, <1>4 DEF Charged

\* Two runs whose brain and tasks cost the same are charged the same.
LEMMA SameCharged ==
    ASSUME NEW r \in RunRecords, NEW s \in RunRecords, IsFiniteSet(Claimed(r)),
           Larger(s.brainAllowance, s.brainObserved) = Larger(r.brainAllowance, r.brainObserved),
           \A t \in TaskIds : SameCost(r.tasks[t], s.tasks[t])
    PROVE  Claimed(s) = Claimed(r) /\ Charged(s) = Charged(r)
<1>1. Claimed(s) = Claimed(r)
    BY DEF Claimed, SameCost
<1>2. IsFiniteSet(Claimed(s))
    BY <1>1
<1>3. \A t \in Claimed(r) : Charges(s)[t] = Charges(r)[t]
    BY <1>2, ChargesAreNumbers DEF SameCost
<1>4. SumFunctionOnSet(Charges(s), Claimed(r)) = SumFunctionOnSet(Charges(r), Claimed(r))
    BY <1>3, SumSame
<1> QED BY <1>1, <1>4 DEF Charged

\* A level step keeps what remains to every run.
LEMMA LevelKeeps ==
    ASSUME StandardTypeOK, StandardTypeOK', BudgetInv, NEW w \in Workspaces, Level(w)
    PROVE  \A o \in Workspaces :
               /\ IsFiniteSet(Claimed(run'[o])) /\ Charged(run'[o]) = Charged(run[o])
               /\ RemainingAllowance(o)' = RemainingAllowance(o)
               /\ Measured(o)
<1> SUFFICES ASSUME NEW o \in Workspaces
             PROVE  /\ IsFiniteSet(Claimed(run'[o])) /\ Charged(run'[o]) = Charged(run[o])
                    /\ RemainingAllowance(o)' = RemainingAllowance(o)
                    /\ Measured(o)
    OBVIOUS
<1>1. run[o] \in RunRecords /\ run'[o] \in RunRecords
    BY DEF StandardTypeOK
<1>2. \A t \in TaskIds : SameCost(run[o].tasks[t], run'[o].tasks[t])
    BY DEF Level, SameCost
<1>3. Larger(run'[o].brainAllowance, run'[o].brainObserved)
         = Larger(run[o].brainAllowance, run[o].brainObserved)
    BY DEF Level
<1>4. IsFiniteSet(Claimed(run[o]))
    BY DEF BudgetInv
<1>5. Claimed(run'[o]) = Claimed(run[o]) /\ Charged(run'[o]) = Charged(run[o])
    BY <1>1, <1>2, <1>3, <1>4, SameCharged
<1>6. Charged(run[o]) \in Nat
    BY <1>1, <1>4, ChargesAreNumbers
<1> QED BY <1>4, <1>5, <1>6 DEF RemainingAllowance, Measured

\* A commit of one task that costs what it did is a level step.
LEMMA SaveTaskLevel ==
    ASSUME StandardTypeOK, NEW w \in Workspaces, NEW t \in TaskIds, NEW task \in TaskRecords,
           SameCost(run[w].tasks[t], task),
           \/ run' = [run EXCEPT ![w] = [run[w] EXCEPT !.tasks[t] = task]]
           \/ run' = [run EXCEPT ![w] = [[run[w] EXCEPT !.tasks[t] = task] EXCEPT !.status = "stopping"]]
    PROVE  Level(w)
<1> DEFINE n == [run[w] EXCEPT !.tasks[t] = task]
<1>1. run \in [Workspaces -> RunRecords] /\ run[w] \in RunRecords
    BY DEF StandardTypeOK
<1>2. /\ n.brainAllowance = run[w].brainAllowance /\ n.brainObserved = run[w].brainObserved
      /\ n \in RunRecords
      /\ n.tasks[t] = task /\ \A u \in TaskIds \ {t} : n.tasks[u] = run[w].tasks[u]
    <2>1. n.brainAllowance = run[w].brainAllowance /\ n.brainObserved = run[w].brainObserved
        BY <1>1 DEF RunRecords
    <2>2. /\ n \in RunRecords
          /\ n.tasks[t] = task /\ \A u \in TaskIds \ {t} : n.tasks[u] = run[w].tasks[u]
        BY <1>1, TaskSet
    <2> QED BY <2>1, <2>2
<1> HIDE DEF n
<1>3. LET s == [n EXCEPT !.status = "stopping"] IN
      s.brainAllowance = n.brainAllowance /\ s.brainObserved = n.brainObserved /\ s.tasks = n.tasks
    BY <1>2 DEF RunRecords
<1>4. \/ run' = [run EXCEPT ![w] = n]
      \/ run' = [run EXCEPT ![w] = [n EXCEPT !.status = "stopping"]]
    BY DEF n
<1>5. (\A o \in Workspaces \ {w} : run'[o] = run[o])
         /\ run'[w] \in {n, [n EXCEPT !.status = "stopping"]}
    BY <1>1, <1>4
<1>6. \A u \in TaskIds : SameCost(run[w].tasks[u], run'[w].tasks[u])
    <2>1. run'[w].tasks = n.tasks
        BY <1>3, <1>5
    <2>2. SameCost(run[w].tasks[t], n.tasks[t])
        BY <1>2
    <2>3. \A u \in TaskIds \ {t} : SameCost(run[w].tasks[u], n.tasks[u])
        BY <1>2 DEF SameCost
    <2> QED BY <2>1, <2>2, <2>3
<1> QED BY <1>2, <1>3, <1>5, <1>6 DEF Level
\* Steps that leave every run's tasks and the brain's use alone.
LEMMA BesideTasks ==
    ASSUME NEW w \in Workspaces, \A o \in Workspaces \ {w} : run'[o] = run[o],
           run'[w].tasks = run[w].tasks, run'[w].brainAllowance = run[w].brainAllowance,
           run'[w].brainObserved = run[w].brainObserved
    PROVE  Level(w)
BY DEF Level, SameCost

\* A commit that changes other fields of the run is a level step.
LEMMA SaveLevel ==
    ASSUME StandardTypeOK, NEW w \in Workspaces, NEW r, run' = [run EXCEPT ![w] = r],
           r.tasks = run[w].tasks, r.brainAllowance = run[w].brainAllowance,
           r.brainObserved = run[w].brainObserved
    PROVE  Level(w)
BY BesideTasks DEF StandardTypeOK

\* The owner's steps, but for Play and ReallocateBrain, are level.
LEMMA OwnerLevel ==
    ASSUME StandardTypeOK, NEW w \in Workspaces, OwnerStep(w)
    PROVE  /\ UNCHANGED registry
           /\ \/ Level(w)
              \/ Play(w)
              \/ \E amount \in 1 .. Limits[w].tokenBudget : ReallocateBrain(w, amount)
<1>1. run[w] \in RunRecords
    BY DEF StandardTypeOK
<1>2. CASE ChangeMission(w) \/ Quarantine(w)
    <2>1. UNCHANGED <<run, registry>>
        BY <1>2 DEF ChangeMission, SaveMission, DecideMission, Quarantine
    <2> QED BY <2>1, BesideTasks
<1>3. CASE Pause(w) \/ Resume(w) \/ RecoverController(w)
    <2>1. UNCHANGED registry /\ \E s \in {"running", "stopping"} :
             run' = [run EXCEPT ![w] = [run[w] EXCEPT !.status = s]]
        BY <1>3 DEF Pause, Resume, RecoverController, Save
    <2>2. PICK s \in {"running", "stopping"} :
             run' = [run EXCEPT ![w] = [run[w] EXCEPT !.status = s]]
        BY <2>1
    <2> DEFINE r == [run[w] EXCEPT !.status = s]
    <2>3. /\ r.tasks = run[w].tasks /\ r.brainAllowance = run[w].brainAllowance
          /\ r.brainObserved = run[w].brainObserved
        BY <1>1 DEF RunRecords
    <2>4. run' = [run EXCEPT ![w] = r]
        BY <2>2
    <2> HIDE DEF r
    <2> QED BY <2>1, <2>3, <2>4, SaveLevel
<1>4. CASE Play(w)
    BY <1>4 DEF Play
<1>5. ASSUME NEW amount \in 1 .. Limits[w].tokenBudget, ReallocateBrain(w, amount)
      PROVE  UNCHANGED registry
    BY <1>5 DEF ReallocateBrain
<1> QED BY <1>2, <1>3, <1>4, <1>5 DEF OwnerStep

\* The steps of a task, but for a claim's reading and an observation, are level.
LEMMA TaskLevel ==
    ASSUME StandardTypeOK, NEW w \in Workspaces, NEW t \in TaskIds, TaskStep(w, t)
    PROVE  \/ Level(w) /\ UNCHANGED registry
           \/ UNCHANGED run /\ MayClaim(w, t) /\ registry'.by = w
           \/ \E tokens \in Counts : Observe(w, t, tokens)
<1> DEFINE old == run[w].tasks[t]
<1>1. run[w] \in RunRecords /\ old \in TaskRecords
    BY DEF StandardTypeOK, RunRecords
<1>2. ASSUME NEW repo, NEW kind, NEW files, ReadClaim(w, t, repo, kind, files)
      PROVE  UNCHANGED run /\ MayClaim(w, t) /\ registry'.by = w
    BY <1>2 DEF ReadClaim
<1>3. CASE Issue(w, t)
    <2> DEFINE task == [old EXCEPT !.effectIssued = TRUE, !.status = "creating"]
    <2>1. task \in TaskRecords /\ SameCost(old, task)
        BY <1>1, <1>3 DEF TaskRecords, SameCost, Issue
    <2>2. run' = [run EXCEPT ![w] = [run[w] EXCEPT !.tasks[t] = task]] /\ UNCHANGED registry
        BY <1>3 DEF Issue, SaveTask, Save
    <2> QED BY <2>1, <2>2, SaveTaskLevel
<1>4. ASSUME NEW to \in {"active", "pending"}, Bind(w, t, to)
      PROVE  Level(w) /\ UNCHANGED registry
    <2> DEFINE task == [old EXCEPT !.status = to]
    <2>1. task \in TaskRecords /\ SameCost(old, task)
        BY <1>1, <1>4 DEF TaskRecords, SameCost, Bind
    <2>2. run' = [run EXCEPT ![w] = [run[w] EXCEPT !.tasks[t] = task]] /\ UNCHANGED registry
        BY <1>4 DEF Bind, SaveTask, Save
    <2> QED BY <2>1, <2>2, SaveTaskLevel
<1>5. CASE BindWorktree(w, t)
    <2> DEFINE task == [old EXCEPT !.worktree = "fresh"]
    <2>1. task \in TaskRecords /\ SameCost(old, task)
        BY <1>1 DEF TaskRecords, SameCost
    <2>2. run' = [run EXCEPT ![w] = [run[w] EXCEPT !.tasks[t] = task]] /\ UNCHANGED registry
        BY <1>5 DEF BindWorktree, SaveTask, Save
    <2> QED BY <2>1, <2>2, SaveTaskLevel
<1>6. ASSUME NEW outcome \in {"completed", "failed"}, Finish(w, t, outcome)
      PROVE  Level(w) /\ UNCHANGED registry
    <2> DEFINE task == [old EXCEPT !.status = outcome, !.seen = "none"]
    <2>1. task \in TaskRecords /\ SameCost(old, task)
        BY <1>1, <1>6, WorkingTasks DEF TaskRecords, SameCost, Finish, Working, Terminal
    <2>2. \/ run' = [run EXCEPT ![w] = [run[w] EXCEPT !.tasks[t] = task]]
          \/ run' = [run EXCEPT ![w] = [[run[w] EXCEPT !.tasks[t] = task] EXCEPT !.status = "stopping"]]
        BY <1>1, <1>6 DEF Finish, Save, RunRecords
    <2>3. UNCHANGED registry
        BY <1>6 DEF Finish
    <2> QED BY <2>1, <2>2, <2>3, SaveTaskLevel
<1>7. CASE Preserve(w, t) \/ CreateThread(w, t) \/ ThreadIdles(w, t)
    <2>1. UNCHANGED <<run, registry>>
        BY <1>7 DEF Preserve, CreateThread, ThreadIdles
    <2> QED BY <2>1, BesideTasks
<1>8. CASE CancelUnissued(w, t)
    <2> DEFINE task == [old EXCEPT !.status = "not_created"]
    <2>1. task \in TaskRecords /\ SameCost(old, task)
        BY <1>1, <1>8 DEF TaskRecords, SameCost, CancelUnissued, Terminal
    <2>2. run' = [run EXCEPT ![w] = [run[w] EXCEPT !.tasks[t] = task]] /\ UNCHANGED registry
        BY <1>8 DEF CancelUnissued, SaveTask, Save
    <2> QED BY <2>1, <2>2, SaveTaskLevel
<1>9. CASE Age(w, t)
    <2> DEFINE task == Aged(old)
    <2>1. task \in TaskRecords /\ SameCost(old, task)
        BY <1>1 DEF TaskRecords, SameCost, Aged
    <2>2. run' = [run EXCEPT ![w] = [run[w] EXCEPT !.tasks[t] = task]] /\ UNCHANGED registry
        BY <1>9 DEF Age
    <2> QED BY <2>1, <2>2, SaveTaskLevel
<1> QED BY <1>2, <1>3, <1>4, <1>5, <1>6, <1>7, <1>8, <1>9 DEF TaskStep

\* The brain's other steps, but for the claim and the checkpoint, and the steps
\* of a merge are level.
LEMMA BrainMergeLevel ==
    ASSUME StandardTypeOK, NEW w \in Workspaces, BrainStep(w) \/ MergeStep(w)
    PROVE  \/ Level(w) /\ UNCHANGED registry
           \/ Claim(w)
           \/ \E outcome \in {"completed", "blocked", "paused"}, tokens \in Counts :
                 Checkpoint(w, outcome, tokens)
<1>1. run[w] \in RunRecords
    BY DEF StandardTypeOK
<1>2. CASE RecordCatalog(w) \/ BrainCrash(w)
    <2>1. UNCHANGED <<run, registry>>
        BY <1>2 DEF RecordCatalog, BrainCrash
    <2> QED BY <2>1, BesideTasks
<1>3. CASE Expire(w)
    <2>1. run' = [run EXCEPT ![w] = [run[w] EXCEPT !.expired = TRUE]] /\ UNCHANGED registry
        BY <1>3 DEF Expire
    <2> DEFINE r == [run[w] EXCEPT !.expired = TRUE]
    <2>2. /\ r.tasks = run[w].tasks /\ r.brainAllowance = run[w].brainAllowance
          /\ r.brainObserved = run[w].brainObserved
        BY <1>1 DEF RunRecords
    <2>3. run' = [run EXCEPT ![w] = r]
        BY <2>1
    <2> HIDE DEF r
    <2> QED BY <2>1, <2>2, <2>3, SaveLevel
<1>4. ASSUME NEW q \in Requests, NEW op, NEW t, NEW pr,
             \/ BeginMerge(w, q, op, t, pr)
             \/ InspectMerge(w, q)
             \/ AbandonMerge(w, q)
      PROVE  Level(w) /\ UNCHANGED registry
    <2>1. UNCHANGED <<run, registry>>
        BY <1>4 DEF BeginMerge, InspectMerge, AbandonMerge
    <2> QED BY <2>1, BesideTasks
<1>5. ASSUME NEW m, run' = [run EXCEPT ![w] = [run[w] EXCEPT !.merge = m]]
      PROVE  Level(w)
    <2> DEFINE r == [run[w] EXCEPT !.merge = m]
    <2>1. /\ r.tasks = run[w].tasks /\ r.brainAllowance = run[w].brainAllowance
          /\ r.brainObserved = run[w].brainObserved
        BY <1>1 DEF RunRecords
    <2>2. run' = [run EXCEPT ![w] = r]
        BY <1>5
    <2> HIDE DEF r
    <2> QED BY <2>1, <2>2, SaveLevel
<1>6. ASSUME NEW q \in Requests, CommitMerge(w, q)
      PROVE  Level(w) /\ UNCHANGED registry
    <2>1. UNCHANGED registry /\ \E m : run' = [run EXCEPT ![w] = [run[w] EXCEPT !.merge = m]]
        BY <1>1, <1>6 DEF CommitMerge, StandardTypeOK
    <2> QED BY <2>1, <1>5
<1>7. CASE MergeReceipt(w)
    <2>1. UNCHANGED registry /\ \E m : run' = [run EXCEPT ![w] = [run[w] EXCEPT !.merge = m]]
        BY <1>1, <1>7 DEF MergeReceipt, Save, RunRecords
    <2> QED BY <2>1, <1>5
<1> QED BY <1>2, <1>3, <1>4, <1>6, <1>7 DEF BrainStep, MergeStep
\* Play begins with the brain's allowance, within the budget.
LEMMA PlayMeasured ==
    ASSUME StandardTypeOK, BudgetInv, NEW w \in Workspaces, Play(w)
    PROVE  /\ UNCHANGED registry /\ registry.by = None
           /\ \A o \in Workspaces \ {w} : run'[o] = run[o]
           /\ IsFiniteSet(Claimed(run'[w])) /\ Measured(w)
<1> DEFINE r == [NoRun EXCEPT !.serial = run[w].serial + 1, !.phase = mission[w].phase,
                              !.review = mission[w].version, !.status = "running",
                              !.brainAllowance = BrainAllowance]
<1>1. UNCHANGED registry /\ registry.by = None /\ BrainAllowance + Limits[w].reserve < Limits[w].tokenBudget
    BY DEF Play, BothTx
<1>2. run' = [run EXCEPT ![w] = r]
    BY DEF Play, Save
<1>3. /\ r.brainAllowance = BrainAllowance /\ r.brainObserved = 0
      /\ r.tasks = [t \in TaskIds |-> NoTask]
    BY DEF NoRun
<1> HIDE DEF r
<1>4. run'[w] = r /\ \A o \in Workspaces \ {w} : run'[o] = run[o]
    BY <1>2 DEF StandardTypeOK
<1>5. Claimed(r) = {}
    BY <1>3 DEF Claimed, NoTask
<1>6. IsFiniteSet(Claimed(r))
    BY <1>5, FS_EmptySet
<1>7. Charged(r) = BrainAllowance
    <2>1. SumFunctionOnSet(Charges(r), {}) = 0
        BY SumEmpty
    <2> QED BY <1>3, <1>5, <2>1, AmountAssumption DEF Charged, Larger
<1>8. Measured(w)
    BY <1>1, <1>4, <1>7, LimitsAssumption, AmountAssumption DEF Measured
<1> QED BY <1>1, <1>4, <1>6, <1>8

\* More for the brain of an empty run stays below the budget.
LEMMA ReallocateMeasured ==
    ASSUME StandardTypeOK, BudgetInv, NEW w \in Workspaces,
           NEW amount \in 1 .. Limits[w].tokenBudget, ReallocateBrain(w, amount)
    PROVE  /\ UNCHANGED registry /\ registry.by = None
           /\ \A o \in Workspaces \ {w} : run'[o] = run[o]
           /\ IsFiniteSet(Claimed(run'[w])) /\ Measured(w)
<1> DEFINE r == [run[w] EXCEPT !.brainAllowance = amount]
<1>1. /\ UNCHANGED registry /\ registry.by = None /\ Claimed(run[w]) = {}
      /\ amount > run[w].brainObserved
      /\ amount \in run[w].brainAllowance + 1 .. Limits[w].tokenBudget - Limits[w].reserve - 1
    BY DEF ReallocateBrain, BothTx
<1>2. run' = [run EXCEPT ![w] = r]
    BY DEF ReallocateBrain, Save
<1>3. run[w] \in RunRecords
    BY DEF StandardTypeOK
<1>4. /\ r.brainAllowance = amount /\ r.brainObserved = run[w].brainObserved
      /\ r.tasks = run[w].tasks
    BY <1>3 DEF RunRecords
<1> HIDE DEF r
<1>5. run'[w] = r /\ \A o \in Workspaces \ {w} : run'[o] = run[o]
    BY <1>2 DEF StandardTypeOK
<1>6. Claimed(r) = {}
    BY <1>1, <1>4 DEF Claimed
<1>7. IsFiniteSet(Claimed(r))
    BY <1>6, FS_EmptySet
<1>8. run[w].brainAllowance \in Nat /\ run[w].brainObserved \in Nat
         /\ Limits[w].tokenBudget \in Nat /\ Limits[w].reserve \in Nat
    BY <1>3, LimitsAssumption DEF RunRecords
<1>9. Charged(r) = amount
    <2>1. SumFunctionOnSet(Charges(r), {}) = 0
        BY SumEmpty
    <2> QED BY <1>1, <1>4, <1>6, <1>8, <2>1 DEF Charged, Larger
<1>10. Measured(w)
    BY <1>1, <1>5, <1>8, <1>9 DEF Measured
<1> QED BY <1>1, <1>5, <1>7, <1>10

\* An observation charges more only where it measured more.
LEMMA ObserveMeasured ==
    ASSUME StandardTypeOK, StandardTypeOK', BudgetInv, NEW w \in Workspaces, NEW t \in TaskIds,
           NEW tokens \in Counts, Observe(w, t, tokens)
    PROVE  /\ UNCHANGED registry /\ registry.by = None
           /\ \A o \in Workspaces \ {w} : run'[o] = run[o]
           /\ IsFiniteSet(Claimed(run'[w])) /\ Measured(w)
<1> DEFINE old == run[w].tasks[t]
           task == [old EXCEPT !.observed = tokens,
                               !.seen = IF thread[w][t] = "idle" THEN "idle" ELSE "active"]
           next == [run[w] EXCEPT !.tasks[t] = task]
<1>1. run[w] \in RunRecords /\ old \in TaskRecords /\ old.observed \in Nat /\ tokens \in Nat
    BY AmountAssumption DEF StandardTypeOK, RunRecords, TaskRecords
<1>2. /\ UNCHANGED registry /\ registry.by = None /\ old.status = "active" /\ tokens >= old.observed
      /\ run' = [run EXCEPT ![w] = next]
            \/ run' = [run EXCEPT ![w] = [next EXCEPT !.status = "stopping"]]
    BY DEF Observe, BrainOp, BothTx, Save
<1>3. /\ task \in TaskRecords /\ task.status = old.status /\ task.allowance = old.allowance
      /\ task.observed = tokens
    BY <1>1, AmountAssumption DEF TaskRecords
<1> HIDE DEF task
<1>4. next \in RunRecords /\ next.tasks[t] = task
         /\ \A u \in TaskIds \ {t} : next.tasks[u] = run[w].tasks[u]
    BY <1>1, <1>3, TaskSet
<1> HIDE DEF next
<1>5. [next EXCEPT !.status = "stopping"].tasks = next.tasks
    BY <1>4 DEF RunRecords
<1>6. run'[w].tasks = next.tasks /\ \A o \in Workspaces \ {w} : run'[o] = run[o]
    BY <1>2, <1>5 DEF StandardTypeOK
<1>7. Claimed(run'[w]) = Claimed(run[w])
    BY <1>3, <1>4, <1>6 DEF Claimed
<1>8. IsFiniteSet(Claimed(run'[w]))
    BY <1>7 DEF BudgetInv
<1>9. CASE tokens > old.observed
    BY <1>2, <1>3, <1>4, <1>6, <1>8, <1>9 DEF Measured
<1>10. CASE tokens = old.observed
    <2>1. Level(w)
        BY <1>1, <1>2, <1>3, <1>10, SaveTaskLevel DEF SameCost, next
    <2> QED BY <1>2, <1>6, <1>8, <2>1, LevelKeeps
<1> QED BY <1>1, <1>2, <1>9, <1>10

\* A checkpoint charges more only where it measured more.
LEMMA CheckpointMeasured ==
    ASSUME StandardTypeOK, StandardTypeOK', BudgetInv, NEW w \in Workspaces,
           NEW outcome, NEW tokens \in Counts, Checkpoint(w, outcome, tokens)
    PROVE  /\ UNCHANGED registry /\ registry.by = None
           /\ \A o \in Workspaces \ {w} : run'[o] = run[o]
           /\ IsFiniteSet(Claimed(run'[w])) /\ Measured(w)
<1> DEFINE r == Checkpointed(run[w], outcome, tokens)
<1>1. run[w] \in RunRecords /\ tokens \in Nat
         /\ run[w].brainAllowance \in Nat /\ run[w].brainObserved \in Nat
    BY AmountAssumption DEF StandardTypeOK, RunRecords
<1>2. /\ UNCHANGED registry /\ registry.by = None /\ tokens >= run[w].brainObserved
      /\ run' = [run EXCEPT ![w] = r]
    BY DEF Checkpoint, BothTx, Save
<1>3. /\ r.brainObserved = tokens /\ r.brainAllowance = Larger(run[w].brainAllowance, tokens)
      /\ r.tasks = run[w].tasks
    BY <1>1 DEF Checkpointed, RunRecords
<1> HIDE DEF r
<1>4. run'[w] = r /\ \A o \in Workspaces \ {w} : run'[o] = run[o]
    BY <1>2 DEF StandardTypeOK
<1>5. IsFiniteSet(Claimed(run[w])) /\ Claimed(run'[w]) = Claimed(run[w])
    BY <1>3, <1>4 DEF Claimed, BudgetInv
<1>6. CASE tokens > run[w].brainObserved
    BY <1>2, <1>3, <1>4, <1>5, <1>6 DEF Measured
<1>7. CASE tokens = run[w].brainObserved
    <2>1. Larger(r.brainAllowance, r.brainObserved)
             = Larger(run[w].brainAllowance, run[w].brainObserved)
        BY <1>1, <1>3, <1>7 DEF Larger
    <2>2. \A t \in TaskIds : SameCost(run[w].tasks[t], r.tasks[t])
        BY <1>3 DEF SameCost
    <2>3. r \in RunRecords
        BY <1>4 DEF StandardTypeOK
    <2>4. Charged(r) = Charged(run[w]) /\ Charged(run[w]) \in Nat
        BY <1>1, <1>5, <2>1, <2>2, <2>3, SameCharged, ChargesAreNumbers
    <2> QED BY <1>2, <1>4, <1>5, <2>4 DEF Measured
<1> QED BY <1>1, <1>2, <1>6, <1>7

\* A claim charges its allowance, which its reading found in the budget, and
\* nothing of its run moved since.
LEMMA ClaimMeasured ==
    ASSUME IInv, StandardTypeOK', BudgetInv, NEW w \in Workspaces, Claim(w)
    PROVE  /\ registry'.by = None
           /\ \A o \in Workspaces \ {w} : run'[o] = run[o]
           /\ IsFiniteSet(Claimed(run'[w])) /\ Measured(w)
<1> DEFINE t == registry.task
           new == [NoTask EXCEPT !.status = "claimed", !.repo = registry.repo,
                                 !.kind = registry.kind, !.files = registry.files,
                                 !.allowance = Allowance]
           r == [run[w] EXCEPT !.tasks[t] = new]
<1>1. StandardTypeOK /\ run[w] \in RunRecords /\ registry.by = w /\ w # None
    BY NoneAssumption DEF IInv, StandardTypeOK, Claim
<1>2. t \in TaskIds /\ run[w].tasks[t].status = "absent" /\ Allowance <= RemainingAllowance(w)
    BY <1>1, ClaimTyped DEF IInv, ClaimStands, BudgetInv
<1>3. registry' = NoClaim /\ run' = [run EXCEPT ![w] = r]
    BY DEF Claim, Save
<1>4. new.status = "claimed" /\ new.allowance = Allowance /\ new.observed = 0
    BY DEF NoTask
<1> HIDE DEF new
<1>5. r.tasks = [run[w].tasks EXCEPT ![t] = new] /\ r.brainAllowance = run[w].brainAllowance
         /\ r.brainObserved = run[w].brainObserved
    BY <1>1 DEF RunRecords
<1> HIDE DEF r
<1>6. r.tasks[t] = new /\ \A u \in TaskIds \ {t} : r.tasks[u] = run[w].tasks[u]
    BY <1>1, <1>2, <1>5 DEF RunRecords
<1>7. run'[w] = r /\ r \in RunRecords /\ \A o \in Workspaces \ {w} : run'[o] = run[o]
    BY <1>1, <1>3 DEF StandardTypeOK
<1>8. Claimed(r) = Claimed(run[w]) \cup {t} /\ t \notin Claimed(run[w])
    BY <1>2, <1>4, <1>6 DEF Claimed
<1>9. IsFiniteSet(Claimed(run[w])) /\ IsFiniteSet(Claimed(r))
    BY <1>8, FS_AddElement DEF BudgetInv
<1>10. Charged(r) = Charged(run[w]) + Allowance
    <2> DEFINE S == Claimed(run[w])
    <2>1. \A u \in Claimed(r) : Charges(r)[u] \in Nat
        BY <1>7, <1>9, ChargesAreNumbers
    <2>2. SumFunctionOnSet(Charges(r), Claimed(r))
             = Charges(r)[t] + SumFunctionOnSet(Charges(r), Claimed(r) \ {t})
        BY <1>8, <1>9, <2>1, SumRemove
    <2>3. Claimed(r) \ {t} = S
        BY <1>8
    <2>4. Charges(r)[t] = Allowance
        BY <1>2, <1>4, <1>6, AmountAssumption DEF Charges, Larger
    <2>5. \A u \in S : Charges(r)[u] = Charges(run[w])[u]
        BY <1>6, <1>8 DEF Charges, Claimed
    <2>6. SumFunctionOnSet(Charges(r), S) = SumFunctionOnSet(Charges(run[w]), S)
        BY <1>9, <2>5, SumSame
    <2>7. SumFunctionOnSet(Charges(run[w]), S) \in Nat /\ Larger(r.brainAllowance, r.brainObserved) \in Nat
        BY <1>1, <1>7, <1>9, ChargesAreNumbers DEF Larger, RunRecords
    <2>8. SumFunctionOnSet(Charges(r), Claimed(r)) = Allowance + SumFunctionOnSet(Charges(run[w]), S)
        BY <2>2, <2>3, <2>4, <2>6
    <2>9. Charged(r) = Larger(run[w].brainAllowance, run[w].brainObserved)
                          + (Allowance + SumFunctionOnSet(Charges(run[w]), S))
        BY <1>5, <2>8 DEF Charged
    <2>10. Larger(run[w].brainAllowance, run[w].brainObserved) \in Nat
        BY <1>5, <2>7
    <2> HIDE DEF S
    <2> QED BY <2>7, <2>9, <2>10, AmountAssumption DEF Charged, S
<1>11. Measured(w)
    <2>1. Charged(run[w]) \in Nat
        BY <1>1, <1>9, ChargesAreNumbers
    <2> QED BY <1>2, <1>7, <1>10, <2>1, LimitsAssumption, AmountAssumption
            DEF Measured, RemainingAllowance, Larger
<1> QED BY <1>3, <1>7, <1>9, <1>11 DEF NoClaim
\* Every step keeps what a reading has found, and charges more than the budget
\* only by measured use.
LEMMA NextBudget ==
    ASSUME IInv, BudgetInv, [Next]_standardVars
    PROVE  BudgetInv' /\ \A w \in Workspaces : Measured(w)
<1>1. StandardTypeOK /\ StandardTypeOK' /\ \A o \in Workspaces : run[o] \in RunRecords
    BY NextKeeps DEF IInv, StandardTypeOK
<1>2. ASSUME NEW w \in Workspaces, Level(w), UNCHANGED registry
      PROVE  BudgetInv' /\ \A o \in Workspaces : Measured(o)
    <2>1. \A o \in Workspaces : /\ IsFiniteSet(Claimed(run'[o])) /\ Measured(o)
                               /\ RemainingAllowance(o)' = RemainingAllowance(o)
        BY <1>1, <1>2, LevelKeeps
    <2>2. registry.by # None => registry.by \in Workspaces
        BY <1>1, ClaimTyped
    <2> QED BY <1>2, <2>1, <2>2 DEF BudgetInv
<1>3. ASSUME NEW w \in Workspaces, registry'.by = None,
             \A o \in Workspaces \ {w} : run'[o] = run[o],
             IsFiniteSet(Claimed(run'[w])), Measured(w)
      PROVE  BudgetInv' /\ \A o \in Workspaces : Measured(o)
    <2>1. ASSUME NEW o \in Workspaces \ {w} PROVE IsFiniteSet(Claimed(run'[o])) /\ Measured(o)
        <3>1. run'[o] = run[o] /\ IsFiniteSet(Claimed(run[o])) /\ Charged(run[o]) \in Nat
            BY <1>1, <1>3, ChargesAreNumbers DEF BudgetInv
        <3> QED BY <3>1 DEF Measured
    <2>2. \A o \in Workspaces : IsFiniteSet(Claimed(run'[o])) /\ Measured(o)
        BY <1>3, <2>1
    <2> QED BY <1>3, <2>2 DEF BudgetInv
<1>4. ASSUME NEW w \in Workspaces, OwnerStep(w)
      PROVE  BudgetInv' /\ \A o \in Workspaces : Measured(o)
    BY <1>1, <1>2, <1>3, <1>4, OwnerLevel, PlayMeasured, ReallocateMeasured
<1>5. ASSUME NEW w \in Workspaces, NEW t \in TaskIds, TaskStep(w, t)
      PROVE  BudgetInv' /\ \A o \in Workspaces : Measured(o)
    <2>1. ASSUME UNCHANGED run, MayClaim(w, t), registry'.by = w
          PROVE  BudgetInv' /\ \A o \in Workspaces : Measured(o)
        <3>1. Level(w)
            BY <2>1, BesideTasks
        <3>2. \A o \in Workspaces : /\ IsFiniteSet(Claimed(run'[o])) /\ Measured(o)
                                   /\ RemainingAllowance(o)' = RemainingAllowance(o)
            BY <1>1, <3>1, LevelKeeps
        <3>3. Allowance <= RemainingAllowance(w)
            BY <2>1 DEF MayClaim
        <3> QED BY <2>1, <3>2, <3>3 DEF BudgetInv
    <2> QED BY <1>1, <1>2, <1>3, <1>5, <2>1, TaskLevel, ObserveMeasured
<1>6. ASSUME NEW w \in Workspaces, BrainStep(w) \/ MergeStep(w)
      PROVE  BudgetInv' /\ \A o \in Workspaces : Measured(o)
    BY <1>1, <1>2, <1>3, <1>6, BrainMergeLevel, ClaimMeasured, CheckpointMeasured
<1>7. CASE UNCHANGED <<run, registry>>
    <2>1. CASE Workspaces = {}
        BY <1>1, <1>7, <2>1, ClaimTyped DEF BudgetInv
    <2>2. ASSUME NEW w \in Workspaces PROVE BudgetInv' /\ \A o \in Workspaces : Measured(o)
        BY <1>2, <1>7, BesideTasks
    <2> QED BY <2>1, <2>2
<1>8. ASSUME NEW pr \in PullRequests, GitHubStep(pr) PROVE UNCHANGED <<run, registry>>
    BY <1>8 DEF GitHubStep, SendMerge, MergeArrives, ForgetMerge, PeopleDecide, runVars
<1>9. CASE UNCHANGED standardVars
    BY <1>7, <1>9 DEF standardVars, runVars
<1> QED BY <1>4, <1>5, <1>6, <1>7, <1>8, <1>9 DEF Next

\* The first state charges nothing and holds no claim.
LEMMA InitBudget == Init => BudgetInv
<1> SUFFICES ASSUME Init PROVE BudgetInv
    OBVIOUS
<1>1. ASSUME NEW w \in Workspaces PROVE Claimed(run[w]) = {}
    BY DEF Init, NoRun, NoTask, Claimed
<1>2. registry.by = None
    BY DEF Init, NoClaim
<1> QED BY <1>1, <1>2, FS_EmptySet DEF BudgetInv

\* What a run is charged passes its budget only by measured use, for any budget,
\* reserve, allowance and number of tasks.
THEOREM OverrunIsMeasured == Spec => OverrunOnlyMeasured
<1> DEFINE A == \A w \in Workspaces : Measured(w)
<1>1. Init => IInv /\ BudgetInv
    BY InitIInv, InitBudget
<1>2. IInv /\ BudgetInv /\ [Next]_standardVars => (IInv /\ BudgetInv)' /\ [A]_standardVars
    BY NextKeeps, NextBudget
<1>3. [A]_standardVars =>
         [\A w \in Workspaces :
             Charged(run'[w]) > Charged(run[w])
                 /\ Charged(run'[w]) + Limits[w].reserve > Limits[w].tokenBudget =>
                 \/ run'[w].brainObserved > run[w].brainObserved
                 \/ \E t \in TaskIds : run'[w].tasks[t].observed > run[w].tasks[t].observed]_standardVars
    BY DEF Measured
<1> HIDE DEF A
<1> QED BY <1>1, <1>2, <1>3, PTL DEF Spec, OverrunOnlyMeasured
=============================================================================
