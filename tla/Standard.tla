------------------------------- MODULE Standard -------------------------------
(***************************************************************************)
(* The cooperative system: the runs of several standard workspaces of one  *)
(* registry, their merges, the native threads their brains create, and     *)
(* GitHub.  The controller of a workspace only wakes its brain; what it    *)
(* adds (commands, notices, recoveries) is the subject of Mailbox.         *)
(***************************************************************************)
EXTENDS StandardMerge

standardVars == <<runVars, mergeVars>>

Init ==
    /\ run = [w \in Workspaces |-> NoRun]
    /\ mission = [w \in Workspaces |-> [phase |-> 0, version |-> 0, status |-> "none"]]
    /\ catalog = [w \in Workspaces |-> FALSE]
    /\ quarantine = [w \in Workspaces |-> "none"]
    /\ registry = NoClaim
    /\ permission = [w \in Workspaces |-> {}]
    /\ thread = [w \in Workspaces |-> [t \in TaskIds |-> "none"]]
    /\ inspection = [w \in Workspaces |-> [q \in Requests |-> NoInspection]]
    /\ pull = [pr \in PullRequests |-> "open"]
    /\ bound = [w \in Workspaces |-> {}]
    /\ wire = [pr \in PullRequests |-> "none"]
    /\ sends = [pr \in PullRequests |-> 0]

\* Operations of the owner, of the brain on tasks, and of the environment.
OwnerStep(w) ==
    \/ ChangeMission(w)
    \/ Pause(w)
    \/ Resume(w)
    \/ Play(w)
    \/ \E amount \in 1 .. Limits[w].tokenBudget : ReallocateBrain(w, amount)
    \/ RecoverController(w)
    \/ Quarantine(w)

TaskStep(w, t) ==
    \/ \E repo \in Repos, kind \in {"repo", "producer", "integration"},
          files \in FileScopes \cup {{}} : ReadClaim(w, t, repo, kind, files)
    \/ Issue(w, t)
    \/ \E to \in {"active", "pending"} : Bind(w, t, to)
    \/ BindWorktree(w, t)
    \/ \E tokens \in Counts : Observe(w, t, tokens)
    \/ \E outcome \in {"completed", "failed"} : Finish(w, t, outcome)
    \/ Preserve(w, t)
    \/ CancelUnissued(w, t)
    \/ CreateThread(w, t)
    \/ ThreadIdles(w, t)
    \/ Age(w, t)

BrainStep(w) ==
    \/ RecordCatalog(w)
    \/ Claim(w)
    \/ \E outcome \in {"completed", "blocked", "paused"}, tokens \in Counts :
          Checkpoint(w, outcome, tokens)
    \/ BrainCrash(w)
    \/ Expire(w)

MergeStep(w) ==
    \/ \E q \in Requests, op \in Commands, t \in TaskIds, pr \in PullRequests :
          BeginMerge(w, q, op, t, pr)
    \/ \E q \in Requests : InspectMerge(w, q)
    \/ \E q \in Requests : CommitMerge(w, q)
    \/ \E q \in Requests : AbandonMerge(w, q)
    \/ MergeReceipt(w)

GitHubStep(pr) == SendMerge(pr) \/ MergeArrives(pr) \/ ForgetMerge(pr) \/ PeopleDecide(pr)

Next ==
    \/ \E w \in Workspaces :
          \/ OwnerStep(w) /\ UNCHANGED mergeVars
          \/ \E t \in TaskIds : TaskStep(w, t) /\ UNCHANGED mergeVars
          \/ BrainStep(w) /\ UNCHANGED mergeVars
          \/ MergeStep(w)
    \/ \E pr \in PullRequests : GitHubStep(pr)

Spec == Init /\ [][Next]_standardVars

-----------------------------------------------------------------------------

TaskRecords ==
    [status : {"absent", "claimed", "creating", "pending", "active"} \cup Terminal,
     repo : Repos \cup {None}, kind : {"repo", "producer", "integration"},
     files : FileScopes \cup {{}}, allowance : Nat, observed : Nat,
     seen : {"none", "idle", "active"}, worktree : {"none", "fresh", "stale"},
     effectIssued : BOOLEAN]

MergeRecords ==
    [status : {"none", "merged", "not-merged"} \cup Unsettled,
     task : TaskIds \cup {None}, pr : PullRequests \cup {None}]

RunRecords ==
    [serial : Nat, phase : Phases \cup {0}, review : Nat,
     status : {"none", "running", "stopping", "paused"} \cup Closed, expired : BOOLEAN,
     brainAllowance : Nat, brainObserved : Nat, tasks : [TaskIds -> TaskRecords],
     merge : MergeRecords,
     pauseRecovery : {"none", "checkpointed"} \cup Pending,
     receiptRecovery : {"none", "checkpointed"} \cup Pending,
     recovery : {"none", "replied"} \cup Pending]

InspectionRecords ==
    [op : {"none"} \cup Commands, task : TaskIds \cup {None}, pr : PullRequests \cup {None},
     saw : {"none"} \cup PullStates]

\* Every part of the ledgers, the registry and GitHub has its shape.
StandardTypeOK ==
    /\ run \in [Workspaces -> RunRecords]
    /\ mission \in [Workspaces -> [phase : Phases \cup {0}, version : Nat,
                                   status : {"none", "draft", "reviewed", "revoked"}]]
    /\ catalog \in [Workspaces -> BOOLEAN]
    /\ quarantine \in [Workspaces -> {"none", "claimed", "recorded"}]
    /\ registry \in {NoClaim} \cup [by : Workspaces, task : TaskIds, repo : Repos,
                                 kind : {"repo", "producer", "integration"},
                                 files : FileScopes \cup {{}}]
    /\ permission \in [Workspaces -> SUBSET TaskIds]
    /\ thread \in [Workspaces -> [TaskIds -> {"none", "working", "idle", "twin"}]]
    /\ inspection \in [Workspaces -> [Requests -> InspectionRecords]]
    /\ pull \in [PullRequests -> PullStates]
    /\ bound \in [Workspaces -> SUBSET PullRequests]
    /\ wire \in [PullRequests -> {"none", "permit", "sent"}]
    /\ sends \in [PullRequests -> Nat]

\* A workspace works on a repository: an unsettled task, or a merge not settled.
WorksOn(w, repo) == InRepo(run[w], repo) \cap Unfinished(run[w]) # {} \/ MergeOwns(w, repo)

\* No repository is worked on from two workspaces, although each keeps a ledger
\* of its own and reads the others' one by one (standard.py, claim;
\* standard_merge.py, registry_guard).
OneOwner ==
    \A repo \in Repos : Cardinality({w \in Workspaces : WorksOn(w, repo)}) <= 1

\* As long as a merge command may still take effect at GitHub, however late it
\* arrives, its repository has no task at work in any workspace - unless the pull
\* request was closed and reopened after its merge had been settled as not merged,
\* which frees the repository although the command may still be out
\* (standard_merge.py, brain).  Reopened before that, it settles nothing.
MergeAlone ==
    \A pr \in PullRequests : wire[pr] # "none" /\ Seen(pr) = "open" =>
        \/ \E w \in Workspaces :
              /\ run[w].merge.pr = pr
              /\ \A o \in Workspaces :
                    InRepo(run[o], run[w].tasks[run[w].merge.task].repo) \cap Unfinished(run[o]) = {}
        \/ /\ pull[pr] = "reopened"
           /\ \A w \in Workspaces : run[w].merge.pr = pr => run[w].merge.status = "not-merged"

\* The merge of a pull request is sent at most once, whatever requests overlap
\* and from whichever workspace, run or brain they come.
MergeOnce ==
    \A pr \in PullRequests : sends[pr] + (IF wire[pr] = "permit" THEN 1 ELSE 0) <= 1

\* A run that rests - paused, completed or blocked - left no native work behind:
\* none of its tasks has a thread at work, a second thread, or a permission that
\* the brain could still use to create one.
RestsQuietly ==
    \A w \in Workspaces : run[w].status \in Closed \cup {"paused"} =>
        \A t \in TaskIds : thread[w][t] \in {"none", "idle"} /\ t \notin permission[w]

\* Each task has at most one native thread, and a thread at work belongs to an
\* unfinished task of the present run: the effect is issued once, although the
\* brain may die before it uses the permission or before it binds the thread.
OneThreadPerTask ==
    \A w \in Workspaces, t \in TaskIds :
        /\ thread[w][t] # "twin" /\ ~(t \in permission[w] /\ thread[w][t] # "none")
        /\ thread[w][t] = "working" => t \in Unfinished(run[w])

\* Once a run is quarantined, completely or with its commit lost in a crash, no
\* other workspace holds a task on one of its repositories.
QuarantineHolds ==
    \A w, o \in Workspaces : w # o /\ quarantine[w] # "none" =>
        \A t \in Unfinished(run[o]) : run[o].tasks[t].repo \notin Limits[w].scope

\* What a run is charged passes its budget only by measured use: claims, Play and
\* reallocation never promise more than the phase has left.
OverrunOnlyMeasured ==
    [][\A w \in Workspaces :
          Charged(run'[w]) > Charged(run[w])
              /\ Charged(run'[w]) + Limits[w].reserve > Limits[w].tokenBudget =>
              \/ run'[w].brainObserved > run[w].brainObserved
              \/ \E t \in TaskIds : run'[w].tasks[t].observed > run[w].tasks[t].observed]_standardVars
===============================================================================
