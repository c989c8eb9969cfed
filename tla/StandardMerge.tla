----------------------------- MODULE StandardMerge -----------------------------
(***************************************************************************)
(* The one-shot cooperative merge of a standard run                        *)
(* (src/orchestrator/standard_merge.py).  An inspection reads the ledger   *)
(* under both locks, leaves them to read the repository and GitHub, and    *)
(* takes them again: it commits only if the ledger and the run still have  *)
(* the revision it read.  Several requests of one brain may overlap.       *)
(*                                                                         *)
(* The brain sends the merge command that a check returns.  GitHub merges  *)
(* an open pull request when the command arrives, which may be much later; *)
(* people merge, close and reopen pull requests too.  A merge is final.    *)
(***************************************************************************)
EXTENDS StandardRun

CONSTANTS
    Requests,    \* merge requests of one brain in progress at a time
    PullRequests

ASSUME PullAssumption == None \notin PullRequests

VARIABLES
    pull,        \* the state of each pull request at GitHub
    bound,       \* pull requests retained in each ledger, for ever
    wire,        \* the merge command of each pull request
    sends        \* how often the merge of each pull request was sent

mergeVars == <<pull, bound, wire, sends>>

\* Closed once, a pull request that is open again is told apart from one that
\* was open all the time; GitHub, and remote, show both as open.
PullStates == {"open", "merged", "closed", "reopened"}
Seen(pr) == IF pull[pr] = "reopened" THEN "open" ELSE pull[pr]
Commands == {"prepare", "check", "reconcile"}

\* Merge entries of a run that still own their repository.
MergeOwns(w, repo) ==
    run[w].merge.status \in Unsettled /\ run[w].tasks[run[w].merge.task].repo = repo

\* authority: a current running run with every task settled, and the result
\* the phase may merge.
Authority(w, t) ==
    /\ run[w].status = "running" /\ ~Blocked(w) /\ ~Guarded(w)
    /\ Limits[w].merge
    /\ Unfinished(run[w]) = {}
    /\ run[w].tasks[t].status = "completed"
    /\ Isolated(w) => run[w].tasks[t].kind = "integration"

\* registry_guard: no other workspace works on, merges or retains it.
RegistryGuard(w, repo, pr) ==
    \A o \in Workspaces \ {w} :
        /\ ~MergeOwns(o, repo)
        /\ InRepo(run[o], repo) \cap Unfinished(run[o]) = {}
        /\ pr \notin bound[o]

\* brain, before the inspection.  A request that finds the journal beyond its
\* stage only returns the entry.
BeginMerge(w, q, op, t, pr) ==
    /\ BothTx(w)
    /\ inspection[w][q] = NoInspection
    /\ run[w].serial > 0
    /\ CASE op = "prepare" -> run[w].merge = NoMerge /\ pr \notin bound[w]
         [] op = "check" -> run[w].merge = [status |-> "prepared", task |-> t, pr |-> pr]
         [] op = "reconcile" -> /\ run[w].merge.status \in Unsettled
                                /\ run[w].merge.task = t /\ run[w].merge.pr = pr
    /\ op # "reconcile" => Authority(w, t) /\ RegistryGuard(w, run[w].tasks[t].repo, pr)
    /\ inspection' = [inspection EXCEPT ![w][q] =
                         [op |-> op, task |-> t, pr |-> pr, saw |-> "none"]]
    /\ UNCHANGED <<run, mission, catalog, quarantine, registry, permission, thread,
                   pull, bound, wire, sends>>

\* source, remote: read outside the locks.
InspectMerge(w, q) ==
    /\ inspection[w][q].op # "none" /\ inspection[w][q].saw = "none"
    /\ inspection' = [inspection EXCEPT ![w][q].saw = Seen(inspection[w][q].pr)]
    /\ UNCHANGED <<run, mission, catalog, quarantine, registry, permission, thread,
                   pull, bound, wire, sends>>

\* Faulty variant: an open pull request proves that nothing was merged.
OutcomeOpen(op, status, saw) ==
    IF saw = "merged" THEN "merged"
    ELSE IF saw = "closed" THEN "not-merged"
    ELSE IF op = "check" THEN "issued"
    ELSE IF op = "reconcile" /\ status \in {"issued", "uncertain"} THEN "not-merged"
    ELSE status

\* The entry after what was seen.  An open pull request proves nothing once
\* the command was issued.
Outcome(op, status, saw) ==
    IF saw = "merged" THEN "merged"
    ELSE IF saw = "closed" THEN "not-merged"
    ELSE IF op = "check" THEN "issued"
    ELSE IF op = "reconcile" /\ status \in {"issued", "uncertain"} THEN "uncertain"
    ELSE status

\* brain, after the inspection: nothing moved (else Touch forgot it), and a
\* permission needs its authority again.
CommitMerge(w, q) ==
    LET i == inspection[w][q]
        entry == IF i.op = "prepare"
                 THEN [status |-> "prepared", task |-> i.task, pr |-> i.pr]
                 ELSE run[w].merge
        next == [entry EXCEPT !.status = Outcome(i.op, @, i.saw)]
    IN
    /\ BothTx(w)
    /\ i.saw # "none"
    /\ i.op # "reconcile" => Authority(w, i.task) /\ RegistryGuard(w, run[w].tasks[i.task].repo, i.pr)
    /\ run' = [run EXCEPT ![w].merge = next]
    /\ Touch(w)
    /\ bound' = [bound EXCEPT ![w] = @ \cup {i.pr}]
    /\ wire' = IF next.status = "issued" THEN [wire EXCEPT ![i.pr] = "permit"] ELSE wire
    /\ UNCHANGED <<mission, catalog, quarantine, registry, permission, thread, pull, sends>>

\* The process died outside the locks.
AbandonMerge(w, q) ==
    /\ inspection[w][q] # NoInspection
    /\ inspection' = [inspection EXCEPT ![w][q] = NoInspection]
    /\ UNCHANGED <<run, mission, catalog, quarantine, registry, permission, thread,
                   pull, bound, wire, sends>>

\* merge_receipt: whatever the delivery was, the merge is uncertain.
MergeReceipt(w) ==
    /\ BothTx(w) /\ ~Guarded(w)
    /\ run[w].merge.status = "issued"
    /\ Save(w, [run[w] EXCEPT !.merge.status = "uncertain"])
    /\ UNCHANGED <<mission, catalog, quarantine, registry, permission, thread,
                   pull, bound, wire, sends>>

\* External: the brain sends the command it was returned.
SendMerge(pr) ==
    /\ wire[pr] = "permit"
    /\ wire' = [wire EXCEPT ![pr] = "sent"]
    /\ sends' = [sends EXCEPT ![pr] = @ + 1]
    /\ UNCHANGED <<runVars, pull, bound>>

\* External: the command arrives, and merges a pull request that is open.
MergeArrives(pr) ==
    /\ wire[pr] = "sent"
    /\ wire' = [wire EXCEPT ![pr] = "none"]
    /\ \/ Seen(pr) = "open" /\ pull' = [pull EXCEPT ![pr] = "merged"]
       \/ UNCHANGED pull
    /\ UNCHANGED <<runVars, bound, sends>>

\* External: the brain dies before it sent the command.
ForgetMerge(pr) ==
    /\ wire[pr] = "permit"
    /\ wire' = [wire EXCEPT ![pr] = "none"]
    /\ UNCHANGED <<runVars, pull, bound, sends>>

\* External: people merge or close an open pull request, or reopen a closed one.
PeopleDecide(pr) ==
    /\ \/ Seen(pr) = "open" /\ \E to \in {"merged", "closed"} : pull' = [pull EXCEPT ![pr] = to]
       \/ pull[pr] = "closed" /\ pull' = [pull EXCEPT ![pr] = "reopened"]
    /\ UNCHANGED <<runVars, bound, wire, sends>>
===============================================================================
