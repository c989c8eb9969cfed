------------------------------ MODULE MCStandard ------------------------------
(* Instances of the cooperative system small enough for TLC. *)
EXTENDS Standard, TLC

CONSTANTS wa, wb, ra, t1, t2, q1, q2

\* wa works in isolated worktrees and may merge; wb is an ordinary workspace of
\* the same repository.
TwoLimits ==
    (wa :> [tokenBudget |-> 5, reserve |-> 1, maxTasks |-> 2, maxParallel |-> 1,
            isolated |-> TRUE, merge |-> TRUE, scope |-> {ra}])
    @@ (wb :> [tokenBudget |-> 3, reserve |-> 1, maxTasks |-> 1, maxParallel |-> 1,
               isolated |-> FALSE, merge |-> FALSE, scope |-> {ra}])

Symmetry == Permutations({q1, q2}) \cup Permutations({t1, t2})

\* Bounds a search to missions that are revoked before they are played (the end
\* of a run's window blocks it afterwards in the same way), to brains measured in
\* empty runs, to a run of wb that is never closed nor measured, is paused beside
\* a run of wa without tasks unless it is quarantined, and ends only empty, to a
\* run of wa that ends only while wb has none, to one quarantine, that of wb,
\* to a pull request that is reopened only while a command for it is out, and to
\* one reconciliation at a time.
Foreground ==
    /\ \A w \in Workspaces : run[w].serial > 0 => mission[w].status # "revoked"
    /\ run[wa].brainObserved > 0 => Claimed(run[wa]) = {}
    /\ run[wb].status \notin Closed /\ run[wb].brainObserved = 0
    /\ run[wb].status = "paused" /\ quarantine[wb] = "none" => Claimed(run[wa]) = {}
    /\ run[wb].expired => Claimed(run[wb]) = {}
    /\ run[wa].expired => run[wb].serial = 0
    /\ quarantine[wa] = "none"
    /\ \A pr \in PullRequests : pull[pr] = "reopened" => wire[pr] # "none"
    /\ Cardinality({q \in Requests : inspection[wa][q].op = "reconcile"}) <= 1
===============================================================================
