-------------------------- MODULE RunnerCoordination --------------------------
(***************************************************************************)
(* The acceptance runner (src/orchestrator/runner_coordination.py): one    *)
(* attempt per worker, journaled like every other native effect.  A runner *)
(* key is a row of the shared resources table and the ledger has a single  *)
(* slot for the worker that owns one.                                      *)
(***************************************************************************)
EXTENDS NativeLifecycle

\* attached: the local row carries the latest record.
Attached(c) == workers[c].attached = journal[c].count /\ UpToDate(c)

RunnerKeysOwned(c) == KeysOwned(c) \cap RunnerKeys

\* work_checks, at reservation and again at launch.
WorkChecks(c, launching) ==
    LET j == journal[c] IN
    /\ TaskIn(c, launching)
    /\ AllocationIn
    /\ j.outcome = "confirmed" /\ j.activity = "idle"
    /\ j.turn \notin Inflight
    /\ j.noProgress < 2
    /\ SharedCapacity
    /\ launching \/ CheckBudget(Phase, TaskEstimate)

\* Faulty variant: the key may have an owner already.
AcquireShared(c, k, attached) ==
    LET j == journal[c] IN
    /\ Effects
    /\ JournalOpen(c)
    /\ j.count > 0
    /\ NoUnmatchedIntent(c)
    /\ Attached(c)
    /\ j.runner = "none"
    /\ k \in allocations[Phase].spec.runners
    /\ WorkChecks(c, FALSE)
    /\ resources' = resources \cup {[key |-> k, claim |-> c]}
    /\ Append(c, [j EXCEPT !.runner = "reserved"], TaskEstimate)
    /\ AttachJournal(c, attached)
    /\ UNCHANGED <<JournalUnchanged, calls, world>>

\* acquire: reserve the runner key and journal it in one shared transaction.
Acquire(c, k, attached) ==
    LET j == journal[c] IN
    /\ Effects
    /\ JournalOpen(c)
    /\ j.count > 0
    /\ NoUnmatchedIntent(c)
    /\ Attached(c)
    /\ j.runner = "none"
    /\ k \in allocations[Phase].spec.runners
    /\ WorkChecks(c, FALSE)
    /\ ~Owned(k)
    /\ resources' = resources \cup {[key |-> k, claim |-> c]}
    /\ Append(c, [j EXCEPT !.runner = "reserved"], TaskEstimate)
    /\ AttachJournal(c, attached)
    /\ UNCHANGED <<JournalUnchanged, calls, world>>

\* begin, local section: the one-shot launch marker.
LaunchIntent(c) ==
    /\ Effects
    /\ JournalOpen(c)
    /\ journal[c].runner = "reserved"
    /\ NoUnmatchedIntent(c)
    /\ Attached(c)
    /\ WorkChecks(c, TRUE)
    /\ workers' = [workers EXCEPT ![c].launch = TRUE, ![c].status = "accepting",
                                  ![c].stage = "runner_launch_pending"]
    /\ Enter(c, "launch")
    /\ UNCHANGED <<kernelVars, journal, settlements, meta, approvals, world>>

\* begin, shared section: nothing but the marker changed in the gap.
LaunchShared(c, attached) ==
    LET j == journal[c] IN
    /\ "launch" \in calls[c]
    /\ Effects
    /\ JournalOpen(c)
    /\ j.runner = "reserved"
    /\ workers[c].launch
    /\ workers[c].status = "accepting"
    /\ workers[c].stage = "runner_launch_pending"
    /\ UpToDate(c)
    /\ meta.runner = c
    /\ WorkChecks(c, TRUE)
    /\ Append(c, [j EXCEPT !.runner = "launch_intent", !.launched = TRUE,
                           !.activity = "unknown"], 0)
    /\ AttachJournal(c, attached)
    /\ Grant(c, "launch", attached)
    /\ Leave(c, "launch")
    /\ UNCHANGED <<JournalUnchanged, resources>>

ObserveProcess(c, outcome, attached) ==
    LET j == journal[c] IN
    /\ JournalOpen(c)
    /\ NoUnmatchedIntent(c)
    /\ Attached(c)
    /\ j.runner \in {"launch_intent", "uncertain", "running"}
    /\ outcome = "running" => world[c].process # "none"
    /\ outcome = "exited" => world[c].process = "exited"
    /\ Append(c, [j EXCEPT !.runner = outcome], 0)
    /\ AttachJournal(c, attached)
    /\ UNCHANGED <<JournalUnchanged, resources, calls, world>>

\* Faulty variant: the attempt is journaled as over, its key is not given back.
ReleaseKeepingKey(c, attached) ==
    LET j == journal[c] IN
    /\ ~quarantined
    /\ JournalOpen(c)
    /\ NoUnmatchedIntent(c)
    /\ Attached(c)
    /\ j.runner \in {"reserved", "exited"}
    /\ world[c].task = "idle"
    /\ world[c].process # "alive"
    /\ Append(c, [j EXCEPT !.runner = "released", !.activity = "idle"], 0)
    /\ AttachJournal(c, attached)
    /\ UNCHANGED <<JournalUnchanged, resources, calls, world>>

\* release: a runner that was never launched, or whose exit was journaled.  It
\* needs no work authority, but a maintenance fence blocks it.
Release(c, attached) ==
    LET j == journal[c] IN
    /\ ~quarantined
    /\ JournalOpen(c)
    /\ NoUnmatchedIntent(c)
    /\ Attached(c)
    /\ j.runner \in {"reserved", "exited"}
    /\ world[c].task = "idle"
    /\ world[c].process # "alive"
    /\ resources' = {r \in resources : r.key \notin RunnerKeysOwned(c)}
    /\ Append(c, [j EXCEPT !.runner = "released", !.activity = "idle"], 0)
    /\ AttachJournal(c, attached)
    /\ UNCHANGED <<JournalUnchanged, calls, world>>

RunnerStep(c) ==
    \/ LaunchIntent(c)
    \/ \E attached \in BOOLEAN :
        \/ \E k \in RunnerKeys : Acquire(c, k, attached)
        \/ LaunchShared(c, attached)
        \/ \E outcome \in {"uncertain", "running", "exited"} : ObserveProcess(c, outcome, attached)
        \/ Release(c, attached)
===============================================================================
