-------------------------- MODULE OwnershipSettlement --------------------------
(***************************************************************************)
(* The two ends of a claim (src/orchestrator/ownership_settlement.py and   *)
(* creation_recovery.py): a confirmed task that is observed at rest, or a  *)
(* creation that is proved never to have made a task.  One record per      *)
(* claim seals both, and binds the local row it was decided on.            *)
(***************************************************************************)
EXTENDS RunnerCoordination

\* commit_in: seal the claim and give every resource back at once.
Commit(c, actual) ==
    /\ claims' = [claims EXCEPT ![c].status = "settled", ![c].actual = actual]
    /\ resources' = {r \in resources : r.claim # c}
    /\ settlements' = [settlements EXCEPT ![c] = workers[c]]

SettledRow(w, claim, j) ==
    [w EXCEPT !.status = "settled", !.stage = "settled", !.seen = Version(claim, j)]

\* attach_in, when the receipt is not yet local.
AttachSettlement(c, attached) ==
    workers' = IF attached
               THEN [workers EXCEPT ![c] = SettledRow(@, claims'[c], journal[c])]
               ELSE workers

\* What both outcomes require first.
MaintenanceOpen(c) ==
    /\ ~quarantined
    /\ settlements[c] = None
    /\ meta.runner = None
    /\ RunnerKeysOwned(c) = {}

\* Faulty variant: the local receipt may lag the journal.
SettleDetached(c, actual, attached) ==
    LET j == journal[c] IN
    /\ MaintenanceOpen(c)
    /\ JournalOpen(c)
    /\ j.count > 0
    /\ j.outcome = "confirmed" /\ j.activity = "idle"
    /\ workers[c].thread
    /\ world[c].task = "idle"
    /\ world[c].process # "alive"
    /\ Commit(c, actual)
    /\ AttachSettlement(c, attached)
    /\ UNCHANGED <<constantVars, quarantined, journal, meta, approvals, calls, world>>

\* settle, terminal: the local receipt is exact, no effect is unresolved, and
\* the inventory finds the task idle and its processes gone.
SettleTerminal(c, actual, attached) ==
    LET j == journal[c] IN
    /\ MaintenanceOpen(c)
    /\ JournalOpen(c)
    /\ NoUnmatchedIntent(c)
    /\ j.count > 0
    /\ j.outcome = "confirmed" /\ j.activity = "idle"
    /\ j.turn \notin Inflight
    /\ Attached(c)
    /\ workers[c].status = "running"
    /\ workers[c].stage = "native_observed"
    /\ workers[c].thread
    /\ world[c].task = "idle"
    /\ world[c].process # "alive"
    /\ Commit(c, actual)
    /\ AttachSettlement(c, attached)
    /\ UNCHANGED <<constantVars, quarantined, journal, meta, approvals, calls, world>>

\* settle, not created: an attempted creation whose request is final and made
\* no task.  A reservation that was never attempted is refused.
SettleNotCreated(c, attached) ==
    LET j == journal[c]
        w == workers[c]
    IN
    /\ MaintenanceOpen(c)
    /\ claims[c].status \in Held
    /\ claims[c].native = None
    /\ ~j.thread /\ j.sequence = 0 /\ j.runner = "none"
    /\ ~w.thread /\ w.marker = 0 /\ ~w.launch /\ w.runner = "none"
    /\ UpToDate(c)
    /\ IF j.count > 0
       THEN Attached(c)
       ELSE /\ w.attached = 0
            /\ w.status = "starting"
            /\ w.stage = IF claims[c].status = "reserved" THEN "creation_pending"
                                                           ELSE "creation_intent"
    /\ world[c].task \in {"none", "failed"}
    /\ "create" \notin world[c].permits
    /\ Commit(c, 0)
    /\ AttachSettlement(c, attached)
    /\ UNCHANGED <<constantVars, quarantined, journal, meta, approvals, calls, world>>

\* recover: receipt only; the local row must be the one the record binds.
CanRecoverSettlement(c) ==
    /\ settlements[c] # None
    /\ workers[c].stage # "settled"
    /\ workers[c] = settlements[c]

RecoverSettlement(c) ==
    /\ CanRecoverSettlement(c)
    /\ workers' = [workers EXCEPT ![c] = SettledRow(@, claims[c], journal[c])]
    /\ UNCHANGED <<kernelVars, journal, settlements, meta, approvals, calls, world>>

SettlementStep(c) ==
    \/ \E attached \in BOOLEAN :
        \/ \E actual \in Totals : SettleTerminal(c, actual, attached)
        \/ SettleNotCreated(c, attached)
    \/ RecoverSettlement(c)
===============================================================================
