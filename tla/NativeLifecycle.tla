---------------------------- MODULE NativeLifecycle ----------------------------
(***************************************************************************)
(* Observations, corrections and their recovery                            *)
(* (src/orchestrator/native_lifecycle.py).  Every result is appended to a  *)
(* journal in the shared store, next to the claim it updates, and copied   *)
(* to the local worker row afterwards.  Evidence is supplied by the caller *)
(* and believed; here it is true of the platform when it is committed.     *)
(***************************************************************************)
EXTENDS DispatchAdmission

\* claim_status: the shared status a journal state stands for.
ClaimStatus(j) ==
    IF \/ j.runner \notin {"none", "reserved", "released"}
       \/ j.turn \in Inflight
       \/ j.outcome = "pending"
    THEN "starting"
    ELSE IF j.outcome = "uncertain"
         THEN IF j.thread THEN "blocked" ELSE "uncertain"
         ELSE "running"

\* Faulty variant: the shared status is shown as it is.
WorkerStatusRaw(j) ==
    IF Owns(j.runner)
    THEN IF j.runner = "reserved" THEN "awaiting_acceptance" ELSE "accepting"
    ELSE ClaimStatus(j)

\* worker_status and lifecycle_stage: what the local row shows for it.
WorkerStatus(j) ==
    IF Owns(j.runner)
    THEN IF j.runner = "reserved" THEN "awaiting_acceptance" ELSE "accepting"
    ELSE IF ClaimStatus(j) = "uncertain" THEN "starting" ELSE ClaimStatus(j)

LifecycleStage(j) ==
    IF Owns(j.runner) THEN RunnerStage[j.runner]
    ELSE IF j.turn \in Inflight THEN "continuation_inflight" ELSE "native_observed"

\* state_in: the claim is held and has crossed its creation boundary.
JournalOpen(c) ==
    /\ claims[c].status \in Held
    /\ journal[c].count = 0 => claims[c].status = "starting"

LaunchMatched(w, j) == w.launch => j.launched
TurnMatched(w, j) == w.marker # 0 => w.marker = j.marker
NoUnmatchedIntent(c) == LaunchMatched(workers[c], journal[c]) /\ TurnMatched(workers[c], journal[c])

RunnerClear(j) == ~Owns(j.runner)

\* unique_identity, for the task the platform made for this claim.
UniqueIdentity(c) == \A d \in Claims \ {c} : claims[d].native # NativeOf[c]

\* append_in: the new journal state and the claim it projects to.
Append(c, state, tokens) ==
    /\ journal[c].count < MaxJournal
    /\ journal' = [journal EXCEPT ![c] = [state EXCEPT !.count = journal[c].count + 1]]
    /\ claims' = [claims EXCEPT ![c].status = ClaimStatus(state),
                                ![c].native = IF state.thread THEN NativeOf[c] ELSE None,
                                ![c].estimate = @ + tokens]

\* attach_in: the row that carries the receipt of the latest journal record.
\* Under an unmatched marker the row is left as it is.
JournalRow(w, claim, j) ==
    IF ~LaunchMatched(w, j) \/ ~TurnMatched(w, j)
    THEN w
    ELSE [w EXCEPT !.status = WorkerStatus(j), !.stage = LifecycleStage(j),
                   !.seen = Version(claim, j), !.attached = j.count,
                   !.thread = j.thread, !.runner = j.runner]

\* Faulty variant: attaching any row without a runner clears the slot.
RunnerSlotCleared(c, w, j) ==
    IF ~LaunchMatched(w, j) \/ ~TurnMatched(w, j) THEN meta.runner
    ELSE IF Owns(j.runner) THEN c ELSE None

\* The worker in the local runner slot once the row is attached.
RunnerSlot(c, w, j) ==
    IF ~LaunchMatched(w, j) \/ ~TurnMatched(w, j) THEN meta.runner
    ELSE IF Owns(j.runner) THEN c
    ELSE IF Owns(w.runner) THEN None ELSE meta.runner

\* The local runner slot must be what the row being replaced says it is, and
\* an unmatched marker must still be in flight.
AttachAllowed(c, w, j) ==
    IF ~LaunchMatched(w, j) THEN w.status = "accepting" /\ w.stage = "runner_launch_pending"
    ELSE IF ~TurnMatched(w, j) THEN w.status = "starting" /\ w.stage = "continuation_pending"
    ELSE IF Owns(w.runner) THEN meta.runner = c
    ELSE IF Owns(j.runner) THEN meta.runner = None
    ELSE meta.runner # c

AttachJournal(c, attached) ==
    IF attached
    THEN /\ AttachAllowed(c, workers[c], journal'[c])
         /\ workers' = [workers EXCEPT ![c] = JournalRow(@, claims'[c], journal'[c])]
         /\ meta' = [meta EXCEPT !.runner = RunnerSlot(c, workers[c], journal'[c])]
    ELSE UNCHANGED <<workers, meta>>

JournalUnchanged == <<constantVars, quarantined, settlements, approvals>>

-------------------------------------------------------------------------------

\* observe: the outcome of the creation, and later the activity of the task.
\* Retained identities are never erased.
Observe(c, outcome, thread, activity, attached) ==
    LET j == journal[c] IN
    /\ workers[c].status # "absent"
    /\ JournalOpen(c)
    /\ NoUnmatchedIntent(c)
    /\ RunnerClear(j)
    /\ outcome = "pending" => ~thread
    /\ outcome = "confirmed" => thread
    /\ outcome # "confirmed" => activity = "unknown"
    /\ j.thread => thread
    /\ UniqueIdentity(c)
    /\ outcome = "pending" => world[c].task # "none"
    /\ thread => world[c].task \in {"running", "idle"}
    /\ activity \in {"unknown", world[c].task}
    /\ Append(c, [j EXCEPT !.outcome = outcome, !.thread = thread, !.activity = activity], 0)
    /\ AttachJournal(c, attached)
    /\ UNCHANGED <<JournalUnchanged, resources, calls, world>>

\* continuation_checks: authority, budget and a journaled, idle, confirmed task.
ContinuationChecks(c) ==
    LET j == journal[c] IN
    /\ RunnerClear(j)
    /\ TaskIn(c, FALSE)
    /\ AllocationIn
    /\ j.outcome = "confirmed" /\ j.activity = "idle"
    /\ j.turn \notin Inflight
    /\ j.noProgress < 2
    /\ SharedCapacity
    /\ CheckBudget(Phase, TaskEstimate)

\* begin_continuation, local section.  The marker names the journal state the
\* correction answers, so a retained marker is never mistaken for a new one.
ContinueIntent(c) ==
    /\ Effects
    /\ workers[c].status # "absent"
    /\ JournalOpen(c)
    /\ NoUnmatchedIntent(c)
    /\ ContinuationChecks(c)
    /\ workers[c].marker # journal[c].count
    /\ workers' = [workers EXCEPT ![c].marker = journal[c].count,
                                  ![c].status = "starting", ![c].stage = "continuation_pending"]
    /\ Enter(c, "continue")
    /\ UNCHANGED <<kernelVars, journal, settlements, meta, approvals, world>>

\* Faulty variant: only the journal is compared again after the gap.
ContinueSharedUnrevalidated(c, attached) ==
    LET j == journal[c] IN
    /\ "continue" \in calls[c]
    /\ JournalOpen(c)
    /\ workers[c].marker = j.count
    /\ Append(c, [j EXCEPT !.sequence = @ + 1, !.turn = "intent", !.marker = workers[c].marker,
                           !.activity = "unknown"], TaskEstimate)
    /\ AttachJournal(c, attached)
    /\ Grant(c, "continue", attached)
    /\ Leave(c, "continue")
    /\ UNCHANGED <<JournalUnchanged, resources>>

\* begin_continuation, shared section: refused unless the journal is unchanged.
ContinueShared(c, attached) ==
    LET j == journal[c] IN
    /\ "continue" \in calls[c]
    /\ Effects
    /\ JournalOpen(c)
    /\ workers[c].marker = j.count
    /\ ContinuationChecks(c)
    /\ Append(c, [j EXCEPT !.sequence = @ + 1, !.turn = "intent", !.marker = workers[c].marker,
                           !.activity = "unknown"], TaskEstimate)
    /\ AttachJournal(c, attached)
    /\ Grant(c, "continue", attached)
    /\ Leave(c, "continue")
    /\ UNCHANGED <<JournalUnchanged, resources>>

\* delivery: what became of the correction turn.  A turn that is not
\* acknowledged cannot finish.
Delivery(c, outcome, progress, attached) ==
    LET j == journal[c]
        sent == world[c].turns = j.sequence
    IN
    /\ workers[c].status # "absent"
    /\ JournalOpen(c)
    /\ NoUnmatchedIntent(c)
    /\ RunnerClear(j)
    /\ j.turn \in Inflight
    /\ j.thread
    /\ outcome \in {"acknowledged", "finished"} => sent
    /\ outcome = "finished" => j.turn = "acknowledged" /\ world[c].task = "idle"
    /\ Append(c, IF outcome = "finished"
                 THEN [j EXCEPT !.turn = outcome, !.noProgress = IF progress THEN 0 ELSE @ + 1,
                                !.outcome = "confirmed", !.activity = "idle"]
                 ELSE [j EXCEPT !.turn = outcome], 0)
    /\ AttachJournal(c, attached)
    /\ UNCHANGED <<JournalUnchanged, resources, calls, world>>

\* Faulty variant: recovery passes the same dispatch gates as new work.
CanRecoverNativeGated(c) ==
    /\ Effects
    /\ workers[c].status # "absent"
    /\ JournalOpen(c)
    /\ journal[c].count > 0
    /\ workers[c].attached # journal[c].count
    /\ AttachAllowed(c, workers[c], journal[c])

\* What recover requires of the row, the claim, the journal and the local slot.
CanRecoverNative(c) ==
    /\ workers[c].status # "absent"
    /\ JournalOpen(c)
    /\ journal[c].count > 0
    /\ workers[c].attached # journal[c].count
    /\ AttachAllowed(c, workers[c], journal[c])

\* recover: attach the latest journal record, nothing else.
RecoverNative(c) ==
    /\ CanRecoverNative(c)
    /\ UNCHANGED <<claims, journal>>
    /\ AttachJournal(c, TRUE)
    /\ UNCHANGED <<JournalUnchanged, resources, calls, world>>

NativeLifecycleStep(c) ==
    \/ \E attached \in BOOLEAN :
        \/ \E outcome \in {"pending", "uncertain", "confirmed"}, thread \in BOOLEAN,
              activity \in {"unknown", "running", "idle"} :
                Observe(c, outcome, thread, activity, attached)
        \/ ContinueShared(c, attached)
        \/ \E outcome \in {"acknowledged", "uncertain", "finished"}, progress \in BOOLEAN :
                Delivery(c, outcome, progress, attached)
    \/ ContinueIntent(c)
    \/ RecoverNative(c)
===============================================================================
