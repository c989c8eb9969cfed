--------------------------- MODULE DispatchAdmission ---------------------------
(***************************************************************************)
(* The bridge from one workspace to the shared kernel                      *)
(* (src/orchestrator/dispatch_admission.py).  reserve and begin_creation   *)
(* each run two locked sections: a local intent first, then - after the    *)
(* locks were given up - a revalidation, the shared commit and its local   *)
(* receipt.  "attached" says whether the ledger's commit followed the      *)
(* shared one or was lost with the process.                                *)
(***************************************************************************)
EXTENDS RunAuthority

\* task_in and allocation_in: authority, local capacity and phase budget.
TaskIn(c, launching) ==
    /\ TaskApproved(c, workers[c].run)
    /\ LocalCapacity(c, launching)

AllocationIn == CheckBudget(Phase, 0)

\* claim_in: a claim the native journal has not taken over.
AdmissionClaim(c) ==
    /\ claims[c].status \in {"reserved", "starting"}
    /\ journal[c].count = 0

\* attach_in: the row that carries the receipt of this claim.
AdmissionRow(w, claim) ==
    IF w.stage = "creation_pending" /\ claim.status = "reserved"
    THEN w
    ELSE [w EXCEPT !.stage = IF claim.status = "reserved" THEN "reserved" ELSE "creation_intent",
                   !.status = claim.status,
                   !.seen = Version(claim, NoJournal)]

AttachAdmission(c, attached) ==
    workers' = IF attached THEN [workers EXCEPT ![c] = AdmissionRow(@, claims'[c])] ELSE workers

Enter(c, kind) == calls' = [calls EXCEPT ![c] = @ \cup {kind}]
Leave(c, kind) == calls' = [calls EXCEPT ![c] = @ \ {kind}]

-------------------------------------------------------------------------------

\* reserve, first section: retain the intent, or find the same one retained.
ReserveIntent(c) ==
    LET g == meta.run.generation IN
    /\ Effects
    /\ TaskApproved(c, g)
    /\ LocalCapacity(c, FALSE)
    /\ AllocationIn
    /\ \/ /\ workers[c].status = "absent"
          /\ workers' = [workers EXCEPT ![c] =
                [NoWorker EXCEPT !.status = "reserved", !.stage = "intent", !.run = g]]
       \/ /\ workers[c].run = g
          /\ workers[c].stage \in {"intent", "reserved"}
          /\ UNCHANGED workers
    /\ Enter(c, "reserve")
    /\ UNCHANGED <<kernelVars, journal, settlements, meta, approvals, world>>

\* reserve, second section.  A retained receipt is checked, never repeated.
ReserveShared(c, attached) ==
    /\ "reserve" \in calls[c]
    /\ Effects
    /\ workers[c].stage \in {"intent", "reserved"}
    /\ TaskIn(c, FALSE)
    /\ AllocationIn
    /\ workers[c].stage = "reserved" => UpToDate(c)
    /\ \/ /\ claims[c].status = "reserved"
          /\ UNCHANGED kernelVars
       \/ /\ workers[c].stage = "intent"
          /\ ReserveIn(c, Phase, {TaskRepo[c]}, TaskEstimate, TRUE)
    /\ AttachAdmission(c, attached)
    /\ Leave(c, "reserve")
    /\ UNCHANGED <<journal, settlements, meta, approvals, world>>

\* begin_creation, first section: the local owner is in flight before the
\* shared boundary moves.
BeginIntent(c) ==
    /\ Effects
    /\ workers[c].stage = "reserved"
    /\ workers[c].status = "reserved"
    /\ TaskIn(c, FALSE)
    /\ AllocationIn
    /\ AdmissionClaim(c)
    /\ UpToDate(c)
    /\ SharedCapacity
    /\ workers' = [workers EXCEPT ![c].stage = "creation_pending", ![c].status = "starting"]
    /\ Enter(c, "begin")
    /\ UNCHANGED <<kernelVars, journal, settlements, meta, approvals, world>>

\* Faulty variant: the shared boundary moves before the local intent.
BeginSharedFirst(c, attached) ==
    /\ Effects
    /\ workers[c].stage \in {"reserved", "creation_pending"}
    /\ TaskIn(c, FALSE)
    /\ AllocationIn
    /\ AdmissionClaim(c)
    /\ UpToDate(c)
    /\ BeginIn(c)
    /\ AttachAdmission(c, attached)
    /\ Grant(c, "create", attached)
    /\ Leave(c, "begin")
    /\ UNCHANGED <<journal, settlements, meta, approvals>>

\* begin_creation, second section.  Only a caller that got the receipt back
\* may create the native task, once.
BeginShared(c, attached) ==
    /\ "begin" \in calls[c]
    /\ Effects
    /\ workers[c].stage = "creation_pending"
    /\ workers[c].status = "starting"
    /\ TaskIn(c, FALSE)
    /\ AllocationIn
    /\ AdmissionClaim(c)
    /\ UpToDate(c)
    /\ BeginIn(c)
    /\ AttachAdmission(c, attached)
    /\ Grant(c, "create", attached)
    /\ Leave(c, "begin")
    /\ UNCHANGED <<journal, settlements, meta, approvals>>

\* Faulty variant: recovery of a started creation sends it again.
RecoverAdmissionResend(c) ==
    /\ workers[c].status # "absent"
    /\ AdmissionClaim(c)
    /\ workers' = [workers EXCEPT ![c] = AdmissionRow(@, claims[c])]
    /\ Grant(c, "create", claims[c].status = "starting")
    /\ UNCHANGED <<kernelVars, journal, settlements, meta, approvals, calls>>

\* Receipt-only recovery, whatever the pause, the fences and the approval say.
\* Without a shared claim the intent is returned unchanged.
CanRecoverAdmission(c) == workers[c].status # "absent" /\ AdmissionClaim(c)

RecoverAdmission(c) ==
    /\ CanRecoverAdmission(c)
    /\ workers' = [workers EXCEPT ![c] = AdmissionRow(@, claims[c])]
    /\ UNCHANGED <<kernelVars, journal, settlements, meta, approvals, calls, world>>

AdmissionStep(c) ==
    \/ ReserveIntent(c)
    \/ BeginIntent(c)
    \/ \E attached \in BOOLEAN : ReserveShared(c, attached) \/ BeginShared(c, attached)
    \/ RecoverAdmission(c)
===============================================================================
