----------------------------- MODULE RunAuthority -----------------------------
(***************************************************************************)
(* Run generations and task approvals (src/orchestrator/run_authority.py): *)
(* the owner authorises a generation, a stop fences it, a safe checkpoint  *)
(* releases it.  The mission review behind each authorisation, the expiry  *)
(* of a grant and the stop reasons are left out: they only refuse.         *)
(***************************************************************************)
EXTENDS WorkerLedger

RunRecords ==
    [generation : 0 .. MaxRuns,
     status : {"none", "authorized", "fenced", "checkpointed"},
     command : 0 .. MaxCommands]        \* the stop command the run is fenced by

NoRun == [generation |-> 0, status |-> "none", command |-> 0]

\* brain_control.stopped: the brain is stopping or parked.
Stopped == meta.phase \in {"stop_requested", "checkpointing", "parked"}

RunCurrent(g) ==
    /\ meta.run.status = "authorized"
    /\ meta.run.generation = g
    /\ ~Stopped

TaskApproved(c, g) == RunCurrent(g) /\ approvals[c] = g

\* fence_in: called by every control that pauses; 0 means no stop command.
Fence(run, command) ==
    IF run.status = "none" \/ (run.status = "checkpointed" /\ command = 0)
    THEN run
    ELSE [run EXCEPT !.status = "fenced", !.command = IF command = 0 THEN @ ELSE command]

\* checkpoint_in: only the stop that fenced the run checkpoints it.
Checkpoint(run, command) ==
    IF run.status = "fenced" /\ run.command = command
    THEN [run EXCEPT !.status = "checkpointed"]
    ELSE run

ControlStep(newMeta) ==
    /\ meta' = newMeta
    /\ UNCHANGED <<kernelVars, journal, settlements, workers, approvals, calls, world>>

\* A first generation needs a ledger without active work; a later one needs the
\* exact safe checkpoint the previous one was stopped for.
Authorize ==
    /\ meta.paused
    /\ meta.run.generation < MaxRuns
    /\ \/ /\ meta.run.status = "none"
          /\ meta.runner = None
          /\ \A c \in Claims : workers[c].status \notin Active
       \/ /\ meta.run.status = "checkpointed"
          /\ meta.phase = "parked"
          /\ meta.run.command = meta.command
    /\ ControlStep([meta EXCEPT !.run =
            [generation |-> @.generation + 1, status |-> "authorized", command |-> 0]])

ApproveTask(c) ==
    /\ RunCurrent(meta.run.generation)
    /\ workers[c].status = "absent"
    /\ approvals' = [approvals EXCEPT ![c] = meta.run.generation]
    /\ UNCHANGED <<kernelVars, journal, settlements, meta, workers, calls, world>>

RevokeTask(c) ==
    /\ approvals[c] # 0
    /\ approvals' = [approvals EXCEPT ![c] = 0]
    /\ UNCHANGED <<kernelVars, journal, settlements, meta, workers, calls, world>>
===============================================================================
