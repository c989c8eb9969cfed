---------------------------- MODULE WorkspacePause ----------------------------
(***************************************************************************)
(* Cooperative stop and resume of the brain and the safe pause of its      *)
(* workspace (src/orchestrator/brain_control.py, workspace_pause.py, and   *)
(* the control commands of core.py).  A pause never kills work: it waits   *)
(* until every task is reconciled and observed idle, then parks.           *)
(*                                                                         *)
(* A stop is queued while the phase is "stop_requested" and processing in  *)
(* "checkpointing".  The heartbeat, the checkpoint artifacts and the age   *)
(* of evidence only refuse, and are left out.                              *)
(***************************************************************************)
EXTENDS OwnershipSettlement

PausePhases == {"ready", "stop_requested", "checkpointing", "parked", "resume_requested"}

\* worker_binding: what of a worker row the pause evidence is bound to.
Binding(w) ==
    [status |-> w.status, thread |-> w.thread, attached |-> w.attached, marker |-> w.marker,
     launch |-> w.launch]

\* local_absence_receipt: settled as never created.
NotCreated(w) == w.status = "settled" /\ ~w.thread

Workers == {c \in Claims : workers[c].status # "absent"}
TasksSeen(tasks) == {c \in Claims : world[c].task \in tasks}

\* The source a pause inventory is bound to, and the tasks it found.
Evidence ==
    [bindings |-> [c \in Claims |-> Binding(workers[c])],
     runner |-> meta.runner,
     idle |-> TasksSeen({"idle"}),
     busy |-> TasksSeen({"running"})]

EvidenceRecords ==
    [bindings : [Claims -> [status : {"absent"} \cup Active \cup {"settled"}, thread : BOOLEAN,
                            attached : 0 .. MaxJournal, marker : 0 .. MaxJournal,
                            launch : BOOLEAN]],
     runner : Claims \cup {None},
     idle : SUBSET Claims,
     busy : SUBSET Claims]

MetaRecords ==
    [paused : BOOLEAN,
     runner : Claims \cup {None},           \* local owner of an acceptance runner
     phase : PausePhases,
     command : 0 .. MaxCommands,            \* the current stop or resume request
     evidence : {None} \cup EvidenceRecords,
     resumeQueued : BOOLEAN,                \* a dispatch "resume" is queued
     run : RunRecords]

\* inspect: no issue stands against parking.
NoIssues ==
    LET e == meta.evidence IN
    /\ meta.runner = None
    /\ \A c \in Workers : workers[c].status \notin {"starting", "accepting"}
    /\ e # None
    /\ e.runner = meta.runner
    /\ e.bindings = [c \in Claims |-> Binding(workers[c])]
    /\ e.busy = {}
    /\ \A c \in Workers :
        IF NotCreated(workers[c]) THEN c \notin e.idle
        ELSE \/ workers[c].status = "reserved" /\ ~workers[c].thread
             \/ workers[c].thread /\ c \in e.idle

ReadyToPark == meta.phase = "checkpointing" /\ NoIssues

\* Faulty variant: the current rows are not compared with the evidence.
ParkGuardUnbound ==
    /\ meta.phase = "checkpointing"
    /\ meta.evidence # None
    /\ meta.evidence.busy = {}
    /\ meta.runner = None
    /\ \A c \in Workers : workers[c].status # "reserved" => c \in meta.evidence.idle

\* park's own checks, on top of the inspection: every worker that is not merely
\* reserved needs an idle observation of its task.
ParkGuard ==
    /\ meta.phase = "checkpointing"
    /\ NoIssues
    /\ \A c \in Workers : workers[c].status # "reserved" =>
            workers[c].thread /\ c \in meta.evidence.idle

-------------------------------------------------------------------------------

\* Faulty variant: a queued dispatch resume outlives the stop.
StopKeepingResume(m) ==
    [m EXCEPT !.paused = TRUE, !.phase = "stop_requested", !.command = @ + 1,
              !.evidence = None, !.run = Fence(@, m.command + 1)]

\* request, for brain_stop: new work is closed and the run fenced at once.
Stop(m) ==
    [m EXCEPT !.paused = TRUE, !.phase = "stop_requested", !.command = @ + 1,
              !.evidence = None, !.resumeQueued = FALSE, !.run = Fence(@, m.command + 1)]

BrainStop ==
    /\ ~Stopped
    /\ meta.command < MaxCommands
    /\ ControlStep(Stop(meta))

\* request, for brain_resume: an unfinished pause cannot be discarded.
BrainResume ==
    /\ meta.phase \in {"ready", "parked"}
    /\ meta.command < MaxCommands
    /\ ControlStep([meta EXCEPT !.phase = "resume_requested", !.command = @ + 1,
                                !.evidence = None])

\* run_authority.stop: the brain reaches a stop condition of its run.
RunStop ==
    /\ meta.run.status \notin {"none", "checkpointed"}
    /\ IF Stopped
       THEN ControlStep([meta EXCEPT !.run = Fence(@, meta.command)])
       ELSE meta.command < MaxCommands /\ ControlStep(Stop(meta))

\* Dispatch pause and resume, which leave the brain running.
PauseDispatch ==
    ControlStep([meta EXCEPT !.paused = TRUE, !.resumeQueued = FALSE, !.run = Fence(@, 0)])

\* Faulty variant: only a fence refuses a resume, as before runs existed.
DispatchBlockedByFence == quarantined

\* projection: resuming is closed for good by a fence or by the first run.
DispatchBlocked == quarantined \/ meta.run.status # "none"

ResumeDispatch ==
    /\ ~DispatchBlocked
    /\ ~meta.resumeQueued
    /\ ~Stopped
    /\ ControlStep([meta EXCEPT !.resumeQueued = TRUE])

\* Opening dispatch to an authorised run.  No route of the code does it: run
\* intent "is not activation", and the tests clear the pause in the ledger.  It
\* is assumed to be as careful as ResumeDispatch is.
Activate ==
    /\ meta.paused
    /\ meta.run.status = "authorized"
    /\ ~quarantined
    /\ ~Stopped
    /\ ControlStep([meta EXCEPT !.paused = FALSE])

\* process: a stopping brain only receives the stop; otherwise every queued
\* command is handled in this transaction, a blocked resume by refusing it.
Process ==
    ControlStep(
        IF Stopped
        THEN [meta EXCEPT !.phase = IF @ = "stop_requested" THEN "checkpointing" ELSE @]
        ELSE [meta EXCEPT !.phase = "ready",
                          !.paused = @ /\ (~meta.resumeQueued \/ DispatchBlocked),
                          !.resumeQueued = FALSE])

\* observe: retain a complete inventory, bound to the rows it was taken with.
ObservePause ==
    /\ meta.phase = "checkpointing"
    /\ ControlStep([meta EXCEPT !.evidence = Evidence])

Park ==
    /\ ParkGuard
    /\ ControlStep([meta EXCEPT !.phase = "parked", !.paused = TRUE,
                                !.run = Checkpoint(@, meta.command)])

ControlNext ==
    \/ Authorize
    \/ \E c \in Claims : ApproveTask(c) \/ RevokeTask(c)
    \/ BrainStop \/ BrainResume \/ RunStop
    \/ PauseDispatch \/ ResumeDispatch \/ Activate \/ Process
    \/ ObservePause \/ Park
===============================================================================
