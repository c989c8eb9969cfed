------------------------------- MODULE Dispatch -------------------------------
(***************************************************************************)
(* The dispatch system of one workspace: the admission kernel, the ledger, *)
(* its coordinators and the controls, composed with the native platform.   *)
(* Every action of the extended modules interleaves with every other.      *)
(***************************************************************************)
EXTENDS WorkspacePause

CONSTANT PhaseSpec      \* the content of the phase's allocation
\* The phase starts with nothing spent.
ASSUME PhaseAssumption == PhaseSpec \in Specs /\ 0 \in Totals

\* An initialised platform: the phase is allocated, account and usage were
\* observed, nothing is authorised and dispatch is paused.
DispatchInit ==
    /\ claims = [c \in Claims |-> NoClaim]
    /\ resources = {}
    /\ allocations = [a \in Allocations |->
            IF a = Phase
            THEN [spec |-> PhaseSpec, closed |-> FALSE,
                  usage |-> [total |-> 0, complete |-> TRUE, fresh |-> TRUE, included |-> {}]]
            ELSE [spec |-> None, closed |-> FALSE, usage |-> None]]
    /\ account = "fit"
    /\ quarantined = FALSE
    /\ journal = [c \in Claims |-> NoJournal]
    /\ settlements = [c \in Claims |-> None]
    /\ meta = [paused |-> TRUE, runner |-> None, phase |-> "ready", command |-> 0,
               evidence |-> None, resumeQueued |-> FALSE, run |-> NoRun]
    /\ workers = [c \in Claims |-> NoWorker]
    /\ approvals = [c \in Claims |-> 0]
    /\ calls = [c \in Claims |-> {}]
    /\ world = [c \in Claims |->
            [task |-> "none", process |-> "none", permits |-> {},
             creations |-> 0, turns |-> 0, launches |-> 0]]

\* stage_workspace: platform enrollment of a paused workspace publishes a durable
\* fence before the ledger commit that refuses a queued resume; a crash may lose
\* that commit, and the recovery repeats it.
Fenced ==
    /\ meta.paused
    /\ quarantined' = TRUE
    /\ \E staged \in BOOLEAN :
            meta' = IF staged THEN [meta EXCEPT !.resumeQueued = FALSE] ELSE meta
    /\ UNCHANGED <<claims, resources, constantVars, journal, settlements>>
    /\ UNCHANGED <<workers, approvals, calls, world>>

DispatchNext ==
    \/ \E c \in Claims :
        \/ AdmissionStep(c)
        \/ NativeLifecycleStep(c)
        \/ RunnerStep(c)
        \/ SettlementStep(c)
        \/ NativeStep(c)
    \/ ControlNext
    \/ Fenced

DispatchSpec == DispatchInit /\ [][DispatchNext]_dispatchVars

-------------------------------------------------------------------------------
(* Properties. *)

\* Every table of the shared store, the ledger and the platform has its shape.
DispatchTypeOK ==
    /\ KernelTypeOK
    /\ journal \in [Claims -> JournalRecords]
    /\ settlements \in [Claims -> WorkerRecords \cup {None}]
    /\ meta \in MetaRecords
    /\ workers \in [Claims -> WorkerRecords]
    /\ approvals \in [Claims -> 0 .. MaxRuns]
    /\ calls \in [Claims -> SUBSET CallKinds]
    /\ world \in [Claims -> WorldRecords]

\* Effects that are under way, or that some process may still send.
Live(c) ==
    \/ world[c].task \in {"requested", "running"}
    \/ world[c].process = "alive"
    \/ world[c].permits # {}

Launching(c) == world[c].process = "alive" \/ "launch" \in world[c].permits

\* Whatever crashes, retries and recoveries happen, a claim's task is created at
\* most once, its runner launched at most once, and every correction turn that
\* was sent has a journal entry of its own.
NoEffectTwice ==
    \A c \in Claims :
        /\ world[c].creations + Cardinality(world[c].permits \cap {"create"}) <= 1
        /\ world[c].launches + Cardinality(world[c].permits \cap {"launch"}) <= 1
        /\ world[c].turns + Cardinality(world[c].permits \cap {"continue"}) <= journal[c].sequence

\* A local row that shows an unstarted reservation is never behind a started
\* claim: pause may skip such a row (workspace_pause.py, inspect).
ReservedMeansUnstarted ==
    \A c \in Claims : workers[c].status \in {"absent", "reserved"} =>
        ~claims[c].started /\ ~Live(c) /\ world[c].task = "none"

\* Repositories, slots and tokens go back only when nothing of the claim is
\* under way and no process still holds permission to start something.
ReleasedAtRest == \A c \in Claims : claims[c].status = "settled" => ~Live(c)

\* Two tasks of one repository key are never under way together.
RepositoryExclusive ==
    \A c, d \in Claims :
        c # d /\ Live(c) /\ Live(d) =>
            ScopeKeys(Phase, {TaskRepo[c]}) \cap ScopeKeys(Phase, {TaskRepo[d]}) = {}

\* One acceptance runner per workspace: two processes are never alive, or about
\* to be launched, together - although the local slot that says so may have been
\* left behind by a crash while the shared store already owns two keys.
OneRunnerProcess ==
    \A c, d \in Claims : c # d =>
        ~(Launching(c) /\ Launching(d))

\* A parked workspace is quiet: nothing runs, nothing may still be sent, and no
\* call is waiting that could still start, continue or launch work.
ParkedIsQuiet ==
    meta.phase = "parked" =>
        \A c \in Claims : ~Live(c) /\ calls[c] \subseteq {"reserve"}

\* The ledger lets go of a task or a runner only after the shared store did, and
\* the worker whose row shows an owned runner is the one in the local slot.
LocalReleaseFollowsShared ==
    \A c \in Claims :
        /\ workers[c].status = "settled" => claims[c].status = "settled"
        /\ workers[c].runner = "released" => RunnerKeysOwned(c) = {}
        /\ Owns(workers[c].runner) => meta.runner = c

\* Some receipt-only recovery is open (each is its guard, followed by nothing but
\* assignments) whenever the local row lags a shared commit, whatever was paused,
\* fenced or revoked - except while the row's unmatched marker stands, or another
\* worker sits in the local runner slot.
LagIsRecoverable ==
    \A c \in Claims :
        workers[c].status # "absent" /\ claims[c].status # "absent" /\ ~UpToDate(c) =>
            \/ CanRecoverAdmission(c)
            \/ CanRecoverNative(c)
            \/ CanRecoverSettlement(c)
            \/ ~NoUnmatchedIntent(c)
            \/ meta.runner \notin {None, c}

\* Permission to create, correct or launch is handed out under a run that is
\* still current when it is handed out, though it was checked before the gap.
PermitsNeedCurrentRun ==
    [][\A c \in Claims : ~(world'[c].permits \subseteq world[c].permits) =>
            /\ meta.run.status = "authorized"
            /\ meta.run.generation = workers[c].run
            /\ approvals[c] = meta.run.generation
            /\ ~meta.paused /\ ~Stopped]_dispatchVars

\* A stop wins over everything queued or current: until the brain is resumed
\* dispatch stays paused, no resume is pending that would open it afterwards, and
\* no worker holds an intent of a generation that is still authorised (one may be
\* authorised meanwhile, by the owner, for after the stop).
StopWins ==
    Stopped =>
        /\ meta.paused /\ ~meta.resumeQueued
        /\ meta.run.status = "authorized" => \A c \in Claims : workers[c].run < meta.run.generation

\* A resume queued before a run was authorised, or before a fence was raised, is
\* not taken for its activation when the brain gets to it (core.py, process).
ResumeIsNotActivation ==
    [][(meta.run.status # "none" \/ quarantined) /\ meta.paused /\ meta.resumeQueued
            => meta'.paused \/ meta'.resumeQueued]_dispatchVars

\* A safe pause that reports itself ready can be parked (workspace_pause.py,
\* status_in, against brain_control.py, park).
ReadyPauseParks == ReadyToPark => ParkGuard

\* A parked workspace owns no acceptance runner in the shared store.
ParkedOwnsNoRunner ==
    meta.phase = "parked" => \A c \in Claims : RunnerKeysOwned(c) = {}
===============================================================================
