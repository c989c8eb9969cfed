----------------------------- MODULE WorkerLedger -----------------------------
(***************************************************************************)
(* One workspace beside the shared admission kernel.  Its SQLite ledger    *)
(* (meta, workers, queue approvals) is a second database: an operation     *)
(* holds the registry and ledger locks, commits the shared database first  *)
(* and the ledger afterwards, so a crash between the two leaves the shared *)
(* fact without its local receipt.  The native platform, which creates     *)
(* tasks, runs turns and starts acceptance processes, is the environment.  *)
(*                                                                         *)
(* State shared by the coordinators that extend this module; no actions of *)
(* the program, only those of the environment.                             *)
(***************************************************************************)
EXTENDS AdmissionStore

CONSTANTS
    TaskRepo,       \* the repository of each claim's packet
    NativeOf,       \* the native task the platform makes for each claim
    Phase,          \* the allocation of the reviewed phase
    TaskEstimate,   \* tokens of a task, a correction or a runner attempt
    LocalLimit,     \* local worker capacity (min of concurrency and pilot limit)
    MaxJournal,     \* bound on journal records per claim (admission allows 1000)
    MaxRuns,        \* bound on run generations
    MaxCommands     \* bound on stop and resume requests

ASSUME DispatchAssumption ==
    /\ TaskRepo \in [Claims -> Repositories]
    /\ NativeOf \in [Claims -> Natives]
    /\ \A c, d \in Claims : NativeOf[c] = NativeOf[d] => c = d
    /\ Phase \in Allocations
    /\ TaskEstimate \in Estimates
    /\ {LocalLimit, MaxJournal, MaxRuns, MaxCommands} \subseteq Nat

VARIABLES
    journal,        \* native_records: the latest state of each claim's journal
    settlements,    \* ownership_settlements: the local row each record binds, or None
    meta,           \* the ledger's single meta row
    workers,        \* the ledger's workers table
    approvals,      \* run generation each queued task is approved for, 0 if none
    calls,          \* coordinator calls that are between two locked sections
    world           \* what the native platform really did

ledgerVars == <<meta, workers, approvals>>
sharedVars == <<claims, resources, journal, settlements>>
constantVars == <<allocations, account>>
dispatchVars == <<kernelVars, journal, settlements, ledgerVars, calls, world>>

Inflight == {"intent", "acknowledged", "uncertain"}
RunnerStates == {"none", "reserved", "launch_intent", "uncertain", "running", "exited", "released"}

\* lifecycle_stage of a worker whose runner is still owned.
RunnerStage ==
    [reserved |-> "runner_reserved", launch_intent |-> "runner_launch_intent",
     uncertain |-> "runner_uncertain", running |-> "runner_running", exited |-> "runner_exited"]

JournalRecords ==
    [count : 0 .. MaxJournal,
     outcome : {"none", "pending", "uncertain", "confirmed"},
     thread : BOOLEAN,                      \* the native task identity is known
     activity : {"unknown", "running", "idle"},
     turn : {"none", "finished"} \cup Inflight, \* the latest correction turn
     marker : 0 .. MaxJournal,              \* the local intent it answers
     sequence : 0 .. MaxJournal,            \* correction turns begun so far
     noProgress : 0 .. MaxJournal,
     runner : RunnerStates,
     launched : BOOLEAN]                    \* a launch intent is recorded

WorkerRecords ==
    [status : {"absent", "reserved", "starting", "running", "blocked",
               "awaiting_acceptance", "accepting", "settled"},
     stage : {"none", "intent", "reserved", "creation_pending", "creation_intent",
              "native_observed", "continuation_pending", "continuation_inflight",
              "runner_launch_pending", "settled"} \cup {RunnerStage[s] : s \in DOMAIN RunnerStage},
     seen : 0 .. MaxJournal + 3,            \* version of the attached claim (claimHash)
     attached : 0 .. MaxJournal,            \* version of the attached journal
     thread : BOOLEAN,
     marker : 0 .. MaxJournal,              \* nativeContinuationIntentHash, 0 if none
     launch : BOOLEAN,                      \* runnerLaunchIntentHash is set
     runner : RunnerStates,                 \* runnerBinding
     run : 0 .. MaxRuns]                    \* generation pinned by the intent

\* A row is not the absence of one.
ASSUME RowAssumption == None \notin WorkerRecords

CallKinds == {"reserve", "begin", "continue", "launch"}
Permits == {"create", "continue", "launch"}

WorldRecords ==
    [task : {"none", "requested", "failed", "running", "idle"},
     process : {"none", "alive", "exited"},
     permits : SUBSET Permits,              \* one-shot sends a coordinator returned
     creations : Nat, turns : Nat, launches : Nat]

NoJournal ==
    [count |-> 0, outcome |-> "none", thread |-> FALSE, activity |-> "unknown",
     turn |-> "none", marker |-> 0, sequence |-> 0, noProgress |-> 0,
     runner |-> "none", launched |-> FALSE]

NoWorker ==
    [status |-> "absent", stage |-> "none", seen |-> 0, attached |-> 0, thread |-> FALSE,
     marker |-> 0, launch |-> FALSE, runner |-> "none", run |-> 0]

\* A runner binding that still owns its key.
Owns(runner) == runner \notin {"none", "released"}

\* The order in which a claim row takes its contents: each is a new digest.
Version(claim, j) ==
    CASE claim.status = "absent" -> 0
      [] claim.status = "settled" -> 3 + j.count
      [] claim.status = "reserved" -> 1
      [] OTHER -> 2 + j.count

\* The local row has the receipt of the claim as it is in the shared store.
UpToDate(c) == workers[c].seen = Version(claims[c], journal[c])

\* locked(effects=True): the dispatch gates around any new effect.
Effects == ~meta.paused /\ ~quarantined

Active == {"reserved", "starting", "running", "awaiting_acceptance", "accepting", "blocked"}

\* local_capacity_in, with "launching" for the owner of the acceptance runner.
LocalCapacity(c, launching) ==
    LET others == {d \in Claims \ {c} : workers[d].status \in Active}
    IN  /\ Cardinality(others) < LocalLimit
        /\ \A d \in others : TaskRepo[d] # TaskRepo[c]
        /\ meta.runner = None \/ (launching /\ meta.runner = c)

\* The held claims still fit the policy and the phase.
SharedCapacity ==
    /\ Cardinality(HeldClaims) <= MaxParallelTasks
    /\ Cardinality(ClaimsOf(Phase) \cap HeldClaims) <= allocations[Phase].spec.maxParallelTasks

-------------------------------------------------------------------------------
(* The native platform and the coordinator processes, outside the ledger.    *)

Grant(c, permit, granted) ==
    world' = IF granted THEN [world EXCEPT ![c].permits = @ \cup {permit}] ELSE world

Native(c, next) ==
    /\ world' = [world EXCEPT ![c] = next]
    /\ UNCHANGED <<kernelVars, journal, settlements, ledgerVars, calls>>

SendCreation(c) ==
    /\ "create" \in world[c].permits
    /\ Native(c, [world[c] EXCEPT !.permits = @ \ {"create"}, !.task = "requested",
                                  !.creations = @ + 1])

CreationEnds(c) ==
    /\ world[c].task = "requested"
    /\ \E t \in {"running", "failed"} : Native(c, [world[c] EXCEPT !.task = t])

SendTurn(c) ==
    /\ "continue" \in world[c].permits
    /\ Native(c, [world[c] EXCEPT !.permits = @ \ {"continue"}, !.task = "running",
                                  !.turns = @ + 1])

TurnEnds(c) ==
    /\ world[c].task = "running"
    /\ Native(c, [world[c] EXCEPT !.task = "idle"])

SendLaunch(c) ==
    /\ "launch" \in world[c].permits
    /\ Native(c, [world[c] EXCEPT !.permits = @ \ {"launch"}, !.process = "alive",
                                  !.launches = @ + 1])

ProcessExits(c) ==
    /\ world[c].process = "alive"
    /\ Native(c, [world[c] EXCEPT !.process = "exited"])

\* The process that was handed a one-shot send dies without sending.
LosePermit(c) ==
    \E p \in world[c].permits : Native(c, [world[c] EXCEPT !.permits = @ \ {p}])

\* A coordinator dies, or is refused, between its two locked sections.
Abandon(c) ==
    /\ \E k \in calls[c] : calls' = [calls EXCEPT ![c] = @ \ {k}]
    /\ UNCHANGED <<kernelVars, journal, settlements, ledgerVars, world>>

NativeStep(c) ==
    \/ SendCreation(c) \/ CreationEnds(c)
    \/ SendTurn(c) \/ TurnEnds(c)
    \/ SendLaunch(c) \/ ProcessExits(c)
    \/ LosePermit(c) \/ Abandon(c)
===============================================================================
