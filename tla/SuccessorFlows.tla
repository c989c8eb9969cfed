--------------------------- MODULE SuccessorFlows ---------------------------
(* The controls that may follow a planning attempt that was refused before it *)
(* subscribed, because the brain was not loaded: loading it once more, taking *)
(* the same project forward in one combined review, or starting a new         *)
(* preparation phase, on the same host or on another one.                     *)
EXTENDS CanceledPlayFlows

-----------------------------------------------------------------------------
(* The predecessor: a planning attempt refused in its metadata preflight and  *)
(* closed; nothing of a subscription, a turn, a receipt or a stop.            *)

Refused == Records("canceled-followups", {"dir", "intent", "usage.claim", "usage", "mailbox", "handoff",
                                          "failure", "lifecycle", "outcome"})
BeyondRefusal == Records("canceled-followups", {"subscription.claim", "subscription", "turn-start.claim", "native-ack",
                                                "receive.claim", "receive", "proposal.claim", "proposal", "stop"})

-----------------------------------------------------------------------------
(* The second load. *)

MaintenanceReview ==
    CheckOf(OriginalFacts \cup IssuedHostFacts \cup {"source", "interpreter", "candidate", "transport", "predecessor"},
            {<<"continuous-connections", "dir">>, <<"same-project-followups", "dir">>,
             <<"same-project-followups", "mailbox">>, <<"post-disposition-loads", "stop">>,
             <<"canceled-brain-loads", "stop">>, <<"canceled-brain-loads", "failure">>} \cup BeyondRefusal,
            Disposed \cup HostIssued \cup Loaded("canceled-brain-loads") \cup Refused)

\* While it runs, nothing but its own three records may be in its journal.
MaintenanceGuard ==
    LET at == "post-disposition-loads" IN
    [MaintenanceReview EXCEPT !.absent = @ \cup Records(at, {"failure", "outcome", "observation"}),
                              !.present = @ \cup {<<at, "intent">>}]

MaintenanceBackup == BackupWith(MaintenanceReview)

MaintenanceClaim ==
    LET at == "post-disposition-loads" IN
    <<MaintenanceReview, Verify, Lock, MaintenanceReview, Write(at, "dir"), Write(at, "intent"), Unlock>>

MaintenanceBody ==
    LET at == "post-disposition-loads" IN
    <<MaintenanceGuard, See, MaintenanceGuard, See, Write(at, "load.claim"), MaintenanceGuard,
      Send(at, "load.claim"), Write(at, "load-ack"), See, MaintenanceGuard, Write(at, "observation")>>

MaintenanceVerdict == Loaded("post-disposition-loads")

MaintenanceLoad ==
    LET at == "post-disposition-loads" IN
    [Flow(at, MaintenanceBackup, MaintenanceClaim, MaintenanceBody)
     EXCEPT !.failed = {<<at, "failure">>}, !.always = {<<at, "outcome">>}, !.verdict = MaintenanceVerdict,
            !.stoppable = {at}, !.fenced = {<<at, "load.claim">>},
            !.before = Disposed \cup HostIssued \cup Loaded("canceled-brain-loads") \cup Refused]

-----------------------------------------------------------------------------
(* The same-project successor: it owns its connection under the name that a    *)
(* held connection would have, and lends it to one planning of its own.        *)

\* The lineage: the refused predecessor is exactly as it was left.
LineageFacts == {"predecessor", "predecessor source"}

SuccessorReview ==
    CheckOf(PlanningFacts \cup LineageFacts,
            {<<"post-disposition-loads", "dir">>, <<"same-project-followups", "stop">>} \cup BeyondRefusal,
            Disposed \cup Refused)

SuccessorHeld ==
    LET at == "continuous-connections" IN
    [SuccessorReview EXCEPT !.facts = @ \cup {"owning process"},
        !.absent = @ \cup {<<at, "stop">>, <<at, "outcome">>}, !.present = @ \cup {<<at, "intent">>}]

SuccessorBackup == BackupWith(SuccessorReview)

SuccessorClaim ==
    LET at == "continuous-connections" IN
    <<SuccessorReview, Verify,
      CheckOf({}, {<<"same-project-followups", "dir">>, <<"same-project-followups", "mailbox">>}, {}),
      Lock, SuccessorReview, Write(at, "dir"), Write(at, "intent"), Unlock>>

SuccessorBody ==
    LET at == "continuous-connections"  planning == "same-project-followups" IN
    <<CheckOf({}, {<<at, "stop">>}, {}), See, SuccessorReview, CheckOf({}, {<<at, "stop">>}, {}),
      Write(at, "subscription.claim"), Send(at, "subscription.claim"), Write(at, "subscription")>>
    \o PlanningClaim(planning, SuccessorHeld, SuccessorHeld)
    \o <<SuccessorHeld>> \o PlanningPrepared(planning, SuccessorHeld) \o Borrowed(planning, at, SuccessorHeld)
    \o PlanningTurn(planning, SuccessorHeld) \o PlanningObserved(planning, SuccessorHeld)
    \o <<Write(at, "planning-outcome")>>

SuccessorVerdict ==
    Records("continuous-connections", {"dir", "intent", "subscription.claim", "subscription", "handoff.claim",
                                       "planning-outcome", "outcome"})
    \cup PlanningVerdict("same-project-followups")

SameProjectSuccessor ==
    LET at == "continuous-connections"  planning == "same-project-followups" IN
    [Flow(at, SuccessorBackup, SuccessorClaim, SuccessorBody)
     EXCEPT !.failed = {<<at, "failure">>},
            !.always = {<<at, "outcome">>} \cup Records(planning, {"lifecycle", "outcome"}),
            !.verdict = SuccessorVerdict, !.stoppable = {at, planning},
            !.fenced = {<<planning, "turn-start.claim">>},
            !.before = Disposed \cup HostIssued \cup Loaded("canceled-brain-loads") \cup Refused]

-----------------------------------------------------------------------------
(* The preparation phase: after the second load, and only once the clock of    *)
(* the first phase has run out; its own clock starts with its intent.          *)

PhaseFacts == PlanningFacts \cup IssuedHostFacts \cup {"predecessor", "maintenance source", "carried usage"}

PhaseReview ==
    CheckOf(PhaseFacts,
            {<<"same-project-phases", "stop">>, <<"same-project-phases/planning", "stop">>,
             <<"continuous-connections", "dir">>, <<"same-project-followups", "dir">>,
             <<"post-disposition-loads", "stop">>, <<"post-disposition-loads", "failure">>} \cup BeyondRefusal,
            Disposed \cup Refused \cup Loaded("canceled-brain-loads") \cup Loaded("post-disposition-loads"))

\* Once claimed, the phase's own clock must be running.
PhaseClocked ==
    [PhaseReview EXCEPT !.facts = @ \cup {"phase clock"}, !.present = @ \cup {<<"same-project-phases", "intent">>}]

PhaseHeld ==
    LET at == "same-project-phases" IN
    [PhaseClocked EXCEPT !.facts = @ \cup {"owning process"}, !.absent = @ \cup {<<at, "outcome">>}]

PhaseBackup == BackupWith(PhaseReview)

PhaseClaim ==
    LET at == "same-project-phases" IN
    <<PhaseReview, Verify, Lock, PhaseReview, CheckOf({}, {<<at, "dir">>, <<"same-project-phases/planning", "mailbox">>}, {}),
      Write(at, "dir"), Write(at, "intent"), Unlock>>

\* Attach, and lend the connection to the phase's one planning.
PhasePlanning(held) ==
    LET at == "same-project-phases"  planning == "same-project-phases/planning" IN
    PlanningClaim(planning, held, held) \o <<held>> \o PlanningPrepared(planning, held)
    \o Borrowed(planning, at, held) \o PlanningTurn(planning, held) \o PlanningObserved(planning, held)
    \o <<Write(at, "planning-outcome")>>

PhaseBody ==
    LET at == "same-project-phases" IN
    <<See, PhaseClocked, Write(at, "subscription.claim"), Send(at, "subscription.claim"), Write(at, "subscription")>>
    \o PhasePlanning(PhaseHeld)

PhaseVerdict ==
    Records("same-project-phases", {"dir", "intent", "subscription.claim", "subscription", "handoff.claim",
                                    "planning-outcome", "outcome"})
    \cup PlanningVerdict("same-project-phases/planning")

\* What both kinds of phase leave, and stand on.
PhaseFlow(claim, body, verdict) ==
    LET at == "same-project-phases"  planning == "same-project-phases/planning" IN
    [Flow(at, PhaseBackup, claim, body)
     EXCEPT !.failed = {<<at, "failure">>},
            !.always = {<<at, "outcome">>} \cup Records(planning, {"lifecycle", "outcome"}),
            !.verdict = verdict, !.stoppable = {at, planning}, !.fenced = {<<planning, "turn-start.claim">>},
            !.before = Disposed \cup HostIssued \cup Loaded("canceled-brain-loads") \cup Refused
                       \cup Loaded("post-disposition-loads")]

SuccessorPhase == PhaseFlow(PhaseClaim, PhaseBody, PhaseVerdict)

-----------------------------------------------------------------------------
(* The phase on another host: the project and the brain's history are moved    *)
(* there first, by three claimed native calls on one connection.               *)

TransferReview ==
    [PhaseReview EXCEPT
        !.facts = @ \cup {"transfer record", "destination host", "source history"},
        !.absent = @ \cup {<<"identity-transfer", "fence">>}]
TransferClocked ==
    [TransferReview EXCEPT !.facts = @ \cup {"phase clock"}, !.present = @ \cup {<<"same-project-phases", "intent">>}]
TransferHeld ==
    LET at == "same-project-phases" IN
    [TransferClocked EXCEPT !.facts = @ \cup {"owning process"}, !.absent = @ \cup {<<at, "outcome">>},
                            !.present = @ \cup {<<at, "transfer">>}]

TransferBackup == BackupWith(TransferReview)

TransferClaim ==
    LET at == "same-project-phases" IN
    <<TransferReview, Verify, Lock, TransferReview, CheckOf({}, {<<at, "dir">>, <<"same-project-phases/planning", "mailbox">>}, {}),
      Write(at, "dir"), Write(at, "intent"), Unlock>>

\* One claimed call: what it re-reads before its claim and again before it is sent.
Moved(name, claim) ==
    LET at == "same-project-phases" IN
    <<TransferClocked, See, Write(at, claim), TransferClocked, Send(at, claim), See, Write(at, name)>>

TransferBody ==
    LET at == "same-project-phases" IN
    <<See>> \o Moved("restore", "restore.claim") \o <<Write("destination-home", "history")>>
    \o Moved("load", "load.claim") \o Moved("assign", "assign.claim")
    \o <<See, Write(at, "transfer"), TransferClocked, See, Write(at, "subscription.claim"),
         Send(at, "subscription.claim"), Write(at, "subscription")>>
    \o PhasePlanning(TransferHeld)

TransferVerdict ==
    PhaseVerdict \cup Records("same-project-phases", {"restore.claim", "restore", "load.claim", "load",
                                                      "assign.claim", "assign", "transfer"})

HostTransfer ==
    [PhaseFlow(TransferClaim, TransferBody, TransferVerdict)
     EXCEPT !.backup = TransferBackup,
            !.fenced = @ \cup Records("same-project-phases", {"restore.claim", "load.claim", "assign.claim"})]

=============================================================================
