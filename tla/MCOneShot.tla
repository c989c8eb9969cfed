----------------------------- MODULE MCOneShot -----------------------------
(* The one-shot controls on two processes, for TLC: both run the same control, *)
(* or each runs one of two that share records.                                 *)
EXTENDS OneShot, SuccessorFlows, AdmissionFlows, PhaseEndFlows, ReadinessFlows, IdentityFlows, TLC

CONSTANTS a1, a2
Processes == {a1, a2}

\* A control that is reviewed in a directory of the owner's choice, reviewed twice.
InspectionA == PilotInspection("review a")
InspectionB == PilotInspection("review b")
LoadA == PrePlayLoad("review a")
LoadB == PrePlayLoad("review b")
RestartA == HostRestart("review a")
RestartB == HostRestart("review b")
PrePlayRestartA == PrePlayHostRestart("review a")
PrePlayRestartB == PrePlayHostRestart("review b")
SuccessorRestartA == PrePlaySuccessorRestart("review a", "review b")
ConnectionOfA == RestartConnection("review a")
TransferA == IdentityTransfer("review a")
TransferB == IdentityTransfer("review b")
ExportA == BrainExport("review a")

\* Two targets of one source.
SuccessorA == StandardSuccessor(Target)
SuccessorB == StandardSuccessor("target b")
WorkerA == WorkerAdmission(Target)
WorkerB == WorkerAdmission("target b")

\* Two requests to one brain, and the delivery of one that was created before.
RequestedA == ReadinessRequested("request a")
RequestedB == ReadinessRequested("request b")
DeliveryOfA == ReadinessDelivery("request a")
DeliveredLater == ReadinessDeliveryLater("request a")

\* The controls of the family. The label keeps TLC's cost profile from unfolding
\* all of their plans wherever one of them is looked up.
Controls ==
    table::
    [CanceledHostLaunch |-> CanceledHostLaunch,
     CanceledPlayDisposition |-> CanceledPlayDisposition, CanceledLoad |-> CanceledLoad,
     CanceledContinuation |-> CanceledContinuation,
     ConnectionHandoff |-> ConnectionHandoff, MaintenanceLoad |-> MaintenanceLoad,
     SameProjectSuccessor |-> SameProjectSuccessor, SuccessorPhase |-> SuccessorPhase,
     HostTransfer |-> HostTransfer, PrestartStartup |-> PrestartStartup,
     HostExec |-> HostExec, PublicHostExec |-> PublicHostExec,
     HostSupervised |-> HostSupervised, HostMonitor |-> HostMonitor,
     DashboardInspection |-> DashboardInspection,
     WorkerObservation |-> WorkerObservation,
     PostRebootMaintenance |-> PostRebootMaintenance,
     PostRebootHostRepair |-> PostRebootHostRepair,
     PostRebootDashboard |-> PostRebootDashboard,
     CertificateRuntime |-> CertificateRuntime,
     ReadinessDisposition |-> ReadinessDisposition,
     PrestartResolution |-> PrestartResolution,
     CompletionEvidence |-> CompletionEvidence, PreparationUsage |-> PreparationUsage,
     Requalification |-> Requalification, PartialDisposition |-> PartialDisposition,
     ForwardAlone |-> ForwardAlone, ForwardAfter |-> ForwardAfter,
     TurnRecovery |-> TurnRecovery, ReplacementTurnRecovery |-> ReplacementTurnRecovery,
     TurnReconcile |-> TurnReconcile, TurnReconcileLater |-> TurnReconcileLater,
     EndedRecord |-> EndedRecord, HistoricalRecord |-> HistoricalRecord,
     TerminalCloseout |-> TerminalCloseout, PhaseCloseout |-> PhaseCloseout,
     SetupTransition |-> SetupTransition, DeviceRecovery |-> DeviceRecovery,
     ProjectAssignment |-> ProjectAssignment, InspectionA |-> InspectionA,
     InspectionB |-> InspectionB, LoadA |-> LoadA, LoadB |-> LoadB,
     RestartA |-> RestartA, RestartB |-> RestartB, PrePlayRestartA |-> PrePlayRestartA,
     PrePlayRestartB |-> PrePlayRestartB, SuccessorRestartA |-> SuccessorRestartA,
     ConnectionOfA |-> ConnectionOfA, TransferA |-> TransferA, TransferB |-> TransferB,
     ExportA |-> ExportA, SuccessorA |-> SuccessorA, SuccessorB |-> SuccessorB,
     WorkerA |-> WorkerA, WorkerB |-> WorkerB, RequestedA |-> RequestedA,
     RequestedB |-> RequestedB, DeliveryOfA |-> DeliveryOfA,
     DeliveredLater |-> DeliveredLater]

\* Controls that look for each other's records.
Encounters ==
    {<<"CanceledLoad", "CanceledPlayDisposition">>, <<"CanceledContinuation", "ConnectionHandoff">>,
     <<"MaintenanceLoad", "SameProjectSuccessor">>, <<"SuccessorPhase", "HostTransfer">>,
     <<"InspectionA", "InspectionB">>, <<"LoadA", "LoadB">>,
     <<"RestartA", "RestartB">>, <<"PrePlayRestartA", "PrePlayRestartB">>,
     <<"HostSupervised", "HostMonitor">>, <<"CanceledHostLaunch", "RestartA">>, <<"PrePlayRestartA", "LoadA">>,
     <<"PrestartStartup", "PrestartResolution">>, <<"PartialDisposition", "ForwardAlone">>,
     <<"SuccessorA", "SuccessorB">>, <<"WorkerA", "WorkerB">>,
     <<"TurnRecovery", "ReplacementTurnRecovery">>, <<"TurnRecovery", "TurnReconcile">>,
     <<"ReplacementTurnRecovery", "TurnReconcile">>,
     <<"RequestedA", "RequestedB">>, <<"RequestedA", "DeliveryOfA">>, <<"TransferA", "TransferB">>}

Pairs ==
    {[p \in Processes |-> f] : f \in DOMAIN Controls}
    \cup {[p \in Processes |-> IF p = q THEN e[1] ELSE e[2]] : q \in Processes, e \in Encounters}

Symmetry == Permutations(Processes)
=============================================================================
