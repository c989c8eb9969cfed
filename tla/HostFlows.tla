----------------------------- MODULE HostFlows -----------------------------
(* The controls that put a native host under a brain: launching one from a     *)
(* pinned package, restarting it on the existing native home, and, after a     *)
(* reboot, retaining the new epoch, repairing the host, serving the read-only   *)
(* dashboard and loading the brain once on the repaired host. A launch replaces *)
(* its own process by the host, so that no step of it can follow; the restarts  *)
(* are reviewed in directories of the owner's choice, and one fence beside the  *)
(* ledger, named after the retired process, stands for all of them.             *)
EXTENDS OneShotSteps

-----------------------------------------------------------------------------
(* Launching a host. The attempt directory is the intent; the claim of the      *)
(* process comes before the last look at what will run.                        *)

\* What the manifest of a launcher pins.
LaunchReview == CheckOf({"runtime package", "launcher", "checkout"}, {}, {})

\* A public host has no launcher: its isolated home, its checkout, its socket
\* directory, and no configuration but its own.
PublicLaunchReview ==
    CheckOf({"runtime package", "checkout identity", "home identity", "configuration", "additional configuration",
             "socket directory"}, {}, {})

\* A launch by exec: the status is written before it, and again if it came back.
\* What the code writes on a Ctrl-C says that the outcome is unknown, as a crash
\* after the first status does: it is the crash here.
ExecLaunch(at, review, claimed) ==
    [Flow(at, <<>>,
          <<review, Write(at, "dir"), Write(at, "intent"), Write(at, "exec.claim"), claimed, Write(at, "issued")>>,
          <<Exec(at, "exec.claim")>>)
     EXCEPT !.failed = {<<at, "exec-failed">>}, !.denies = {<<at, "exec-failed">>}, !.fenced = {<<at, "exec.claim">>}]

HostExec       == ExecLaunch("host attempt", LaunchReview, LaunchReview)
PublicHostExec == ExecLaunch("public attempt", PublicLaunchReview, PublicLaunchReview)

\* A launch under a supervisor, which claims the attempt once more, so that a
\* second one started for it refuses, and waits for the host to end.
Monitored ==
    LET at == "host attempt" IN
    <<CheckOf({}, {}, {<<at, "intent">>}), Write(at, "monitor.claim"), LaunchReview>>

SupervisedBy(claim) ==
    LET at == "host attempt" IN
    [Flow(at, <<>>, claim, <<Send(at, "monitor.claim"), Write(at, "running"), Write(at, "exited")>>)
     EXCEPT !.failed = {<<at, "failed-or-unknown">>}, !.verdict = Records(at, {"dir", "intent", "running", "exited"}),
            !.fenced = {<<at, "monitor.claim">>}]

HostSupervised ==
    LET at == "host attempt" IN
    SupervisedBy(<<LaunchReview, Write(at, "dir"), Write(at, "intent")>> \o Monitored)
\* The supervisor of an attempt that is already there.
HostMonitor == SupervisedBy(Monitored)

-----------------------------------------------------------------------------
(* Restarting the host on its existing home. The review is prepared in a        *)
(* directory of the owner's choice, the copy of the home in it; what is re-read *)
(* is the retired process, its home and that copy, the ledger's rows and every  *)
(* file beside the ledger but this fence, the fence of another kind included.   *)

\* The launch that is followed, itself or through the restarts since, with the
\* home and checkout it pinned.
PreviousLaunch == {"launch record", "launch status", "exec claim", "runtime package", "home identity",
                   "checkout identity", "configuration", "additional configuration"}
EarlierRestarts == {"earlier restarts", "earlier fences", "earlier home copies", "earlier processes"}

\* The one brain moved to that home, and the workspace it was moved in.
Transferred == {"transfer review", "transfer result", "transfer claims", "transfer fence", "both bindings",
                "history archive"}
PausedScope == {"enrollment", "registered brain", "run context", "catalog mapping"}

\* The retired process: gone, with no other process of its binary and no open
\* handle in its home.
Retired == {"retired process", "binary processes", "home handles"}

\* Every file and directory of the home by its epoch, the opaque copy of each,
\* and the sign-in file by its metadata alone.
NativeHome == {"home files", "home directories", "home links", "rollouts"}
SignedIn   == {"credential metadata"}
HomeCopy   == {"home snapshot", "copied files", "copied directories"}

\* Before the first Play: a paused project that owns nothing, its reviewed mission,
\* its ended readiness turns, and all that lies beside its ledger.
Sidecars  == {"sidecars"}
Unstarted == {"enrollment", "binding", "empty ledger", "repository policy", "reviewed mission", "ended turns",
              "native build", "databases"} \cup Sidecars

\* Prepared once per directory, the description of the review last.
Prepared(review, check) == <<check, Write(review, "backup"), check, Write(review, "manifest")>>

RestartFacts        == PreviousLaunch \cup EarlierRestarts \cup Transferred \cup PausedScope \cup {"source", "sockets"}
PrePlayRestartFacts == PreviousLaunch \cup Unstarted \cup SignedIn \cup {"source", "sockets"}

ReviewedHome == Retired \cup NativeHome \cup HomeCopy

\* The steps every kind of restart has: before there is a copy, nothing of one is
\* re-read; `gone` are records that refuse it, `stands` those it follows.
RestartOf(review, fence, scope, gone, stands) ==
    LET free    == {<<fence, "fence">>} \cup gone
        ready   == {<<review, "manifest">>} \cup stands
        check   == CheckOf(scope \cup ReviewedHome, free, ready)
        claimed == CheckOf(scope \cup ReviewedHome, gone, ready \cup {<<fence, "fence">>})
    IN [Flow(review, Prepared(review, CheckOf(scope \cup Retired \cup NativeHome, free, stands)) \o <<check>>,
             <<check, Write(review, "dir"), Write(review, "intent"), Write(fence, "fence"),
               Write(review, "exec.claim"), claimed, Write(review, "issued")>>,
             <<Exec(fence, "fence")>>)
        EXCEPT !.failed = {<<review, "exec-failed">>}, !.denies = {<<review, "exec-failed">>},
               !.fenced = {<<fence, "fence">>}, !.before = stands]

HostRestart(review) == RestartOf(review, "host-restart", RestartFacts, {}, {})
PrePlayHostRestart(review) ==
    RestartOf(review, "preplay-host-restart", PrePlayRestartFacts, {<<"preplay-load", "fence">>}, {})

\* The restart of an issued restart: it stands on every record of the earlier one
\* and has a fence of its own; a readiness attempt and the earlier one's failure
\* forbid it.
Reissued(review, fence) ==
    {<<fence, "fence">>} \cup Records(review, {"manifest", "dir", "intent", "exec.claim", "issued"})
PrePlaySuccessorRestart(review, earlier) ==
    RestartOf(review, "preplay-successor-restart", PrePlayRestartFacts \cup EarlierRestarts,
              {<<earlier, "exec-failed">>, <<"readiness", "fence">>},
              Reissued(earlier, "preplay-host-restart"))

\* What an owner reads once the host is up: read-only, retained in a new directory.
RestartConnection(review) ==
    LET scope == CheckOf(RestartFacts \cup HomeCopy \cup {"host process", "retained history"}, {<<review, "exec-failed">>},
                         Reissued(review, "host-restart"))
    IN [Flow("restart-connection", <<>>,
             <<scope, See, See, scope, Write("restart-connection", "dir"), Write("restart-connection", "connectivity")>>, <<>>)
        EXCEPT !.before = Reissued(review, "host-restart"), !.verdict = {<<"restart-connection", "connectivity">>}]

-----------------------------------------------------------------------------
(* After a reboot: one certificate that the same workspace lives on under a new *)
(* device. Both locks and the dashboard's are held; nothing native happens.     *)

PreparationEnded == Records("prestart-startup", {"anchor", "fence", "dir", "intent", "turn", "receipt", "usage", "outcome"})

\* The reboot: the session and its start, the new device of the same inodes.
Epoch == {"boot session", "boot time", "database devices"}
\* The records from before it, by their historical epochs: the sealed observation
\* of the worker, the startup's journal and mailbox, its receipt and its usage.
BeforeReboot == {"observation seal", "startup journal", "startup mailbox", "startup receipt", "startup usage",
                 "historical source", "database rows", "queued request", "repository", "binding"}
\* The endpoint of the host that died: the same binary, and no socket.
RetiredEndpoint == {"retired socket", "executable"}

EpochReview ==
    CheckOf(Epoch \cup BeforeReboot \cup RetiredEndpoint \cup {"source"},
            {<<"prestart-startup", "stop">>}, PreparationEnded)

\* The list of the copies is there before the review is read for the last time.
EpochBackup == <<EpochReview, Copy, Manifest, EpochReview>>

EpochClaim ==
    LET at == "post-reboot-maintenance" IN
    <<EpochReview, Verify, Lock, EpochReview, Verify, CheckOf({}, {<<at, "dir">>, <<at, "fence">>}, {}),
      Write(at, "dir"), Write(at, "intent"), Write(at, "fence"), EpochReview, Write(at, "result"), Unlock>>

EpochRetained == Records("post-reboot-maintenance", {"dir", "intent", "fence", "result"})

PostRebootMaintenance ==
    [Flow("post-reboot-maintenance", EpochBackup, EpochClaim, <<>>)
     EXCEPT !.verdict = EpochRetained, !.before = PreparationEnded]

-----------------------------------------------------------------------------
(* The repair: a launch on a new socket, once for the workspace whatever the    *)
(* review or the socket.                                                       *)

\* The certificate is complete, and every record in it is still there.
Certified == Epoch \cup BeforeReboot \cup RetiredEndpoint \cup {"certificate", "certificate backup"}

\* The first launch, from before the reboot: the same package, home and checkout
\* but for the device they are on.
LaunchedBefore == {"launch record", "launch status", "exec claim", "home identity", "checkout identity",
                   "configuration", "additional configuration", "launch binding"}
PackageContinuity == {"package files", "package directories"}

RepairPaths == {"sockets", "rendezvous"}
RepairScope == Certified \cup LaunchedBefore \cup PackageContinuity \cup RepairPaths \cup Sidecars \cup {"source", "databases"}

RepairReview ==
    CheckOf(RepairScope \cup ReviewedHome \cup SignedIn, {<<"host-repair", "dir">>},
            EpochRetained \cup {<<"host-repair review", "manifest">>})
RepairClaimed ==
    CheckOf(RepairScope \cup ReviewedHome \cup SignedIn, {<<"host-repair", "issued">>},
            EpochRetained \cup {<<"host-repair review", "manifest">>} \cup Records("host-repair", {"intent", "exec.claim"}))

RepairPrepared ==
    Prepared("host-repair review", CheckOf(RepairScope \cup Retired \cup NativeHome \cup SignedIn, {<<"host-repair", "dir">>}, EpochRetained))

PostRebootHostRepair ==
    [ExecLaunch("host-repair", RepairReview, RepairClaimed)
     EXCEPT !.backup = RepairPrepared \o <<RepairReview>>, !.before = EpochRetained \cup PreparationEnded]

HostRepaired == EpochRetained \cup PreparationEnded \cup Records("host-repair", {"dir", "intent", "exec.claim", "issued"})

-----------------------------------------------------------------------------
(* The dashboard of the repaired host: one loopback server, started once.       *)

\* The host that the repair issued, alive, on its new socket, on a home whose
\* history only grew.
RepairedHost == {"repair review", "launched source", "host process", "retired process", "sockets", "host socket", "handles",
                 "original binding", "home snapshot", "copied files", "configuration", "retained history"}
                \cup SignedIn

Foundation == CheckOf(Certified \cup LaunchedBefore \cup PackageContinuity \cup RepairedHost,
                      {<<"host-repair", "exec-failed">>}, HostRepaired)

\* The database handles, and the fresh app catalog with its exact project.
Quiet == {"database handles"}
Catalog == {"catalog"}

\* Two equal samples of the project, the brain, its last turn and its policy.
Collect == See

\* One explicit inspection, sealed in a directory of its own.
Evidence == Records("dashboard-evidence", {"dir", "intent", "binding", "result"})
DashboardInspection ==
    LET at == "dashboard-evidence"
        scope == [Foundation EXCEPT !.facts = @ \cup Catalog]
    IN [Flow(at, <<>>,
             <<scope, Write(at, "dir"), Write(at, "intent"), Collect, scope, Write(at, "binding"), Write(at, "result")>>, <<>>)
        EXCEPT !.verdict = Evidence, !.before = HostRepaired]

DashboardReview ==
    [Foundation EXCEPT !.facts = @ \cup Catalog \cup {"source", "evidence"}, !.absent = @ \cup {<<"post-reboot-dashboard", "dir">>},
                       !.present = @ \cup Evidence]
\* Once claimed, only what the host stands on is read again.
DashboardScope == [Foundation EXCEPT !.facts = @ \cup Quiet \cup Catalog]

DashboardBackup == <<DashboardReview, Copy, Manifest, DashboardReview, Verify>>

DashboardClaim ==
    LET at == "post-reboot-dashboard" IN
    <<DashboardReview, Verify, See, Write(at, "dir"), Write(at, "intent"), Write(at, "serve.claim"),
      DashboardScope, Verify, Collect, DashboardScope, Verify, Write("dashboard view", "dir")>>

DashboardBody ==
    LET at == "post-reboot-dashboard" IN
    <<Send(at, "serve.claim"), Write(at, "serving")>>

PostRebootDashboard ==
    LET at == "post-reboot-dashboard" IN
    [Flow(at, DashboardBackup, DashboardClaim, DashboardBody)
     EXCEPT !.verdict = {<<at, "intent">>, <<at, "serving">>}, !.fenced = {<<at, "serve.claim">>},
            !.before = HostRepaired \cup Evidence]

-----------------------------------------------------------------------------
(* Loading the brain on the repaired host in one foreground session that the    *)
(* owner may stop; the session always leaves a record of its end.               *)

\* The unloaded brain, observed and sealed for the worker's phase: its scope is
\* the repaired host with the phase that the startup left.
WorkerScope == [Foundation EXCEPT !.facts = @ \cup Catalog \cup {"source", "original phase", "native build"}]
WorkerObserved == Records("worker-observation", {"dir", "intent", "report", "seal"})
WorkerObservation ==
    LET at == "worker-observation" IN
    [Flow(at, <<>>,
          <<WorkerScope, Write(at, "dir"), Write(at, "intent"), Collect, See, Collect, WorkerScope,
            Write(at, "report"), Write(at, "seal")>>, <<>>)
     EXCEPT !.verdict = WorkerObserved, !.before = HostRepaired]

\* The sealed observation, the sources it ran from and its catalogs.
Observed == {"observation report", "observation source", "observation catalogs"}

RuntimeReview ==
    [WorkerScope EXCEPT !.facts = @ \cup Observed, !.absent = @ \cup {<<"certificate-runtime", "dir">>},
                        !.present = @ \cup WorkerObserved]
RuntimeClaimed ==
    [WorkerScope EXCEPT !.facts = @ \cup Observed, !.absent = @ \cup {<<"certificate-runtime", "stop">>},
                        !.present = @ \cup WorkerObserved \cup {<<"certificate-runtime", "intent">>}]

\* No native event but that the brain is loaded and idle.
NoEvents == See
\* The session lasts until its window ends, an owner's stop or a change.
Hold == RuntimeClaimed

RuntimeBackup == <<RuntimeReview, Copy, Manifest, RuntimeReview, Verify, See>>

RuntimeClaim ==
    LET at == "certificate-runtime" IN
    <<RuntimeReview, Verify, See, Write(at, "dir"), Write(at, "intent")>>

RuntimeBody ==
    LET at == "certificate-runtime" IN
    <<RuntimeClaimed, Verify, Collect, RuntimeClaimed, Verify, NoEvents, Write(at, "load.claim"), Send(at, "load.claim"),
      Collect, RuntimeClaimed, NoEvents, Write(at, "loaded"), Hold>>

RuntimeVerdict == Records("certificate-runtime", {"intent", "load.claim", "loaded", "closed"})

CertificateRuntime ==
    LET at == "certificate-runtime" IN
    [Flow(at, RuntimeBackup, RuntimeClaim, RuntimeBody)
     EXCEPT !.always = {<<at, "closed">>}, !.verdict = RuntimeVerdict, !.stoppable = {at},
            !.before = HostRepaired \cup WorkerObserved]

=============================================================================
