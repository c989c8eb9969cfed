---------------------------- MODULE AdmissionFlows ----------------------------
(* The controls that only record: they retire a readiness request that ended    *)
(* without a receipt, resolve one that never started, dispose of an admission    *)
(* whose two claims were left behind, continue it under a new lineage, or admit  *)
(* a successor of a finished phase. Each holds the registry and the target's     *)
(* ledger locked from its last look to its commit; the fences are files, the     *)
(* record a row, and only the row goes back when the process dies between.       *)
EXTENDS PrePlayFlows

\* The workspace an admission is for, as the place of its fence.
Target == "target a"

\* Both databases by identity, schema and rows, and the binding by its file epoch.
TargetDatabases == {"target database", "registry database"}
BindingFile     == {"binding pin", "binding epoch", "binding hash"}

\* A disposition by file and row: its fence, the row under the same locks, and a
\* status that needs both.
Recorded(at) == Records(at, {"fence", "row"})
RowDisposition(at, guard, review) ==
    [Flow(at, BackupWith(review),
          guard \o <<Lock>> \o guard \o <<review, Verify, Write(at, "fence")>>,
          <<Commit(at, "fence", "row"), Unlock>>)
     EXCEPT !.mark = <<at, "fence">>, !.verdict = Recorded(at)]

-----------------------------------------------------------------------------
(* Retiring a readiness request that its owner canceled.                       *)

\* An empty paused project, and its one request: the cancel resolved, the turn
\* interrupted, the observer closed, and no receipt.
EmptyProject    == {"paused project", "no controller", "empty tables", "mission", "enrollment"}
CanceledRequest == {"canceled request", "resolved permission", "interrupted turn", "closed observer", "native profile"}

\* The registered route and the one catalog entry the binding agrees with.
BindingScope == {"registered route", "catalog", "catalog mapping", "restricted policy", "checkout"}

ReadinessFacts == EmptyProject \cup CanceledRequest \cup BindingScope \cup BindingFile \cup TargetDatabases \cup {"source"}

ReadinessReview ==
    CheckOf(ReadinessFacts,
            {<<place, "fence">> : place \in {"readiness-disposition", Target, "forward-continuation",
                                             "partial-admission", "quarantine"}}, {})

ReadinessDisposition == RowDisposition("readiness-disposition", <<>>, ReadinessReview)

-----------------------------------------------------------------------------
(* Resolving a request that stopped before it loaded anything: the rival of the *)
(* startup, each of which re-reads that the other is not there.                *)

NoStartup ==
    CheckOf({}, Records("prestart-startup", {"anchor", "fence", "dir"}) \cup {<<"post-reboot-maintenance", "fence">>}, {})

ResolutionReview ==
    CheckOf(Undelivered \cup BindingScope \cup BindingFile \cup TargetDatabases \cup {"source", "enrollment"},
            {<<"prestart-resolution", "fence">>}, {})

PrestartResolution == RowDisposition("prestart-resolution", <<NoStartup>>, ResolutionReview)

-----------------------------------------------------------------------------
(* Admitting a successor: one claim beside the registry for the source, one     *)
(* fence beside the target's ledger, and the row of the target.               *)

\* The quarantined run of the source with its usage and its gaps; the empty target
\* with its reviewed mission; repositories that share nothing with any held scope.
QuarantinedSource == {"quarantine record", "source run", "source usage", "source expiry", "source repositories"}
TargetProject     == {"target meta", "target mission", "target repositories", "enrollment", "both routes"}
DisjointScopes    == {"disjoint repositories"}
OtherOwners       == {"other owners", "other claims"}

AdmissionScope == TargetProject \cup DisjointScopes \cup OtherOwners \cup BindingScope \cup BindingFile \cup {"source"}

SourceClaim == <<"source-claim", "fence">>
Unclaimed(target) == {SourceClaim, <<target, "fence">>}

\* The target's fence comes first here: a crash between the two leaves a target
\* that is fenced beside a source that is not.
AdmissionReview(target) == CheckOf(AdmissionScope \cup QuarantinedSource, Unclaimed(target), {})
StandardSuccessor(target) ==
    [Flow(target, <<>>,
          <<Lock, AdmissionReview(target), Write(target, "fence"), Write("source-claim", "fence")>>,
          <<Commit(target, "fence", "row"), Unlock>>)
     EXCEPT !.mark = <<target, "fence">>, !.verdict = Recorded(target) \cup {SourceClaim}]

\* The independent evidence that a preparation completed, what it used, and that
\* both still hold for an older implementation: file-only but for two equal native
\* samples, in a new directory each, which always ends with its evidence.
Sealed(at) == Records(at, {"dir", "intent", "evidence"})
EvidenceIn(at, review, look) ==
    [Flow(at, <<>>, <<review, Write(at, "dir"), Write(at, "intent")>>, look \o <<review, Write(at, "evidence")>>)
     EXCEPT !.verdict = Sealed(at)]

\* The lost observer's transfer and turn: its two receipts, its acknowledgment, its
\* failure, and every file of the original claim.
LostPreparation == {"transfer outcome", "native acknowledgment", "lost observer", "event files", "receipt and proposal",
                    "original context", "phase clock", "pre-turn usage", "destination host", "client package"}
CompletionReview == CheckOf(LostPreparation \cup {"source"}, {}, {})
CompletionEvidence ==
    [EvidenceIn("completion", CompletionReview, <<See, See>>) EXCEPT !.failed = {<<"completion", "evidence">>}]

\* The tokens of the one new turn, counted from the rollout it was read from.
Accounting == {"rollout file", "baseline usage"}
UsageReview == CheckOf(LostPreparation \cup Accounting \cup {"source"}, {}, Sealed("completion"))
PreparationUsage ==
    [EvidenceIn("preparation-usage", UsageReview, <<See, See, See>>)
     EXCEPT !.failed = {<<"preparation-usage", "evidence">>}, !.before = Sealed("completion")]

Evidenced == Sealed("completion") \cup Sealed("preparation-usage")
Relocated == {"setup transition", "implementation source"}
RequalificationReview ==
    CheckOf(LostPreparation \cup Accounting \cup Relocated \cup {"source"}, {}, Evidenced)
Requalification ==
    [EvidenceIn("requalification", RequalificationReview, <<>>) EXCEPT !.before = Evidenced]

\* The source of a worker phase is the run of a disposed preparation with its usage.
Predecessor == LostPreparation \cup Accounting \cup {"expired run", "carried ceiling", "disposition record", "source repositories"}
WorkerReview(target) ==
    CheckOf(AdmissionScope \cup Predecessor, Unclaimed(target), Evidenced)

\* Its backup covers every registered database and every file of the evidence.
EveryDatabase == {"registry database", "workspace databases"}
WorkerBackup(target) ==
    LET check == WorkerReview(target) IN
    <<check, Copy, Manifest, Verify, check>>
WorkerVerified == <<Verify, CheckOf(EveryDatabase, {}, {})>>

\* Here the source is fenced first, so that no other target can be admitted from it.
WorkerAdmission(target) ==
    [Flow(target, WorkerBackup(target),
          WorkerVerified \o <<Lock, WorkerReview(target), Write("source-claim", "fence"), Write(target, "fence")>>,
          <<Commit(target, "fence", "row"), Unlock>>)
     EXCEPT !.mark = <<target, "fence">>, !.verdict = Recorded(target) \cup {SourceClaim}, !.before = Evidenced]

-----------------------------------------------------------------------------
(* What is left of an admission whose claims were written and whose row was not. *)

Attempted == Unclaimed(Target)
AttemptedReview == {"attempted review", "both claims"} \cup QuarantinedSource \cup TargetProject \cup BindingScope
                   \cup BindingFile \cup TargetDatabases \cup {"source", "source database"}

\* The target is as it was reviewed: neither the admission nor a continuation has
\* committed a row.
NotCommitted == {<<Target, "row">>, <<"forward-continuation", "row">>}
PartialReview == CheckOf(AttemptedReview, NotCommitted \cup {<<"partial-admission", "fence">>}, Attempted)
\* Written, the record is re-read; a forward fence then demands its row.
PartialRetained == CheckOf(AttemptedReview, NotCommitted \cup {<<"forward-continuation", "fence">>}, Attempted)

PartialBackup == BackupWith(PartialReview) \o <<Verify>>

\* The record itself is the fence, and nothing is committed.
RecordUnderLocks == <<PartialReview, Write("partial-admission", "fence")>>

PartialDisposition ==
    LET at == "partial-admission" IN
    [Flow(at, PartialBackup, <<Lock, PartialReview, Verify>> \o RecordUnderLocks, <<PartialRetained, Unlock>>)
     EXCEPT !.mark = <<at, "fence">>, !.verdict = Attempted \cup {<<at, "fence">>}, !.before = Attempted]

DispositionFence == {<<"partial-admission", "fence">>}

\* The new lineage writes the disposition itself, or stands on the one there was.
PreservedRows == {"preserved rows", "file epochs"}
ForwardScope  == AttemptedReview \cup DisjointScopes \cup OtherOwners \cup PreservedRows
ForwardReview(absent, present) ==
    CheckOf(ForwardScope, NotCommitted \cup {<<"forward-continuation", "fence">>} \cup absent, Attempted \cup present)

\* Its copies are listed, then verified at once.
ForwardBackup(review) == BackupWith(review) \o <<Verify>>

\* The lineage: the forward fence and row, both claims and the disposition.
ForwardRetained == Recorded("forward-continuation") \cup Attempted \cup DispositionFence

Forward(review, disposition, present) ==
    LET at == "forward-continuation" IN
    [Flow(at, ForwardBackup(review), <<Lock, review, Verify, Write(at, "fence")>>,
          disposition \o <<Commit(at, "fence", "row"), Unlock>>)
     EXCEPT !.mark = <<at, "fence">>, !.verdict = ForwardRetained, !.before = Attempted \cup present]

ForwardAlone == Forward(ForwardReview(DispositionFence, {}), RecordUnderLocks, {})
ForwardAfter == Forward(ForwardReview({}, DispositionFence), <<CheckOf({}, {}, DispositionFence)>>, DispositionFence)

=============================================================================
