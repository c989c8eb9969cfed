--------------------------- MODULE IdentityFlows ---------------------------
(* What a workspace is registered as. A project set up anew adopts an empty      *)
(* identity; a ledger whose device number changed is recognised again; a brain   *)
(* is assigned to its native project; and its history moves to an isolated host. *)
(* None of them starts a turn, and what one has claimed it never claims again.   *)
EXTENDS OneShotSteps

-----------------------------------------------------------------------------
(* A setup transition: the ledger commits first and the registry second. The     *)
(* fence beside the ledger holds every state between them.                       *)

UnusedTarget  == {"unused target", "first repository", "draft mission", "no holds"}
Lineage       == {"creation provenance", "original inputs", "repository scope"}
ActualCatalog == {"catalog observation", "catalog project", "original mapping"}
SetupConfig   == {"configuration transition"}

SetupReview ==
    CheckOf(UnusedTarget \cup Lineage \cup ActualCatalog \cup SetupConfig,
            Records("setup-transition", {"fence", "history", "receipt"}), {})

\* The identity is read without loading it; the review before and after it.
SetupPreview == <<SetupReview, See, SetupReview>>

\* Under the registry lock and every ledger's: the copies, the review around
\* one more reading of the identity, and the fence.
SetupClaim ==
    <<SetupReview, See, Lock, SetupReview, Copy, Manifest, SetupReview, See, SetupReview,
      Write("setup-transition", "fence")>>

SetupTransition ==
    LET at == "setup-transition" IN
    [Flow(at, SetupPreview, SetupClaim,
          <<Commit(at, "fence", "local"), Write(at, "history"), Unlock, Write(at, "receipt")>>)
     EXCEPT !.mark = <<at, "fence">>, !.verdict = Records(at, {"fence", "receipt"})]

-----------------------------------------------------------------------------
(* Recognising a ledger again whose file kept its inode and its contents.        *)

SameLedger     == {"device drift", "reference backup", "identity history"}
UnownedPause   == {"no enrollment", "unowned controller", "settled effects"}
LinkedProjects == {"project binding"}
PendingPlay    == {"pending Play"}
EndedRecovery  == {"ended recovery", "original binding"}

\* One review covers the three modes: a settled ledger, a Play that was never
\* delivered, and a recovery that ended; the last two read more.
DeviceReview ==
    CheckOf(SameLedger \cup UnownedPause \cup LinkedProjects \cup PendingPlay \cup EndedRecovery,
            {<<"device-recovery", "row">>}, {})

DeviceRecovery ==
    LET at == "device-recovery" IN
    [Flow(at, <<DeviceReview>>,
          <<Lock, DeviceReview, Copy, Manifest, DeviceReview, Write(at, "row"), Unlock>>, <<>>)
     EXCEPT !.mark = <<at, "row">>, !.verdict = {<<at, "row">>}]

-----------------------------------------------------------------------------
(* Assigning the brain to its native project: the claim is a row committed on     *)
(* its own, and the one native write happens under the locks taken again.        *)

SettledProject   == {"settled ledger", "no replacement", "no open receipt", "no phase control"}
RegisteredTarget == {"registered identity", "catalog binding"}
UnassignedNative == {"native identity"}

AssignmentReview ==
    CheckOf(SettledProject \cup RegisteredTarget \cup UnassignedNative, {<<"assignment", "claim">>}, {})
AssignmentLocked(absent, present) ==
    CheckOf(SettledProject \cup RegisteredTarget, Records("assignment", absent), Records("assignment", present))

\* Whatever fails after the claim leaves the row uncertain.
ProjectAssignment ==
    LET at == "assignment" IN
    [Flow(at, <<AssignmentReview>>,
          <<AssignmentReview, Lock, AssignmentLocked({"claim"}, {}), Write(at, "claim"), Unlock>>,
          <<CheckOf(UnassignedNative, {}, {}), Lock, AssignmentLocked({"attempted"}, {"claim"}),
            Send(at, "claim"), Write(at, "attempted"), Unlock, See, Write(at, "verified")>>)
     EXCEPT !.mark = <<at, "claim">>, !.failed = {<<at, "uncertain">>},
            !.verdict = Records(at, {"claim", "attempted", "verified"}), !.fenced = {<<at, "claim">>}]

-----------------------------------------------------------------------------
(* Moving the history. The directory is of the owner's choice, the fence beside  *)
(* the ledger is the original Play's, so that no second directory sends again.   *)

OriginalScope    == {"empty paused run", "original Play receipt", "source binding", "destination binding"}
SourceHistory    == {"source project", "source turns", "source rollout"}
EmptyDestination == {"destination policy"}
SourceExport     == {"source export"}

TransferFacts == OriginalScope \cup SourceHistory \cup EmptyDestination \cup SourceExport
TransferFence == <<"identity-transfer", "fence">>

\* Two equal readings of the source, an empty destination, and the directory
\* with the history's copy and the specification.
TransferPrepared(dir) ==
    LET review == CheckOf(TransferFacts, {TransferFence}, {}) IN
    <<review, See, review, Write(dir, "review"), Write(dir, "archive"), Write(dir, "spec")>>

HistoryClaim(dir) ==
    <<CheckOf(TransferFacts, {TransferFence, <<dir, "dir">>}, Records(dir, {"archive", "spec"})), See,
      Write(dir, "dir"), Write(dir, "intent"), Write("identity-transfer", "fence")>>

\* The same review around every claim, now with the fence that is its own.
Fresh(dir) == CheckOf(TransferFacts, {}, {TransferFence} \cup Records(dir, {"archive"}))
Stage(dir, name) == <<Fresh(dir), Write(dir, name), Fresh(dir), Send(dir, name)>>

\* The project is restored, the history published under its final name and
\* loaded only to be inspected, and the thread put into the project.
IdentityTransfer(dir) ==
    [Flow(dir, TransferPrepared(dir), HistoryClaim(dir),
          Stage(dir, "project_restore") \o <<Write("identity-transfer", "history")>>
          \o Stage(dir, "inspection_load") \o <<See>>
          \o Stage(dir, "project_assignment") \o <<See, Fresh(dir), Write(dir, "result")>>)
     EXCEPT !.verdict = Records(dir, {"dir", "intent", "result"}),
            !.fenced = Records(dir, {"project_restore", "inspection_load", "project_assignment"})]

\* The private copy of a shared history: evidence, and an unfinished one stays so.
ExportFacts == OriginalScope \cup {"shared project", "shared turns", "shared rollout"}

BrainExport(dir) ==
    LET review == CheckOf(ExportFacts, {}, {}) IN
    [Flow(dir, <<>>,
          <<CheckOf(ExportFacts, {<<dir, "dir">>}, {}), See, review, Write(dir, "dir"), Write(dir, "intent"),
            Write(dir, "history"), See, review, Write(dir, "export")>>, <<>>)
     EXCEPT !.verdict = {<<dir, "export">>}]

=============================================================================
