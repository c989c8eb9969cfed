---------------------------- MODULE PrePlayFlows ----------------------------
(* The controls of a brain whose first Play has not been given: inspecting    *)
(* the pilot or loading the brain once on a replacement host, and the startup *)
(* that prepares the first phase in one turn of its own.                      *)
(*                                                                           *)
(* An inspection and a load are reviewed in a directory of the owner's        *)
(* choice, but the fence beside the ledger is the same whatever the directory: *)
(* `review` is the directory, and the fence is the claim of the one load.      *)
EXTENDS HostFlows

\* The issued restart whose host is inspected or loaded on: its records, the
\* process it became and not the one before, and the socket that process serves.
RestartJournal == {"restart review", "restart intent", "restart status", "restart claim", "restart fence"}
LiveHost       == {"retired process", "restarted process", "socket directory", "socket owner", "host endpoint"}

\* The history and the configuration that the home had at the restart, as a
\* prefix of what they are now.
RetainedHistory == HomeCopy \cup {"history prefixes", "installation", "restricted configuration"}

IssuedFacts     == RestartJournal \cup LiveHost \cup RetainedHistory \cup {"source tree", "rebound binding"}
InspectionFacts == IssuedFacts \cup RestartFacts
LoadFacts       == IssuedFacts \cup PrePlayRestartFacts \cup {"socket ownership", "request order"}

\* The original requests of a brain that was never given its Play: each ended
\* without a catalog, with a receipt of its own in a mailbox of its own.
EndedReceipts == {"failed requests", "retired requests", "handoffs", "receipts", "receipt claims", "replies"}

\* A review is prepared once per directory, from two equal native samples between
\* two readings of its facts, and is its one file.
Reviewed(review, check) == <<check, See, check, Write(review, "review")>>

\* The subscription of the connection that loaded is opened before the load, and
\* closed when the connection has been.
Opened(at) == {<< <<at, "subscription-open">>, <<at, "subscription-close">> >>}

-----------------------------------------------------------------------------
(* Inspecting the pilot. The attempt comes first, the fence beside the ledger  *)
(* after its intent; the subscription is only of the second version.          *)

PrepareInspection(review) == Reviewed(review, CheckOf(InspectionFacts, {<<"pilot-inspection", "fence">>}, {}))

InspectionReview(review) ==
    CheckOf(InspectionFacts, {<<"pilot-inspection", "fence">>, <<review, "dir">>}, {<<review, "review">>})
InspectionClaimed(review) ==
    CheckOf(InspectionFacts, {},
            {<<"pilot-inspection", "fence">>} \cup Records(review, {"review", "intent", "inspection-load.claim"}))

InspectionClaim(review) ==
    <<InspectionReview(review), See, InspectionReview(review), Write(review, "dir"), Write(review, "intent"),
      Write("pilot-inspection", "fence"), Write(review, "inspection-load.claim"), InspectionClaimed(review), See>>

\* The load, its acknowledgment, and one observation that is retained, once more
\* each time the subscription is checked while it is held.
InspectionBody(review) ==
    <<Fork(1), Write(review, "subscription-open"), Send("pilot-inspection", "fence"), Write(review, "load-ack"),
      See, InspectionClaimed(review), Write(review, "observation"), Fork(2), InspectionClaimed(review), See>>

PilotInspection(review) ==
    [Flow(review, PrepareInspection(review), InspectionClaim(review), InspectionBody(review))
     EXCEPT !.mark = <<review, "intent">>, !.closes = Opened(review), !.fenced = {<<"pilot-inspection", "fence">>}]

-----------------------------------------------------------------------------
(* Loading the brain before the first Play. The fence comes before everything *)
(* else, and its confirmation takes the backup itself.                        *)

PreparePrePlay(review) == Reviewed(review, CheckOf(LoadFacts \cup EndedReceipts, {<<"preplay-load", "fence">>}, {}))

PrePlayReview(review) ==
    CheckOf(LoadFacts \cup EndedReceipts, {<<"preplay-load", "fence">>, <<review, "dir">>}, {<<review, "review">>})
PrePlayClaimed(review) ==
    CheckOf(LoadFacts \cup EndedReceipts, {},
            {<<"preplay-load", "fence">>} \cup Records(review, {"review", "intent", "load.claim"}))

\* The two databases and every pinned file, copied to a place under the review; one
\* that is there, whole or partial, refuses.
PrePlayBackup(review) == <<Write(review, "backup"), Copy, Manifest>>

PrePlayClaim(review) ==
    <<PrePlayReview(review)>> \o PrePlayBackup(review) \o
    <<PrePlayReview(review), See, PrePlayReview(review),
      Write("preplay-load", "fence"), Write(review, "dir"), Write(review, "intent"), Write(review, "load.claim"),
      PrePlayClaimed(review), See>>

PrePlayBody(review) ==
    <<Write(review, "subscription-open"), PrePlayClaimed(review), Send("preplay-load", "fence"),
      Write(review, "load-ack"), See, PrePlayClaimed(review), Write(review, "observation"), PrePlayClaimed(review)>>

\* Its status reports the one thing that the journal can prove: the load was
\* acknowledged.
PrePlayVerdict(review) == {<<"preplay-load", "fence">>, <<review, "load-ack">>}

PrePlayLoad(review) ==
    [Flow(review, PreparePrePlay(review), PrePlayClaim(review), PrePlayBody(review))
     EXCEPT !.mark = <<"preplay-load", "fence">>, !.closes = Opened(review), !.verdict = PrePlayVerdict(review),
            !.fenced = {<<"preplay-load", "fence">>}]

-----------------------------------------------------------------------------
(* The startup: a load if the brain is not loaded, and one turn that answers   *)
(* with a receipt, in a mailbox of its own; every other writer is blocked from *)
(* the moment its anchor, its fence or its directory is there.                *)

\* What the failed request left: its ended delivery that loaded nothing, its
\* claim, handoff and sidecars, the binding and the brain it was for.
Undelivered == {"original request", "original source", "readiness claim", "request handoff", "request sidecars",
                "request binding", "binding scope", "readiness lifecycle"}

\* Every registered database by identity and content, the repository by its head,
\* status, difference and untracked files, and the allocation the phase must fit.
DatabaseInventory == {"registry database", "registered roots", "workspace databases"}
RepositoryView    == {"head", "status", "difference", "untracked files"}
StartupPhase      == {"mission authority", "carried ceiling", "reserved tokens"}

StartupFacts == {"source"} \cup Undelivered \cup DatabaseInventory \cup RepositoryView \cup StartupPhase
StartupRecords == Records("prestart-startup", {"anchor", "fence", "dir"}) \cup {<<"startup-mailbox", "dir">>}

\* Everything that blocks it, the file-only resolution of the same request included.
StartupBlocked ==
    StartupRecords \cup {<<"post-reboot-maintenance", "fence">>, <<"prestart-resolution", "fence">>}

StartupReview == CheckOf(StartupFacts, StartupBlocked, {})
StartupClaimed ==
    CheckOf(StartupFacts, {<<"prestart-startup", "stop">>, <<"prestart-resolution", "fence">>},
            Records("prestart-startup", {"anchor", "fence", "intent"}))

StartupBackup == BackupWith(StartupReview)

StartupClaim ==
    LET at == "prestart-startup" IN
    <<Lock, StartupReview, Verify, Write(at, "anchor"), Write(at, "fence"), Write(at, "dir"), Write(at, "intent"), Unlock>>

StartupLoad ==
    LET at == "prestart-startup" IN
    <<StartupClaimed, See, StartupClaimed, Write(at, "load.claim"), Fork(1), Send(at, "load.claim"),
      See, Write(at, "load"), StartupClaimed>>

StartupTurn ==
    LET at == "prestart-startup"  box == "startup-mailbox" IN
    <<Write(box, "dir"), Write(box, "handoff"), Write(at, "handoff-pin"), Write(at, "turn.claim"),
      Send(at, "turn.claim"), Write(at, "turn"), Write(box, "turn"), Write(at, "turn-pin")>>

\* The brain's one result is received while its turn runs, or when it completed.
StartupReceipt ==
    LET at == "prestart-startup" IN
    <<CheckOf({}, {<<at, "stop">>}, {}), Fork(4), StartupClaimed, Write(at, "receipt.claim"), Write(at, "receipt"),
      Write("startup-mailbox", "reply"), See, StartupClaimed>>

StartupVerdict ==
    Records("prestart-startup", {"anchor", "fence", "dir", "intent", "turn.claim", "turn", "receipt", "usage", "outcome"})

PrestartStartup ==
    LET at == "prestart-startup" IN
    [Flow(at, StartupBackup, StartupClaim, StartupLoad \o StartupTurn \o StartupReceipt)
     EXCEPT !.mark = <<at, "anchor">>, !.always = Records(at, {"usage", "outcome"}), !.verdict = StartupVerdict,
            !.stoppable = {at}]

=============================================================================
