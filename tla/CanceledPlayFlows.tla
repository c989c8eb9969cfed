------------------------- MODULE CanceledPlayFlows -------------------------
(* The controls that follow a canceled brain Play: launching a replacement    *)
(* host, loading the brain on it, recording the Play as unqualified, planning  *)
(* forward in one new turn (alone, on a connection held for it, or as the      *)
(* same-project successor of a refused attempt), and loading again after that. *)
EXTENDS OneShotSteps

-----------------------------------------------------------------------------
(* What the reviews pin. *)

\* The canceled attempt: its ledger and registry rows, the files beside the
\* ledger, and the binding it ran under.
OriginalFacts == {"enrollment", "ledger rows", "sidecars", "binding"}

\* The replacement host that was actually issued: its package, its live process
\* and socket, and the native home with its archive and credential metadata.
IssuedHostFacts == {"package", "host process", "host socket", "native home", "archive"}

\* The records a replacement host leaves at its launch.
HostIssued == Records("canceled-host-launches", {"dir", "intent", "exec.claim", "issued"})
\* What an observed load leaves behind.
Loaded(place) == Records(place, {"dir", "intent", "load.claim", "load-ack", "observation", "outcome"})
\* A Play recorded as unqualified: the fence file and its ledger row.
Disposed == Records("canceled-play", {"fence", "row"})

-----------------------------------------------------------------------------
(* Launching the replacement host. *)

HostReview(absent, present) ==
    CheckOf(OriginalFacts \cup {"source", "package", "old host", "native home", "archive", "socket directory"},
            {<<"host-restart", "fence">>} \cup absent, present)

CanceledHostLaunch ==
    LET at == "canceled-host-launches" IN
    [Flow(at, <<>>,
          <<HostReview({<<at, "dir">>}, {}), Write(at, "dir"), Write(at, "intent"), Write(at, "exec.claim"),
            HostReview({}, {<<at, "intent">>}), Write(at, "issued")>>,
          <<Exec(at, "exec.claim")>>)
     EXCEPT !.failed = {<<at, "failed-or-unknown">>}, !.fenced = {<<at, "exec.claim">>}]

-----------------------------------------------------------------------------
(* Recording the Play as unqualified: a fence file, then one ledger row under  *)
(* both locks, the row read back against the untouched rest before the commit. *)

DispositionReview(absent, present) ==
    CheckOf(OriginalFacts \cup {"source", "backend", "sealed capture"}, absent, present)

\* What the fence has retained: the rows, the sidecars and the binding, no more.
Retained == CheckOf({"ledger rows", "sidecars", "binding"}, {}, {<<"canceled-play", "fence">>})

CanceledPlayBackup == BackupWith(DispositionReview({<<"canceled-play", "fence">>}, {}))

CanceledPlayDisposition ==
    LET at == "canceled-play" IN
    [Flow(at, CanceledPlayBackup,
          <<CheckOf({}, {<<at, "fence">>}, {}), Lock, DispositionReview({<<at, "fence">>}, {}), Verify,
            Write(at, "fence"), Retained, Commit(at, "fence", "row"), Unlock>>,
          <<>>)
     EXCEPT !.mark = <<at, "fence">>, !.verdict = {<<at, "fence">>, <<at, "row">>}, !.fenced = {<<at, "fence">>}]

-----------------------------------------------------------------------------
(* Loading the brain on the replacement host, before any disposition. *)

LoadReview ==
    CheckOf(OriginalFacts \cup IssuedHostFacts \cup {"source", "candidate"},
            {<<"canceled-followups", "dir">>, <<"canceled-brain-loads", "stop">>,
             <<"canceled-host-launches", "failed-or-unknown">>, <<"canceled-play", "fence">>},
            HostIssued)

CanceledLoadBackup == BackupWith(LoadReview)

CanceledLoadClaim ==
    LET at == "canceled-brain-loads" IN
    <<LoadReview, Verify, Lock, LoadReview, Write(at, "dir"), Write(at, "intent"), Unlock>>

CanceledLoadBody ==
    LET at == "canceled-brain-loads" IN
    <<See, LoadReview, See, Write(at, "load.claim"), LoadReview, Send(at, "load.claim"),
      Write(at, "load-ack"), See, LoadReview, Write(at, "observation")>>

CanceledLoadVerdict == Loaded("canceled-brain-loads")

CanceledLoad ==
    LET at == "canceled-brain-loads" IN
    [Flow(at, CanceledLoadBackup, CanceledLoadClaim, CanceledLoadBody)
     EXCEPT !.failed = {<<at, "failure">>}, !.always = {<<at, "outcome">>}, !.verdict = CanceledLoadVerdict,
            !.stoppable = {at}, !.fenced = {<<at, "load.claim">>}, !.before = HostIssued]

-----------------------------------------------------------------------------
(* Planning forward: one new turn with a receipt and an inert proposal. The    *)
(* same command serves every owner; `review` is what it re-reads, `borrowed`   *)
(* whether an owner lends it the subscription it has attached.                 *)

\* With its journal, mailbox and stop file at `at`.
PlanningClaim(at, review, consumer) ==
    <<review, Verify, consumer, Lock, review, consumer, Write(at, "dir"), Write(at, "intent"), Unlock>>

\* The usage collection of every version but the first, and the mailbox.
PlanningPrepared(at, review) ==
    <<Write(at, "usage.claim"), See, Write(at, "usage"), review,
      Write(at, "mailbox"), Write(at, "handoff"), review>>

\* Its own subscription, or the one an owner has attached and lends once.
Attached(at, review) ==
    <<See, review, Write(at, "subscription.claim"), Send(at, "subscription.claim"), Write(at, "subscription")>>
Borrowed(at, owner, review) ==
    <<review, Write(owner, "handoff.claim"), See, review, Write(at, "subscription.claim"), Write(at, "subscription")>>

PlanningTurn(at, review) ==
    <<review, See, Write(at, "turn-start.claim"), See, review, Send(at, "turn-start.claim"), Write(at, "native-ack")>>

\* The observer serves the two requests of the brain, the receipt first, until
\* the native turn ends.
PlanningObserved(at, review) ==
    <<review, Fork(7), Write(at, "receive.claim"), Write(at, "receive"),
      review, Fork(3), Write(at, "proposal.claim"), Write(at, "proposal"), review, See, review>>

PlanningVerdict(at) ==
    Records(at, {"dir", "intent", "native-ack", "receive", "proposal", "usage.claim", "usage", "lifecycle", "outcome"})

\* Every version re-reads the disposed attempt, the candidate, the transport and
\* the package; a maintenance load and the owner's stop fence it.
PlanningFacts == OriginalFacts \cup {"source", "client", "interpreter", "candidate", "transport", "package", "budget", "usage source"}

ContinuationReview ==
    CheckOf(PlanningFacts, {<<"post-disposition-loads", "dir">>, <<"canceled-followups", "stop">>}, Disposed)

\* A standalone attempt is fenced by any connection held for it.
Standalone == CheckOf({}, {<<"continuous-connections", "dir">>}, {})

ContinuationBackup == BackupWith(ContinuationReview)

CanceledContinuation ==
    LET at == "canceled-followups" IN
    [Flow(at, ContinuationBackup, PlanningClaim(at, ContinuationReview, Standalone),
          PlanningPrepared(at, ContinuationReview) \o Attached(at, ContinuationReview)
          \o PlanningTurn(at, ContinuationReview) \o PlanningObserved(at, ContinuationReview))
     EXCEPT !.failed = {<<at, "failure">>}, !.always = {<<at, "lifecycle">>, <<at, "outcome">>},
            !.verdict = PlanningVerdict(at), !.stoppable = {at}, !.fenced = {<<at, "turn-start.claim">>},
            !.before = Disposed]

-----------------------------------------------------------------------------
(* The same on a connection that a foreground process holds until the owner    *)
(* approves the planning separately.                                           *)

\* The review of the connection; until the planning claims its journal, nothing
\* else may have.
HandoffReview(claimed) ==
    CheckOf(PlanningFacts \cup {"handoff source", "planning review"},
            {<<"post-disposition-loads", "dir">>, <<"canceled-followups", "stop">>}
            \cup (IF claimed THEN {} ELSE {<<"canceled-followups", "dir">>, <<"canceled-followups", "mailbox">>}),
            Disposed)

\* The holder is the one that opened the connection, neither stopped nor closed.
HeldBy(claimed) ==
    LET at == "continuous-connections" IN
    [HandoffReview(claimed) EXCEPT
        !.facts = @ \cup {"owning process"}, !.absent = @ \cup {<<at, "stop">>, <<at, "outcome">>},
        !.present = @ \cup {<<at, "ready">>, <<at, "authorization">>}]

HandoffBackup == BackupWith(HandoffReview(FALSE))

HandoffClaim ==
    LET at == "continuous-connections" IN
    <<HandoffReview(FALSE), Verify, Lock, HandoffReview(FALSE), Write(at, "dir"), Write(at, "intent"), Unlock>>

\* Attach, publish that the holder is ready, wait for the approval (a file that
\* the authorize command writes), and run the planning on this connection.
HandoffBody ==
    LET at == "continuous-connections" IN
    <<See, HandoffReview(FALSE), Write(at, "subscription.claim"), Send(at, "subscription.claim"),
      Write(at, "ready"), HandoffReview(FALSE), Write(at, "authorization")>>
    \o PlanningClaim("canceled-followups", HeldBy(FALSE), HeldBy(FALSE))
    \o <<HeldBy(TRUE)>> \o PlanningPrepared("canceled-followups", HeldBy(TRUE))
    \o Borrowed("canceled-followups", at, HeldBy(TRUE))
    \o PlanningTurn("canceled-followups", HeldBy(TRUE)) \o PlanningObserved("canceled-followups", HeldBy(TRUE))
    \o <<Write(at, "planning-outcome")>>

HandoffVerdict ==
    Records("continuous-connections", {"dir", "intent", "subscription.claim", "ready", "authorization",
                                       "handoff.claim", "planning-outcome", "outcome"})
    \cup PlanningVerdict("canceled-followups")

ConnectionHandoff ==
    LET at == "continuous-connections" IN
    [Flow(at, HandoffBackup, HandoffClaim, HandoffBody)
     EXCEPT !.failed = {<<at, "failure">>},
            !.always = {<<at, "outcome">>} \cup Records("canceled-followups", {"lifecycle", "outcome"}),
            !.verdict = HandoffVerdict, !.stoppable = {at, "canceled-followups"},
            !.fenced = {<<"canceled-followups", "turn-start.claim">>}, !.before = Disposed]

=============================================================================
