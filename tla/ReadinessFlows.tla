---------------------------- MODULE ReadinessFlows ----------------------------
(* Asking a brain for its capabilities before the first Play. The dashboard      *)
(* creates one request under a fence that stands for the brain, whatever becomes  *)
(* of it; the notifier then loads the brain if it is not loaded, captures what     *)
(* the public host reports, starts one turn that only acknowledges the capture,   *)
(* and applies the acknowledgment once, all on one connection of its own.         *)
EXTENDS OneShotSteps

-----------------------------------------------------------------------------
(* The reviewed facts. *)

\* An empty first-phase project whose old requests are all settled or disposed of,
\* with its mission, repositories and, for a successor, the admission it has.
FirstPhase     == {"first phase", "no owner", "no tasks", "first mission", "first repositories"}
OldRequests    == {"settled requests", "historical receipts"}
AdmittedTarget == {"admission receipt", "other claims of the source"}

\* Both databases by content, every private file beside the ledger, and the source.
PrivateState    == {"private databases", "private files"}
ReadinessSource == {"source", "reviewed binding", "database identity"}

LocalFacts       == FirstPhase \cup OldRequests \cup AdmittedTarget
ReadinessRequest == {"pending request", "request notification"}

-----------------------------------------------------------------------------
(* Creating the request. *)

\* Nothing of an earlier allowance may be there, even without its request.
StartReview == CheckOf(LocalFacts \cup PrivateState \cup ReadinessSource, {<<"readiness", "fence">>}, {})

\* Two equal native readings within an unchanged local state.
StartPrepared == <<StartReview, See, StartReview>>

\* The copies go to a directory of this request, outside both roots.
StartBackup(id) == <<Write(id, "backup"), Copy, Manifest>>

\* The fence is a file and the request a row of the same transaction: a crash
\* between them leaves the fence alone, and nothing is ever created under it.
StartAuthorized(id) ==
    <<Lock, StartReview, Verify, Write("readiness", "fence"), Write(id, "row"), Unlock>>

ReadinessRequested(id) ==
    [Flow("readiness", StartPrepared, <<StartReview, See>> \o StartBackup(id) \o <<StartReview>> \o StartAuthorized(id), <<>>)
     EXCEPT !.mark = <<"readiness", "fence">>, !.verdict = {<<"readiness", "fence">>, <<id, "row">>}]

-----------------------------------------------------------------------------
(* Delivering it. The claim on the row comes with the handoff file, which is      *)
(* never written for a request that was claimed before.                          *)

Requested(id) == {<<"readiness", "fence">>, <<id, "row">>}

DeliveryClaim(id) ==
    LET pending == CheckOf(ReadinessRequest \cup FirstPhase, {<<id, "claim">>}, Requested(id)) IN
    <<pending, Lock, pending, Write(id, "handoff"), Write(id, "claim"), Unlock>>

\* Before every effect: the request, the fence, the backup and every private file
\* that is not one of its own are as they were reviewed.
DeliveryCheck(id) ==
    CheckOf(ReadinessRequest \cup LocalFacts \cup ReadinessSource \cup {"private files", "retained copies"}, {},
            Requested(id) \cup Records(id, {"handoff", "claim"}))

\* The load, and the loaded brain as it was: idle, no terminals, no turn since.
DeliveryLoad(id) ==
    <<DeliveryCheck(id), See, Write(id, "load-claim"), DeliveryCheck(id), Fork(1), Send(id, "load-claim"),
      Write(id, "load-ack"), See, DeliveryCheck(id)>>

\* The capture of what the host reports, claimed on its own.
CaptureCheck(id) == CheckOf(ReadinessRequest \cup FirstPhase \cup {"reviewed binding", "database identity"}, {}, {<<id, "handoff">>})
PublicCapture(id) ==
    <<CaptureCheck(id), Write(id, "capabilities-claim"), See, CaptureCheck(id), Write(id, "capabilities"),
      Lock, CaptureCheck(id), Write(id, "evidence"), Unlock, See>>

\* The last look before the turn, at the state it was loaded in.
SendCheck(id) == [DeliveryCheck(id) EXCEPT !.present = @ \cup Records(id, {"load-claim", "load-ack", "capabilities", "evidence"})]
ReadySend(id) == <<SendCheck(id), See, SendCheck(id)>>
DeliveryTurn(id) == ReadySend(id) \o <<Send(id, "claim"), Write(id, "turn")>>

\* The brain's one result: claimed before it is applied, under both locks, while
\* its turn is the latest; a claim that was left behind is never applied again.
ReceiptCheck(id) ==
    [CaptureCheck(id) EXCEPT !.facts = @ \cup {"open turn"}, !.present = @ \cup Records(id, {"turn", "capabilities"})]
DeliveryReceipt(id) ==
    <<See, Write(id, "receipt-claim"), Lock, ReceiptCheck(id), Commit(id, "receipt-claim", "receipt"), Unlock,
      Write(id, "reply")>>

DeliveryVerdict(id) == Requested(id) \cup Records(id, {"claim", "turn", "receipt", "reply"})

\* The connection is closed in any case, and what was sent is never sent again.
Delivery(id, before) ==
    [Flow(id, <<>>, DeliveryClaim(id),
          DeliveryLoad(id) \o PublicCapture(id) \o DeliveryTurn(id) \o DeliveryReceipt(id))
     EXCEPT !.mark = <<id, "claim">>, !.failed = {<<id, "unavailable">>}, !.verdict = DeliveryVerdict(id),
            !.closes = {<<<<id, "load-claim">>, <<id, "close">>>>},
            !.fenced = Records(id, {"load-claim", "claim", "receipt-claim"}), !.before = before]

ReadinessDelivery(id)      == Delivery(id, {})
ReadinessDeliveryLater(id) == Delivery(id, Requested(id))

=============================================================================
