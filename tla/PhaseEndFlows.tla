---------------------------- MODULE PhaseEndFlows ----------------------------
(* How a stopped phase ends. A turn that its brain abandoned is recovered: it is *)
(* interrupted once, or on a replacement host its thread is loaded once, and     *)
(* when the native history shows the turn ended the abandoned controller is      *)
(* released and its credential put aside. A phase whose recovery is exhausted    *)
(* gets an inspection record, then a record of what its turns did, and with both *)
(* known a terminal closeout; an empty one that ran out is closed as it is.      *)
(* These claims are rows: each is written in the transaction that re-reads.      *)
EXTENDS OneShotSteps

-----------------------------------------------------------------------------
(* The reviewed facts. *)

\* The saved project: a paused phase without tasks, packets or pending controls,
\* whose last delivered turn kept its identity, and a controller of its own.
AbandonedTurn   == {"stopped phase", "abandoned controller", "unresolved turn", "ended observer", "native profile"}
SavedProject    == {"saved project"}
RegisteredScope == {"registered scope"}
BoundHost       == {"host binding", "idle observer", "no maintenance"}
Credential      == {"controller credential"}

\* A replacement host: the binding of the original one unchanged but for its
\* endpoint, and the original process gone.
Continued == {"previous binding", "retired process"}
\* Several hosts: each launch by its retained intent, process and claim.
HostChain == {"launch artifacts", "host chain"}
ReviewedCatalog == {"registered catalog"}

-----------------------------------------------------------------------------
(* Recovering an abandoned turn. Its place is the entry on the command's row:    *)
(* "claim" the entry, "issued" the marker before the load, "delivered" what the   *)
(* native side acknowledged, "archive" the credential's second name, and         *)
(* "recovered" the commit that releases the controller.                          *)

TurnFacts == AbandonedTurn \cup SavedProject \cup RegisteredScope \cup BoundHost \cup Credential

TurnReview(host) == CheckOf(TurnFacts \cup host, {<<"turn-recovery", "claim">>}, {})
TurnClaimed(host) ==
    CheckOf(TurnFacts \cup host, {<<"turn-recovery", "recovered">>}, {<<"turn-recovery", "claim">>})

\* Two equal readings of the latest turn and its terminals around the review.
TurnPreview(host) == <<TurnReview(host), See, TurnReview(host)>>

TurnClaim(host) ==
    <<TurnReview(host), See, Lock, TurnReview(host), Write("turn-recovery", "claim"), Unlock>>

\* The credential is linked under its archive name, exclusively, before it is
\* unlinked; a crash after the link leaves both, and the next check goes on.
RetireCredential ==
    LET archive == <<"turn-recovery", "archive">> IN
    <<Fork(1), Write("turn-recovery", "archive"), CheckOf({}, {}, {archive}),
      Commit("turn-recovery", "archive", "recovered")>>

\* The turn is read again, and only an ended one lets the controller go.
EndedTurn(host) ==
    <<TurnClaimed(host), See, Lock, TurnClaimed(host)>> \o RetireCredential \o <<Unlock>>

\* One interrupt, under the locks, of a turn that was still in progress.
Interrupted ==
    <<Fork(4), Lock, TurnClaimed({}), Send("turn-recovery", "claim"), Unlock>>

\* One load of a thread that the replacement host does not hold; the marker
\* commits on its own before the frame, and the locks are taken again for it.
LoadedForInspection ==
    <<Fork(10), Lock, TurnClaimed(Continued), See, Write("turn-recovery", "issued"), Unlock,
      Lock, TurnClaimed(Continued), See, Send("turn-recovery", "issued"), Unlock>>

RecoveryOf(host, effect, claim) ==
    LET at == "turn-recovery" IN
    [Flow(at, TurnPreview(host), TurnClaim(host), effect \o <<Write(at, "delivered")>> \o EndedTurn(host))
     EXCEPT !.mark = <<at, "claim">>, !.verdict = Records(at, {"claim", "delivered", "recovered"}),
            !.fenced = {<<at, claim>>}]

TurnRecovery            == RecoveryOf({}, Interrupted, "claim")
ReplacementTurnRecovery == RecoveryOf(Continued, LoadedForInspection, "issued")

\* The owner checks a claimed recovery again: nothing is sent, and what its
\* delivery came to stays unknown.
TurnReconcile ==
    LET at == "turn-recovery" IN
    [Flow(at, <<>>, <<>>, EndedTurn({})) EXCEPT !.mark = <<at, "claim">>, !.verdict = Records(at, {"claim", "recovered", "delivered"})]
TurnReconcileLater == [TurnReconcile EXCEPT !.before = {<<"turn-recovery", "claim">>}]

-----------------------------------------------------------------------------
(* Records of a phase that was stopped; each commits alone, under the locks.     *)

\* One reading outside the locks, the same one repeated for the confirmation.
PhaseRecord(record, facts, absent, present) ==
    LET review == CheckOf(facts, absent, present) IN
    [Flow("phase", <<review, See, review>>, <<review, See, review, Lock, review, Write("phase", record), Unlock>>, <<>>)
     EXCEPT !.mark = <<"phase", record>>, !.verdict = {<<"phase", record>>}, !.before = present]

\* A recovery of a failed Pause that was delivered, ended and never received.
ExhaustedRecovery == {"exhausted recovery", "original Pause", "native profile", "ended observer"}
InspectedScope    == SavedProject \cup RegisteredScope \cup BoundHost \cup Continued \cup ReviewedCatalog

EndedRecord ==
    PhaseRecord("ended record", ExhaustedRecovery \cup InspectedScope, {<<"phase", "ended record">>}, {})

\* What the turns from the Play to the recovery did: every item of the native
\* history, the same from its persisted items, and the calls of the rollout file.
OriginalPlay   == {"original Play"}
NativeHistory  == {"native turns"}
PersistedItems == {"persisted items"}
Rollout        == {"rollout inventory"}
Unexecuted     == {"no gaps"}

HistoricalScope == ExhaustedRecovery \cup OriginalPlay \cup InspectedScope \cup HostChain
HistoricalFacts == HistoricalScope \cup NativeHistory \cup PersistedItems \cup Rollout

\* Recorded whatever it found: gaps leave the effects unknown.
HistoricalRecord == PhaseRecord("reconciliation", HistoricalFacts, {<<"phase", "closeout">>}, {})

\* Only with the latest record retained, nothing executed and nothing missing.
TerminalCloseout ==
    PhaseRecord("closeout", HistoricalFacts \cup Unexecuted, {<<"phase", "closeout">>}, {<<"phase", "reconciliation">>})

\* An empty phase that ran out, or rests on a duration checkpoint: its saved
\* recovery received, completed and answered, and that turn natively ended.
EmptyPhase        == {"empty phase", "no pending control"}
StopBasis         == {"phase expiry"}
AnsweredRecovery  == {"recovery receipt", "recovery reply"}

PhaseCloseout ==
    PhaseRecord("closeout", EmptyPhase \cup StopBasis \cup AnsweredRecovery \cup SavedProject, {<<"phase", "closeout">>}, {})

=============================================================================
