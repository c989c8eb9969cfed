----------------------------- MODULE WakeRecovery -----------------------------
(***************************************************************************)
(* The four owner-confirmed recoveries of a control or message whose wake  *)
(* did not bring its answer.  Each is a new command with one wake of its   *)
(* own; what it recovers is never sent again.                              *)
(***************************************************************************)
EXTENDS NativeApproval

\* conversation.receive_in, on the command alone.
Received(m) == [m EXCEPT !.status = IF m.received \/ m.replied THEN @ ELSE "processing",
                         !.received = @ \/ ~m.replied]

(***************************************************************************)
(* reply_recovery: before the first run, a received message without reply. *)
(***************************************************************************)
\* eligible: the message m may be recovered by command c, with or without the
\* controller held.
ReplyEligible(c, m, controller) ==
    /\ run.status = "none"
    /\ controller \/ ~held
    /\ PendingMessages = {m}
    /\ cmds[m].received /\ cmds[m].status = "processing" /\ cmds[m].note = "accepted"
    /\ \A d \in Saved \ {c, m} :
          /\ ~(cmds[d].kind = "reply_recovery" /\ cmds[d].of = m)
          /\ ~Waiting(d)

ReplyValid(c, controller) == ReplyEligible(c, cmds[c].of, controller)

\* observe: the exact turn has ended and no other is at work.
SubmitReplyRecovery ==
    /\ CanSave(1)
    /\ \E m \in PendingMessages :
        /\ ReplyEligible(0, m, FALSE)
        /\ Idle /\ native[m].state = "ended"
        /\ cmds' = Append1(Command("reply_recovery", m, Turns))
    /\ UNCHANGED <<run, dec, held, hostVars, approvalVars>>

ReceiveReplyRecovery(c) ==
    /\ held /\ cmds[c].kind = "reply_recovery" /\ cmds[c].status # "completed"
    /\ ReplyValid(c, TRUE)
    /\ cmds[c].note = "accepted"
    /\ cmds' = [cmds EXCEPT ![c].status = "processing", ![c].received = TRUE]
    /\ UNCHANGED <<run, dec, held, hostVars, approvalVars>>

\* fence_development: Play, Resume and allowance wait for a recovery's reply.
DevelopmentFenced == \E c \in OfKind("reply_recovery") : Waiting(c)

(***************************************************************************)
(* pause_recovery: a Pause whose wake provably started no turn.            *)
(***************************************************************************)
\* The one Pause a permit is about: still queued, or completed by its receipt.
PauseOriginals(permit, controller) ==
    IF controller /\ permit.status = "processing"
    THEN {p \in OfKind("pause") : cmds[p].status = "completed" /\ p = permit.of}
    ELSE {p \in OfKind("pause") : cmds[p].status = "queued"}

\* replacement_context: one attempt that provably failed may be replaced once.
Replaced(c) == IF run.pause.id \in {0, c} THEN run.pause.prior ELSE run.pause.id

MayReplace(c, o) ==
    LET prior == Replaced(c)
    IN  prior # 0 =>
          \/ run.pause.id = c /\ cmds[prior].status = "failed"
          \/ /\ run.pause.id # c /\ run.pause.prior = 0
             /\ run.pause.status = "queued" /\ run.pause.of = o
             /\ cmds[prior].status = "queued" /\ PreTurnFailure(prior)

PauseEligible(c, o, controller) ==
    /\ run.status = "stopping"
    /\ controller \/ ~held
    /\ ~OpenDecision
    /\ PauseOriginals(run.pause, controller) = {o}
    /\ PreTurnFailure(o)
    /\ MayReplace(c, o)
    /\ \A d \in Saved \ {c, o, Replaced(c)} :
          /\ ~(cmds[d].kind = "pause_recovery" /\ cmds[d].of = o)
          /\ ~Waiting(d)

PauseValid(c, controller) ==
    /\ PauseEligible(c, cmds[c].of, controller)
    /\ controller \/ run.pause.id # c \/ ~run.pause.late

\* confirm: the permit and the disposition of the replaced attempt are one
\* commit.  A replacement is bound to the turn its predecessor saw.
ConfirmPauseRecovery ==
    /\ CanSave(1)
    /\ \E o \in OfKind("pause") :
        LET n == Len(cmds) + 1
            prior == Replaced(n)
        IN  /\ PauseEligible(n, o, FALSE)
            /\ Idle /\ (prior # 0 => cmds[prior].seen = Turns)
            /\ run' = [run EXCEPT !.pause = [id |-> n, of |-> o, prior |-> prior,
                                             status |-> "queued", late |-> FALSE]]
            /\ cmds' = Append([d \in Saved |-> IF d = prior
                                              THEN [cmds[d] EXCEPT !.status = "failed"] ELSE cmds[d]],
                              Command("pause_recovery", o, Turns))
    /\ UNCHANGED <<dec, held, hostVars, approvalVars>>

ReceivePauseRecovery(c) ==
    /\ held /\ run.pause.id = c /\ run.pause.status = "queued" /\ ~run.pause.late
    /\ ~Open(run.receipt)
    /\ PauseValid(c, TRUE)
    /\ cmds[c].note \in {"sending", "accepted"}
    /\ cmds' = [cmds EXCEPT ![c].status = "processing", ![c].received = TRUE,
                            ![run.pause.of].status = "completed"]
    /\ run' = [run EXCEPT !.pause.status = "processing"]
    /\ UNCHANGED <<dec, held, hostVars, approvalVars>>

(***************************************************************************)
(* pause_receipt_recovery: a Pause whose turn ended without a receipt.     *)
(***************************************************************************)
ReceiptOriginal(o) == cmds[o].note = "accepted" /\ cmds[o].closed /\ entry.cmd # o

ReceiptEligible(c, o, controller) ==
    /\ run.status = "stopping"
    /\ controller \/ ~held
    /\ run.pause.id = 0 /\ run.wake.id = 0 /\ run.receipt.id \in {0, c}
    /\ PauseOriginals(run.receipt, controller) = {o}
    /\ ReceiptOriginal(o)
    /\ ~OpenDecision
    /\ \A d \in Saved \ {c, o} :
          /\ ~(cmds[d].kind = "receipt_recovery" /\ cmds[d].of = o)
          /\ ~Waiting(d)
          /\ cmds[d].note \notin {"sending", "uncertain"}

ReceiptValid(c, controller) ==
    /\ ReceiptEligible(c, cmds[c].of, controller)
    /\ run.receipt.id # c \/ ~run.receipt.late

ConfirmReceiptRecovery ==
    /\ CanSave(1)
    /\ \E o \in OfKind("pause") :
        /\ ReceiptEligible(Len(cmds) + 1, o, FALSE)
        /\ Idle /\ native[o].state = "ended"
        /\ run' = [run EXCEPT !.receipt = [NoPermit EXCEPT !.id = Len(cmds) + 1, !.of = o,
                                                           !.status = "queued"]]
        /\ cmds' = Append1(Command("receipt_recovery", o, Turns))
    /\ UNCHANGED <<dec, held, hostVars, approvalVars>>

ReceiveReceiptRecovery(c) ==
    /\ held /\ run.receipt.id = c /\ run.receipt.status = "queued" /\ ~run.receipt.late
    /\ ~Open(run.pause)
    /\ ReceiptValid(c, TRUE)
    /\ cmds[c].note \in {"sending", "accepted"} /\ cmds[c].loaded
    /\ cmds' = [cmds EXCEPT ![c].status = "processing", ![c].received = TRUE,
                            ![run.receipt.of].status = "completed"]
    /\ run' = [run EXCEPT !.receipt.status = "processing"]
    /\ UNCHANGED <<dec, held, hostVars, approvalVars>>

(***************************************************************************)
(* checkpoint_recovery: one preparation turn of a paused run, around a     *)
(* message.                                                                *)
(***************************************************************************)
CheckpointEligible ==
    /\ run.status = "paused" /\ run.wake.id = 0
    /\ ~held
    /\ \A d \in Saved : cmds[d].kind \in Controls => ~Waiting(d)
    /\ \A m \in PendingMessages : cmds[m].note = "none"

\* confirm: the message that waits, or a new one, and its single wake.
ConfirmCheckpointRecovery ==
    /\ CheckpointEligible
    /\ LET new == PendingMessages = {}
           m == IF new THEN Len(cmds) + 1 ELSE CHOOSE p \in PendingMessages : TRUE
           saved == IF new THEN Append1(Command("message", 0, 0)) ELSE cmds
       IN  /\ CanSave(IF new THEN 2 ELSE 1)
           /\ cmds' = Append(saved, Command("checkpoint_recovery", m, 0))
           /\ run' = [run EXCEPT !.wake = [NoPermit EXCEPT !.id = Len(saved) + 1, !.of = m,
                                                           !.status = "queued"]]
    /\ UNCHANGED <<dec, held, hostVars, approvalVars>>

ReceiveCheckpointRecovery(c) ==
    /\ held /\ NoOpenPauseRecovery
    /\ run.status = "paused" /\ run.wake.id = c /\ Open(run.wake) /\ ~run.wake.late
    /\ cmds[c].note \in {"sending", "accepted", "uncertain"}
    /\ Pending(run.wake.of)
    /\ cmds' = [cmds EXCEPT ![run.wake.of] = Received(@), ![c].status = "processing",
                            ![c].received = TRUE]
    /\ run' = [run EXCEPT !.wake.status = "processing"]
    /\ UNCHANGED <<dec, held, hostVars, approvalVars>>

\* A permit's hour is over.
LapsePermit ==
    /\ \E p \in {"pause", "receipt", "wake"} :
        /\ Open(run[p]) /\ ~run[p].late
        /\ run' = [run EXCEPT ![p].late = TRUE]
    /\ UNCHANGED <<cmds, dec, held, hostVars, approvalVars>>

\* Whether a claim or a send of recovery c is still what its owner reviewed.
RecoveryValid(c) ==
    CASE cmds[c].kind = "reply_recovery" -> ReplyValid(c, FALSE)
      [] cmds[c].kind = "pause_recovery" -> PauseValid(c, FALSE) /\ ~Answerable
      [] cmds[c].kind = "receipt_recovery" -> ReceiptValid(c, FALSE) /\ ~Answerable
      [] OTHER -> TRUE
===============================================================================
