----------------------------- MODULE Conversation -----------------------------
(***************************************************************************)
(* What the owner and the brain say to each other through the mailbox: a   *)
(* message and its reply, a decision and its answer, and the receipts by   *)
(* which the brain drains what is queued.                                  *)
(***************************************************************************)
EXTENDS Notification

\* core.submit of a message: one unanswered message at a time.
SubmitMessage ==
    /\ CanSave(1) /\ PendingMessages = {}
    /\ cmds' = Append1(Command("message", 0, 0))
    /\ UNCHANGED <<run, dec, held, hostVars, approvalVars>>

\* conversation.receive of one message.
ReceiveMessage(c) ==
    /\ held /\ cmds[c].kind = "message" /\ ~Stopped
    /\ cmds' = [cmds EXCEPT ![c] = Received(@)]
    /\ UNCHANGED <<run, dec, held, hostVars, approvalVars>>

\* reply, with the recoveries it completes: that of the paused run, and a reply
\* recovery that was received or whose wake is not claimed.
ClosedByReply(d, c) ==
    /\ cmds[d].kind = "reply_recovery" /\ cmds[d].of = c
    /\ cmds[d].received \/ cmds[d].note = "none"

Reply(c) ==
    /\ held /\ Pending(c) /\ cmds[c].received
    /\ LET wake == run.wake.of = c /\ run.wake.status = "processing"
       IN  /\ run' = IF wake THEN [run EXCEPT !.wake.status = "replied"] ELSE run
           /\ cmds' = [d \in Saved |->
                CASE d = c -> [cmds[d] EXCEPT !.status = "completed", !.replied = TRUE]
                  [] d # c /\ (ClosedByReply(d, c) \/ (wake /\ d = run.wake.id)) ->
                        [cmds[d] EXCEPT !.status = "completed"]
                  [] OTHER -> cmds[d]]
    /\ UNCHANGED <<dec, held, hostVars, approvalVars>>

\* publish: a new version supersedes an answer the brain has not received, and
\* rejects the command that brings it.
\* Faulty variant: the queued answer stays.
PublishOver ==
    /\ held /\ Len(dec) < MaxVersions
    /\ dec # <<>> => Last(dec).status # "received"
    /\ dec' = Append([v \in DOMAIN dec |->
                 IF v = Len(dec) /\ dec[v].status \in {"open", "answered"}
                 THEN [dec[v] EXCEPT !.status = "superseded"] ELSE dec[v]],
                 [status |-> "open", by |-> 0])
    /\ UNCHANGED <<cmds, run, held, hostVars, approvalVars>>

Publish ==
    /\ held /\ Len(dec) < MaxVersions
    /\ dec # <<>> => Last(dec).status # "received"
    /\ LET old == IF dec = <<>> THEN [status |-> "none", by |-> 0] ELSE Last(dec)
           revised == old.status \in {"open", "answered"}
       IN  /\ dec' = Append([v \in DOMAIN dec |->
                        IF v = Len(dec) /\ revised THEN [dec[v] EXCEPT !.status = "superseded"]
                        ELSE dec[v]],
                        [status |-> "open", by |-> 0])
           /\ cmds' = [c \in Saved |-> IF revised /\ c = old.by
                                       THEN [cmds[c] EXCEPT !.status = "rejected"] ELSE cmds[c]]
    /\ UNCHANGED <<run, held, hostVars, approvalVars>>

Answer ==
    /\ CanSave(1)
    /\ \E v \in DOMAIN dec :
        /\ dec[v].status = "open"
        /\ dec' = [dec EXCEPT ![v] = [status |-> "answered", by |-> Len(cmds) + 1]]
        /\ cmds' = Append1(Command("decision_response", v, 0))
    /\ UNCHANGED <<run, held, hostVars, approvalVars>>

Resolve(v) ==
    /\ held
    /\ dec[v].status = "received" /\ cmds[dec[v].by].status = "processing"
    /\ dec' = [dec EXCEPT ![v].status = "resolved"]
    /\ cmds' = [cmds EXCEPT ![dec[v].by].status = "completed"]
    /\ UNCHANGED <<run, held, hostVars, approvalVars>>

\* The commands a drain takes, and the table after it.  One answer that is not
\* current refuses the whole transaction.
QueuedAnswers == {c \in OfKind("decision_response") : cmds[c].status = "queued"}
AnswerTaken(taken, v) ==
    IF dec[v].status = "answered" /\ dec[v].by \in taken
    THEN [dec[v] EXCEPT !.status = "received"] ELSE dec[v]

\* core.process, before the first run: a queued capability request refuses it.
Process ==
    /\ held /\ run.status = "none"
    /\ \A c \in QueuedAnswers : Current(c)
    /\ \A c \in OfKind("catalog") : cmds[c].status # "queued"
    /\ cmds' = [c \in Saved |->
         CASE cmds[c].kind = "message" /\ cmds[c].status = "queued" -> Received(cmds[c])
           [] c \in QueuedAnswers -> [cmds[c] EXCEPT !.status = "processing"]
           [] OTHER -> cmds[c]]
    /\ dec' = [v \in DOMAIN dec |-> AnswerTaken(QueuedAnswers, v)]
    /\ UNCHANGED <<run, held, hostVars, approvalVars>>

\* standard.brain "receive" of a run: its controls, and unless the run is
\* stopped or paused the answers and the message.
Receive ==
    /\ held /\ run.status # "none" /\ NoOpenPauseRecovery
    /\ LET answers == IF Stopped THEN {} ELSE QueuedAnswers
       IN  /\ \A c \in answers : Current(c)
           /\ cmds' = [c \in Saved |->
                CASE cmds[c].kind \in Controls \cup {"catalog"} /\ cmds[c].status = "queued" ->
                        [cmds[c] EXCEPT !.status = "completed"]
                  [] c \in answers -> [cmds[c] EXCEPT !.status = "processing"]
                  [] Pending(c) /\ ~Stopped -> Received(cmds[c])
                  [] OTHER -> cmds[c]]
           /\ dec' = [v \in DOMAIN dec |-> AnswerTaken(answers, v)]
    /\ UNCHANGED <<run, held, hostVars, approvalVars>>

\* "receive_control": the sandbox adapter takes one control and nothing else.
ReceiveControl(c) ==
    /\ held /\ run.status # "none" /\ NoOpenPauseRecovery
    /\ cmds[c].kind \in Controls /\ cmds[c].status = "queued"
    /\ cmds' = [cmds EXCEPT ![c].status = "completed"]
    /\ UNCHANGED <<run, dec, held, hostVars, approvalVars>>

\* catalog_in: the capability request is answered with a catalog or an error.
CatalogReceipt(c) ==
    /\ held /\ NoOpenPauseRecovery
    /\ cmds[c].kind = "catalog" /\ Waiting(c)
    /\ \E to \in (IF run.status \in {"none", "blocked"} THEN {"completed"} ELSE {}) \cup {"failed"} :
          cmds' = [cmds EXCEPT ![c].status = to]
    /\ UNCHANGED <<run, dec, held, hostVars, approvalVars>>

ConversationStep ==
    \/ SubmitMessage \/ Publish \/ Answer \/ Process \/ Receive
    \/ \E c \in Saved : ReceiveMessage(c) \/ Reply(c) \/ ReceiveControl(c) \/ CatalogReceipt(c)
    \/ \E v \in DOMAIN dec : Resolve(v)
===============================================================================
