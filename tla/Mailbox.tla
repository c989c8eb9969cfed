------------------------------- MODULE Mailbox -------------------------------
(***************************************************************************)
(* The mailbox of one standard workspace: the owner's controls of its run, *)
(* messages, decisions and recoveries, the dashboard that wakes the brain  *)
(* about each of them, the brain that receives them, and Codex.            *)
(***************************************************************************)
EXTENDS Conversation

mailboxVars == <<commandVars, approvalVars>>

\* A workspace before its first run, or with one that its brain received.
Init ==
    /\ cmds = <<>> /\ dec = <<>> /\ held = FALSE
    /\ run \in {NoRun, [NoRun EXCEPT !.status = "running"]}
    /\ send = [c \in Ids |-> "idle"] /\ watching = {}
    /\ native = [c \in Ids |-> [state |-> "none", starts |-> 0]]
    /\ crashes = 0
    /\ ask = NoAsk /\ owner = "idle" /\ entry = NoEntry /\ req = "none" /\ frame = <<>>

(***************************************************************************)
(* standard.Controls.confirm: the run and the command are one commit.      *)
(***************************************************************************)
Control(op, to) ==
    /\ CanSave(1)
    /\ run' = [run EXCEPT !.status = to]
    /\ cmds' = Append1(Command(op, 0, 0))
    /\ UNCHANGED <<dec, held, hostVars, approvalVars>>

Play == run.status = "none" /\ ~DevelopmentFenced /\ Control("play", "running")
Pause == run.status \in {"running", "stopping"} /\ Control("pause", "stopping")
Resume ==
    /\ run.status = "paused" /\ ~DevelopmentFenced
    /\ run.wake.status \in {"none", "replied"}
    /\ Control("resume", "running")

\* request_catalog_refresh of a new request.
RequestRefresh ==
    /\ run.status \in {"none", "blocked"}
    /\ \A c \in OfKind("catalog") : ~Waiting(c)
    /\ CanSave(1)
    /\ cmds' = Append1(Command("catalog", 0, 0))
    /\ UNCHANGED <<run, dec, held, hostVars, approvalVars>>

\* standard.brain "checkpoint" of a run without tasks, with what the permits of
\* a recovery add to it.
Checkpoint(outcome) ==
    /\ held /\ run.status # "none"
    /\ Open(run.receipt) => ReceiptValid(run.receipt.id, TRUE)
    /\ Open(run.pause) => PauseValid(run.pause.id, TRUE)
    /\ \A p \in {"pause", "receipt"} :
          Open(run[p]) => run[p].status = "processing" /\ outcome = "paused"
    /\ LET done == {run[p].id : p \in {q \in {"pause", "receipt"} : Open(run[q])}}
           After(p) == IF Open(p) THEN [p EXCEPT !.status = "checkpointed"] ELSE p
       IN  /\ cmds' = [c \in Saved |-> IF c \in done THEN [cmds[c] EXCEPT !.status = "completed"]
                                                     ELSE cmds[c]]
           /\ run' = [run EXCEPT !.status = outcome, !.pause = After(@), !.receipt = After(@)]
    /\ UNCHANGED <<dec, held, hostVars, approvalVars>>

\* The controller: acquire_private, release_private, and Ledger.recover of one
\* whose brain is gone.
Acquire == ~held /\ held' = TRUE /\ UNCHANGED <<cmds, run, dec, hostVars, approvalVars>>
Release == held /\ held' = FALSE /\ UNCHANGED <<cmds, run, dec, hostVars, approvalVars>>
RecoverController ==
    /\ held /\ held' = FALSE
    /\ run' = IF run.status = "none" THEN run ELSE [run EXCEPT !.status = "stopping"]
    /\ UNCHANGED <<cmds, dec, hostVars, approvalVars>>

RunStep ==
    \/ Play \/ Pause \/ Resume \/ RequestRefresh
    \/ \E outcome \in {"paused", "blocked"} : Checkpoint(outcome)
    \/ Acquire \/ Release \/ RecoverController

RecoveryStep ==
    \/ SubmitReplyRecovery \/ ConfirmPauseRecovery
    \/ ConfirmReceiptRecovery \/ ConfirmCheckpointRecovery
    \/ \E c \in Saved :
          \/ ReceiveReplyRecovery(c) \/ ReceivePauseRecovery(c)
          \/ ReceiveReceiptRecovery(c) \/ ReceiveCheckpointRecovery(c)
    \/ LapsePermit

Next == RunStep \/ RecoveryStep \/ ConversationStep \/ WakeStep \/ ApprovalStep

\* The threads of the dashboard run on while its process lives, and an offer
\* has a deadline.  Nothing is assumed of the owner, the brain or Codex.
Fairness ==
    /\ WF_mailboxVars(\E c \in Saved : Sending(c))
    /\ WF_mailboxVars(OwnerQueue \/ OwnerRecord)
    /\ WF_mailboxVars(Look \/ EndWait \/ Respond \/ RecordWritten \/ Withdraw)
    /\ WF_mailboxVars(Expire)

Spec == Init /\ [][Next]_mailboxVars /\ Fairness

(***************************************************************************)
(* Properties.                                                             *)
(***************************************************************************)
Statuses == {"queued", "processing", "completed", "failed", "rejected"}
Permits ==
    [id : 0 .. MaxCommands, of : 0 .. MaxCommands, prior : 0 .. MaxCommands, late : BOOLEAN,
     status : {"none", "queued", "processing", "checkpointed", "replied"}]

\* Commands, run, decisions, sends and the native request have the shape the
\* schemas and validators of the mailbox give them.
MailboxTypeOK ==
    /\ \A c \in Saved :
          cmds[c] \in [kind : Kinds, of : 0 .. MaxCommands + MaxVersions, seen : 0 .. MaxCommands,
                       status : Statuses,
                       note : {"none", "sending", "unavailable", "uncertain", "accepted"},
                       failed : BOOLEAN, tries : 1 .. 3, received : BOOLEAN, replied : BOOLEAN,
                       loaded : BOOLEAN, closed : BOOLEAN]
    /\ run.status \in {"none", "running", "stopping", "paused", "blocked"}
    /\ {run.pause, run.receipt, run.wake} \subseteq Permits
    /\ \A v \in DOMAIN dec : dec[v].status \in {"open", "answered", "superseded", "received", "resolved"}
    /\ send \in [Ids -> {"idle", "claimed", "probed", "started", "lost"}]
    /\ watching \subseteq Ids /\ ask.cmd \in 0 .. MaxCommands
    /\ entry.status \in {"none", "claimed", "queued", "uncertain", "response_written", "resolved",
                         "resolved_without_response", "blocked"}
    /\ owner \in {"idle", "claimed", "queued", "uncertain"}

\* A command starts one turn at most, through crashes, retries and recoveries;
\* a delivery reported as unavailable started none; and a Pause with all its
\* recoveries after a failed wake has one turn altogether.
WokenOnce ==
    /\ \A c \in Saved :
        /\ native[c].starts <= 1
        /\ cmds[c].note = "unavailable" => native[c].starts = 0
    /\ \A o, c, d \in Saved :
        (cmds[o].kind = "pause" /\ {c, d} \subseteq {o} \cup {r \in OfKind("pause_recovery") : cmds[r].of = o}
            /\ c # d) => native[c].starts + native[d].starts <= 1

\* A queued answer of the owner is the one its decision waits for.  The next
\* drain of the brain would refuse every command otherwise.
AnswersCurrent == \A c \in QueuedAnswers : Current(c)

\* An open permit agrees with its command and with the Pause it is about,
\* whatever order the sender, the brain and the owner act in, and a run under a
\* permit of a Pause still stops.
PermitsAgree ==
    /\ \A p \in {"pause", "receipt", "wake"} :
          Open(run[p]) => cmds[run[p].id].status = run[p].status
    /\ \A p \in {"pause", "receipt"} :
          Open(run[p]) =>
              /\ run.status = "stopping"
              /\ cmds[run[p].of].status = IF run[p].status = "queued" THEN "queued" ELSE "completed"

\* What the ledger says of a native request is true of the frames Codex was
\* sent: one at most, the owner's choice, and none where none is recorded.
FrameAgrees ==
    /\ Len(frame) <= 1
    /\ frame # <<>> => entry # NoEntry /\ frame = <<entry.choice>>
    /\ entry.status \in {"response_written", "resolved"} => frame # <<>>
    /\ entry.status \in {"blocked", "resolved_without_response"} => frame = <<>>

\* An owner's acceptance reaches Codex only while the run runs and its intent is
\* open, although the owner's thread, a Pause and the observer take the lock in
\* any order.
StopBeatsAccept ==
    [][(frame' # frame /\ Last(frame') = "accept") =>
          run.status = "running" /\ entry.status \in {"claimed", "queued"}]_mailboxVars

\* A send, a confirmation by the owner and an offered request are each over some
\* day, whatever Codex does; the bound on the commands lets all be over at once.
AtRest == owner = "idle" /\ ~Offered /\ \A c \in Ids : send[c] = "idle"
Settles == []<>AtRest

\* Said by the documentation: a delivered reply recovery still has its receipt.
\* It has one only while its message waits for the reply.
ReceiptStaysOpen ==
    \A c \in OfKind("reply_recovery") :
        (Waiting(c) /\ cmds[c].note = "accepted") => Pending(cmds[c].of)
===============================================================================
