------------------------------- MODULE Commands -------------------------------
(***************************************************************************)
(* The command table of one workspace: every request of the owner is a     *)
(* durable record that the dashboard wakes the brain about once and that   *)
(* the brain receives in its own time.  This module declares what the      *)
(* mailbox keeps and the conversions and permits its parts share.          *)
(***************************************************************************)
EXTENDS Integers, Sequences, FiniteSets, SequencesExt

CONSTANTS
    MaxCommands,  \* bound on the commands a behaviour saves
    MaxVersions,  \* bound on the versions of the one decision
    MaxCrashes    \* bound on the deaths of the dashboard process

ASSUME MailboxBounds == {MaxCommands, MaxVersions, MaxCrashes} \subseteq Nat

VARIABLES
    cmds,     \* the commands in the order they were saved
    run,      \* the cooperative run of the workspace and its recovery permits
    dec,      \* the versions of a decision, the last one current
    held,     \* the brain holds the controller
    send,     \* dashboard, volatile: how far the sender of a command is
    watching, \* dashboard, volatile: the commands whose turn is observed
    native,   \* Codex: the turns started for a command and the last one's state
    crashes

ledgerVars == <<cmds, run, dec, held>>
hostVars == <<send, watching, native, crashes>>
commandVars == <<ledgerVars, hostVars>>

Ids == 1 .. MaxCommands
Saved == DOMAIN cmds
Controls == {"play", "pause", "resume"}
Recoveries == {"reply_recovery", "pause_recovery", "receipt_recovery", "checkpoint_recovery"}
Kinds == Controls \cup Recoveries \cup {"message", "decision_response", "catalog"}

\* A command as it is saved.  "of" is the message, Pause or decision version it
\* is about, "seen" how many turns Codex had run when its preview looked,
\* "loaded" the idle observation retained at the send boundary, "closed" the
\* saved end of its observation.
Command(kind, of, seen) ==
    [kind |-> kind, of |-> of, seen |-> seen, status |-> "queued", note |-> "none",
     failed |-> FALSE, tries |-> 1, received |-> FALSE, replied |-> FALSE,
     loaded |-> FALSE, closed |-> FALSE]

Append1(c) == Append(cmds, c)
CanSave(n) == Len(cmds) + n <= MaxCommands

NoPermit == [id |-> 0, of |-> 0, prior |-> 0, status |-> "none", late |-> FALSE]
NoRun == [status |-> "none", pause |-> NoPermit, receipt |-> NoPermit, wake |-> NoPermit]
Open(permit) == permit.status \in {"queued", "processing"}

OfKind(kind) == {c \in Saved : cmds[c].kind = kind}
Waiting(c) == cmds[c].status \in {"queued", "processing"}
Stopped == run.status \in {"stopping", "paused"}

\* conversation.pending and decisions.receive: what still needs an answer.
Pending(c) == cmds[c].kind = "message" /\ ~cmds[c].replied
PendingMessages == {c \in Saved : Pending(c)}
Current(c) == dec[cmds[c].of].status = "answered" /\ dec[cmds[c].of].by = c
OpenDecision == \E v \in DOMAIN dec : dec[v].status \in {"open", "answered"}

\* What native metadata shows: no turn is at work, and how many there were.
Turns == FoldFunctionOnSet(LAMBDA n, m : n.starts + m, 0, native, Ids)
Idle == \A c \in Ids : native[c].state # "working"

\* pause_recovery.pre_turn_failure: the retained proof that no turn was started.
\* Faulty variant: any unconfirmed delivery counts as a failed one.
PreTurnFailureAny(c) == cmds[c].note \in {"unavailable", "uncertain"}
PreTurnFailure(c) == cmds[c].note = "unavailable" /\ cmds[c].failed

\* The two guards of every brain operation during a recovery turn.
NoOpenPauseRecovery == ~Open(run.pause) /\ ~Open(run.receipt)
===============================================================================
