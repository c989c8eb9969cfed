----------------------------- MODULE Notification -----------------------------
(***************************************************************************)
(* The wake of the brain about one command: a durable claim, the send on   *)
(* the owned connection, the report of its result, and the observer of the *)
(* turn.  Sender and observer live in the dashboard process and die with   *)
(* it; the claim and the native turn do not.                               *)
(***************************************************************************)
EXTENDS WakeRecovery

\* notify, first transaction: conditions of each kind.
MayClaim(c) ==
    CASE cmds[c].kind = "checkpoint_recovery" -> run.status = "paused" /\ run.wake.id = c
      [] cmds[c].kind = "decision_response" -> ~Stopped /\ Current(c)
      [] cmds[c].kind = "message" -> ~Stopped
      [] OTHER -> RecoveryValid(c)

\* The claim is durable before the send.  Without a configured host or its
\* retained hand-off it is one of non-delivery, which proves nothing more.
Claim(c) ==
    /\ cmds[c].status = "queued" /\ cmds[c].note = "none" /\ send[c] = "idle"
    /\ MayClaim(c)
    /\ \/ /\ cmds' = [cmds EXCEPT ![c].note = "sending"]
          /\ send' = [send EXCEPT ![c] = "claimed"]
       \/ /\ cmds' = [cmds EXCEPT ![c].note = "unavailable"]
          /\ UNCHANGED send
    /\ UNCHANGED <<run, dec, held, watching, native, crashes, approvalVars>>

\* request_catalog_refresh on a saved request: a retry after non-delivery only.
RetryRefresh(c) ==
    /\ cmds[c].kind = "catalog" /\ cmds[c].status = "queued"
    /\ cmds[c].note = "unavailable" /\ cmds[c].tries < 3
    /\ cmds' = [cmds EXCEPT ![c].note = "none", ![c].failed = FALSE, ![c].tries = @ + 1]
    /\ UNCHANGED <<run, dec, held, hostVars, approvalVars>>

\* send_check repeats the review of a recovery on the connection of the send.
SendCheck(c) ==
    cmds[c].kind \in {"reply_recovery", "pause_recovery", "receipt_recovery"} =>
        RecoveryValid(c) /\ Idle /\ cmds[c].seen = Turns

\* send, up to the resume: an idle brain and the first check.
Probe(c) ==
    /\ send[c] = "claimed"
    /\ Idle /\ SendCheck(c)
    /\ send' = [send EXCEPT ![c] = "probed"]
    /\ UNCHANGED <<ledgerVars, watching, native, crashes, approvalVars>>

\* send gives up before its effect and reports non-delivery.  Only an exception
\* of its first stages keeps a diagnostic that proves no turn was started.
Refuse(c) ==
    /\ send[c] \in {"claimed", "probed"}
    /\ \E proof \in BOOLEAN :
          cmds' = [cmds EXCEPT ![c].note = "unavailable", ![c].failed = proof]
    /\ send' = [send EXCEPT ![c] = "idle"]
    /\ UNCHANGED <<run, dec, held, watching, native, crashes, approvalVars>>

\* send from the second check on.  The observation record and the effect follow;
\* an effect or an acknowledgement that is lost leaves the delivery uncertain.
Start(c) ==
    /\ send[c] = "probed" /\ SendCheck(c)
    /\ cmds[c].note = "sending"
    /\ cmds' = [cmds EXCEPT ![c].loaded = cmds[c].kind = "receipt_recovery"]
    /\ LET begun == [native EXCEPT ![c] = [state |-> "working", starts |-> @.starts + 1]]
       IN  \/ /\ native' = begun
              /\ send' = [send EXCEPT ![c] = "started"]
              /\ watching' = watching \cup {c}
           \/ /\ native' \in {native, begun}
              /\ send' = [send EXCEPT ![c] = "lost"]
              /\ UNCHANGED watching
    /\ UNCHANGED <<run, dec, held, crashes, approvalVars>>

Note(result) == IF result = "started" THEN "accepted" ELSE "uncertain"

\* Faulty variant: the command as it was claimed is put back.
FinishStale(c) ==
    /\ send[c] \in {"started", "lost"}
    /\ cmds' = [cmds EXCEPT ![c].note = Note(send[c]), ![c].status = "queued"]
    /\ send' = [send EXCEPT ![c] = "idle"]
    /\ UNCHANGED <<run, dec, held, watching, native, crashes, approvalVars>>

\* notify, last transaction: the result joins whatever the brain did meanwhile.
Finish(c) ==
    /\ send[c] \in {"started", "lost"}
    /\ cmds' = [cmds EXCEPT ![c].note = Note(send[c])]
    /\ send' = [send EXCEPT ![c] = "idle"]
    /\ UNCHANGED <<run, dec, held, watching, native, crashes, approvalVars>>

\* Codex ends the turn.
EndTurn(c) ==
    /\ native[c].state = "working"
    /\ native' = [native EXCEPT ![c].state = "ended"]
    /\ UNCHANGED <<ledgerVars, send, watching, crashes, approvalVars>>

\* _observe_turn: the end of the turn, or of the connection or its deadline.
\* The saved end of an observation is read of a Pause only.
Observe(c) ==
    /\ c \in watching /\ ask.cmd # c
    /\ \E closed \in {native[c].state = "ended" /\ cmds[c].kind = "pause", FALSE} :
          cmds' = [cmds EXCEPT ![c].closed = closed]
    /\ watching' = watching \ {c}
    /\ UNCHANGED <<run, dec, held, send, native, crashes, approvalVars>>

\* The dashboard process dies, with every sender, observer and offer in it.
\* What it means for an observer alone is an Observe that saves no end.
Crash ==
    /\ crashes < MaxCrashes
    /\ Offered \/ owner # "idle" \/ \E c \in Ids : send[c] # "idle"
    /\ crashes' = crashes + 1
    /\ send' = [c \in Ids |-> "idle"] /\ watching' = {}
    /\ ask' = NoAsk /\ owner' = "idle"
    /\ UNCHANGED <<ledgerVars, native, entry, req, frame>>

Sending(c) == Probe(c) \/ Refuse(c) \/ Start(c) \/ Finish(c)

WakeStep ==
    \/ \E c \in Saved : Claim(c) \/ RetryRefresh(c) \/ Sending(c) \/ EndTurn(c) \/ Observe(c)
    \/ Crash
===============================================================================
