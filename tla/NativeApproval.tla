---------------------------- MODULE NativeApproval ----------------------------
(***************************************************************************)
(* One permission request that Codex raises during an owned turn.  The     *)
(* observer of the turn offers it in memory, the owner's decision is       *)
(* claimed in the ledger by another thread, and the observer alone writes  *)
(* the response on its connection.                                         *)
(***************************************************************************)
EXTENDS Commands

VARIABLES
    ask,    \* dashboard, volatile: the offered request
    owner,  \* dashboard, volatile: the thread that confirms a decision
    entry,  \* ledger: the one-shot decision intent of the request
    req,    \* Codex: the request
    frame   \* Codex: the response frames it was sent

approvalVars == <<ask, owner, entry, req, frame>>

NoAsk == [cmd |-> 0, choice |-> "none", at |-> "none", seen |-> "none", row |-> "none",
          sent |-> FALSE, expired |-> FALSE]
NoEntry == [cmd |-> 0, choice |-> "none", status |-> "none"]
Offered == ask.cmd # 0

\* pending_approval: the prompt the owner may answer.
Answerable == Offered /\ ask.choice = "none" /\ ~ask.expired

\* _offer_approval up to the wait: the observer meets a request of its turn.
Offer(c) ==
    /\ c \in watching /\ native[c].state = "working"
    /\ ~Offered /\ req = "none"
    /\ req' = "open"
    /\ ask' = [NoAsk EXCEPT !.cmd = c, !.at = "waiting"]
    /\ UNCHANGED <<ledgerVars, hostVars, owner, entry, frame>>

\* NativeApprovalControls.confirm, its first transaction.
OwnerClaim(choice) ==
    /\ owner = "idle" /\ Answerable /\ entry = NoEntry
    /\ cmds[ask.cmd].note = "accepted"
    /\ choice = "accept" => run.status = "running"
    /\ entry' = [cmd |-> ask.cmd, choice |-> choice, status |-> "claimed"]
    /\ owner' = "claimed"
    /\ UNCHANGED <<ledgerVars, hostVars, ask, req, frame>>

\* confirm_approval, under the lock of the dashboard.
OwnerQueue ==
    /\ owner = "claimed"
    /\ IF Answerable
       THEN owner' = "queued" /\ ask' = [ask EXCEPT !.choice = entry.choice]
       ELSE owner' = "uncertain" /\ UNCHANGED ask
    /\ UNCHANGED <<ledgerVars, hostVars, entry, req, frame>>

\* Its last transaction: an entry the observer has advanced is left alone.
OwnerRecord ==
    /\ owner \in {"queued", "uncertain"}
    /\ entry' = [entry EXCEPT !.status = IF @ = "claimed" THEN owner ELSE @]
    /\ owner' = "idle"
    /\ UNCHANGED <<ledgerVars, hostVars, ask, req, frame>>

\* _record_approval_status: only along the table of prior states.
Prior(status) ==
    CASE status = "response_written" -> {"claimed", "queued"}
      [] status = "resolved" -> {"response_written"}
      [] status \in {"resolved_without_response", "blocked"} -> {"claimed", "queued"}
      [] status = "uncertain" -> {"claimed", "queued", "response_written"}

\* A transaction that fails loses the observation.
Recorded(status) ==
    \/ entry' = [entry EXCEPT !.status = IF @ \in Prior(status) THEN status ELSE @]
    \/ UNCHANGED entry

\* What the reader thread may have found on the connection; a message that is not
\* of this turn is an error.
Rows ==
    {"none", "error"}
    \cup (IF req = "resolved" THEN {"resolved"} ELSE {})
    \cup (IF native[ask.cmd].state = "ended" THEN {"ended"} ELSE {})

\* One turn of the wait: rows and decision are taken together under the lock.
Look ==
    /\ ask.at = "waiting"
    /\ \E row \in Rows :
        /\ row # "none" \/ (ask.choice # "none" /\ ~ask.sent) \/ ask.expired
        /\ ask' = [ask EXCEPT !.at = "looked", !.row = row, !.seen = ask.choice]
    /\ UNCHANGED <<ledgerVars, hostVars, owner, entry, req, frame>>

\* The wait is over before another look.
Elapsed == ask.at = "waiting" /\ ask.expired

\* _offer_approval from the rows on.  A decision was seen only if "seen".
\* Faulty variant: the deadline does not end a wait that has looked.
ConcludeOnRow ==
    \/ ask.at = "looked" /\ ask.row # "none"
    \/ Elapsed

Conclude ==
    \/ ask.at = "looked" /\ ask.row # "none"
    \/ ask.at = "looked" /\ ask.expired
    \/ Elapsed

\* Faulty variant: the end of the turn says that no response was sent.
OutcomeUnsent ==
    CASE ask.row = "error" -> "uncertain"
      [] ask.row = "resolved" -> IF ask.sent THEN "resolved" ELSE "resolved_without_response"
      [] ask.row = "ended" -> "resolved_without_response"
      [] OTHER -> IF ask.sent THEN "uncertain" ELSE "blocked"

Outcome ==
    CASE ask.row = "error" -> "uncertain"
      [] ask.row = "resolved" -> IF ask.sent THEN "resolved" ELSE "resolved_without_response"
      [] ask.row = "ended" -> IF ask.sent THEN "uncertain" ELSE "resolved_without_response"
      [] OTHER -> IF ask.sent THEN "uncertain" ELSE "blocked"

EndWait ==
    /\ Conclude
    /\ IF ask.seen # "none" \/ ask.row = "resolved" THEN Recorded(Outcome) ELSE UNCHANGED entry
    /\ ask' = [ask EXCEPT !.at = IF ask.row = "resolved" /\ ask.sent THEN "resolved"
                                 ELSE IF ask.row = "ended" THEN "over" ELSE "leaving"]
    /\ UNCHANGED <<ledgerVars, hostVars, owner, req, frame>>

\* _accept_authorized_in_db: the last gate, under the lock a Pause takes.
\* Faulty variant: the claim made while the run was running is enough.
AcceptClaimed ==
    /\ cmds[ask.cmd].note = "accepted"
    /\ entry.cmd = ask.cmd /\ entry.choice = "accept" /\ entry.status \in {"claimed", "queued"}

AcceptAuthorized ==
    /\ run.status = "running"
    /\ cmds[ask.cmd].note = "accepted"
    /\ entry.cmd = ask.cmd /\ entry.choice = "accept" /\ entry.status \in {"claimed", "queued"}

\* The observer writes the decision it saw; a write that fails may have arrived.
Respond ==
    /\ ask.at = "looked" /\ ask.row = "none" /\ ~ask.expired /\ ask.seen # "none" /\ ~ask.sent
    /\ IF ask.seen = "accept" /\ ~AcceptAuthorized
       THEN /\ Recorded("blocked")
            /\ ask' = [ask EXCEPT !.at = "leaving"]
            /\ UNCHANGED frame
       ELSE \/ /\ frame' = Append(frame, ask.seen)
               /\ ask' = [ask EXCEPT !.at = "wrote", !.sent = TRUE]
               /\ UNCHANGED entry
            \/ /\ frame' \in {frame, Append(frame, ask.seen)}
               /\ Recorded("uncertain")
               /\ ask' = [ask EXCEPT !.at = "leaving"]
    /\ UNCHANGED <<ledgerVars, hostVars, owner, req>>

RecordWritten ==
    /\ ask.at = "wrote"
    /\ Recorded("response_written")
    /\ ask' = [ask EXCEPT !.at = "waiting", !.row = "none"]
    /\ UNCHANGED <<ledgerVars, hostVars, owner, req, frame>>

\* The finally clause: the offer is withdrawn, and unless the request was
\* resolved after the response the observation of the turn ends with it.
Withdraw ==
    /\ ask.at \in {"resolved", "over", "leaving"}
    /\ ask' = NoAsk
    /\ watching' = IF ask.at = "resolved" THEN watching ELSE watching \ {ask.cmd}
    /\ \E closed \in {ask.at = "over" /\ cmds[ask.cmd].kind = "pause", FALSE} :
          cmds' = [cmds EXCEPT ![ask.cmd].closed = @ \/ closed]
    /\ UNCHANGED <<run, dec, held, send, native, crashes, owner, entry, req, frame>>

\* Codex or its desktop resolves the request; the offer runs out of time.
NativeResolve ==
    /\ req = "open" /\ req' = "resolved"
    /\ UNCHANGED <<ledgerVars, hostVars, ask, owner, entry, frame>>

Expire ==
    /\ Offered /\ ~ask.expired
    /\ ask' = [ask EXCEPT !.expired = TRUE]
    /\ UNCHANGED <<ledgerVars, hostVars, owner, entry, req, frame>>

ApprovalStep ==
    \/ \E c \in Saved : Offer(c)
    \/ \E choice \in {"accept", "decline"} : OwnerClaim(choice)
    \/ OwnerQueue
    \/ OwnerRecord
    \/ Look
    \/ EndWait
    \/ Respond
    \/ RecordWritten
    \/ Withdraw
    \/ NativeResolve
    \/ Expire
===============================================================================
