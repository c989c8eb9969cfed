----------------------------- MODULE MailboxProofs -----------------------------
(***************************************************************************)
(* Theorems about the mailbox for any number of commands, decision         *)
(* versions and dashboard deaths, and without the constraint under which   *)
(* TLC searches it: all concerns of the mailbox at once.                   *)
(***************************************************************************)
EXTENDS Mailbox, SequenceTheorems, TLAPS

-------------------------------------------------------------------------------
(* The inductive invariant. *)

Notes == {"none", "sending", "unavailable", "uncertain", "accepted"}

\* A command, whatever turns its preview saw.
CommandRecords(looks) ==
    [kind : Kinds, of : Nat, seen : looks, status : Statuses, note : Notes, failed : BOOLEAN,
     tries : Nat, received : BOOLEAN, replied : BOOLEAN, loaded : BOOLEAN, closed : BOOLEAN]
Versions == [status : {"open", "answered", "superseded", "received", "resolved"}, by : Nat]
PermitRecords ==
    [id : Nat, of : Nat, prior : Nat, late : BOOLEAN,
     status : {"none", "queued", "processing", "checkpointed", "replied"}]
RunRecords ==
    [status : {"none", "running", "stopping", "paused", "blocked"},
     pause : PermitRecords, receipt : PermitRecords, wake : PermitRecords]

Shape ==
    /\ \E looks : cmds \in Seq(CommandRecords(looks))
    /\ Len(cmds) <= MaxCommands
    /\ dec \in Seq(Versions)
    /\ run \in RunRecords
    /\ send \in [Ids -> {"idle", "claimed", "probed", "started", "lost"}]
    /\ native \in [Ids -> [state : {"none", "working", "ended"}, starts : Nat]]

\* A turn is started only under a claim, which a send in progress still holds; a
\* command that was not claimed, or whose wake provably failed, started none.
Delivered(c) ==
    /\ native[c].starts <= 1
    /\ c \notin Saved => send[c] = "idle" /\ native[c].starts = 0
    /\ c \in Saved =>
          /\ send[c] # "idle" => cmds[c].note = "sending"
          /\ cmds[c].note \in {"none", "unavailable"} \/ send[c] \in {"claimed", "probed"}
                => native[c].starts = 0

\* A Pause is recovered only once its wake failed, and so is a recovery that was
\* replaced: of all attempts only the one that holds the permit may have a turn.
Family(c) ==
    cmds[c].kind = "pause_recovery" =>
        /\ cmds[c].of \in OfKind("pause") /\ cmds[cmds[c].of].note = "unavailable"
        /\ c = run.pause.id \/ cmds[c].note = "unavailable"

\* The permits name commands of their kinds.
PermitsNamed ==
    /\ run.pause.id # 0 => run.pause.id \in OfKind("pause_recovery") /\ run.pause.of \in OfKind("pause")
    /\ run.receipt.id # 0 => run.receipt.id \in OfKind("receipt_recovery") /\ run.receipt.of \in OfKind("pause")
    /\ run.wake.id # 0 => run.wake.id \in OfKind("checkpoint_recovery") /\ run.wake.of \in OfKind("message")
    /\ \A p \in {"pause", "receipt", "wake"} : Open(run[p]) => run[p].id # 0

\* The versions name the answers they wait for.
AnswersKnown ==
    /\ \A v \in DOMAIN dec :
          /\ dec[v].by # 0 => dec[v].by \in OfKind("decision_response")
          /\ dec[v].status \in {"answered", "received"} => dec[v].by # 0
    /\ \A c \in QueuedAnswers : cmds[c].of \in DOMAIN dec /\ Current(c)

\* The offer, the owner's decision and the frames of the one native request.
AskShape ==
    /\ ask \in [cmd : Nat, choice : {"none", "accept", "decline"},
                at : {"none", "waiting", "looked", "wrote", "resolved", "over", "leaving"},
                seen : {"none", "accept", "decline"},
                row : {"none", "error", "resolved", "ended"}, sent : BOOLEAN, expired : BOOLEAN]
    /\ entry \in [cmd : Nat, choice : {"none", "accept", "decline"},
                  status : {"none", "claimed", "queued", "uncertain", "response_written", "resolved",
                            "resolved_without_response", "blocked"}]
    /\ owner \in {"idle", "claimed", "queued", "uncertain"}
    /\ ask.at = "none" => ask = NoAsk
    /\ ask.at # "none" => ask.cmd \in Saved
RequestAgrees ==
    /\ req = "none" => ask = NoAsk /\ entry = NoEntry
    /\ entry = NoEntry => frame = <<>> /\ owner = "idle" /\ ask.choice = "none"
    /\ entry # NoEntry => entry.choice # "none" /\ entry.status # "none"
    /\ ask.choice \in {"none", entry.choice} /\ ask.seen \in {"none", ask.choice}
    /\ frame \in {<<>>, <<entry.choice>>}
    /\ ask.sent => frame # <<>>
    /\ ask.at \in {"waiting", "looked"} /\ ~ask.sent => frame = <<>>
    /\ ask.at = "wrote" => ask.sent
    /\ entry.status \in {"response_written", "resolved"} => frame # <<>>
    /\ entry.status \in {"blocked", "resolved_without_response"} => frame = <<>>
    /\ entry.status \in {"blocked", "resolved_without_response", "resolved"} =>
          ask.at \notin {"waiting", "looked", "wrote"}

IInv ==
    /\ Shape
    /\ \A c \in Ids : Delivered(c)
    /\ \A c \in Saved : Family(c)
    /\ PermitsNamed /\ PermitsAgree
    /\ AnswersKnown
    /\ AskShape /\ RequestAgrees
-------------------------------------------------------------------------------
(* The table of commands. *)

Table(looks) == cmds \in Seq(CommandRecords(looks)) /\ Len(cmds) <= MaxCommands

\* The saved commands are numbered from one and typed.
LEMMA TableTyped ==
    ASSUME NEW looks, Table(looks)
    PROVE  /\ Saved = 1 .. Len(cmds) /\ Len(cmds) \in Nat /\ Saved \subseteq Ids
           /\ \A c \in Saved : cmds[c] \in CommandRecords(looks)
BY MailboxBounds DEF Table, Saved, Ids

\* A table whose commands move and keep their kinds.
LEMMA TableMoved ==
    ASSUME NEW looks, Table(looks), NEW s, s = [c \in Saved |-> s[c]],
           \A c \in Saved : s[c] \in CommandRecords(looks)
    PROVE  /\ s \in Seq(CommandRecords(looks)) /\ Len(s) = Len(cmds) /\ DOMAIN s = Saved
<1>1. Saved = 1 .. Len(cmds) /\ Len(cmds) \in Nat
    BY TableTyped
<1> QED BY <1>1

\* A sequence over a set is one over a larger set.
LEMMA SeqWider ==
    ASSUME NEW A, NEW B, A \subseteq B, NEW s \in Seq(A)
    PROVE  s \in Seq(B)
<1>1. Len(s) \in Nat /\ s = [c \in 1 .. Len(s) |-> s[c]] /\ \A c \in 1 .. Len(s) : s[c] \in A
    OBVIOUS
<1>2. \A c \in 1 .. Len(s) : s[c] \in B
    BY <1>1
<1>3. [c \in 1 .. Len(s) |-> s[c]] \in Seq(B)
    BY <1>1, <1>2
<1> QED BY <1>1, <1>3

\* A new command.
LEMMA TableGrown ==
    ASSUME NEW looks, NEW s \in Seq(CommandRecords(looks)), NEW kind \in Kinds, NEW of \in Nat, NEW seen
    PROVE  LET n == Append(s, Command(kind, of, seen)) IN
           /\ n \in Seq(CommandRecords(looks \cup {seen})) /\ Len(n) = Len(s) + 1
           /\ \A c \in 1 .. Len(s) : n[c] = s[c]
           /\ n[Len(s) + 1] = Command(kind, of, seen)
<1>1. Command(kind, of, seen) \in CommandRecords(looks \cup {seen})
    BY DEF Command, CommandRecords, Statuses, Notes
<1>2. CommandRecords(looks) \subseteq CommandRecords(looks \cup {seen})
    BY DEF CommandRecords
<1>3. s \in Seq(CommandRecords(looks \cup {seen}))
    BY <1>2, SeqWider
<1> QED BY <1>1, <1>3

\* One command in a new state.
LEMMA TableEdited ==
    ASSUME NEW looks, Table(looks), NEW c \in Saved, NEW r \in CommandRecords(looks),
           cmds' = [cmds EXCEPT ![c] = r]
    PROVE  /\ Table(looks)' /\ Len(cmds') = Len(cmds) /\ Saved' = Saved
           /\ cmds'[c] = r /\ \A d \in Saved \ {c} : cmds'[d] = cmds[d]
<1>1. Saved = 1 .. Len(cmds) /\ Len(cmds) \in Nat /\ \A d \in Saved : cmds[d] \in CommandRecords(looks)
    BY TableTyped
<1>2. /\ cmds' = [d \in Saved |-> cmds'[d]]
      /\ cmds'[c] = r /\ \A d \in Saved \ {c} : cmds'[d] = cmds[d]
    BY DEF Saved, Table
<1>3. \A d \in Saved : cmds'[d] \in CommandRecords(looks)
    BY <1>1, <1>2
<1>4. cmds' \in Seq(CommandRecords(looks)) /\ Len(cmds') = Len(cmds) /\ DOMAIN cmds' = Saved
    BY <1>2, <1>3, TableMoved
<1> QED BY <1>2, <1>4 DEF Table, Saved

-------------------------------------------------------------------------------
(* What the steps of the ledger have in common. *)

\* No saved command changes its kind, its subject or the state of its delivery,
\* and a new one was not delivered.
LedgerMoves ==
    /\ Shape' /\ Saved \subseteq Saved'
    /\ \A c \in Saved :
          /\ cmds'[c].kind = cmds[c].kind /\ cmds'[c].of = cmds[c].of
          /\ cmds'[c].note = cmds[c].note
    /\ \A c \in Saved' \ Saved : cmds'[c].note = "none"
    /\ UNCHANGED <<send, native, approvalVars>>

PermitsStay ==
    \A p \in {"pause", "receipt", "wake"} :
        run'[p].id = run[p].id /\ run'[p].of = run[p].of /\ run'[p].status = run[p].status

\* Deliveries and the native request are untouched.
LEMMA LedgerKeeps ==
    ASSUME IInv, LedgerMoves,
           \A c \in Saved' : Family(c)', PermitsNamed', PermitsAgree', AnswersKnown'
    PROVE  IInv'
<1>1. ASSUME NEW c \in Ids PROVE Delivered(c)'
    BY DEF IInv, LedgerMoves, Delivered
<1>2. AskShape' /\ RequestAgrees'
    BY DEF IInv, LedgerMoves, AskShape, RequestAgrees, approvalVars
<1>3. Shape'
    BY DEF LedgerMoves
<1> QED BY <1>1, <1>2, <1>3 DEF IInv

\* A step that confirms no recovery of a Pause keeps what is known of those there are.
LEMMA FamilyStays ==
    ASSUME IInv, LedgerMoves, run'.pause.id = run.pause.id,
           \A c \in Saved' \ Saved : cmds'[c].kind # "pause_recovery"
    PROVE  \A c \in Saved' : Family(c)'
BY DEF IInv, LedgerMoves, Family, OfKind

\* Permits that stay name the same commands.
LEMMA NamesStay ==
    ASSUME IInv, LedgerMoves, PermitsStay
    PROVE  PermitsNamed'
BY DEF IInv, LedgerMoves, PermitsStay, PermitsNamed, OfKind, Open

\* A step that queues no answer leaves the queued ones current.
LEMMA AnswersStay ==
    ASSUME IInv, LedgerMoves, UNCHANGED dec,
           \A c \in Saved' \ Saved : cmds'[c].kind # "decision_response",
           \A c \in OfKind("decision_response") : cmds'[c].status = "queued" => cmds[c].status = "queued"
    PROVE  AnswersKnown'
BY DEF IInv, LedgerMoves, AnswersKnown, QueuedAnswers, OfKind, Current

\* No recovery moves, and no Pause of an open one.
LEMMA PermitsKept ==
    ASSUME IInv, LedgerMoves, PermitsStay,
           \A c \in Saved :
              cmds[c].kind \in Recoveries \ {"reply_recovery"} => cmds'[c].status = cmds[c].status,
           \/ NoOpenPauseRecovery
           \/ /\ run'.status \in {run.status, "stopping"}
              /\ \A c \in OfKind("pause") : cmds'[c].status = cmds[c].status
    PROVE  PermitsAgree'
<1>1. PermitsNamed /\ PermitsAgree
    BY DEF IInv
<1>2. ASSUME NEW p \in {"pause", "receipt", "wake"}, Open(run'[p])
      PROVE  cmds'[run'[p].id].status = run'[p].status
    <2>1. Open(run[p]) /\ run[p].id # 0
        BY <1>1, <1>2 DEF PermitsStay, Open, PermitsNamed
    <2>2. run[p].id \in Saved /\ cmds[run[p].id].kind \in Recoveries \ {"reply_recovery"}
        BY <1>1, <2>1 DEF PermitsNamed, OfKind, Recoveries
    <2> QED BY <1>1, <2>1, <2>2 DEF PermitsStay, PermitsAgree
<1>3. ASSUME NEW p \in {"pause", "receipt"}, Open(run'[p])
      PROVE  /\ run'.status = "stopping"
             /\ cmds'[run'[p].of].status = IF run'[p].status = "queued" THEN "queued" ELSE "completed"
    <2>1. Open(run[p]) /\ run[p].id # 0
        BY <1>1, <1>3 DEF PermitsStay, Open, PermitsNamed
    <2>2. run[p].of \in OfKind("pause")
        BY <1>1, <2>1 DEF PermitsNamed
    <2> QED BY <1>1, <2>1, <2>2 DEF PermitsStay, PermitsAgree, NoOpenPauseRecovery
<1> QED BY <1>2, <1>3 DEF PermitsAgree

\* A step that moves neither permits nor recoveries.
LEMMA QuietKeeps ==
    ASSUME IInv, LedgerMoves, PermitsStay, AnswersKnown',
           \A c \in Saved' \ Saved : cmds'[c].kind # "pause_recovery",
           \A c \in Saved :
              cmds[c].kind \in Recoveries \ {"reply_recovery"} => cmds'[c].status = cmds[c].status,
           \/ NoOpenPauseRecovery
           \/ /\ run'.status \in {run.status, "stopping"}
              /\ \A c \in OfKind("pause") : cmds'[c].status = cmds[c].status
    PROVE  IInv'
<1>1. run'.pause.id = run.pause.id
    BY DEF PermitsStay
<1> QED BY <1>1, FamilyStays, NamesStay, PermitsKept, LedgerKeeps

\* A step of a send, an observer or the native request.
LEMMA BesideKeeps ==
    ASSUME IInv, Shape', Saved' = Saved, UNCHANGED <<run, dec>>,
           \A c \in Saved :
              /\ cmds'[c].kind = cmds[c].kind /\ cmds'[c].of = cmds[c].of
              /\ cmds'[c].status = cmds[c].status
              /\ cmds[c].kind # "catalog" /\ cmds[c].note = "unavailable"
                    => cmds'[c].note = "unavailable",
           \A c \in Ids : Delivered(c)', AskShape', RequestAgrees'
    PROVE  IInv'
<1>1. ASSUME NEW c \in Saved PROVE Family(c)'
    BY DEF IInv, Family, OfKind
<1>2. PermitsNamed'
    BY DEF IInv, PermitsNamed, OfKind
<1>3. PermitsAgree'
    BY DEF IInv, PermitsNamed, PermitsAgree, OfKind
<1>4. AnswersKnown'
    BY DEF IInv, AnswersKnown, QueuedAnswers, OfKind, Current
<1> QED BY <1>1, <1>2, <1>3, <1>4 DEF IInv
-------------------------------------------------------------------------------
(* The three ways in which a commit moves the table. *)

\* What every commit of the ledger keeps beside its commands.
Commits ==
    /\ run' \in RunRecords /\ dec' \in Seq(Versions)
    /\ UNCHANGED <<send, native, approvalVars>>

\* One command more.
LEMMA CommandSaved ==
    ASSUME IInv, Commits, CanSave(1), NEW kind \in Kinds, NEW of \in Nat, NEW seen,
           cmds' = Append1(Command(kind, of, seen))
    PROVE  /\ LedgerMoves /\ Saved' = Saved \cup {Len(cmds) + 1} /\ Len(cmds) + 1 \notin Saved
           /\ \A c \in Saved : cmds'[c] = cmds[c]
           /\ cmds'[Len(cmds) + 1] = Command(kind, of, seen)
<1>1. PICK looks : Table(looks)
    BY DEF IInv, Shape, Table
<1>2. Saved = 1 .. Len(cmds) /\ Len(cmds) \in Nat
    BY <1>1, TableTyped
<1>3. /\ cmds' \in Seq(CommandRecords(looks \cup {seen})) /\ Len(cmds') = Len(cmds) + 1
      /\ \A c \in 1 .. Len(cmds) : cmds'[c] = cmds[c]
      /\ cmds'[Len(cmds) + 1] = Command(kind, of, seen)
    BY <1>1, TableGrown DEF Table, Append1
<1>4. Saved' = 1 .. (Len(cmds) + 1)
    BY <1>3 DEF Saved
<1>5. Len(cmds') <= MaxCommands
    BY <1>2, <1>3, MailboxBounds DEF CanSave
<1>6. Shape'
    BY <1>3, <1>5 DEF IInv, Shape, Commits
<1>7. Command(kind, of, seen).note = "none"
    BY DEF Command
<1> QED BY <1>2, <1>3, <1>4, <1>6, <1>7 DEF LedgerMoves, Commits

\* One command in a new state, whose delivery stays.
LEMMA CommandEdited ==
    ASSUME IInv, Commits, NEW looks, Table(looks), NEW c \in Saved, NEW r \in CommandRecords(looks),
           r.kind = cmds[c].kind, r.of = cmds[c].of, r.note = cmds[c].note,
           cmds' = [cmds EXCEPT ![c] = r]
    PROVE  LedgerMoves /\ Saved' = Saved /\ cmds'[c] = r /\ \A d \in Saved \ {c} : cmds'[d] = cmds[d]
<1>1. /\ Table(looks)' /\ Saved' = Saved /\ cmds'[c] = r
      /\ \A d \in Saved \ {c} : cmds'[d] = cmds[d]
    BY TableEdited
<1>2. Shape'
    BY <1>1 DEF IInv, Shape, Commits, Table
<1> QED BY <1>1, <1>2 DEF LedgerMoves, Commits

\* Every command in a new state, whose deliveries stay.
LEMMA CommandsMapped ==
    ASSUME IInv, Commits, NEW looks, Table(looks), cmds' = [c \in Saved |-> cmds'[c]],
           \A c \in Saved :
              /\ cmds'[c] \in CommandRecords(looks)
              /\ cmds'[c].kind = cmds[c].kind /\ cmds'[c].of = cmds[c].of
              /\ cmds'[c].note = cmds[c].note
    PROVE  LedgerMoves /\ Saved' = Saved
<1>1. Table(looks)' /\ Saved' = Saved
    BY TableMoved DEF Table, Saved
<1>2. Shape'
    BY <1>1 DEF IInv, Shape, Commits, Table
<1> QED BY <1>1, <1>2 DEF LedgerMoves, Commits

-------------------------------------------------------------------------------
(* Steps that move no permit. *)

\* A permit of a Pause is open only while the run stops.
LEMMA PermitRun ==
    ASSUME IInv, run.status # "stopping"
    PROVE  NoOpenPauseRecovery
BY DEF IInv, PermitsAgree, NoOpenPauseRecovery

\* The owner's controls, and a message.
LEMMA SavedQuietly ==
    ASSUME IInv, CanSave(1), NEW kind \in Kinds \ {"pause_recovery", "decision_response"},
           NEW of \in Nat, NEW seen, cmds' = Append1(Command(kind, of, seen)),
           NEW to \in {"none", "running", "stopping", "paused", "blocked"},
           run' = [run EXCEPT !.status = to],
           to \in {run.status, "stopping"} \/ run.status # "stopping",
           UNCHANGED <<dec, send, native, approvalVars>>
    PROVE  IInv'
<1>1. run \in RunRecords /\ dec \in Seq(Versions)
    BY DEF IInv, Shape
<1>2. run' \in RunRecords /\ PermitsStay /\ run'.status = to
    BY <1>1 DEF RunRecords, PermitsStay
<1>3. Commits
    BY <1>1, <1>2 DEF Commits
<1>4. /\ LedgerMoves /\ Saved' = Saved \cup {Len(cmds) + 1}
      /\ \A c \in Saved : cmds'[c] = cmds[c]
      /\ cmds'[Len(cmds) + 1] = Command(kind, of, seen)
    BY <1>3, CommandSaved
<1>5. \A c \in Saved' \ Saved : cmds'[c].kind = kind
    BY <1>4 DEF Command
<1>6. AnswersKnown'
    BY <1>4, <1>5, AnswersStay DEF OfKind
<1> QED BY <1>2, <1>4, <1>5, <1>6, PermitRun, QuietKeeps DEF OfKind

\* The owner's controls and the controller.
LEMMA RunStepKeeps ==
    ASSUME IInv, RunStep, \A outcome \in {"paused", "blocked"} : ~Checkpoint(outcome)
    PROVE  IInv'
<1>1. run \in RunRecords /\ dec \in Seq(Versions) /\ run = [run EXCEPT !.status = run.status]
    BY DEF IInv, Shape, RunRecords
<1>2. CASE Play \/ Pause \/ Resume
    <2>1. ASSUME NEW op \in Controls, NEW to \in {"running", "stopping"}, Control(op, to),
                 to = "stopping" \/ run.status # "stopping"
          PROVE  IInv'
        BY <2>1, SavedQuietly DEF Control, hostVars, Controls, Kinds
    <2> QED BY <1>2, <2>1 DEF Play, Pause, Resume, Controls
<1>3. CASE RequestRefresh
    BY <1>1, <1>3, SavedQuietly DEF RequestRefresh, hostVars, Kinds, RunRecords
<1>4. CASE Acquire \/ Release \/ RecoverController
    <2>1. UNCHANGED <<cmds, dec, send, native, approvalVars>>
        BY <1>4 DEF Acquire, Release, RecoverController, hostVars
    <2>2. run' \in RunRecords /\ PermitsStay /\ run'.status \in {run.status, "stopping"}
        BY <1>1, <1>4 DEF Acquire, Release, RecoverController, RunRecords, PermitsStay
    <2>3. LedgerMoves
        BY <2>1, <2>2 DEF IInv, Shape, LedgerMoves, Saved
    <2>4. AnswersKnown'
        BY <2>1, <2>3, AnswersStay DEF Saved
    <2> QED BY <2>1, <2>2, <2>3, <2>4, QuietKeeps DEF Saved
<1> QED BY <1>2, <1>3, <1>4 DEF RunStep

\* One command in a new state, the rest of the ledger as it was.
LEMMA EditedQuietly ==
    ASSUME IInv, NEW looks, Table(looks), NEW c \in Saved, NEW r \in CommandRecords(looks),
           r.kind = cmds[c].kind, r.of = cmds[c].of, r.note = cmds[c].note,
           cmds' = [cmds EXCEPT ![c] = r], UNCHANGED <<run, dec, send, native, approvalVars>>,
           cmds[c].kind \notin {"pause_recovery", "receipt_recovery", "checkpoint_recovery",
                                "decision_response"},
           NoOpenPauseRecovery \/ cmds[c].kind # "pause"
    PROVE  IInv'
<1>1. Commits
    BY DEF IInv, Shape, Commits
<1>2. LedgerMoves /\ Saved' = Saved /\ cmds'[c] = r /\ \A d \in Saved \ {c} : cmds'[d] = cmds[d]
    BY <1>1, CommandEdited
<1>3. PermitsStay
    BY DEF PermitsStay
<1>4. AnswersKnown'
    BY <1>2, AnswersStay DEF OfKind
<1> QED BY <1>2, <1>3, <1>4, QuietKeeps DEF Recoveries, OfKind

\* What a receipt makes of a message.
LEMMA ReceivedTyped ==
    ASSUME NEW looks, NEW m \in CommandRecords(looks)
    PROVE  /\ Received(m) \in CommandRecords(looks)
           /\ Received(m).kind = m.kind /\ Received(m).of = m.of /\ Received(m).note = m.note
           /\ Received(m).status \in {m.status, "processing"}
<1> DEFINE status == IF m.received \/ m.replied THEN m.status ELSE "processing"
           received == m.received \/ ~m.replied
<1>1. Received(m) = [m EXCEPT !.status = status, !.received = received]
    BY DEF Received
<1>2. received \in BOOLEAN
    OBVIOUS
<1>3. status \in Statuses /\ status \in {m.status, "processing"}
    BY DEF CommandRecords, Statuses
<1> HIDE DEF status, received
<1> QED BY <1>1, <1>2, <1>3 DEF CommandRecords

\* A command keeps its kind, its subject and the state of its delivery.
Same(r, m) == r.kind = m.kind /\ r.of = m.of /\ r.note = m.note

\* What the brain's transactions make of one command.
LEMMA StatusMoved ==
    ASSUME NEW looks, NEW m \in CommandRecords(looks), NEW to \in Statuses
    PROVE  /\ [m EXCEPT !.status = to] \in CommandRecords(looks)
           /\ Same([m EXCEPT !.status = to], m)
           /\ [m EXCEPT !.status = to, !.received = TRUE] \in CommandRecords(looks)
           /\ Same([m EXCEPT !.status = to, !.received = TRUE], m)
           /\ [m EXCEPT !.status = to, !.replied = TRUE] \in CommandRecords(looks)
           /\ Same([m EXCEPT !.status = to, !.replied = TRUE], m)
BY DEF CommandRecords, Same

\* The receipts of one command and the messages of the owner.
LEMMA ReceiptsKeep ==
    ASSUME IInv, \/ SubmitMessage \/ SubmitReplyRecovery
                 \/ \E c \in Saved : \/ ReceiveMessage(c) \/ ReceiveControl(c) \/ CatalogReceipt(c)
                                     \/ ReceiveReplyRecovery(c)
    PROVE  IInv'
<1>1. PICK looks : Table(looks)
    BY DEF IInv, Shape, Table
<1>2. \A c \in Saved : cmds[c] \in CommandRecords(looks)
    BY <1>1, TableTyped
<1>3. Saved = 1 .. Len(cmds) /\ Len(cmds) \in Nat
    BY <1>1, TableTyped
<1>4. run \in RunRecords
    BY DEF IInv, Shape
<1>5. run = [run EXCEPT !.status = run.status]
      /\ run.status \in {"none", "running", "stopping", "paused", "blocked"}
    BY <1>4 DEF RunRecords
<1>6. CASE SubmitMessage
    <2>1. CanSave(1) /\ cmds' = Append1(Command("message", 0, 0))
          /\ UNCHANGED <<run, dec, send, native, approvalVars>>
        BY <1>6 DEF SubmitMessage, hostVars
    <2> QED BY <1>5, <2>1, SavedQuietly DEF Kinds
<1>7. CASE SubmitReplyRecovery
    <2>1. PICK m \in PendingMessages : cmds' = Append1(Command("reply_recovery", m, Turns))
        BY <1>7 DEF SubmitReplyRecovery
    <2>2. CanSave(1) /\ UNCHANGED <<run, dec, send, native, approvalVars>>
        BY <1>7 DEF SubmitReplyRecovery, hostVars
    <2>3. m \in Nat
        BY <1>3 DEF PendingMessages
    <2> QED BY <1>5, <2>1, <2>2, <2>3, SavedQuietly DEF Kinds, Recoveries
<1>8. ASSUME NEW c \in Saved, ReceiveMessage(c) PROVE IInv'
    <2>1. cmds' = [cmds EXCEPT ![c] = Received(cmds[c])] /\ cmds[c].kind = "message"
          /\ UNCHANGED <<run, dec, send, native, approvalVars>>
        BY <1>8 DEF ReceiveMessage, hostVars
    <2>2. /\ Received(cmds[c]) \in CommandRecords(looks)
          /\ Received(cmds[c]).kind = cmds[c].kind /\ Received(cmds[c]).of = cmds[c].of
          /\ Received(cmds[c]).note = cmds[c].note
        BY <1>2, ReceivedTyped
    <2> QED BY <1>1, <2>1, <2>2, EditedQuietly
<1>9. ASSUME NEW c \in Saved, NEW to \in Statuses, cmds' = [cmds EXCEPT ![c].status = to],
             UNCHANGED <<run, dec, send, native, approvalVars>>, NoOpenPauseRecovery,
             cmds[c].kind \in Controls \cup {"catalog"}
      PROVE  IInv'
    <2> DEFINE r == [cmds[c] EXCEPT !.status = to]
    <2>1. r \in CommandRecords(looks) /\ Same(r, cmds[c])
        BY <1>2, StatusMoved
    <2>2. cmds' = [cmds EXCEPT ![c] = r]
        BY <1>9
    <2> HIDE DEF r
    <2> QED BY <1>1, <1>9, <2>1, <2>2, EditedQuietly DEF Controls, Same
<1>10. ASSUME NEW c \in Saved, ReceiveControl(c) PROVE IInv'
    BY <1>9, <1>10 DEF ReceiveControl, hostVars, Statuses
<1>11. ASSUME NEW c \in Saved, CatalogReceipt(c) PROVE IInv'
    BY <1>9, <1>11 DEF CatalogReceipt, hostVars, Statuses
<1>12. ASSUME NEW c \in Saved, ReceiveReplyRecovery(c) PROVE IInv'
    <2> DEFINE r == [cmds[c] EXCEPT !.status = "processing", !.received = TRUE]
    <2>1. r \in CommandRecords(looks) /\ Same(r, cmds[c])
        BY <1>2, StatusMoved DEF Statuses
    <2>2. cmds' = [cmds EXCEPT ![c] = r] /\ cmds[c].kind = "reply_recovery"
          /\ UNCHANGED <<run, dec, send, native, approvalVars>>
        BY <1>12 DEF ReceiveReplyRecovery, hostVars
    <2> HIDE DEF r
    <2> QED BY <1>1, <2>1, <2>2, EditedQuietly DEF Same
<1> QED BY <1>6, <1>7, <1>8, <1>10, <1>11, <1>12

-------------------------------------------------------------------------------
(* Decisions. *)

\* A drain takes the queued answers or none.
LEMMA AnswersTaken ==
    ASSUME IInv, NEW taken \in {{}, QueuedAnswers},
           dec' = [v \in DOMAIN dec |-> AnswerTaken(taken, v)]
    PROVE  /\ dec' \in Seq(Versions) /\ DOMAIN dec' = DOMAIN dec
           /\ \A v \in DOMAIN dec :
                 /\ dec'[v].by = dec[v].by
                 /\ dec'[v].status = dec[v].status
                       \/ (dec[v].by \in taken /\ dec'[v].status = "received" /\ dec[v].status = "answered")
<1>1. dec \in Seq(Versions)
    BY DEF IInv, Shape
<1>2. ASSUME NEW v \in DOMAIN dec
      PROVE  /\ AnswerTaken(taken, v) \in Versions /\ AnswerTaken(taken, v).by = dec[v].by
             /\ AnswerTaken(taken, v).status = dec[v].status
                   \/ (dec[v].by \in taken /\ AnswerTaken(taken, v).status = "received"
                         /\ dec[v].status = "answered")
    <2>1. dec[v] \in Versions
        BY <1>1
    <2> QED BY <2>1 DEF AnswerTaken, Versions
<1>3. DOMAIN dec = 1 .. Len(dec) /\ Len(dec) \in Nat
    BY <1>1
<1>4. dec' \in Seq(Versions)
    BY <1>2, <1>3
<1> QED BY <1>2, <1>4

\* What a drain leaves queued is still current.
LEMMA TakenAnswersKnown ==
    ASSUME IInv, LedgerMoves, Saved' = Saved, NEW taken \in {{}, QueuedAnswers},
           dec' = [v \in DOMAIN dec |-> AnswerTaken(taken, v)],
           \A c \in OfKind("decision_response") :
              cmds'[c].status = "queued" => c \notin taken /\ cmds[c].status = "queued"
    PROVE  AnswersKnown'
<1>1. /\ DOMAIN dec' = DOMAIN dec
      /\ \A v \in DOMAIN dec :
            /\ dec'[v].by = dec[v].by
            /\ dec'[v].status = dec[v].status
                  \/ (dec[v].by \in taken /\ dec'[v].status = "received" /\ dec[v].status = "answered")
    BY AnswersTaken
<1>2. AnswersKnown
    BY DEF IInv
<1>3. ASSUME NEW v \in DOMAIN dec'
      PROVE  /\ dec'[v].by # 0 => dec'[v].by \in OfKind("decision_response")'
             /\ dec'[v].status \in {"answered", "received"} => dec'[v].by # 0
    BY <1>1, <1>2 DEF AnswersKnown, LedgerMoves, OfKind
<1>4. ASSUME NEW c \in QueuedAnswers' PROVE cmds'[c].of \in DOMAIN dec' /\ Current(c)'
    <2>1. c \in QueuedAnswers /\ c \notin taken /\ cmds'[c].of = cmds[c].of
        BY <1>4 DEF QueuedAnswers, OfKind, LedgerMoves
    <2> QED BY <1>1, <1>2, <2>1 DEF AnswersKnown, Current
<1> QED BY <1>3, <1>4 DEF AnswersKnown

\* The two drains of the brain.
LEMMA DrainsKeep ==
    ASSUME IInv, Process \/ Receive
    PROVE  IInv'
<1>1. PICK looks : Table(looks)
    BY DEF IInv, Shape, Table
<1>2. \A c \in Saved : cmds[c] \in CommandRecords(looks)
    BY <1>1, TableTyped
<1>3. \A c \in Saved : Received(cmds[c]) \in CommandRecords(looks) /\ Same(Received(cmds[c]), cmds[c])
         /\ Received(cmds[c]).status \in {cmds[c].status, "processing"}
    BY <1>2, ReceivedTyped DEF Same
<1>4. \A c \in Saved, to \in {"processing", "completed"} :
         LET r == [cmds[c] EXCEPT !.status = to] IN
         r \in CommandRecords(looks) /\ Same(r, cmds[c]) /\ r.status = to
    <2>1. ASSUME NEW c \in Saved, NEW to \in {"processing", "completed"}
          PROVE  LET r == [cmds[c] EXCEPT !.status = to] IN
                 r \in CommandRecords(looks) /\ Same(r, cmds[c])
        BY <1>2, StatusMoved DEF Statuses
    <2> QED BY <1>2, <2>1 DEF CommandRecords
<1>5. UNCHANGED <<run, send, native, approvalVars>>
    BY DEF Process, Receive, hostVars
<1>6. run \in RunRecords
    BY DEF IInv, Shape
<1>7. PICK taken \in {{}, QueuedAnswers} :
        /\ dec' = [v \in DOMAIN dec |-> AnswerTaken(taken, v)]
        /\ cmds' = [c \in Saved |-> cmds'[c]]
        /\ \A c \in Saved :
              \/ cmds[c].kind = "message" /\ cmds'[c] = Received(cmds[c])
              \/ /\ cmds[c].kind \in Controls \cup {"catalog"} /\ NoOpenPauseRecovery
                 /\ cmds'[c] = [cmds[c] EXCEPT !.status = "completed"]
              \/ c \in taken /\ cmds'[c] = [cmds[c] EXCEPT !.status = "processing"]
              \/ c \notin taken /\ cmds'[c] = cmds[c]
    <2>1. CASE Process
        <3>1. /\ cmds' = [c \in Saved |-> cmds'[c]]
              /\ \A c \in Saved :
                    \/ cmds[c].kind = "message" /\ cmds'[c] = Received(cmds[c])
                    \/ c \in QueuedAnswers /\ cmds'[c] = [cmds[c] EXCEPT !.status = "processing"]
                    \/ c \notin QueuedAnswers /\ cmds'[c] = cmds[c]
            BY <2>1 DEF Process
        <3> QED BY <2>1, <3>1 DEF Process
    <2>2. CASE Receive
        <3> DEFINE answers == IF Stopped THEN {} ELSE QueuedAnswers
        <3>1. /\ cmds' = [c \in Saved |-> cmds'[c]]
              /\ \A c \in Saved :
                    \/ Pending(c) /\ cmds'[c] = Received(cmds[c])
                    \/ /\ cmds[c].kind \in Controls \cup {"catalog"}
                       /\ cmds'[c] = [cmds[c] EXCEPT !.status = "completed"]
                    \/ c \in answers /\ cmds'[c] = [cmds[c] EXCEPT !.status = "processing"]
                    \/ c \notin answers /\ cmds'[c] = cmds[c]
            BY <2>2 DEF Receive
        <3>2. /\ dec' = [v \in DOMAIN dec |-> AnswerTaken(answers, v)]
              /\ answers \in {{}, QueuedAnswers} /\ NoOpenPauseRecovery
            BY <2>2 DEF Receive
        <3> HIDE DEF answers
        <3> QED BY <3>1, <3>2 DEF Pending
    <2> QED BY <2>1, <2>2
<1>8. ASSUME NEW c \in Saved PROVE cmds'[c] \in CommandRecords(looks) /\ Same(cmds'[c], cmds[c])
    <2>1. Same(cmds[c], cmds[c])
        BY DEF Same
    <2>2. CASE cmds'[c] = Received(cmds[c])
        BY <1>3, <2>2
    <2>3. CASE \E to \in {"processing", "completed"} : cmds'[c] = [cmds[c] EXCEPT !.status = to]
        BY <1>4, <2>3
    <2>4. CASE cmds'[c] = cmds[c]
        BY <1>2, <2>1, <2>4
    <2> QED BY <1>7, <2>2, <2>3, <2>4
<1>9. LedgerMoves /\ Saved' = Saved
    <2>1. Commits
        BY <1>5, <1>6, <1>7, AnswersTaken DEF Commits
    <2> QED BY <1>1, <1>7, <1>8, <2>1, CommandsMapped DEF Same
<1>10. ASSUME NEW c \in OfKind("decision_response"), cmds'[c].status = "queued"
       PROVE  c \notin taken /\ cmds[c].status = "queued"
    BY <1>4, <1>7, <1>10 DEF OfKind, Controls
<1>11. AnswersKnown'
    BY <1>7, <1>9, <1>10, TakenAnswersKnown
<1>12. ASSUME NEW c \in Saved, cmds[c].kind \in Recoveries \ {"reply_recovery"}
       PROVE  cmds'[c].status = cmds[c].status
    BY <1>7, <1>12 DEF Recoveries, Controls, QueuedAnswers, OfKind
<1>13. NoOpenPauseRecovery \/ \A c \in OfKind("pause") : cmds'[c].status = cmds[c].status
    BY <1>7 DEF OfKind, QueuedAnswers
<1>14. PermitsStay /\ run'.status = run.status
    BY <1>5 DEF PermitsStay
<1> QED BY <1>9, <1>11, <1>12, <1>13, <1>14, QuietKeeps

\* A new version rejects the queued answer to the one before it.
LEMMA PublishKeeps ==
    ASSUME IInv, Publish
    PROVE  IInv'
<1>1. PICK looks : Table(looks)
    BY DEF IInv, Shape, Table
<1>2. \A c \in Saved : cmds[c] \in CommandRecords(looks)
    BY <1>1, TableTyped
<1>3. AnswersKnown /\ dec \in Seq(Versions) /\ run \in RunRecords
    BY DEF IInv, Shape
<1>4. DOMAIN dec = 1 .. Len(dec) /\ Len(dec) \in Nat /\ (dec # <<>> => Len(dec) \in DOMAIN dec)
    BY <1>3
<1> DEFINE revised == dec # <<>> /\ dec[Len(dec)].status \in {"open", "answered"}
           moved == [v \in DOMAIN dec |-> IF v = Len(dec) /\ revised
                                          THEN [dec[v] EXCEPT !.status = "superseded"] ELSE dec[v]]
           rejects(c) == revised /\ c = dec[Len(dec)].by
<1>5. /\ dec' = Append(moved, [status |-> "open", by |-> 0])
      /\ cmds' = [c \in Saved |-> IF rejects(c) THEN [cmds[c] EXCEPT !.status = "rejected"] ELSE cmds[c]]
      /\ UNCHANGED <<run, send, native, approvalVars>>
    BY <1>3 DEF Publish, hostVars, Last
<1>6. ASSUME NEW v \in DOMAIN dec
      PROVE  /\ moved[v] \in Versions /\ moved[v].by = dec[v].by
             /\ moved[v].status = dec[v].status \/ (moved[v].status = "superseded" /\ v = Len(dec) /\ revised)
    <2>1. dec[v] \in Versions
        BY <1>3
    <2> QED BY <2>1 DEF Versions
<1>7. moved \in Seq(Versions) /\ Len(moved) = Len(dec)
    BY <1>4, <1>6
<1>8. /\ dec' \in Seq(Versions) /\ Len(dec') = Len(dec) + 1 /\ dec'[Len(dec) + 1] = [status |-> "open", by |-> 0]
      /\ \A v \in DOMAIN dec : dec'[v] = moved[v]
    <2>1. [status |-> "open", by |-> 0] \in Versions
        BY DEF Versions
    <2> HIDE DEF moved
    <2> QED BY <1>4, <1>5, <1>7, <2>1
<1> HIDE DEF moved
<1>9. \A c \in Saved : rejects(c) => cmds[c].kind = "decision_response" /\ c \in OfKind("decision_response")
    <2>1. Saved = 1 .. Len(cmds) /\ Len(cmds) \in Nat
        BY <1>1, TableTyped
    <2> QED BY <1>3, <1>4, <2>1 DEF AnswersKnown, OfKind
<1>10. \A c \in Saved : /\ cmds'[c] \in CommandRecords(looks) /\ Same(cmds'[c], cmds[c])
                        /\ rejects(c) => cmds'[c].status = "rejected"
                        /\ ~rejects(c) => cmds'[c] = cmds[c]
    <2>1. ASSUME NEW c \in Saved
          PROVE  /\ [cmds[c] EXCEPT !.status = "rejected"] \in CommandRecords(looks)
                 /\ Same([cmds[c] EXCEPT !.status = "rejected"], cmds[c])
                 /\ Same(cmds[c], cmds[c])
                 /\ [cmds[c] EXCEPT !.status = "rejected"].status = "rejected"
        <3>1. Same(cmds[c], cmds[c])
            BY DEF Same
        <3>2. [cmds[c] EXCEPT !.status = "rejected"].status = "rejected"
            BY <1>2 DEF CommandRecords
        <3> QED BY <1>2, <3>1, <3>2, StatusMoved DEF Statuses
    <2> HIDE DEF rejects
    <2> QED BY <1>2, <1>5, <2>1
<1>11. LedgerMoves /\ Saved' = Saved
    <2>1. Commits
        BY <1>3, <1>5, <1>8 DEF Commits
    <2>2. cmds' = [c \in Saved |-> cmds'[c]]
        BY <1>5
    <2> QED BY <1>1, <1>10, <2>1, <2>2, CommandsMapped DEF Same
<1>12. AnswersKnown'
    <2>1. DOMAIN dec' = 1 .. (Len(dec) + 1)
        BY <1>4, <1>8
    <2>2. ASSUME NEW v \in DOMAIN dec'
          PROVE  /\ dec'[v].by # 0 => dec'[v].by \in OfKind("decision_response")'
                 /\ dec'[v].status \in {"answered", "received"} => dec'[v].by # 0
        <3>1. CASE v \in DOMAIN dec
            BY <1>3, <1>6, <1>8, <1>11, <3>1 DEF AnswersKnown, LedgerMoves, OfKind
        <3>2. CASE v = Len(dec) + 1
            BY <1>8, <3>2
        <3> QED BY <1>4, <2>1, <3>1, <3>2
    <2>3. ASSUME NEW c \in QueuedAnswers' PROVE cmds'[c].of \in DOMAIN dec' /\ Current(c)'
        <3>1. c \in Saved /\ ~rejects(c) /\ c \in QueuedAnswers /\ cmds'[c].of = cmds[c].of
            BY <1>10, <1>11, <2>3 DEF QueuedAnswers, OfKind
        <3>2. cmds[c].of \in DOMAIN dec /\ dec[cmds[c].of].status = "answered" /\ dec[cmds[c].of].by = c
            BY <1>3, <3>1 DEF AnswersKnown, Current
        <3>3. moved[cmds[c].of].status = "answered" /\ moved[cmds[c].of].by = c
            BY <1>4, <1>6, <3>1, <3>2
        <3> QED BY <1>4, <1>8, <2>1, <3>1, <3>2, <3>3 DEF Current
    <2> QED BY <2>2, <2>3 DEF AnswersKnown
<1>13. PermitsStay /\ run'.status = run.status
    BY <1>5 DEF PermitsStay
<1>14. \A c \in Saved : cmds[c].kind \in (Recoveries \ {"reply_recovery"}) \cup {"pause"}
                           => cmds'[c].status = cmds[c].status
    BY <1>9, <1>10 DEF Recoveries
<1> QED BY <1>11, <1>12, <1>13, <1>14, QuietKeeps DEF OfKind

\* An answer and its command are one commit.
LEMMA AnswerKeeps ==
    ASSUME IInv, Answer
    PROVE  IInv'
<1>1. AnswersKnown /\ dec \in Seq(Versions) /\ run \in RunRecords
    BY DEF IInv, Shape
<1>2. PICK looks : Table(looks)
    BY DEF IInv, Shape, Table
<1>3. Saved = 1 .. Len(cmds) /\ Len(cmds) \in Nat
    BY <1>2, TableTyped
<1>4. PICK v \in DOMAIN dec :
        /\ dec[v].status = "open"
        /\ dec' = [dec EXCEPT ![v] = [status |-> "answered", by |-> Len(cmds) + 1]]
        /\ cmds' = Append1(Command("decision_response", v, 0))
    BY DEF Answer
<1>5. CanSave(1) /\ UNCHANGED <<run, send, native, approvalVars>>
    BY DEF Answer, hostVars
<1>6. [status |-> "answered", by |-> Len(cmds) + 1] \in Versions
    BY <1>3 DEF Versions
<1>7. /\ dec' \in Seq(Versions) /\ DOMAIN dec' = DOMAIN dec
      /\ dec'[v] = [status |-> "answered", by |-> Len(cmds) + 1]
      /\ \A u \in DOMAIN dec \ {v} : dec'[u] = dec[u]
    BY <1>1, <1>4, <1>6
<1>8. v \in Nat
    BY <1>1
<1>9. /\ LedgerMoves /\ Saved' = Saved \cup {Len(cmds) + 1} /\ Len(cmds) + 1 \notin Saved
      /\ \A c \in Saved : cmds'[c] = cmds[c]
      /\ cmds'[Len(cmds) + 1] = Command("decision_response", v, 0)
    <2>1. Commits
        BY <1>1, <1>5, <1>7 DEF Commits
    <2> QED BY <1>4, <1>5, <1>8, <2>1, CommandSaved DEF Kinds
<1>10. cmds'[Len(cmds) + 1].kind = "decision_response" /\ cmds'[Len(cmds) + 1].of = v
    BY <1>9 DEF Command
<1>11. Len(cmds) + 1 # 0
    BY <1>3
<1>12. AnswersKnown'
    <2>1. ASSUME NEW u \in DOMAIN dec'
          PROVE  /\ dec'[u].by # 0 => dec'[u].by \in OfKind("decision_response")'
                 /\ dec'[u].status \in {"answered", "received"} => dec'[u].by # 0
        BY <1>1, <1>7, <1>9, <1>10, <1>11 DEF AnswersKnown, OfKind
    <2>2. ASSUME NEW c \in QueuedAnswers' PROVE cmds'[c].of \in DOMAIN dec' /\ Current(c)'
        <3>1. CASE c = Len(cmds) + 1
            BY <1>7, <1>10, <3>1 DEF Current
        <3>2. CASE c \in Saved
            <4>1. c \in QueuedAnswers /\ cmds'[c].of = cmds[c].of
                BY <1>9, <2>2, <3>2 DEF QueuedAnswers, OfKind
            <4>2. cmds[c].of \in DOMAIN dec /\ dec[cmds[c].of].status = "answered" /\ dec[cmds[c].of].by = c
                BY <1>1, <4>1 DEF AnswersKnown, Current
            <4> QED BY <1>4, <1>7, <4>1, <4>2 DEF Current
        <3> QED BY <1>9, <2>2, <3>1, <3>2 DEF QueuedAnswers, OfKind
    <2> QED BY <2>1, <2>2 DEF AnswersKnown
<1>13. PermitsStay /\ run'.status = run.status
    BY <1>5 DEF PermitsStay
<1> QED BY <1>9, <1>10, <1>12, <1>13, QuietKeeps DEF OfKind

\* The end of a decision whose answer was received.
LEMMA ResolveKeeps ==
    ASSUME IInv, NEW v \in DOMAIN dec, Resolve(v)
    PROVE  IInv'
<1>1. AnswersKnown /\ dec \in Seq(Versions) /\ run \in RunRecords
    BY DEF IInv, Shape
<1>2. PICK looks : Table(looks)
    BY DEF IInv, Shape, Table
<1> DEFINE c == dec[v].by
           r == [cmds[c] EXCEPT !.status = "completed"]
<1>3. dec[v].status = "received" /\ c \in Saved /\ cmds[c].kind = "decision_response"
      /\ cmds[c].status = "processing"
    BY <1>1 DEF Resolve, AnswersKnown, OfKind
<1>4. cmds[c] \in CommandRecords(looks)
    BY <1>2, <1>3, TableTyped
<1>5. r \in CommandRecords(looks) /\ Same(r, cmds[c]) /\ r.status = "completed"
    <2>1. r.status = "completed"
        BY <1>4 DEF CommandRecords
    <2> QED BY <1>4, <2>1, StatusMoved DEF Statuses
<1>6. cmds' = [cmds EXCEPT ![c] = r] /\ UNCHANGED <<run, send, native, approvalVars>>
    BY DEF Resolve, hostVars
<1>7. /\ dec' \in Seq(Versions) /\ DOMAIN dec' = DOMAIN dec
      /\ dec'[v].by = c /\ dec'[v].status = "resolved"
      /\ \A u \in DOMAIN dec \ {v} : dec'[u] = dec[u]
    <2>1. dec[v] \in Versions
        BY <1>1
    <2>2. [dec[v] EXCEPT !.status = "resolved"] \in Versions
          /\ [dec[v] EXCEPT !.status = "resolved"].by = c
          /\ [dec[v] EXCEPT !.status = "resolved"].status = "resolved"
        BY <2>1 DEF Versions
    <2> DEFINE e == [dec[v] EXCEPT !.status = "resolved"]
    <2>3. dec' = [dec EXCEPT ![v] = e]
        BY DEF Resolve
    <2> HIDE DEF e, r
    <2>4. e \in Versions /\ e.by = c /\ e.status = "resolved"
        BY <2>2 DEF e
    <2> QED BY <1>1, <2>3, <2>4
<1> HIDE DEF r
<1>8. LedgerMoves /\ Saved' = Saved /\ cmds'[c] = r /\ \A d \in Saved \ {c} : cmds'[d] = cmds[d]
    <2>1. Commits
        BY <1>1, <1>6, <1>7 DEF Commits
    <2> HIDE DEF c
    <2> QED BY <1>2, <1>3, <1>5, <1>6, <2>1, CommandEdited DEF Same
<1> HIDE DEF c
<1>9. AnswersKnown'
    <2>1. ASSUME NEW u \in DOMAIN dec'
          PROVE  /\ dec'[u].by # 0 => dec'[u].by \in OfKind("decision_response")'
                 /\ dec'[u].status \in {"answered", "received"} => dec'[u].by # 0
        BY <1>1, <1>3, <1>7, <1>8 DEF AnswersKnown, OfKind, LedgerMoves
    <2>2. ASSUME NEW d \in QueuedAnswers' PROVE cmds'[d].of \in DOMAIN dec' /\ Current(d)'
        <3>1. d # c /\ d \in QueuedAnswers /\ cmds'[d].of = cmds[d].of
            BY <1>5, <1>8, <2>2 DEF QueuedAnswers, OfKind
        <3>2. cmds[d].of \in DOMAIN dec /\ dec[cmds[d].of].status = "answered" /\ dec[cmds[d].of].by = d
            BY <1>1, <3>1 DEF AnswersKnown, Current
        <3> QED BY <1>3, <1>7, <3>1, <3>2 DEF Current
    <2> QED BY <2>1, <2>2 DEF AnswersKnown
<1>10. PermitsStay /\ run'.status = run.status
    BY <1>6 DEF PermitsStay
<1> QED BY <1>3, <1>8, <1>9, <1>10, QuietKeeps DEF OfKind, Recoveries

\* A permit that lapses stays what it is about.
LEMMA LapseKeeps ==
    ASSUME IInv, LapsePermit
    PROVE  IInv'
<1>1. run \in RunRecords /\ dec \in Seq(Versions)
    BY DEF IInv, Shape
<1>2. UNCHANGED <<cmds, dec, send, native, approvalVars>>
    BY DEF LapsePermit, hostVars
<1>3. run' \in RunRecords /\ PermitsStay /\ run'.status = run.status
    <2>1. PICK p \in {"pause", "receipt", "wake"} : run' = [run EXCEPT ![p].late = TRUE]
        BY DEF LapsePermit
    <2> DEFINE l == [run[p] EXCEPT !.late = TRUE]
    <2>2. run[p] \in PermitRecords
        BY <1>1 DEF RunRecords
    <2>3. l \in PermitRecords /\ l.id = run[p].id /\ l.of = run[p].of /\ l.status = run[p].status
        BY <2>2 DEF PermitRecords
    <2>4. run' = [run EXCEPT ![p] = l]
        BY <2>1
    <2> HIDE DEF l
    <2>5. CASE p = "pause"
        BY <1>1, <2>3, <2>4, <2>5 DEF RunRecords, PermitsStay
    <2>6. CASE p = "receipt"
        BY <1>1, <2>3, <2>4, <2>6 DEF RunRecords, PermitsStay
    <2>7. CASE p = "wake"
        BY <1>1, <2>3, <2>4, <2>7 DEF RunRecords, PermitsStay
    <2> QED BY <2>5, <2>6, <2>7
<1>4. LedgerMoves
    BY <1>2, <1>3 DEF IInv, Shape, LedgerMoves, Saved
<1>5. AnswersKnown'
    BY <1>2, <1>4, AnswersStay DEF Saved
<1> QED BY <1>2, <1>3, <1>4, <1>5, QuietKeeps DEF Saved

-------------------------------------------------------------------------------
(* Steps that move permits. *)

\* Only an open permit is in use, and it names its commands.
LEMMA OpenNamed ==
    ASSUME IInv
    PROVE  /\ PermitsNamed /\ PermitsAgree /\ run \in RunRecords /\ 0 \notin Saved /\ Len(cmds) + 1 \notin Saved
           /\ Len(cmds) \in Nat /\ Saved = 1 .. Len(cmds) /\ dec \in Seq(Versions)
<1>1. PICK looks : Table(looks)
    BY DEF IInv, Shape, Table
<1>2. Saved = 1 .. Len(cmds) /\ Len(cmds) \in Nat
    BY <1>1, TableTyped
<1> QED BY <1>2 DEF IInv, Shape

\* A checkpoint closes the open permits of the Pause with their commands.
LEMMA CheckpointKeeps ==
    ASSUME IInv, NEW outcome \in {"paused", "blocked"}, Checkpoint(outcome)
    PROVE  IInv'
<1>1. PICK looks : Table(looks)
    BY DEF IInv, Shape, Table
<1>2. \A c \in Saved : cmds[c] \in CommandRecords(looks)
    BY <1>1, TableTyped
<1>3. PermitsNamed /\ PermitsAgree /\ run \in RunRecords /\ 0 \notin Saved
    BY OpenNamed
<1> DEFINE done == {run[p].id : p \in {q \in {"pause", "receipt"} : Open(run[q])}}
           After(p) == IF Open(p) THEN [p EXCEPT !.status = "checkpointed"] ELSE p
<1>4. /\ cmds' = [c \in Saved |-> IF c \in done THEN [cmds[c] EXCEPT !.status = "completed"] ELSE cmds[c]]
      /\ run' = [run EXCEPT !.status = outcome, !.pause = After(run.pause), !.receipt = After(run.receipt)]
      /\ UNCHANGED <<dec, send, native, approvalVars>>
    BY DEF Checkpoint, hostVars
<1>5. \A c \in done : c \in Saved => cmds[c].kind \in {"pause_recovery", "receipt_recovery"}
    BY <1>3 DEF PermitsNamed, OfKind, Open
<1>6. ASSUME NEW p \in PermitRecords
      PROVE  /\ After(p) \in PermitRecords /\ After(p).id = p.id /\ After(p).of = p.of
             /\ ~Open(After(p))
    BY DEF PermitRecords, Open
<1>7. run.pause \in PermitRecords /\ run.receipt \in PermitRecords
    BY <1>3 DEF RunRecords
<1> HIDE DEF After
<1>8. /\ run' \in RunRecords /\ run'.pause = After(run.pause) /\ run'.receipt = After(run.receipt)
      /\ run'.wake = run.wake
    BY <1>3, <1>4, <1>6, <1>7 DEF RunRecords
<1> HIDE DEF done
<1>9. \A c \in Saved : /\ cmds'[c] \in CommandRecords(looks) /\ Same(cmds'[c], cmds[c])
                       /\ c \in done => cmds'[c].status = "completed"
                       /\ c \notin done => cmds'[c] = cmds[c]
    <2>1. ASSUME NEW c \in Saved
          PROVE  /\ [cmds[c] EXCEPT !.status = "completed"] \in CommandRecords(looks)
                 /\ Same([cmds[c] EXCEPT !.status = "completed"], cmds[c])
                 /\ Same(cmds[c], cmds[c])
                 /\ [cmds[c] EXCEPT !.status = "completed"].status = "completed"
        <3>1. Same(cmds[c], cmds[c])
            BY DEF Same
        <3>2. [cmds[c] EXCEPT !.status = "completed"].status = "completed"
            BY <1>2 DEF CommandRecords
        <3> QED BY <1>2, <3>1, <3>2, StatusMoved DEF Statuses
    <2> QED BY <1>2, <1>4, <2>1
<1>10. LedgerMoves /\ Saved' = Saved
    <2>1. Commits
        BY <1>4, <1>8 DEF IInv, Shape, Commits
    <2>2. cmds' = [c \in Saved |-> cmds'[c]]
        BY <1>4
    <2> QED BY <1>1, <1>9, <2>1, <2>2, CommandsMapped DEF Same
<1>11. \A c \in Saved' : Family(c)'
    BY <1>6, <1>7, <1>8, <1>10, FamilyStays
<1>12. PermitsNamed'
    <2>1. \A p \in {"pause", "receipt", "wake"} : run'[p].id = run[p].id /\ run'[p].of = run[p].of
        BY <1>6, <1>7, <1>8
    <2>2. \A p \in {"pause", "receipt", "wake"} : Open(run'[p]) => Open(run[p])
        BY <1>6, <1>7, <1>8
    <2> QED BY <1>3, <1>9, <1>10, <2>1, <2>2 DEF PermitsNamed, OfKind, Same
<1>13. PermitsAgree'
    <2>1. ~Open(run'.pause) /\ ~Open(run'.receipt)
        BY <1>6, <1>7, <1>8
    <2>2. Open(run.wake) => /\ run.wake.id \in Saved /\ run.wake.id \notin done
                            /\ cmds[run.wake.id].status = run.wake.status
        BY <1>3, <1>5 DEF PermitsNamed, PermitsAgree, OfKind
    <2> QED BY <1>8, <1>9, <2>1, <2>2 DEF PermitsAgree
<1>14. AnswersKnown'
    BY <1>4, <1>9, <1>10, AnswersStay DEF OfKind
<1> QED BY <1>10, <1>11, <1>12, <1>13, <1>14, LedgerKeeps

\* A reply closes the recoveries of its message.
LEMMA ReplyKeeps ==
    ASSUME IInv, NEW c \in Saved, Reply(c)
    PROVE  IInv'
<1>1. PICK looks : Table(looks)
    BY DEF IInv, Shape, Table
<1>2. \A d \in Saved : cmds[d] \in CommandRecords(looks)
    BY <1>1, TableTyped
<1>3. PermitsNamed /\ PermitsAgree /\ run \in RunRecords /\ 0 \notin Saved
    BY OpenNamed
<1> DEFINE wake == run.wake.of = c /\ run.wake.status = "processing"
<1>4. /\ run' = IF wake THEN [run EXCEPT !.wake.status = "replied"] ELSE run
      /\ cmds' = [d \in Saved |-> cmds'[d]]
      /\ \A d \in Saved :
            \/ d = c /\ cmds'[d] = [cmds[d] EXCEPT !.status = "completed", !.replied = TRUE]
            \/ /\ cmds[d].kind = "reply_recovery" \/ (wake /\ d = run.wake.id)
               /\ cmds'[d] = [cmds[d] EXCEPT !.status = "completed"]
            \/ cmds'[d] = cmds[d]
      /\ UNCHANGED <<dec, send, native, approvalVars>> /\ cmds[c].kind = "message"
    BY DEF Reply, hostVars, ClosedByReply, Pending
<1>5. /\ run' \in RunRecords /\ run'.pause = run.pause /\ run'.receipt = run.receipt
      /\ run'.status = run.status
      /\ run'.wake.id = run.wake.id /\ run'.wake.of = run.wake.of
      /\ run'.wake = run.wake \/ run'.wake.status = "replied"
      /\ wake => run'.wake.status = "replied"
    <2> DEFINE w == [run.wake EXCEPT !.status = "replied"]
    <2>1. run.wake \in PermitRecords
        BY <1>3 DEF RunRecords
    <2>2. w \in PermitRecords /\ w.id = run.wake.id /\ w.of = run.wake.of /\ w.status = "replied"
        BY <2>1 DEF PermitRecords
    <2>3. CASE wake
        <3>1. run' = [run EXCEPT !.wake = w]
            BY <1>4, <2>3
        <3> HIDE DEF w, wake
        <3> QED BY <1>3, <2>2, <3>1 DEF RunRecords
    <2>4. CASE ~wake
        BY <1>3, <1>4, <2>4
    <2> QED BY <2>3, <2>4
<1>6. \A d \in Saved : wake /\ d = run.wake.id => cmds[d].kind = "checkpoint_recovery"
    BY <1>3 DEF PermitsNamed, OfKind
<1> HIDE DEF wake
<1>7. \A d \in Saved : /\ cmds'[d] \in CommandRecords(looks) /\ Same(cmds'[d], cmds[d])
                       /\ cmds'[d].status \in {"completed", cmds[d].status}
    <2>1. ASSUME NEW d \in Saved
          PROVE  \A r \in {[cmds[d] EXCEPT !.status = "completed", !.replied = TRUE],
                           [cmds[d] EXCEPT !.status = "completed"], cmds[d]} :
                    /\ r \in CommandRecords(looks) /\ Same(r, cmds[d])
                    /\ r.status \in {"completed", cmds[d].status}
        <3>1. Same(cmds[d], cmds[d])
            BY DEF Same
        <3>2. /\ [cmds[d] EXCEPT !.status = "completed"].status = "completed"
              /\ [cmds[d] EXCEPT !.status = "completed", !.replied = TRUE].status = "completed"
            BY <1>2 DEF CommandRecords
        <3> DEFINE a == [cmds[d] EXCEPT !.status = "completed", !.replied = TRUE]
                   b == [cmds[d] EXCEPT !.status = "completed"]
        <3>3. /\ a \in CommandRecords(looks) /\ Same(a, cmds[d])
              /\ b \in CommandRecords(looks) /\ Same(b, cmds[d])
            BY <1>2, StatusMoved DEF Statuses
        <3> HIDE DEF a, b
        <3>4. a.status = "completed" /\ b.status = "completed"
            BY <3>2 DEF a, b
        <3>5. \A r \in {a, b, cmds[d]} : /\ r \in CommandRecords(looks) /\ Same(r, cmds[d])
                                         /\ r.status \in {"completed", cmds[d].status}
            BY <1>2, <3>1, <3>3, <3>4
        <3> QED BY <3>5 DEF a, b
    <2> QED BY <1>4, <2>1
<1>8. LedgerMoves /\ Saved' = Saved
    <2>1. Commits
        BY <1>4, <1>5 DEF IInv, Shape, Commits
    <2> QED BY <1>1, <1>4, <1>7, <2>1, CommandsMapped DEF Same
<1>9. \A d \in Saved' : Family(d)'
    BY <1>5, <1>8, FamilyStays
<1>10. PermitsNamed'
    <2>1. \A p \in {"pause", "receipt", "wake"} :
             run'[p].id = run[p].id /\ run'[p].of = run[p].of /\ (Open(run'[p]) => Open(run[p]))
        BY <1>5 DEF Open
    <2> QED BY <1>3, <1>7, <1>8, <2>1 DEF PermitsNamed, OfKind, Same
<1>11. PermitsAgree'
    <2>1. ASSUME NEW p \in {"pause", "receipt"}, Open(run'[p])
          PROVE  /\ cmds'[run'[p].id].status = run'[p].status
                 /\ run'.status = "stopping"
                 /\ cmds'[run'[p].of].status = IF run'[p].status = "queued" THEN "queued" ELSE "completed"
        <3>1. Open(run[p]) /\ run[p].id # 0 /\ run'[p] = run[p]
            BY <1>3, <1>5, <2>1 DEF PermitsNamed
        <3>2. /\ run[p].id \in Saved /\ cmds[run[p].id].kind \in {"pause_recovery", "receipt_recovery"}
              /\ run[p].of \in Saved /\ cmds[run[p].of].kind = "pause"
            BY <1>3, <3>1 DEF PermitsNamed, OfKind
        <3>3. cmds'[run[p].id] = cmds[run[p].id] /\ cmds'[run[p].of] = cmds[run[p].of]
            BY <1>4, <1>6, <3>2
        <3> QED BY <1>3, <1>5, <3>1, <3>3 DEF PermitsAgree
    <2>2. ASSUME Open(run'.wake) PROVE cmds'[run'.wake.id].status = run'.wake.status
        <3>1. ~wake /\ Open(run.wake) /\ run'.wake = run.wake /\ run.wake.id # 0
            BY <1>3, <1>5, <2>2 DEF Open, PermitsNamed
        <3>2. run.wake.id \in Saved /\ cmds[run.wake.id].kind = "checkpoint_recovery"
            BY <1>3, <3>1 DEF PermitsNamed, OfKind
        <3> QED BY <1>3, <1>4, <3>1, <3>2 DEF PermitsAgree
    <2> QED BY <2>1, <2>2 DEF PermitsAgree
<1>12. AnswersKnown'
    BY <1>4, <1>7, <1>8, AnswersStay DEF OfKind
<1> QED BY <1>8, <1>9, <1>10, <1>11, <1>12, LedgerKeeps

\* One permit in a new state.
LEMMA PermitMoved ==
    ASSUME run \in RunRecords, NEW p \in {"pause", "receipt", "wake"}, NEW q \in PermitRecords,
           run' = [run EXCEPT ![p] = q]
    PROVE  /\ run' \in RunRecords /\ run'[p] = q /\ run'.status = run.status
           /\ \A o \in {"pause", "receipt", "wake"} \ {p} : run'[o] = run[o]
<1>1. CASE p = "pause"
    BY <1>1 DEF RunRecords
<1>2. CASE p = "receipt"
    BY <1>2 DEF RunRecords
<1>3. CASE p = "wake"
    BY <1>3 DEF RunRecords
<1> QED BY <1>1, <1>2, <1>3

\* A permit whose recovery was received.
LEMMA PermitRaised ==
    ASSUME NEW p \in PermitRecords
    PROVE  LET q == [p EXCEPT !.status = "processing"] IN
           q \in PermitRecords /\ q.status = "processing" /\ q.id = p.id /\ q.of = p.of
BY DEF PermitRecords

\* The brain takes the recovery of a Pause, and the Pause with it.
LEMMA PauseTaken ==
    ASSUME IInv, NEW p \in {"pause", "receipt"}, run[p].status = "queued",
           NEW other \in {"pause", "receipt"} \ {p}, ~Open(run[other]), NEW c, c = run[p].id,
           cmds' = [cmds EXCEPT ![c].status = "processing", ![c].received = TRUE,
                                ![run[p].of].status = "completed"],
           run' = [run EXCEPT ![p].status = "processing"],
           UNCHANGED <<dec, send, native, approvalVars>>
    PROVE  IInv'
<1>1. PICK looks : Table(looks)
    BY DEF IInv, Shape, Table
<1>2. \A d \in Saved : cmds[d] \in CommandRecords(looks)
    BY <1>1, TableTyped
<1>3. PermitsNamed /\ PermitsAgree /\ run \in RunRecords
    BY OpenNamed
<1> DEFINE o == run[p].of
<1>4. Open(run[p]) /\ run.status = "stopping"
    BY <1>3 DEF PermitsAgree, Open
<1>5. /\ c \in Saved /\ cmds[c].kind \in {"pause_recovery", "receipt_recovery"}
      /\ o \in Saved /\ cmds[o].kind = "pause" /\ o # c
    BY <1>3, <1>4 DEF PermitsNamed, OfKind
<1> DEFINE r == [cmds[c] EXCEPT !.status = "processing", !.received = TRUE]
           s == [cmds[o] EXCEPT !.status = "completed"]
<1>6. /\ r \in CommandRecords(looks) /\ Same(r, cmds[c]) /\ r.status = "processing"
      /\ s \in CommandRecords(looks) /\ Same(s, cmds[o]) /\ s.status = "completed"
    <2>1. r.status = "processing" /\ s.status = "completed"
        BY <1>2, <1>5 DEF CommandRecords
    <2>2. r \in CommandRecords(looks) /\ Same(r, cmds[c])
        BY <1>2, <1>5, StatusMoved DEF Statuses
    <2>3. s \in CommandRecords(looks) /\ Same(s, cmds[o])
        BY <1>2, <1>5, StatusMoved DEF Statuses
    <2> QED BY <2>1, <2>2, <2>3
<1>7. /\ cmds' = [d \in Saved |-> cmds'[d]] /\ cmds'[c] = r /\ cmds'[o] = s
      /\ \A d \in Saved \ {c, o} : cmds'[d] = cmds[d]
    BY <1>1, <1>5 DEF Table, Saved
<1> DEFINE q == [run[p] EXCEPT !.status = "processing"]
<1>8. /\ run' \in RunRecords /\ run'.status = run.status /\ run'[p].id = c /\ run'[p].of = o
      /\ run'[p].status = "processing"
      /\ \A e \in {"pause", "receipt", "wake"} \ {p} : run'[e] = run[e]
    <2>1. run[p] \in PermitRecords
        BY <1>3 DEF RunRecords
    <2>2. q \in PermitRecords /\ q.id = c /\ q.of = o /\ q.status = "processing"
        BY <2>1, PermitRaised
    <2>3. run' = [run EXCEPT ![p] = q]
        OBVIOUS
    <2> HIDE DEF q, o
    <2>4. /\ run' \in RunRecords /\ run'[p] = q /\ run'.status = run.status
          /\ \A e \in {"pause", "receipt", "wake"} \ {p} : run'[e] = run[e]
        BY <1>3, <2>2, <2>3, PermitMoved
    <2> QED BY <2>2, <2>4
<1> HIDE DEF r, s, q, o
<1>9. \A d \in Saved : cmds'[d] \in CommandRecords(looks) /\ Same(cmds'[d], cmds[d])
    <2>1. \A d \in Saved : Same(cmds[d], cmds[d])
        BY DEF Same
    <2> QED BY <1>2, <1>6, <1>7, <2>1
<1>10. LedgerMoves /\ Saved' = Saved
    <2>1. Commits
        BY <1>8 DEF IInv, Shape, Commits
    <2> QED BY <1>1, <1>7, <1>9, <2>1, CommandsMapped DEF Same
<1>11. \A d \in Saved' : Family(d)'
    BY <1>8, <1>10, FamilyStays
<1>12. PermitsNamed'
    <2>1. \A e \in {"pause", "receipt", "wake"} :
             run'[e].id = run[e].id /\ run'[e].of = run[e].of /\ (Open(run'[e]) => Open(run[e]))
        BY <1>4, <1>8 DEF o
    <2>2. /\ run'.pause.id = run.pause.id /\ run'.pause.of = run.pause.of
          /\ run'.receipt.id = run.receipt.id /\ run'.receipt.of = run.receipt.of
          /\ run'.wake.id = run.wake.id /\ run'.wake.of = run.wake.of
        BY <2>1
    <2>3. \A e \in {"pause", "receipt", "wake"} : Open(run'[e]) => run'[e].id # 0
        BY <1>3, <2>1 DEF PermitsNamed
    <2>4. \A kind \in Kinds : OfKind(kind)' = OfKind(kind)
        BY <1>9, <1>10 DEF OfKind, Same
    <2> QED BY <1>3, <2>2, <2>3, <2>4 DEF PermitsNamed, Kinds, Recoveries, Controls
<1>13. PermitsAgree'
    <2>1. cmds'[run'[p].id].status = run'[p].status
          /\ cmds'[run'[p].of].status = "completed" /\ run'.status = "stopping"
        BY <1>4, <1>6, <1>7, <1>8
    <2>2. run'[p].status = "processing"
        BY <1>8
    <2>3. ~Open(run'[other])
        BY <1>8
    <2>4. ASSUME Open(run'.wake) PROVE cmds'[run'.wake.id].status = run'.wake.status
        <3>1. Open(run.wake) /\ run'.wake = run.wake /\ run.wake.id # 0
            BY <1>3, <1>8, <2>4 DEF PermitsNamed
        <3>2. run.wake.id \in Saved \ {c, o}
            BY <1>3, <1>5, <3>1 DEF PermitsNamed, OfKind
        <3>3. cmds[run.wake.id].status = run.wake.status
            BY <1>3, <3>1 DEF PermitsAgree
        <3>4. cmds'[run.wake.id] = cmds[run.wake.id]
            BY <1>7, <3>2
        <3> QED BY <3>1, <3>3, <3>4
    <2>5. \A e \in {"pause", "receipt"} : e = p \/ e = other
        OBVIOUS
    <2> QED BY <2>1, <2>2, <2>3, <2>4, <2>5 DEF PermitsAgree
<1>14. AnswersKnown'
    <2>1. \A d \in OfKind("decision_response") : cmds'[d] = cmds[d]
        BY <1>5, <1>7 DEF OfKind
    <2> QED BY <1>10, <2>1, AnswersStay
<1> QED BY <1>10, <1>11, <1>12, <1>13, <1>14, LedgerKeeps

\* The two receipts of a Pause's recovery.
LEMMA PauseReceiptsKeep ==
    ASSUME IInv, NEW c \in Saved, ReceivePauseRecovery(c) \/ ReceiveReceiptRecovery(c)
    PROVE  IInv'
<1>1. CASE ReceivePauseRecovery(c)
    <2>1. /\ c = run["pause"].id /\ run["pause"].status = "queued" /\ ~Open(run["receipt"])
          /\ cmds' = [cmds EXCEPT ![c].status = "processing", ![c].received = TRUE,
                                  ![run["pause"].of].status = "completed"]
          /\ run' = [run EXCEPT !["pause"].status = "processing"]
          /\ UNCHANGED <<dec, send, native, approvalVars>>
        BY <1>1 DEF ReceivePauseRecovery, hostVars
    <2> QED BY <2>1, PauseTaken
<1>2. CASE ReceiveReceiptRecovery(c)
    <2>1. /\ c = run["receipt"].id /\ run["receipt"].status = "queued" /\ ~Open(run["pause"])
          /\ cmds' = [cmds EXCEPT ![c].status = "processing", ![c].received = TRUE,
                                  ![run["receipt"].of].status = "completed"]
          /\ run' = [run EXCEPT !["receipt"].status = "processing"]
          /\ UNCHANGED <<dec, send, native, approvalVars>>
        BY <1>2 DEF ReceiveReceiptRecovery, hostVars
    <2> QED BY <2>1, PauseTaken
<1> QED BY <1>1, <1>2

\* The brain takes the message a paused run was woken for.
LEMMA CheckpointReceiptKeeps ==
    ASSUME IInv, NEW c \in Saved, ReceiveCheckpointRecovery(c)
    PROVE  IInv'
<1>1. PICK looks : Table(looks)
    BY DEF IInv, Shape, Table
<1>2. \A d \in Saved : cmds[d] \in CommandRecords(looks)
    BY <1>1, TableTyped
<1>3. PermitsNamed /\ PermitsAgree /\ run \in RunRecords /\ 0 \notin Saved
    BY OpenNamed
<1> DEFINE o == run.wake.of
           r == [cmds[c] EXCEPT !.status = "processing", !.received = TRUE]
           s == Received(cmds[o])
           q == [run.wake EXCEPT !.status = "processing"]
<1>4. /\ run.wake.id = c /\ NoOpenPauseRecovery
      /\ cmds' = [cmds EXCEPT ![o] = s, ![c].status = "processing", ![c].received = TRUE]
      /\ run' = [run EXCEPT !["wake"] = q]
      /\ UNCHANGED <<dec, send, native, approvalVars>>
    BY DEF ReceiveCheckpointRecovery, hostVars
<1>5. /\ cmds[c].kind = "checkpoint_recovery" /\ o \in Saved /\ cmds[o].kind = "message" /\ o # c
    BY <1>3, <1>4 DEF PermitsNamed, OfKind
<1>6. /\ r \in CommandRecords(looks) /\ Same(r, cmds[c]) /\ r.status = "processing"
      /\ s \in CommandRecords(looks) /\ Same(s, cmds[o])
    <2>1. r.status = "processing"
        BY <1>2, <1>5 DEF CommandRecords
    <2>2. r \in CommandRecords(looks) /\ Same(r, cmds[c])
        BY <1>2, <1>5, StatusMoved DEF Statuses
    <2>3. s \in CommandRecords(looks) /\ Same(s, cmds[o])
        BY <1>2, <1>5, ReceivedTyped DEF Same
    <2> QED BY <2>1, <2>2, <2>3
<1>7. /\ cmds' = [d \in Saved |-> cmds'[d]] /\ cmds'[c] = r /\ cmds'[o] = s
      /\ \A d \in Saved \ {c, o} : cmds'[d] = cmds[d]
    <2> HIDE DEF s, o
    <2> QED BY <1>1, <1>4, <1>5 DEF Table, Saved
<1>8. /\ run' \in RunRecords /\ run'.status = run.status /\ run'.wake.id = c /\ run'.wake.of = o
      /\ run'.wake.status = "processing"
      /\ run'.pause = run.pause /\ run'.receipt = run.receipt
    <2>1. run.wake \in PermitRecords
        BY <1>3 DEF RunRecords
    <2>2. q \in PermitRecords /\ q.id = c /\ q.of = o /\ q.status = "processing"
        BY <1>4, <2>1, PermitRaised
    <2> HIDE DEF q, o
    <2> QED BY <1>3, <1>4, <2>2, PermitMoved
<1> HIDE DEF r, s, q, o
<1>9. \A d \in Saved : cmds'[d] \in CommandRecords(looks) /\ Same(cmds'[d], cmds[d])
    <2>1. \A d \in Saved : Same(cmds[d], cmds[d])
        BY DEF Same
    <2> QED BY <1>2, <1>6, <1>7, <2>1
<1>10. LedgerMoves /\ Saved' = Saved
    <2>1. Commits
        BY <1>4, <1>8 DEF IInv, Shape, Commits
    <2> QED BY <1>1, <1>7, <1>9, <2>1, CommandsMapped DEF Same
<1>11. \A d \in Saved' : Family(d)'
    BY <1>8, <1>10, FamilyStays
<1>12. PermitsNamed'
    <2>1. \A e \in {"pause", "receipt", "wake"} : run'[e].id = run[e].id /\ run'[e].of = run[e].of
        BY <1>4, <1>8 DEF o
    <2>2. c # 0 /\ run'.pause = run.pause /\ run'.receipt = run.receipt /\ run'.wake.id = c
        BY <1>3, <1>8
    <2> QED BY <1>3, <1>9, <1>10, <2>1, <2>2 DEF PermitsNamed, OfKind, Same
<1>13. PermitsAgree'
    BY <1>4, <1>6, <1>7, <1>8 DEF PermitsAgree, NoOpenPauseRecovery
<1>14. AnswersKnown'
    <2>1. \A d \in OfKind("decision_response") : cmds'[d] = cmds[d]
        BY <1>5, <1>7 DEF OfKind
    <2> QED BY <1>4, <1>10, <2>1, AnswersStay
<1> QED BY <1>10, <1>11, <1>12, <1>13, <1>14, LedgerKeeps

\* A Pause that may be recovered by a new command is queued.
LEMMA OriginalQueued ==
    ASSUME NEW permit, NEW o, PauseOriginals(permit, FALSE) = {o}
    PROVE  o \in OfKind("pause") /\ cmds[o].status = "queued"
BY DEF PauseOriginals

\* The recovery of a Pause's receipt and its permit are one commit.
LEMMA ConfirmReceiptKeeps ==
    ASSUME IInv, ConfirmReceiptRecovery
    PROVE  IInv'
<1> DEFINE n == Len(cmds) + 1
<1>1. /\ PermitsNamed /\ PermitsAgree /\ run \in RunRecords /\ n \notin Saved /\ n \in Nat
      /\ Saved \subseteq Nat /\ n # 0
    BY OpenNamed
<1>2. PICK o \in OfKind("pause") :
        /\ ReceiptEligible(n, o, FALSE)
        /\ run' = [run EXCEPT !.receipt = [NoPermit EXCEPT !.id = n, !.of = o, !.status = "queued"]]
        /\ cmds' = Append1(Command("receipt_recovery", o, Turns))
    BY DEF ConfirmReceiptRecovery
<1>3. CanSave(1) /\ UNCHANGED <<dec, send, native, approvalVars>>
    BY DEF ConfirmReceiptRecovery, hostVars
<1>4. /\ run.status = "stopping" /\ run.pause.id = 0 /\ run.wake.id = 0
      /\ o \in Saved /\ cmds[o].kind = "pause" /\ cmds[o].status = "queued" /\ o \in Nat
    BY <1>1, <1>2, OriginalQueued DEF ReceiptEligible, OfKind
<1> DEFINE q == [NoPermit EXCEPT !.id = n, !.of = o, !.status = "queued"]
<1>5. /\ run' \in RunRecords /\ run'.receipt = q /\ run'.status = run.status
      /\ run'.pause = run.pause /\ run'.wake = run.wake
      /\ q.id = n /\ q.of = o /\ q.status = "queued"
    <2>1. q \in PermitRecords /\ q.id = n /\ q.of = o /\ q.status = "queued"
        BY <1>1, <1>4 DEF PermitRecords, NoPermit
    <2>2. run' = [run EXCEPT !["receipt"] = q]
        BY <1>2
    <2> HIDE DEF q, n
    <2> QED BY <1>1, <2>1, <2>2, PermitMoved
<1>6. /\ LedgerMoves /\ Saved' = Saved \cup {n} /\ \A c \in Saved : cmds'[c] = cmds[c]
      /\ cmds'[n] = Command("receipt_recovery", o, Turns)
    <2>1. Commits
        BY <1>3, <1>5 DEF IInv, Shape, Commits
    <2> HIDE DEF q
    <2> QED BY <1>2, <1>3, <1>4, <2>1, CommandSaved DEF Kinds, Recoveries
<1>7. cmds'[n].kind = "receipt_recovery" /\ cmds'[n].status = "queued"
    BY <1>6 DEF Command
<1> HIDE DEF q, n
<1>8. \A c \in Saved' : Family(c)'
    BY <1>5, <1>6, <1>7, FamilyStays
<1>9. ~Open(run'.pause) /\ ~Open(run'.wake)
    BY <1>1, <1>4, <1>5 DEF PermitsNamed
<1>10. PermitsNamed'
    BY <1>1, <1>4, <1>5, <1>6, <1>7, <1>9 DEF PermitsNamed, OfKind
<1>11. PermitsAgree'
    BY <1>4, <1>5, <1>6, <1>7, <1>9 DEF PermitsAgree
<1>12. AnswersKnown'
    BY <1>3, <1>6, <1>7, AnswersStay DEF OfKind
<1> QED BY <1>6, <1>8, <1>10, <1>11, <1>12, LedgerKeeps

\* The attempt that is replaced, if any, is the one that holds the permit, and
\* its wake failed.
LEMMA ReplacedFailed ==
    ASSUME IInv, NEW o, PauseEligible(Len(cmds) + 1, o, FALSE)
    PROVE  LET prior == Replaced(Len(cmds) + 1) IN
           /\ run.pause.id # 0 => prior = run.pause.id /\ cmds[prior].note = "unavailable"
           /\ prior # 0 => prior = run.pause.id
           /\ prior \in Nat
<1> DEFINE n == Len(cmds) + 1
           prior == Replaced(n)
<1>1. /\ PermitsNamed /\ run \in RunRecords /\ n \notin Saved
    BY OpenNamed
<1>2. run.pause.id # 0 => run.pause.id \in Saved /\ run.pause.id # n
    BY <1>1 DEF PermitsNamed, OfKind
<1>3. run.pause \in PermitRecords
    BY <1>1 DEF RunRecords
<1>4. run.pause.id \in Nat /\ run.pause.prior \in Nat
    BY <1>3 DEF PermitRecords
<1>5. MayReplace(n, o)
    BY DEF PauseEligible
<1> HIDE DEF n
<1>6. CASE run.pause.id = 0
    <2>1. prior = run.pause.prior
        BY <1>6 DEF Replaced
    <2>2. prior = 0 \/ n = 0
        BY <1>5, <1>6, <2>1 DEF MayReplace
    <2>3. n # 0
        BY OpenNamed DEF n
    <2> QED BY <1>4, <1>6, <2>1, <2>2, <2>3 DEF n
<1>7. CASE run.pause.id # 0
    <2>1. prior = run.pause.id
        BY <1>2, <1>7 DEF Replaced
    <2>2. PreTurnFailure(prior)
        BY <1>2, <1>5, <1>7, <2>1 DEF MayReplace
    <2> QED BY <1>4, <1>7, <2>1, <2>2 DEF PreTurnFailure, n
<1> QED BY <1>6, <1>7

\* The recovery of a Pause takes the permit from the attempt it replaces.
LEMMA ConfirmPauseKeeps ==
    ASSUME IInv, ConfirmPauseRecovery
    PROVE  IInv'
<1>1. PICK looks : Table(looks)
    BY DEF IInv, Shape, Table
<1>2. \A c \in Saved : cmds[c] \in CommandRecords(looks)
    BY <1>1, TableTyped
<1> DEFINE n == Len(cmds) + 1
           prior == Replaced(n)
<1>3. /\ PermitsNamed /\ PermitsAgree /\ run \in RunRecords /\ n \notin Saved /\ n \in Nat
      /\ Saved = 1 .. Len(cmds) /\ Len(cmds) \in Nat /\ n # 0
    BY OpenNamed
<1>4. PICK o \in OfKind("pause") :
        /\ PauseEligible(n, o, FALSE)
        /\ run' = [run EXCEPT !.pause = [id |-> n, of |-> o, prior |-> prior,
                                         status |-> "queued", late |-> FALSE]]
        /\ cmds' = Append([d \in Saved |-> IF d = prior
                                          THEN [cmds[d] EXCEPT !.status = "failed"] ELSE cmds[d]],
                          Command("pause_recovery", o, Turns))
    BY DEF ConfirmPauseRecovery
<1>5. CanSave(1) /\ UNCHANGED <<dec, send, native, approvalVars>>
    BY DEF ConfirmPauseRecovery, hostVars
<1>6. /\ run.status = "stopping"
      /\ o \in Saved /\ cmds[o].kind = "pause" /\ cmds[o].status = "queued" /\ o \in Nat
      /\ cmds[o].note = "unavailable"
    <2>1. run.status = "stopping" /\ PauseOriginals(run.pause, FALSE) = {o} /\ PreTurnFailure(o)
        BY <1>4 DEF PauseEligible
    <2>2. o \in OfKind("pause") /\ cmds[o].status = "queued"
        BY <2>1, OriginalQueued
    <2> QED BY <1>3, <2>1, <2>2 DEF OfKind, PreTurnFailure
<1>7. /\ run.pause.id # 0 => prior = run.pause.id /\ cmds[prior].note = "unavailable"
      /\ prior # 0 => prior = run.pause.id
      /\ prior \in Nat
    BY <1>4, ReplacedFailed
<1>8. prior \in Saved => cmds[prior].kind = "pause_recovery"
    BY <1>3, <1>7 DEF PermitsNamed, OfKind
<1> DEFINE q == [id |-> n, of |-> o, prior |-> prior, status |-> "queued", late |-> FALSE]
           s == [d \in Saved |-> IF d = prior THEN [cmds[d] EXCEPT !.status = "failed"] ELSE cmds[d]]
<1> HIDE DEF prior, n
<1>9. /\ run' \in RunRecords /\ run'.pause = q /\ run'.status = run.status
      /\ run'.receipt = run.receipt /\ run'.wake = run.wake
      /\ q.id = n /\ q.of = o /\ q.status = "queued"
    <2>1. q \in PermitRecords /\ q.id = n /\ q.of = o /\ q.status = "queued"
        BY <1>3, <1>6, <1>7 DEF PermitRecords
    <2>2. run' = [run EXCEPT !["pause"] = q]
        BY <1>4
    <2> HIDE DEF q
    <2> QED BY <1>3, <2>1, <2>2, PermitMoved
<1>10. \A c \in Saved : /\ s[c] \in CommandRecords(looks) /\ Same(s[c], cmds[c])
                        /\ c # prior => s[c] = cmds[c]
    <2>1. ASSUME NEW c \in Saved
          PROVE  /\ [cmds[c] EXCEPT !.status = "failed"] \in CommandRecords(looks)
                 /\ Same([cmds[c] EXCEPT !.status = "failed"], cmds[c])
                 /\ Same(cmds[c], cmds[c])
        <3>1. Same(cmds[c], cmds[c])
            BY DEF Same
        <3> QED BY <1>2, <3>1, StatusMoved DEF Statuses
    <2> QED BY <1>2, <2>1
<1>11. s \in Seq(CommandRecords(looks)) /\ Len(s) = Len(cmds) /\ DOMAIN s = Saved
    <2>1. s = [c \in Saved |-> s[c]]
        OBVIOUS
    <2> HIDE DEF s
    <2> QED BY <1>1, <1>10, <2>1, TableMoved
<1> HIDE DEF s, q
<1>12. /\ cmds' \in Seq(CommandRecords(looks \cup {Turns})) /\ Len(cmds') = Len(cmds) + 1
       /\ \A c \in Saved : cmds'[c] = s[c]
       /\ cmds'[n] = Command("pause_recovery", o, Turns)
    <2>1. cmds' = Append(s, Command("pause_recovery", o, Turns))
        BY <1>4 DEF s
    <2>2. "pause_recovery" \in Kinds
        BY DEF Kinds, Recoveries
    <2> QED BY <1>3, <1>6, <1>11, <2>1, <2>2, TableGrown DEF n
<1>13. Saved' = Saved \cup {n}
    BY <1>3, <1>12 DEF Saved, n
<1>14. /\ cmds'[n].kind = "pause_recovery" /\ cmds'[n].of = o /\ cmds'[n].status = "queued"
       /\ cmds'[n].note = "none"
    BY <1>12 DEF Command
<1>15. LedgerMoves
    <2>1. Len(cmds') <= MaxCommands
        BY <1>3, <1>5, <1>12, MailboxBounds DEF CanSave
    <2>2. Shape'
        BY <1>5, <1>9, <1>12, <2>1 DEF IInv, Shape
    <2> QED BY <1>5, <1>10, <1>12, <1>13, <1>14, <2>2 DEF LedgerMoves, Same
<1>16. ASSUME NEW c \in Saved' PROVE Family(c)'
    <2>1. OfKind("pause") \subseteq OfKind("pause")' /\ \A d \in Saved : cmds'[d].note = cmds[d].note
        BY <1>13, <1>15 DEF LedgerMoves, OfKind
    <2>2. CASE c = n
        <3>1. o \in OfKind("pause")' /\ cmds'[o].note = "unavailable"
            BY <1>4, <1>6, <2>1
        <3> QED BY <1>9, <1>14, <2>2, <3>1 DEF Family
    <2>3. CASE c \in Saved
        <3>1. Family(c) /\ cmds'[c].kind = cmds[c].kind /\ cmds'[c].of = cmds[c].of
            BY <1>15, <2>3 DEF IInv, LedgerMoves
        <3>2. ASSUME cmds[c].kind = "pause_recovery"
              PROVE  cmds'[c].note = "unavailable" /\ cmds[c].of \in Saved
            <4>1. c = run.pause.id \/ cmds[c].note = "unavailable"
                BY <3>1, <3>2 DEF Family
            <4>2. c # 0
                BY <1>3, <2>3
            <4> QED BY <1>7, <2>1, <2>3, <3>1, <3>2, <4>1, <4>2 DEF Family, OfKind
        <3>3. ASSUME cmds[c].kind = "pause_recovery"
              PROVE  cmds[c].of \in OfKind("pause") /\ cmds[cmds[c].of].note = "unavailable"
            BY <3>1, <3>3 DEF Family
        <3> QED BY <2>1, <3>1, <3>2, <3>3 DEF Family
    <2> QED BY <1>13, <2>2, <2>3
<1>17. ASSUME NEW kind \in {"pause", "receipt_recovery", "checkpoint_recovery", "message"}
       PROVE  OfKind(kind)' = OfKind(kind)
    BY <1>10, <1>12, <1>13, <1>14 DEF OfKind, Same
<1>18. n \in OfKind("pause_recovery")' /\ o \in OfKind("pause")'
    BY <1>4, <1>13, <1>14, <1>17 DEF OfKind
<1>19. PermitsNamed'
    BY <1>3, <1>9, <1>17, <1>18 DEF PermitsNamed
<1>20. PermitsAgree'
    <2>1. cmds'[run'.pause.id].status = run'.pause.status /\ run'.status = "stopping"
          /\ run'.pause.status = "queued"
        BY <1>6, <1>9, <1>14
    <2>2. cmds'[o].status = "queued" /\ run'.pause.of = o
        BY <1>6, <1>8, <1>9, <1>10, <1>12
    <2>3. ASSUME Open(run.receipt)
          PROVE  /\ cmds'[run.receipt.id].status = run.receipt.status
                 /\ cmds'[run.receipt.of].status
                       = IF run.receipt.status = "queued" THEN "queued" ELSE "completed"
        <3>1. /\ run.receipt.id \in Saved /\ cmds[run.receipt.id].kind = "receipt_recovery"
              /\ run.receipt.of \in Saved /\ cmds[run.receipt.of].kind = "pause"
            BY <1>3, <2>3 DEF PermitsNamed, OfKind
        <3>2. cmds'[run.receipt.id] = cmds[run.receipt.id] /\ cmds'[run.receipt.of] = cmds[run.receipt.of]
            BY <1>8, <1>10, <1>12, <3>1
        <3> QED BY <1>3, <2>3, <3>2 DEF PermitsAgree
    <2>4. ASSUME Open(run.wake) PROVE cmds'[run.wake.id].status = run.wake.status
        <3>1. run.wake.id \in Saved /\ cmds[run.wake.id].kind = "checkpoint_recovery"
            BY <1>3, <2>4 DEF PermitsNamed, OfKind
        <3>2. cmds'[run.wake.id] = cmds[run.wake.id]
            BY <1>8, <1>10, <1>12, <3>1
        <3> QED BY <1>3, <2>4, <3>2 DEF PermitsAgree
    <2> QED BY <1>9, <2>1, <2>2, <2>3, <2>4 DEF PermitsAgree
<1>21. AnswersKnown'
    <2>1. \A c \in OfKind("decision_response") : cmds'[c] = cmds[c]
        BY <1>8, <1>10, <1>12 DEF OfKind
    <2> QED BY <1>5, <1>13, <1>14, <1>15, <2>1, AnswersStay
<1> QED BY <1>15, <1>16, <1>19, <1>20, <1>21, LedgerKeeps

\* A message, old or new, and the wake of the paused run it is for.
LEMMA ConfirmCheckpointKeeps ==
    ASSUME IInv, ConfirmCheckpointRecovery
    PROVE  IInv'
<1>1. PICK looks : Table(looks)
    BY DEF IInv, Shape, Table
<1>2. \A c \in Saved : cmds[c] \in CommandRecords(looks)
    BY <1>1, TableTyped
<1>3. /\ PermitsNamed /\ PermitsAgree /\ run \in RunRecords
      /\ Saved = 1 .. Len(cmds) /\ Len(cmds) \in Nat
    BY OpenNamed
<1> DEFINE new == PendingMessages = {}
           m == IF new THEN Len(cmds) + 1 ELSE CHOOSE p \in PendingMessages : TRUE
           saved == IF new THEN Append1(Command("message", 0, 0)) ELSE cmds
           n == Len(saved) + 1
           q == [NoPermit EXCEPT !.id = n, !.of = m, !.status = "queued"]
<1>4. /\ CanSave(IF new THEN 2 ELSE 1)
      /\ cmds' = Append(saved, Command("checkpoint_recovery", m, 0))
      /\ run' = [run EXCEPT !["wake"] = q]
      /\ run.status = "paused" /\ UNCHANGED <<dec, send, native, approvalVars>>
    BY DEF ConfirmCheckpointRecovery, CheckpointEligible, hostVars
<1>5. \E looks2 :
        /\ saved \in Seq(CommandRecords(looks2)) /\ Len(saved) = (IF new THEN Len(cmds) + 1 ELSE Len(cmds))
        /\ \A c \in Saved : saved[c] = cmds[c]
        /\ m \in 1 .. Len(saved) /\ saved[m].kind = "message"
        /\ \A c \in (1 .. Len(saved)) \ Saved : saved[c].kind = "message" /\ saved[c].note = "none"
    <2>1. CASE new
        <3> DEFINE msg == Command("message", 0, 0)
        <3>1. msg.kind = "message" /\ msg.note = "none" /\ "message" \in Kinds
            BY DEF Command, Kinds
        <3>2. saved = Append(cmds, msg) /\ m = Len(cmds) + 1
            BY <2>1 DEF Append1
        <3>3. /\ saved \in Seq(CommandRecords(looks \cup {0})) /\ Len(saved) = Len(cmds) + 1
              /\ \A c \in 1 .. Len(cmds) : saved[c] = cmds[c]
              /\ saved[Len(cmds) + 1] = msg
            BY <1>1, <3>1, <3>2, TableGrown DEF Table
        <3> HIDE DEF saved, m, msg
        <3> QED BY <1>3, <2>1, <3>1, <3>2, <3>3
    <2>2. CASE ~new
        <3>1. m \in PendingMessages /\ saved = cmds
            BY <2>2
        <3>2. m \in Saved /\ cmds[m].kind = "message"
            BY <3>1 DEF PendingMessages, Pending
        <3> HIDE DEF saved, m
        <3> QED BY <1>1, <1>3, <2>2, <3>1, <3>2 DEF Table
    <2> QED BY <2>1, <2>2
<1>6. PICK looks2 :
        /\ saved \in Seq(CommandRecords(looks2)) /\ Len(saved) = (IF new THEN Len(cmds) + 1 ELSE Len(cmds))
        /\ \A c \in Saved : saved[c] = cmds[c]
        /\ m \in 1 .. Len(saved) /\ saved[m].kind = "message"
        /\ \A c \in (1 .. Len(saved)) \ Saved : saved[c].kind = "message" /\ saved[c].note = "none"
    BY <1>5
<1> HIDE DEF saved, m
<1>7. Len(saved) \in Nat /\ n \in Nat /\ n # 0 /\ m \in Nat /\ n \notin Saved /\ Saved \subseteq 1 .. Len(saved)
    BY <1>3, <1>6
<1>8. Len(saved) + 1 <= MaxCommands
    BY <1>3, <1>4, <1>6, MailboxBounds DEF CanSave
<1>9. /\ run' \in RunRecords /\ run'.wake = q /\ run'.status = run.status
      /\ run'.pause = run.pause /\ run'.receipt = run.receipt
      /\ q.id = n /\ q.of = m /\ q.status = "queued"
    <2>1. q \in PermitRecords /\ q.id = n /\ q.of = m /\ q.status = "queued"
        BY <1>7 DEF PermitRecords, NoPermit
    <2> HIDE DEF q, n
    <2> QED BY <1>3, <1>4, <2>1, PermitMoved
<1> HIDE DEF q
<1>10. /\ cmds' \in Seq(CommandRecords(looks2 \cup {0})) /\ Len(cmds') = n
       /\ \A c \in 1 .. Len(saved) : cmds'[c] = saved[c]
       /\ cmds'[n] = Command("checkpoint_recovery", m, 0)
    <2>1. "checkpoint_recovery" \in Kinds
        BY DEF Kinds, Recoveries
    <2> QED BY <1>4, <1>6, <1>7, <2>1, TableGrown
<1>11. Saved' = (1 .. Len(saved)) \cup {n}
    BY <1>7, <1>10 DEF Saved
<1>12. cmds'[n].kind = "checkpoint_recovery" /\ cmds'[n].status = "queued" /\ cmds'[n].note = "none"
    BY <1>10 DEF Command
<1> HIDE DEF new, n
<1>13. /\ Saved \subseteq Saved' /\ \A c \in Saved : cmds'[c] = cmds[c]
       /\ \A c \in Saved' \ Saved : cmds'[c].kind \in {"message", "checkpoint_recovery"} /\ cmds'[c].note = "none"
    BY <1>6, <1>7, <1>10, <1>11, <1>12
<1>14. LedgerMoves
    <2>1. Shape'
        BY <1>4, <1>8, <1>9, <1>10 DEF IInv, Shape, n
    <2> QED BY <1>4, <1>13, <2>1 DEF LedgerMoves
<1>15. \A c \in Saved' : Family(c)'
    BY <1>9, <1>13, <1>14, FamilyStays
<1>16. \A kind \in Kinds : OfKind(kind) \subseteq OfKind(kind)'
    BY <1>13 DEF OfKind
<1>17. n \in OfKind("checkpoint_recovery")' /\ m \in OfKind("message")'
    BY <1>6, <1>10, <1>11, <1>12 DEF OfKind
<1>18. ~Open(run'.pause) /\ ~Open(run'.receipt)
    BY <1>3, <1>4, <1>9 DEF PermitsAgree
<1>19. PermitsNamed'
    BY <1>3, <1>7, <1>9, <1>16, <1>17, <1>18 DEF PermitsNamed, Kinds, Controls, Recoveries
<1>20. PermitsAgree'
    BY <1>9, <1>12, <1>18 DEF PermitsAgree
<1>21. AnswersKnown'
    BY <1>4, <1>13, <1>14, AnswersStay DEF OfKind
<1> QED BY <1>14, <1>15, <1>19, <1>20, <1>21, LedgerKeeps

-------------------------------------------------------------------------------
(* Steps of a delivery. *)

Sends == {"idle", "claimed", "probed", "started", "lost"}
Turned == [state : {"none", "working", "ended"}, starts : Nat]

\* A delivery leaves what its command is about and how far the brain is with it.
Unmoved(r, m, looks) ==
    r \in CommandRecords(looks) /\ r.kind = m.kind /\ r.of = m.of /\ r.status = m.status

\* Command c becomes r, its sender s and its turns t.
Delivers(c, r, s, t, looks) ==
    /\ Unmoved(r, cmds[c], looks) /\ s \in Sends /\ t \in Turned
    /\ (cmds[c].kind # "catalog" /\ cmds[c].note = "unavailable") => r.note = "unavailable"
    /\ t.starts <= 1
    /\ s # "idle" => r.note = "sending"
    /\ (r.note \in {"none", "unavailable"} \/ s \in {"claimed", "probed"}) => t.starts = 0
    /\ cmds' = [cmds EXCEPT ![c] = r]
    /\ send' = [send EXCEPT ![c] = s]
    /\ native' = [native EXCEPT ![c] = t]
    /\ run' = run /\ dec' = dec /\ approvalVars' = approvalVars

\* Such a step keeps the invariant.
LEMMA DeliveryKeeps ==
    ASSUME IInv, NEW looks, Table(looks), NEW c \in Saved, NEW r, NEW s, NEW t,
           Delivers(c, r, s, t, looks)
    PROVE  IInv'
<1>1. /\ Table(looks)' /\ Saved' = Saved /\ cmds'[c] = r
      /\ \A d \in Saved \ {c} : cmds'[d] = cmds[d]
    BY TableEdited DEF Unmoved, Delivers
<1>2. /\ Saved \subseteq Ids /\ send \in [Ids -> Sends] /\ native \in [Ids -> Turned]
    BY TableTyped DEF IInv, Shape, Sends, Turned
<1>3. /\ send' \in [Ids -> Sends] /\ native' \in [Ids -> Turned]
      /\ send'[c] = s /\ native'[c] = t
      /\ \A d \in Ids \ {c} : send'[d] = send[d] /\ native'[d] = native[d]
    BY <1>2 DEF Delivers
<1>4. Shape'
    BY <1>1, <1>3 DEF IInv, Shape, Table, Sends, Turned, Delivers
<1>5. ASSUME NEW d \in Ids PROVE Delivered(d)'
    <2>1. Delivered(d)
        BY DEF IInv
    <2>2. CASE d = c
        BY <1>1, <1>3, <2>2 DEF Delivered, Delivers
    <2>3. CASE d # c
        BY <1>1, <1>3, <2>1, <2>3 DEF Delivered
    <2> QED BY <2>2, <2>3
<1>6. AskShape' /\ RequestAgrees'
    BY <1>1 DEF IInv, AskShape, RequestAgrees, approvalVars, Delivers
<1>7. \A d \in Saved : /\ cmds'[d].kind = cmds[d].kind /\ cmds'[d].of = cmds[d].of
                       /\ cmds'[d].status = cmds[d].status
                       /\ cmds[d].kind # "catalog" /\ cmds[d].note = "unavailable"
                             => cmds'[d].note = "unavailable"
    BY <1>1 DEF Unmoved, Delivers
<1> QED BY <1>1, <1>4, <1>5, <1>6, <1>7, BesideKeeps DEF Delivers

\* What a delivery writes into its command.
LEMMA NoteTyped ==
    ASSUME NEW looks, NEW m \in CommandRecords(looks), NEW note \in Notes
    PROVE  Unmoved([m EXCEPT !.note = note], m, looks) /\ [m EXCEPT !.note = note].note = note
BY DEF CommandRecords, Unmoved

\* A refusal, with or without the diagnostic that proves it.
LEMMA RefusalTyped ==
    ASSUME NEW looks, NEW m \in CommandRecords(looks), NEW proof \in BOOLEAN
    PROVE  LET r == [m EXCEPT !.note = "unavailable", !.failed = proof] IN
           Unmoved(r, m, looks) /\ r.note = "unavailable"
BY DEF CommandRecords, Unmoved, Notes

\* A capability request that is sent again.
LEMMA RetryTyped ==
    ASSUME NEW looks, NEW m \in CommandRecords(looks)
    PROVE  LET r == [m EXCEPT !.note = "none", !.failed = FALSE, !.tries = m.tries + 1] IN
           Unmoved(r, m, looks) /\ r.note = "none"
<1> DEFINE tries == m.tries + 1
           r == [m EXCEPT !.note = "none", !.failed = FALSE, !.tries = tries]
<1>1. tries \in Nat /\ "none" \in Notes
    BY DEF CommandRecords, Notes
<1> HIDE DEF tries
<1>2. r \in CommandRecords(looks)
    BY <1>1 DEF CommandRecords
<1>3. r.kind = m.kind /\ r.of = m.of /\ r.status = m.status /\ r.note = "none"
    BY DEF CommandRecords
<1>4. Unmoved(r, m, looks) /\ r.note = "none"
    BY <1>2, <1>3 DEF Unmoved
<1> QED BY <1>4 DEF tries

\* What the send boundary and the observer save.
LEMMA ObservedTyped ==
    ASSUME NEW looks, NEW m \in CommandRecords(looks), NEW bit \in BOOLEAN
    PROVE  /\ Unmoved([m EXCEPT !.loaded = bit], m, looks) /\ [m EXCEPT !.loaded = bit].note = m.note
           /\ Unmoved([m EXCEPT !.closed = bit], m, looks) /\ [m EXCEPT !.closed = bit].note = m.note
<1>1. Unmoved([m EXCEPT !.loaded = bit], m, looks) /\ [m EXCEPT !.loaded = bit].note = m.note
    BY DEF CommandRecords, Unmoved
<1>2. Unmoved([m EXCEPT !.closed = bit], m, looks) /\ [m EXCEPT !.closed = bit].note = m.note
    BY DEF CommandRecords, Unmoved
<1> QED BY <1>1, <1>2

\* Every step of a sender, and those of Codex and of the observer.
LEMMA WakeKeeps ==
    ASSUME IInv, NEW c \in Saved,
           Claim(c) \/ RetryRefresh(c) \/ Sending(c) \/ EndTurn(c) \/ Observe(c)
    PROVE  IInv'
<1>1. PICK looks : Table(looks)
    BY DEF IInv, Shape, Table
<1> DEFINE m == cmds[c]
<1>2. m \in CommandRecords(looks) /\ c \in Ids /\ Unmoved(m, m, looks)
    BY <1>1, TableTyped DEF Unmoved
<1>3. cmds = [cmds EXCEPT ![c] = cmds[c]]
    BY <1>1 DEF Table, Saved
<1>4. /\ send[c] \in Sends /\ native[c] \in Turned
      /\ send = [send EXCEPT ![c] = send[c]] /\ native = [native EXCEPT ![c] = native[c]]
    BY <1>2 DEF IInv, Shape, Sends, Turned
<1>5. /\ native[c].starts <= 1
      /\ send[c] # "idle" => m.note = "sending"
      /\ (m.note \in {"none", "unavailable"} \/ send[c] \in {"claimed", "probed"})
            => native[c].starts = 0
    BY <1>2 DEF IInv, Delivered
<1>6. \A s \in {"idle", "claimed", "probed", "started", "lost"} : s \in Sends
    BY DEF Sends
<1>7. CASE Claim(c)
    <2>1. m.note = "none" /\ run' = run /\ dec' = dec /\ native' = native /\ approvalVars' = approvalVars
        BY <1>7 DEF Claim
    <2> DEFINE a == [m EXCEPT !.note = "sending"]
               b == [m EXCEPT !.note = "unavailable"]
    <2>2. Unmoved(a, m, looks) /\ a.note = "sending" /\ Unmoved(b, m, looks) /\ b.note = "unavailable"
        BY <1>2, NoteTyped DEF Notes
    <2>3. \/ cmds' = [cmds EXCEPT ![c] = a] /\ send' = [send EXCEPT ![c] = "claimed"]
          \/ cmds' = [cmds EXCEPT ![c] = b] /\ send' = send /\ send[c] = "idle"
        BY <1>7 DEF Claim
    <2> HIDE DEF a, b
    <2>4. \/ Delivers(c, a, "claimed", native[c], looks) \/ Delivers(c, b, "idle", native[c], looks)
        BY <1>4, <1>5, <1>6, <2>1, <2>2, <2>3 DEF Delivers
    <2> QED BY <1>1, <2>4, DeliveryKeeps
<1>8. CASE RetryRefresh(c)
    <2> DEFINE r == [m EXCEPT !.note = "none", !.failed = FALSE, !.tries = m.tries + 1]
    <2>1. /\ m.kind = "catalog" /\ m.note = "unavailable"
          /\ cmds' = [cmds EXCEPT ![c] = r]
          /\ run' = run /\ dec' = dec /\ native' = native /\ send' = send /\ approvalVars' = approvalVars
        BY <1>8 DEF RetryRefresh, hostVars
    <2>2. Unmoved(r, m, looks) /\ r.note = "none"
        BY <1>2, RetryTyped
    <2> HIDE DEF r
    <2>3. Delivers(c, r, send[c], native[c], looks)
        BY <1>4, <1>5, <2>1, <2>2 DEF Delivers
    <2> QED BY <1>1, <2>3, DeliveryKeeps
<1>9. CASE Probe(c)
    <2>1. /\ send[c] = "claimed" /\ send' = [send EXCEPT ![c] = "probed"]
          /\ cmds' = cmds /\ run' = run /\ dec' = dec /\ native' = native /\ approvalVars' = approvalVars
        BY <1>9 DEF Probe, ledgerVars
    <2>2. Delivers(c, cmds[c], "probed", native[c], looks)
        BY <1>2, <1>3, <1>4, <1>5, <1>6, <2>1 DEF Delivers
    <2> QED BY <1>1, <2>2, DeliveryKeeps
<1>10. CASE Refuse(c)
    <2>1. PICK proof \in BOOLEAN : cmds' = [cmds EXCEPT ![c].note = "unavailable", ![c].failed = proof]
        BY <1>10 DEF Refuse
    <2> DEFINE r == [m EXCEPT !.note = "unavailable", !.failed = proof]
    <2>2. /\ send[c] \in {"claimed", "probed"} /\ cmds' = [cmds EXCEPT ![c] = r]
          /\ send' = [send EXCEPT ![c] = "idle"]
          /\ run' = run /\ dec' = dec /\ native' = native /\ approvalVars' = approvalVars
        BY <1>10, <2>1 DEF Refuse
    <2>3. Unmoved(r, m, looks) /\ r.note = "unavailable"
        BY <1>2, RefusalTyped
    <2> HIDE DEF r
    <2>4. Delivers(c, r, "idle", native[c], looks)
        BY <1>4, <1>5, <1>6, <2>2, <2>3 DEF Delivers
    <2> QED BY <1>1, <2>4, DeliveryKeeps
<1>11. CASE Start(c)
    <2> DEFINE r == [m EXCEPT !.loaded = (m.kind = "receipt_recovery")]
               t == [state |-> "working", starts |-> native[c].starts + 1]
    <2>1. /\ send[c] = "probed" /\ m.note = "sending"
          /\ cmds' = [cmds EXCEPT ![c] = r]
          /\ native' \in {native, [native EXCEPT ![c] = t]}
          /\ \E s \in {"started", "lost"} : send' = [send EXCEPT ![c] = s]
          /\ run' = run /\ dec' = dec /\ approvalVars' = approvalVars
        BY <1>11 DEF Start
    <2>2. (m.kind = "receipt_recovery") \in BOOLEAN
        OBVIOUS
    <2>3. Unmoved(r, m, looks) /\ r.note = m.note
        BY <1>2, <2>2, ObservedTyped
    <2>4. t \in Turned /\ t.starts = 1
        BY <1>4, <1>5, <2>1 DEF Turned
    <2>5. PICK s \in {"started", "lost"} : send' = [send EXCEPT ![c] = s]
        BY <2>1
    <2>6. PICK u \in {native[c], t} : native' = [native EXCEPT ![c] = u]
        BY <1>4, <2>1
    <2>7. u \in Turned /\ u.starts <= 1
        BY <1>4, <1>5, <2>4, <2>6
    <2> HIDE DEF r, t
    <2>8. Delivers(c, r, s, u, looks)
        BY <1>6, <2>1, <2>3, <2>5, <2>6, <2>7 DEF Delivers
    <2> QED BY <1>1, <2>8, DeliveryKeeps
<1>12. CASE Finish(c)
    <2> DEFINE note == Note(send[c])
               r == [m EXCEPT !.note = note]
    <2>1. /\ send[c] \in {"started", "lost"} /\ cmds' = [cmds EXCEPT ![c] = r]
          /\ send' = [send EXCEPT ![c] = "idle"]
          /\ run' = run /\ dec' = dec /\ native' = native /\ approvalVars' = approvalVars
        BY <1>12 DEF Finish
    <2>2. note \in Notes /\ note \in {"accepted", "uncertain"}
        BY DEF Note, Notes
    <2> HIDE DEF note
    <2>3. Unmoved(r, m, looks) /\ r.note = note
        BY <1>2, <2>2, NoteTyped
    <2> HIDE DEF r
    <2>4. Delivers(c, r, "idle", native[c], looks)
        BY <1>4, <1>5, <1>6, <2>1, <2>2, <2>3 DEF Delivers
    <2> QED BY <1>1, <2>4, DeliveryKeeps
<1>13. CASE EndTurn(c)
    <2> DEFINE t == [native[c] EXCEPT !.state = "ended"]
    <2>1. /\ native' = [native EXCEPT ![c] = t]
          /\ cmds' = cmds /\ run' = run /\ dec' = dec /\ send' = send /\ approvalVars' = approvalVars
        BY <1>13 DEF EndTurn, ledgerVars
    <2>2. t \in Turned /\ t.starts = native[c].starts
        BY <1>4 DEF Turned
    <2> HIDE DEF t
    <2>3. Delivers(c, cmds[c], send[c], t, looks)
        BY <1>2, <1>3, <1>4, <1>5, <2>1, <2>2 DEF Delivers
    <2> QED BY <1>1, <2>3, DeliveryKeeps
<1>14. CASE Observe(c)
    <2>1. PICK closed \in BOOLEAN : cmds' = [cmds EXCEPT ![c].closed = closed]
        BY <1>14 DEF Observe
    <2> DEFINE r == [m EXCEPT !.closed = closed]
    <2>2. /\ cmds' = [cmds EXCEPT ![c] = r]
          /\ run' = run /\ dec' = dec /\ native' = native /\ send' = send /\ approvalVars' = approvalVars
        BY <1>14, <2>1 DEF Observe
    <2>3. Unmoved(r, m, looks) /\ r.note = m.note
        BY <1>2, ObservedTyped
    <2> HIDE DEF r
    <2>4. Delivers(c, r, send[c], native[c], looks)
        BY <1>4, <1>5, <2>2, <2>3 DEF Delivers
    <2> QED BY <1>1, <2>4, DeliveryKeeps
<1> QED BY <1>7, <1>8, <1>9, <1>10, <1>11, <1>12, <1>13, <1>14 DEF Sending

-------------------------------------------------------------------------------
(* Steps of the native request. *)

Asks == [cmd : Nat, choice : {"none", "accept", "decline"},
         at : {"none", "waiting", "looked", "wrote", "resolved", "over", "leaving"},
         seen : {"none", "accept", "decline"},
         row : {"none", "error", "resolved", "ended"}, sent : BOOLEAN, expired : BOOLEAN]
Entries == [cmd : Nat, choice : {"none", "accept", "decline"},
            status : {"none", "claimed", "queued", "uncertain", "response_written", "resolved",
                      "resolved_without_response", "blocked"}]

\* The ledger's commands and the deliveries are untouched.
LEMMA RequestKeeps ==
    ASSUME IInv, UNCHANGED <<cmds, run, dec, send, native>>, AskShape', RequestAgrees'
    PROVE  IInv'
<1>1. Shape' /\ Saved' = Saved /\ \A c \in Ids : Delivered(c)'
    BY DEF IInv, Shape, Saved, Delivered
<1> QED BY <1>1, BesideKeeps

\* An offer in use names a saved command.
LEMMA AskTyped ==
    ASSUME IInv
    PROVE  /\ ask \in Asks /\ entry \in Entries /\ Saved \subseteq Nat \ {0}
           /\ ask.at # "none" => ask.cmd \in Saved
           /\ Offered => ask.at # "none" /\ ask # NoAsk
           /\ entry = NoEntry => entry.status = "none" /\ entry.choice = "none"
<1>1. Saved \subseteq Nat \ {0}
    BY OpenNamed
<1> QED BY <1>1 DEF IInv, AskShape, Asks, Entries, Offered, NoAsk, NoEntry

\* What a transaction of the observer may make of the intent.
LEMMA RecordedMoves ==
    ASSUME IInv, NEW status \in {"uncertain", "resolved", "resolved_without_response", "blocked",
                                 "response_written"}, Recorded(status)
    PROVE  /\ entry' \in Entries /\ entry'.choice = entry.choice
           /\ entry'.status = entry.status \/ (entry'.status = status /\ entry.status \in Prior(status))
           /\ entry = NoEntry => entry' = entry
           /\ entry # NoEntry => entry' # NoEntry /\ entry'.status # "none"
<1>1. entry \in Entries /\ (entry = NoEntry => entry.status = "none" /\ entry.choice = "none")
    BY AskTyped
<1>2. entry # NoEntry => entry.choice # "none" /\ entry.status # "none"
    BY DEF IInv, RequestAgrees
<1>3. "none" \notin Prior(status)
    BY DEF Prior
<1> DEFINE to == IF entry.status \in Prior(status) THEN status ELSE entry.status
           e == [entry EXCEPT !.status = to]
<1>4. entry' = entry \/ entry' = e
    BY DEF Recorded
<1>5. to = entry.status \/ (to = status /\ entry.status \in Prior(status))
    OBVIOUS
<1>6. to \in {"none", "claimed", "queued", "uncertain", "response_written", "resolved",
              "resolved_without_response", "blocked"}
    BY <1>1, <1>5 DEF Entries
<1>7. to = entry.status => e = entry
    BY <1>1 DEF Entries
<1> HIDE DEF to
<1>8. e \in Entries /\ e.choice = entry.choice /\ e.status = to
    BY <1>1, <1>6 DEF Entries
<1> HIDE DEF e
<1>9. NoEntry.choice = "none"
    BY DEF NoEntry
<1> QED BY <1>1, <1>2, <1>3, <1>4, <1>5, <1>7, <1>8, <1>9

\* The conjuncts of RequestAgrees that an observer's step may disturb.
LEMMA ObserverKeeps ==
    ASSUME IInv, UNCHANGED <<cmds, run, dec, send, native, owner, req>>,
           ask.at # "none", ask' \in Asks, ask'.at # "none", ask'.cmd = ask.cmd,
           entry' \in Entries, entry'.choice = entry.choice,
           entry = NoEntry => entry' = entry,
           entry # NoEntry => entry' # NoEntry /\ entry'.status # "none",
           ask'.choice = ask.choice, ask'.seen \in {ask.seen, ask.choice},
           frame' \in {frame, <<entry.choice>>}, frame' # frame => entry # NoEntry,
           ask'.sent => frame' # <<>>,
           ask'.at \in {"waiting", "looked"} /\ ~ask'.sent => frame' = <<>>,
           ask'.at = "wrote" => ask'.sent,
           entry'.status \in {"response_written", "resolved"} => frame' # <<>>,
           entry'.status \in {"blocked", "resolved_without_response"} => frame' = <<>>,
           entry'.status \in {"blocked", "resolved_without_response", "resolved"} =>
              ask'.at \notin {"waiting", "looked", "wrote"}
    PROVE  IInv'
<1>1. /\ ask \in Asks /\ ask.cmd \in Saved
      /\ owner \in {"idle", "claimed", "queued", "uncertain"}
    BY AskTyped DEF IInv, AskShape
<1>2. AskShape'
    BY <1>1 DEF AskShape, Asks, Entries, Saved
<1>3. ask # NoAsk /\ req # "none"
    BY DEF NoAsk, IInv, RequestAgrees
<1>4. RequestAgrees'
    BY <1>3 DEF IInv, RequestAgrees
<1> QED BY <1>2, <1>4, RequestKeeps

\* The offer, the steps of the owner's thread, Codex and the clock.
LEMMA OwnerKeeps ==
    ASSUME IInv, \/ \E c \in Saved : Offer(c)
                 \/ \E choice \in {"accept", "decline"} : OwnerClaim(choice)
                 \/ OwnerQueue \/ OwnerRecord \/ NativeResolve \/ Expire
    PROVE  IInv'
<1>1. /\ ask \in Asks /\ entry \in Entries /\ Saved \subseteq Nat \ {0}
      /\ ask.at # "none" => ask.cmd \in Saved
      /\ Offered => ask.at # "none" /\ ask # NoAsk
      /\ entry = NoEntry => entry.status = "none" /\ entry.choice = "none"
    BY AskTyped
<1>2. AskShape /\ RequestAgrees
    BY DEF IInv
<1>3. UNCHANGED <<cmds, run, dec, send, native>> /\ Saved' = Saved
    BY DEF Offer, OwnerClaim, OwnerQueue, OwnerRecord, NativeResolve, Expire, ledgerVars, hostVars, Saved
<1>4. CASE \E c \in Saved : Offer(c)
    <2>1. PICK c \in Saved : /\ ask' = [NoAsk EXCEPT !.cmd = c, !.at = "waiting"] /\ req' = "open"
                             /\ req = "none" /\ UNCHANGED <<owner, entry, frame>>
        BY <1>4 DEF Offer
    <2>2. /\ ask' \in Asks /\ ask'.cmd = c /\ ask'.at = "waiting" /\ ask'.choice = "none"
          /\ ask'.seen = "none" /\ ask'.sent = FALSE
        BY <1>1, <2>1 DEF Asks, NoAsk
    <2>3. AskShape'
        BY <1>2, <1>3, <2>1, <2>2 DEF AskShape, Asks
    <2>4. RequestAgrees'
        BY <1>1, <1>2, <2>1, <2>2 DEF RequestAgrees
    <2> QED BY <1>3, <2>3, <2>4, RequestKeeps
<1>5. CASE \E choice \in {"accept", "decline"} : OwnerClaim(choice)
    <2>1. PICK choice \in {"accept", "decline"} :
            /\ owner = "idle" /\ Answerable /\ entry = NoEntry
            /\ entry' = [cmd |-> ask.cmd, choice |-> choice, status |-> "claimed"]
            /\ owner' = "claimed" /\ UNCHANGED <<ask, req, frame>>
        BY <1>5 DEF OwnerClaim
    <2>2. entry' \in Entries /\ entry'.choice = choice /\ entry'.status = "claimed" /\ entry' # NoEntry
        BY <1>1, <2>1 DEF Asks, Entries, NoEntry
    <2>3. ask.choice = "none" /\ ask # NoAsk
        BY <1>1, <2>1 DEF Answerable
    <2>4. AskShape'
        BY <1>2, <1>3, <2>1, <2>2 DEF AskShape, Entries
    <2>5. RequestAgrees'
        BY <1>2, <2>1, <2>2, <2>3 DEF RequestAgrees
    <2> QED BY <1>3, <2>4, <2>5, RequestKeeps
<1>6. CASE OwnerQueue
    <2>1. /\ owner = "claimed" /\ UNCHANGED <<entry, req, frame>>
          /\ \/ Answerable /\ owner' = "queued" /\ ask' = [ask EXCEPT !.choice = entry.choice]
             \/ owner' = "uncertain" /\ ask' = ask
        BY <1>6 DEF OwnerQueue
    <2>2. entry # NoEntry
        BY <1>2, <2>1 DEF RequestAgrees
    <2>3. CASE Answerable /\ owner' = "queued" /\ ask' = [ask EXCEPT !.choice = entry.choice]
        <3>1. ask.choice = "none" /\ ask # NoAsk /\ ask.at # "none"
            BY <1>1, <2>3 DEF Answerable
        <3>2. /\ ask' \in Asks /\ ask'.choice = entry.choice /\ ask'.at = ask.at /\ ask'.seen = ask.seen
              /\ ask'.sent = ask.sent /\ ask'.cmd = ask.cmd
            BY <1>1, <2>3 DEF Asks, Entries
        <3>3. AskShape'
            BY <1>1, <1>2, <1>3, <2>1, <2>3, <3>1, <3>2 DEF AskShape, Asks
        <3>4. RequestAgrees'
            BY <1>2, <2>1, <2>2, <2>3, <3>1, <3>2 DEF RequestAgrees
        <3> QED BY <1>3, <3>3, <3>4, RequestKeeps
    <2>4. CASE owner' = "uncertain" /\ ask' = ask
        <3>1. AskShape' /\ RequestAgrees'
            BY <1>2, <1>3, <2>1, <2>2, <2>4 DEF AskShape, RequestAgrees
        <3> QED BY <1>3, <3>1, RequestKeeps
    <2> QED BY <2>1, <2>3, <2>4
<1>7. CASE OwnerRecord
    <2>1. /\ owner \in {"queued", "uncertain"} /\ owner' = "idle" /\ UNCHANGED <<ask, req, frame>>
          /\ entry' = entry \/ (entry' = [entry EXCEPT !.status = owner] /\ entry.status = "claimed")
        BY <1>1, <1>7 DEF OwnerRecord, Entries
    <2>2. entry # NoEntry
        BY <1>2, <2>1 DEF RequestAgrees
    <2>3. /\ entry' \in Entries /\ entry'.choice = entry.choice /\ entry' # NoEntry
          /\ entry'.status = entry.status \/ entry'.status \in {"queued", "uncertain"}
        <3>1. CASE entry' = entry
            BY <1>1, <2>2, <3>1
        <3>2. CASE entry' = [entry EXCEPT !.status = owner]
            <4>1. entry' \in Entries /\ entry'.choice = entry.choice /\ entry'.status = owner
                BY <1>1, <2>1, <3>2 DEF Entries
            <4>2. NoEntry.status = "none"
                BY DEF NoEntry
            <4> QED BY <2>1, <4>1, <4>2
        <3> QED BY <2>1, <3>1, <3>2
    <2>4. AskShape'
        BY <1>2, <1>3, <2>1, <2>3 DEF AskShape, Entries
    <2>5. RequestAgrees'
        BY <1>2, <2>1, <2>2, <2>3 DEF RequestAgrees
    <2> QED BY <1>3, <2>4, <2>5, RequestKeeps
<1>8. CASE NativeResolve
    <2>1. AskShape' /\ RequestAgrees'
        BY <1>2, <1>3, <1>8 DEF NativeResolve, AskShape, RequestAgrees
    <2> QED BY <1>3, <2>1, RequestKeeps
<1>9. CASE Expire
    <2>1. Offered /\ ask' = [ask EXCEPT !.expired = TRUE] /\ UNCHANGED <<owner, entry, req, frame>>
        BY <1>9 DEF Expire
    <2>2. /\ ask' \in Asks /\ ask'.choice = ask.choice /\ ask'.at = ask.at /\ ask'.seen = ask.seen
          /\ ask'.sent = ask.sent /\ ask'.cmd = ask.cmd
        BY <1>1, <2>1 DEF Asks
    <2>3. AskShape'
        BY <1>1, <1>2, <1>3, <2>1, <2>2 DEF AskShape, Asks
    <2>4. RequestAgrees'
        BY <1>1, <1>2, <2>1, <2>2 DEF RequestAgrees
    <2> QED BY <1>3, <2>3, <2>4, RequestKeeps
<1> QED BY <1>4, <1>5, <1>6, <1>7, <1>8, <1>9

\* The observer's looks, the end of its wait and its record of a response.
LEMMA ObserveRequestKeeps ==
    ASSUME IInv, Look \/ EndWait \/ RecordWritten
    PROVE  IInv'
<1>1. /\ ask \in Asks /\ entry \in Entries
      /\ entry = NoEntry => entry.status = "none" /\ entry.choice = "none"
    BY AskTyped
<1>2. RequestAgrees
    BY DEF IInv
<1>3. UNCHANGED <<cmds, run, dec, send, native, owner, req, frame>>
    BY DEF Look, EndWait, RecordWritten, ledgerVars, hostVars
<1>4. CASE Look
    <2>1. PICK row \in Rows : ask' = [ask EXCEPT !.at = "looked", !.row = row, !.seen = ask.choice]
        BY <1>4 DEF Look
    <2>2. row \in {"none", "error", "resolved", "ended"}
        BY DEF Rows
    <2>3. /\ ask' \in Asks /\ ask'.at = "looked" /\ ask'.cmd = ask.cmd /\ ask'.choice = ask.choice
          /\ ask'.seen = ask.choice /\ ask'.sent = ask.sent
        BY <1>1, <2>1, <2>2 DEF Asks
    <2>4. ask.at = "waiting" /\ entry' = entry
        BY <1>4 DEF Look
    <2> QED BY <1>1, <1>2, <1>3, <2>3, <2>4, ObserverKeeps DEF RequestAgrees
<1>5. CASE EndWait
    <2>1. ask.at \in {"waiting", "looked"} /\ (Recorded(Outcome) \/ entry' = entry)
        BY <1>5 DEF EndWait, Conclude, Elapsed
    <2> DEFINE at == IF ask.row = "resolved" /\ ask.sent THEN "resolved"
                     ELSE IF ask.row = "ended" THEN "over" ELSE "leaving"
    <2>2. ask' = [ask EXCEPT !.at = at] /\ at \in {"resolved", "over", "leaving"}
        BY <1>5 DEF EndWait
    <2> HIDE DEF at
    <2>3. /\ ask' \in Asks /\ ask'.at = at /\ ask'.cmd = ask.cmd /\ ask'.choice = ask.choice
          /\ ask'.seen = ask.seen /\ ask'.sent = ask.sent
        BY <1>1, <2>2 DEF Asks
    <2>4. /\ Outcome \in {"uncertain", "resolved", "resolved_without_response", "blocked"}
          /\ Outcome = "resolved" => ask.sent
          /\ Outcome \in {"resolved_without_response", "blocked"} => ~ask.sent
        BY <1>1 DEF Outcome, Asks
    <2>5. /\ entry' \in Entries /\ entry'.choice = entry.choice
          /\ entry'.status = entry.status \/ entry'.status = Outcome
          /\ entry = NoEntry => entry' = entry
          /\ entry # NoEntry => entry' # NoEntry /\ entry'.status # "none"
        BY <1>1, <1>2, <2>1, <2>4, RecordedMoves DEF RequestAgrees
    <2>6. /\ ask.sent => frame # <<>>
          /\ ~ask.sent => frame = <<>>
          /\ entry.status \in {"response_written", "resolved"} => frame # <<>>
          /\ entry.status \in {"blocked", "resolved_without_response"} => frame = <<>>
        BY <1>2, <2>1 DEF RequestAgrees
    <2>7. /\ entry'.status \in {"response_written", "resolved"} => frame # <<>>
          /\ entry'.status \in {"blocked", "resolved_without_response"} => frame = <<>>
        BY <2>4, <2>5, <2>6
    <2> QED BY <1>1, <1>3, <2>1, <2>2, <2>3, <2>5, <2>6, <2>7, ObserverKeeps
<1>6. CASE RecordWritten
    <2>1. ask.at = "wrote" /\ Recorded("response_written")
          /\ ask' = [ask EXCEPT !.at = "waiting", !.row = "none"]
        BY <1>6 DEF RecordWritten
    <2>2. /\ ask' \in Asks /\ ask'.at = "waiting" /\ ask'.cmd = ask.cmd /\ ask'.choice = ask.choice
          /\ ask'.seen = ask.seen /\ ask'.sent = ask.sent
        BY <1>1, <2>1 DEF Asks
    <2>3. /\ entry' \in Entries /\ entry'.choice = entry.choice
          /\ entry'.status = entry.status \/ entry'.status = "response_written"
          /\ entry = NoEntry => entry' = entry
          /\ entry # NoEntry => entry' # NoEntry /\ entry'.status # "none"
        BY <2>1, RecordedMoves
    <2>4. /\ ask.sent /\ frame # <<>>
          /\ entry.status \notin {"blocked", "resolved_without_response", "resolved"}
        BY <1>2, <2>1 DEF RequestAgrees
    <2> QED BY <1>1, <1>3, <2>1, <2>2, <2>3, <2>4, ObserverKeeps
<1> QED BY <1>4, <1>5, <1>6

\* The one step that sends a frame sends the choice the owner made.
LEMMA RespondKeeps ==
    ASSUME IInv, Respond
    PROVE  /\ IInv'
           /\ frame' # frame => /\ frame' = <<ask.seen>>
                                /\ ask.seen = "accept" => AcceptAuthorized
<1>1. /\ ask \in Asks /\ entry \in Entries
      /\ entry = NoEntry => entry.status = "none" /\ entry.choice = "none"
    BY AskTyped
<1>2. RequestAgrees
    BY DEF IInv
<1>3. UNCHANGED <<cmds, run, dec, send, native, owner, req>>
    BY DEF Respond, ledgerVars, hostVars
<1>4. /\ ask.at = "looked" /\ ~ask.sent /\ ask.seen # "none"
      /\ \/ Recorded("blocked") /\ ask' = [ask EXCEPT !.at = "leaving"] /\ frame' = frame
         \/ /\ frame' = Append(frame, ask.seen) /\ ask' = [ask EXCEPT !.at = "wrote", !.sent = TRUE]
            /\ entry' = entry /\ (ask.seen = "accept" => AcceptAuthorized)
         \/ /\ frame' \in {frame, Append(frame, ask.seen)} /\ Recorded("uncertain")
            /\ ask' = [ask EXCEPT !.at = "leaving"] /\ (ask.seen = "accept" => AcceptAuthorized)
    BY DEF Respond
<1>5. /\ frame = <<>> /\ ask.seen = entry.choice /\ entry # NoEntry
      /\ entry.status \notin {"response_written", "blocked", "resolved_without_response", "resolved"}
      /\ entry.status # "none"
    BY <1>2, <1>4 DEF RequestAgrees
<1>6. Append(frame, ask.seen) = <<ask.seen>> /\ <<ask.seen>> # <<>>
    BY <1>5
<1>7. CASE Recorded("blocked") /\ ask' = [ask EXCEPT !.at = "leaving"] /\ frame' = frame
    <2>1. /\ ask' \in Asks /\ ask'.at = "leaving" /\ ask'.cmd = ask.cmd /\ ask'.choice = ask.choice
          /\ ask'.seen = ask.seen /\ ask'.sent = ask.sent
        BY <1>1, <1>7 DEF Asks
    <2>2. /\ entry' \in Entries /\ entry'.choice = entry.choice
          /\ entry'.status = entry.status \/ entry'.status = "blocked"
          /\ entry' # NoEntry /\ entry'.status # "none"
        BY <1>5, <1>7, RecordedMoves
    <2> QED BY <1>1, <1>3, <1>4, <1>5, <1>7, <2>1, <2>2, ObserverKeeps
<1>8. CASE /\ frame' = Append(frame, ask.seen) /\ ask' = [ask EXCEPT !.at = "wrote", !.sent = TRUE]
           /\ entry' = entry /\ (ask.seen = "accept" => AcceptAuthorized)
    <2>1. /\ ask' \in Asks /\ ask'.at = "wrote" /\ ask'.cmd = ask.cmd /\ ask'.choice = ask.choice
          /\ ask'.seen = ask.seen /\ ask'.sent = TRUE
        BY <1>1, <1>8 DEF Asks
    <2>2. IInv'
        BY <1>1, <1>3, <1>4, <1>5, <1>6, <1>8, <2>1, ObserverKeeps
    <2> QED BY <1>6, <1>8, <2>2
<1>9. CASE /\ frame' \in {frame, Append(frame, ask.seen)} /\ Recorded("uncertain")
           /\ ask' = [ask EXCEPT !.at = "leaving"] /\ (ask.seen = "accept" => AcceptAuthorized)
    <2>1. /\ ask' \in Asks /\ ask'.at = "leaving" /\ ask'.cmd = ask.cmd /\ ask'.choice = ask.choice
          /\ ask'.seen = ask.seen /\ ask'.sent = ask.sent
        BY <1>1, <1>9 DEF Asks
    <2>2. /\ entry' \in Entries /\ entry'.choice = entry.choice
          /\ entry'.status = entry.status \/ entry'.status = "uncertain"
          /\ entry' # NoEntry /\ entry'.status # "none"
        BY <1>5, <1>9, RecordedMoves
    <2>3. IInv'
        BY <1>1, <1>3, <1>4, <1>5, <1>6, <1>9, <2>1, <2>2, ObserverKeeps
    <2> QED BY <1>6, <1>9, <2>3
<1> QED BY <1>4, <1>7, <1>8, <1>9

\* An offer that is withdrawn or dies with its process.
LEMMA WithdrawKeeps ==
    ASSUME IInv, Withdraw \/ Crash
    PROVE  IInv'
<1>1. AskShape /\ RequestAgrees
    BY DEF IInv
<1>2. /\ NoAsk \in Asks /\ NoAsk.at = "none" /\ NoAsk.choice = "none" /\ NoAsk.seen = "none"
      /\ NoAsk.sent = FALSE
    BY DEF NoAsk, Asks
<1>3. PICK looks : Table(looks)
    BY DEF IInv, Shape, Table
<1>4. CASE Withdraw
    <2> DEFINE c == ask.cmd
    <2>1. PICK bit \in BOOLEAN : cmds' = [cmds EXCEPT ![c].closed = cmds[c].closed \/ bit]
        BY <1>4 DEF Withdraw
    <2>2. ask.at # "none" /\ ask' = NoAsk /\ UNCHANGED <<run, dec, send, native, owner, entry, req, frame>>
        BY <1>4 DEF Withdraw
    <2>3. c \in Saved
        BY <1>1, <2>2 DEF AskShape
    <2>4. cmds[c] \in CommandRecords(looks)
        BY <1>3, <2>3, TableTyped
    <2> DEFINE closed == cmds[c].closed \/ bit
               r == [cmds[c] EXCEPT !.closed = closed]
    <2>5. closed \in BOOLEAN /\ cmds' = [cmds EXCEPT ![c] = r]
        BY <2>1
    <2> HIDE DEF closed, c
    <2>6. Unmoved(r, cmds[c], looks) /\ r.note = cmds[c].note
        BY <2>4, <2>5, ObservedTyped
    <2> HIDE DEF r
    <2>7. /\ Table(looks)' /\ Saved' = Saved /\ cmds'[c] = r
          /\ \A d \in Saved \ {c} : cmds'[d] = cmds[d]
        BY <1>3, <2>3, <2>5, <2>6, TableEdited DEF Unmoved
    <2>8. Shape'
        BY <2>2, <2>7 DEF IInv, Shape, Table
    <2>9. \A d \in Saved : /\ cmds'[d].kind = cmds[d].kind /\ cmds'[d].of = cmds[d].of
                           /\ cmds'[d].status = cmds[d].status /\ cmds'[d].note = cmds[d].note
        BY <2>6, <2>7 DEF Unmoved
    <2>10. \A d \in Ids : Delivered(d)'
        BY <2>2, <2>7, <2>9 DEF IInv, Delivered
    <2>11. AskShape'
        BY <1>1, <1>2, <2>2 DEF AskShape, Asks
    <2>12. RequestAgrees'
        BY <1>1, <1>2, <2>2 DEF RequestAgrees
    <2> QED BY <2>2, <2>7, <2>8, <2>9, <2>10, <2>11, <2>12, BesideKeeps
<1>5. CASE Crash
    <2>1. /\ ask' = NoAsk /\ owner' = "idle" /\ send' = [c \in Ids |-> "idle"]
          /\ UNCHANGED <<cmds, run, dec, native, entry, req, frame>>
        BY <1>5 DEF Crash, ledgerVars
    <2>2. Shape' /\ Saved' = Saved
        BY <2>1 DEF IInv, Shape, Saved, Ids
    <2>3. \A d \in Ids : Delivered(d)'
        BY <2>1, <2>2 DEF IInv, Delivered, Ids
    <2>4. AskShape'
        BY <1>1, <1>2, <2>1 DEF AskShape, Asks
    <2>5. RequestAgrees'
        BY <1>1, <1>2, <2>1 DEF RequestAgrees
    <2> QED BY <2>1, <2>2, <2>3, <2>4, <2>5, BesideKeeps
<1> QED BY <1>4, <1>5

-------------------------------------------------------------------------------
(* The theorems. *)

\* A mailbox without commands, and every step of it, satisfies the invariant.
LEMMA InitHolds == Init => IInv
<1> SUFFICES ASSUME Init PROVE IInv
    OBVIOUS
<1>1. Saved = {} /\ dec = <<>> /\ cmds = <<>>
    BY DEF Init, Saved
<1>2. NoRun \in RunRecords /\ [NoRun EXCEPT !.status = "running"] \in RunRecords
    BY DEF NoRun, RunRecords, NoPermit, PermitRecords
<1>3. run \in RunRecords /\ run.pause = NoPermit /\ run.receipt = NoPermit /\ run.wake = NoPermit
    BY <1>2 DEF Init, NoRun
<1>4. Shape
    <2>1. /\ cmds \in Seq(CommandRecords({})) /\ Len(cmds) <= MaxCommands /\ dec \in Seq(Versions)
        BY <1>1, MailboxBounds
    <2> QED BY <1>3, <2>1 DEF Init, Shape, Ids
<1>5. ASSUME NEW c \in Ids PROVE Delivered(c)
    BY <1>1, <1>5 DEF Init, Delivered
<1>6. PermitsNamed /\ PermitsAgree
    BY <1>3 DEF PermitsNamed, PermitsAgree, NoPermit, Open
<1>7. AnswersKnown
    BY <1>1 DEF AnswersKnown, QueuedAnswers, OfKind
<1>8. AskShape /\ RequestAgrees
    BY DEF Init, AskShape, RequestAgrees, NoAsk, NoEntry
<1> QED BY <1>1, <1>4, <1>5, <1>6, <1>7, <1>8 DEF IInv

\* Every step of the mailbox keeps the invariant.
LEMMA StepKeeps == IInv /\ [Next]_mailboxVars => IInv'
<1> SUFFICES ASSUME IInv, [Next]_mailboxVars PROVE IInv'
    OBVIOUS
<1>1. CASE RunStep
    BY <1>1, RunStepKeeps, CheckpointKeeps
<1>2. CASE RecoveryStep
    BY <1>2, ReceiptsKeep, ConfirmPauseKeeps, ConfirmReceiptKeeps, ConfirmCheckpointKeeps,
       PauseReceiptsKeep, CheckpointReceiptKeeps, LapseKeeps DEF RecoveryStep
<1>3. CASE ConversationStep
    BY <1>3, ReceiptsKeep, PublishKeeps, AnswerKeeps, DrainsKeep, ReplyKeeps, ResolveKeeps
       DEF ConversationStep
<1>4. CASE WakeStep
    BY <1>4, WakeKeeps, WithdrawKeeps DEF WakeStep
<1>5. CASE ApprovalStep
    BY <1>5, OwnerKeeps, ObserveRequestKeeps, RespondKeeps, WithdrawKeeps DEF ApprovalStep
<1>6. CASE UNCHANGED mailboxVars
    <2>1. UNCHANGED <<cmds, run, dec, send, native, ask, owner, entry, req, frame>>
        BY <1>6 DEF mailboxVars, commandVars, ledgerVars, hostVars, approvalVars
    <2>2. AskShape' /\ RequestAgrees'
        BY <2>1 DEF IInv, AskShape, RequestAgrees, Saved
    <2> QED BY <2>1, <2>2, RequestKeeps
<1> QED BY <1>1, <1>2, <1>3, <1>4, <1>5, <1>6 DEF Next

\* In every reachable state of a mailbox of any size.
THEOREM Invariant == Spec => []IInv
<1> QED BY InitHolds, StepKeeps, PTL DEF Spec

\* Through crashes, retries and recoveries a command starts one turn at most, a
\* delivery reported as unavailable started none, and a Pause with all its
\* recoveries after a failed wake has one turn altogether.
THEOREM BrainIsWokenOnce == Spec => []WokenOnce
<1>1. IInv => WokenOnce
    <2> SUFFICES ASSUME IInv PROVE WokenOnce
        OBVIOUS
    <2>1. PICK looks : Table(looks)
        BY DEF IInv, Shape, Table
    <2>2. \A c \in Saved :
            /\ native[c].starts \in Nat /\ native[c].starts <= 1
            /\ cmds[c].note = "unavailable" => native[c].starts = 0
        BY <2>1, TableTyped DEF IInv, Shape, Delivered
    <2>3. ASSUME NEW o \in Saved, NEW c \in Saved, NEW d \in Saved, c # d, cmds[o].kind = "pause",
                 {c, d} \subseteq {o} \cup {r \in OfKind("pause_recovery") : cmds[r].of = o}
          PROVE  native[c].starts + native[d].starts <= 1
        <3>1. \A r \in {c, d} \ {o} : /\ cmds[o].note = "unavailable"
                                      /\ r = run.pause.id \/ cmds[r].note = "unavailable"
            BY <2>3 DEF IInv, Family, OfKind
        <3>2. native[c].starts = 0 \/ native[d].starts = 0
            BY <2>2, <2>3, <3>1
        <3> QED BY <2>2, <3>2
    <2> QED BY <2>2, <2>3 DEF WokenOnce
<1> QED BY <1>1, Invariant, PTL

\* A queued answer of the owner is the one its decision waits for, so that the
\* next drain of the brain is not refused.
THEOREM QueuedAnswersAreCurrent == Spec => []AnswersCurrent
<1>1. IInv => AnswersCurrent
    BY DEF IInv, AnswersKnown, AnswersCurrent
<1> QED BY <1>1, Invariant, PTL

\* An open permit agrees with its command, with its Pause and with the run.
THEOREM PermitsStayTrue == Spec => []PermitsAgree
<1>1. IInv => PermitsAgree
    BY DEF IInv
<1> QED BY <1>1, Invariant, PTL

\* What the ledger says of a native request is true of the frames Codex was sent.
THEOREM LedgerTellsTheFrame == Spec => []FrameAgrees
<1>1. IInv => FrameAgrees
    <2> SUFFICES ASSUME IInv PROVE FrameAgrees
        OBVIOUS
    <2>1. frame = <<>> \/ frame = <<entry.choice>>
        BY DEF IInv, RequestAgrees
    <2>2. CASE frame = <<>>
        <3>1. Len(frame) = 0
            BY <2>2
        <3> QED BY <2>2, <3>1 DEF IInv, RequestAgrees, FrameAgrees
    <2>3. CASE frame = <<entry.choice>>
        <3>1. Len(frame) = 1
            BY <2>3
        <3>2. entry # NoEntry
            BY <2>3 DEF IInv, RequestAgrees
        <3>3. entry.status \in {"blocked", "resolved_without_response"} => frame = <<>>
            BY DEF IInv, RequestAgrees
        <3>4. entry.status \in {"response_written", "resolved"} => frame # <<>>
            BY DEF IInv, RequestAgrees
        <3> QED BY <2>3, <3>1, <3>2, <3>3, <3>4 DEF FrameAgrees
    <2> QED BY <2>1, <2>2, <2>3
<1> QED BY <1>1, Invariant, PTL

\* No step sends an acceptance unless the run runs and its intent is open.
THEOREM NoAcceptAfterStop == Spec => StopBeatsAccept
<1> DEFINE Sent == (frame' # frame /\ Last(frame') = "accept") =>
                      run.status = "running" /\ entry.status \in {"claimed", "queued"}
<1>1. IInv /\ [Next]_mailboxVars => [Sent]_mailboxVars
    <2> SUFFICES ASSUME IInv, Next, frame' # frame, Last(frame') = "accept"
                 PROVE  run.status = "running" /\ entry.status \in {"claimed", "queued"}
        OBVIOUS
    <2>1. Respond
        <3>1. ~RunStep
            BY DEF RunStep, Play, Pause, Resume, Control, RequestRefresh, Checkpoint, Acquire, Release,
                   RecoverController, approvalVars
        <3>2. ~RecoveryStep
            BY DEF RecoveryStep, SubmitReplyRecovery, ConfirmPauseRecovery, ConfirmReceiptRecovery,
                   ConfirmCheckpointRecovery, ReceiveReplyRecovery, ReceivePauseRecovery,
                   ReceiveReceiptRecovery, ReceiveCheckpointRecovery, LapsePermit, approvalVars
        <3>3. ~ConversationStep
            BY DEF ConversationStep, SubmitMessage, Publish, Answer, Process, Receive, ReceiveMessage,
                   Reply, ReceiveControl, CatalogReceipt, Resolve, approvalVars
        <3>4. ~WakeStep
            BY DEF WakeStep, Claim, RetryRefresh, Sending, Probe, Refuse, Start, Finish, EndTurn, Observe,
                   Crash, approvalVars
        <3> QED BY <3>1, <3>2, <3>3, <3>4
            DEF Next, ApprovalStep, Offer, OwnerClaim, OwnerQueue, OwnerRecord, Look, EndWait,
                RecordWritten, Withdraw, NativeResolve, Expire
    <2>2. frame' = <<ask.seen>> /\ (ask.seen = "accept" => AcceptAuthorized)
        BY <2>1, RespondKeeps
    <2>3. Last(frame') = ask.seen
        BY <2>2 DEF Last
    <2> QED BY <2>2, <2>3 DEF AcceptAuthorized
<1> QED BY <1>1, Invariant, PTL DEF Spec, StopBeatsAccept
=============================================================================
