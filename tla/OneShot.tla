------------------------------ MODULE OneShot ------------------------------
(* Running the one-shot recovery controls. An actor is an operating-system     *)
(* process in which an owner runs the backup and then the confirmation of one   *)
(* control, step by step along its plan. Between any two steps the reviewed     *)
(* facts may change, the owner may stop the attempt, another process may run    *)
(* the same control or one that shares its records, and any process may crash   *)
(* and be started again. What is on disk stays there: no step removes a record. *)
EXTENDS OneShotPlans, FiniteSets, Functions

CONSTANTS MaxStarts,    \* bound on the times a control is started
          MaxDrift      \* bound on the reviewed facts that change

VARIABLES
    flow,     \* the control an actor runs
    pc,       \* the step it is about to take
    mode,     \* running, failed inside its try block, or not running
    starts,   \* how often a control was started
    kept,     \* its latest backup: none, partial or complete
    made,     \* the places whose attempt it has claimed
    journal,  \* the records on disk
    said,     \* the places whose outcome record reports success
    lock,     \* who holds the registry and ledger locks
    changed,  \* the reviewed facts that are no longer so
    sent,     \* the effects performed
    again,    \* the effects performed a second time
    acked,    \* the effects whose answer came back
    fenced    \* the effects whose claim was saved too late

process == <<flow, pc, mode, starts, kept, made>>
disk    == <<journal, said, lock, changed>>
effect  == <<sent, again, acked, fenced>>
vars    == <<process, disk, effect>>

Nobody == "nobody"

Init ==
    /\ flow \in Assignments
    /\ pc = [a \in Actors |-> 0]
    /\ mode = [a \in Actors |-> "over"]
    /\ starts = 0
    /\ kept = [a \in Actors |-> "none"]
    /\ made = [a \in Actors |-> {}]
    /\ journal = Given[flow]
    /\ said = {} /\ lock = Nobody /\ changed = {}
    /\ sent = {} /\ again = {} /\ acked = {} /\ fenced = {}

-----------------------------------------------------------------------------
(* One step of a running control. *)

Steps(a) == Plan[flow[a]]
Step(a)  == Steps(a)[pc[a]]
On(a, do) == mode[a] = "run" /\ pc[a] \in DOMAIN Steps(a) /\ Step(a).do = do

Goto(a, k) == pc' = [pc EXCEPT ![a] = k] /\ UNCHANGED <<flow, mode, starts>>

Released(a) == IF lock = a THEN Nobody ELSE lock

\* The step refuses or raises. Before the try block nothing is left to write.
Refuse(a) ==
    /\ IF pc[a] < TryAt[flow[a]]
       THEN mode' = [mode EXCEPT ![a] = "over"] /\ pc' = [pc EXCEPT ![a] = 0]
       ELSE mode' = [mode EXCEPT ![a] = "failed"] /\ UNCHANGED pc
    /\ lock' = Released(a)
    /\ UNCHANGED <<flow, starts, kept, made, journal, said, changed, effect>>

\* A fact that has changed stays changed and a record stays: broken is for good.
Broken(step) == step.facts \cap changed # {} \/ step.absent \cap journal # {}
Holds(step)  == ~Broken(step) /\ step.present \subseteq journal

Check(a) ==
    /\ On(a, "check")
    /\ IF Holds(Step(a)) THEN Goto(a, pc[a] + 1) /\ UNCHANGED <<kept, made, disk, effect>>
                         ELSE Refuse(a)

\* The checks between saving the claim at step k and the effect it claims, for
\* the effects whose review is read again after their claim.
Rechecks ==
    [f \in Flows |-> [k \in DOMAIN Plan[f] |->
        IF Plan[f][k].do # "write" \/ Plan[f][k].record \notin Table[f].fenced THEN {} ELSE
        {Plan[f][j] : j \in {i \in DOMAIN Plan[f] :
            /\ k < i /\ Plan[f][i].do = "check"
            /\ \E s \in DOMAIN Plan[f] : /\ i < s /\ Performs(Plan[f][s])
                                         /\ Plan[f][s].record = Plan[f][k].record}}]]

\* Faulty variant: the claim is opened without O_EXCL.
WriteRecordAnyway(a) ==
    /\ On(a, "write")
    /\ journal' = journal \cup {Step(a).record}
    /\ made' = [made EXCEPT ![a] = @ \cup {Step(a).record[1]}]
    /\ Goto(a, pc[a] + 1)
    /\ UNCHANGED <<kept, said, lock, changed, effect>>

\* Every record is created exclusively: one that is there refuses.
WriteRecord(a) ==
    LET r == Step(a).record IN
    /\ On(a, "write")
    /\ IF r \in journal THEN Refuse(a) ELSE
        /\ journal' = journal \cup {r}
        /\ made' = [made EXCEPT ![a] = IF Marks(flow[a], r) THEN @ \cup {r[1]} ELSE @]
        /\ fenced' = IF \E c \in Rechecks[flow[a]][pc[a]] : Broken(c) THEN fenced \cup {r} ELSE fenced
        /\ Goto(a, pc[a] + 1)
        /\ UNCHANGED <<kept, said, lock, changed, sent, again, acked>>

Performed(r) == sent' = sent \cup {r} /\ again' = IF r \in sent THEN again \cup {r} ELSE again

\* Faulty variant: a lost answer is taken for one.
SendEffectUnanswered(a) ==
    LET r == Step(a).record IN
    /\ On(a, "send")
    /\ \/ /\ Performed(r) /\ acked' \in {acked, acked \cup {r}}
          /\ Goto(a, pc[a] + 1) /\ UNCHANGED <<kept, made, disk, fenced>>
       \/ Refuse(a)

\* The effect is performed and answered, performed with its answer lost, or not
\* performed; the last two look the same from here.
SendEffect(a) ==
    LET r == Step(a).record IN
    /\ On(a, "send")
    /\ \/ /\ Performed(r) /\ acked' = acked \cup {r}
          /\ Goto(a, pc[a] + 1) /\ UNCHANGED <<kept, made, disk, fenced>>
       \/ /\ Performed(r)
          /\ mode' = [mode EXCEPT ![a] = "failed"] /\ lock' = Released(a)
          /\ UNCHANGED <<flow, pc, starts, kept, made, journal, said, changed, acked, fenced>>
       \/ Refuse(a)

\* A local effect and the row it leaves are one commit.
CommitEffect(a) ==
    LET r == Step(a).record IN
    /\ On(a, "commit")
    /\ \/ /\ Performed(r) /\ acked' = acked \cup {r} /\ journal' = journal \cup {Step(a).saves}
          /\ Goto(a, pc[a] + 1) /\ UNCHANGED <<kept, made, said, lock, changed, fenced>>
       \/ Refuse(a)

\* The process becomes the native host and writes nothing more, or stays itself.
ExecEffect(a) ==
    /\ On(a, "exec")
    /\ \/ /\ Performed(Step(a).record)
          /\ mode' = [mode EXCEPT ![a] = "over"] /\ pc' = [pc EXCEPT ![a] = 0] /\ lock' = Released(a)
          /\ UNCHANGED <<flow, starts, kept, made, journal, said, changed, acked, fenced>>
       \/ Refuse(a)

\* What the step reads is as the plan expects it, or is not.
Observe(a) ==
    /\ On(a, "see")
    /\ \/ Goto(a, pc[a] + 1) /\ UNCHANGED <<kept, made, disk, effect>>
       \/ Refuse(a)

Branch(a) ==
    /\ On(a, "fork")
    /\ \E k \in {pc[a] + 1, pc[a] + 1 + Step(a).skip} : Goto(a, k)
    /\ UNCHANGED <<kept, made, disk, effect>>

\* Faulty variant: the locks are taken without waiting for their holder.
TakeLockAnyway(a) ==
    /\ On(a, "lock")
    /\ lock' = a /\ Goto(a, pc[a] + 1)
    /\ UNCHANGED <<kept, made, journal, said, changed, effect>>

TakeLock(a) ==
    /\ On(a, "lock") /\ lock = Nobody
    /\ lock' = a /\ Goto(a, pc[a] + 1)
    /\ UNCHANGED <<kept, made, journal, said, changed, effect>>

ReleaseLock(a) ==
    /\ On(a, "unlock")
    /\ lock' = Nobody /\ Goto(a, pc[a] + 1)
    /\ UNCHANGED <<kept, made, journal, said, changed, effect>>

\* The copies go to a new place, and their list is written last.
BackUp(a) ==
    /\ On(a, "copy") \/ On(a, "manifest")
    /\ kept' = [kept EXCEPT ![a] = IF Step(a).do = "copy" THEN "partial" ELSE "complete"]
    /\ Goto(a, pc[a] + 1) /\ UNCHANGED <<made, disk, effect>>

VerifyBackup(a) ==
    /\ On(a, "verify")
    /\ IF kept[a] = "complete" THEN Goto(a, pc[a] + 1) /\ UNCHANGED <<kept, made, disk, effect>>
                                 ELSE Refuse(a)

-----------------------------------------------------------------------------
(* The end of a confirmation, and what happens around it. *)

\* The failure record, if the block failed, the records written in any case, and
\* those that close what it has opened, in the places this process has claimed;
\* the outcome reports success when the
\* block ran to its end with every record the status command asks for, and the
\* connection could be closed.
Close(a) ==
    LET f == Table[flow[a]]
        closing == {pair[2] : pair \in {p \in f.closes : p[1] \in journal}}
        left == {r \in f.always \cup closing \cup (IF mode[a] = "failed" THEN f.failed ELSE {}) : r[1] \in made[a]}
    IN
    /\ \/ mode[a] = "failed"
       \/ mode[a] = "run" /\ pc[a] > Len(Steps(a))
    /\ journal' = journal \cup left
    /\ \E closed \in BOOLEAN :
         said' = IF mode[a] = "run" /\ closed /\ f.verdict # {} /\ f.verdict \subseteq journal'
                 THEN said \cup {f.place} ELSE said
    /\ mode' = [mode EXCEPT ![a] = "over"] /\ pc' = [pc EXCEPT ![a] = 0]
    /\ UNCHANGED <<flow, starts, kept, made, lock, changed, effect>>

\* The process dies; the locks go with it, the records stay.
Crash(a) ==
    /\ mode[a] # "over"
    /\ mode' = [mode EXCEPT ![a] = "over"] /\ pc' = [pc EXCEPT ![a] = 0]
    /\ lock' = Released(a)
    /\ UNCHANGED <<flow, starts, kept, made, journal, said, changed, effect>>

\* The owner starts the control: from its backup, or its confirmation alone.
Start(a) ==
    /\ mode[a] = "over" /\ starts < MaxStarts
    /\ starts' = starts + 1
    /\ mode' = [mode EXCEPT ![a] = "run"]
    /\ \E k \in {1, ConfirmAt[flow[a]]} :
        /\ pc' = [pc EXCEPT ![a] = k]
        /\ kept' = IF k = 1 /\ Table[flow[a]].backup # <<>> THEN [kept EXCEPT ![a] = "none"] ELSE kept
    /\ UNCHANGED <<flow, made, disk, effect>>

\* The facts that the plans in play re-read; those that the same checks re-read
\* are interchangeable, and one of them stands for all.
ReadAt(f, x) == {k \in DOMAIN Plan[f] : x \in Plan[f][k].facts}
Telling ==
    [assigned \in Assignments |->
        LET reviewed == UNION {UNION {Plan[f][k].facts : k \in DOMAIN Plan[f]} : f \in Range(assigned)}
            places   == [x \in reviewed |-> [f \in Range(assigned) |-> ReadAt(f, x)]]
        IN {CHOOSE x \in reviewed : places[x] = p : p \in Range(places)}]

Drift ==
    /\ Cardinality(changed) < MaxDrift
    /\ \E x \in Telling[flow] \ changed : changed' = changed \cup {x}
    /\ UNCHANGED <<process, journal, said, lock, effect>>

Stoppable == UNION {Table[f].stoppable : f \in Flows}

\* The owner stops an attempt that has been claimed.
Stop(place) ==
    /\ <<place, "intent">> \in journal /\ <<place, "stop">> \notin journal
    /\ \E a \in Actors : place \in Table[flow[a]].stoppable
    /\ journal' = journal \cup {<<place, "stop">>}
    /\ UNCHANGED <<process, said, lock, changed, effect>>

Next ==
    \/ \E a \in Actors :
        \/ Start(a) \/ Check(a) \/ WriteRecord(a) \/ SendEffect(a) \/ CommitEffect(a) \/ ExecEffect(a)
        \/ Observe(a) \/ Branch(a) \/ TakeLock(a) \/ ReleaseLock(a) \/ BackUp(a) \/ VerifyBackup(a)
        \/ Close(a) \/ Crash(a)
    \/ Drift
    \/ \E place \in Stoppable : Stop(place)

Spec == Init /\ [][Next]_vars

-----------------------------------------------------------------------------
(* The status command: it reads the records and nothing else. *)

Status(f) ==
    IF Table[f].mark \notin journal THEN "not_submitted"
    ELSE IF Table[f].denies # {} /\ Table[f].denies \subseteq journal THEN "failed"
    ELSE IF /\ \E a \in Actors : flow[a] = f /\ Table[f].place \in made[a]
            /\ Table[f].verdict # {} /\ Table[f].verdict \subseteq journal
            /\ Table[f].always = {} \/ Table[f].place \in said
         THEN "done"
    ELSE "unknown"

-----------------------------------------------------------------------------
(* Properties. *)

\* Each effect of each control keeps the promise of OneShotEffect: never before its
\* claim, never twice, and never once a changed fact, a rival or the owner's stop
\* was there before the claim, although the claim and the check that looks for
\* them are separate steps and any process may crash or be started between them.
Once == INSTANCE OneShotEffect WITH
    past <- Given[flow] \cap Effects, claimed <- journal \cap Effects, void <- fenced,
    performed <- sent, repeated <- again
EffectsOnce == Once!Spec

\* The status command tells the truth about a control that may have crashed or
\* lost an answer anywhere: it says done only when every effect that had to be
\* was performed once and answered, and not submitted, or failed, only when no
\* process of that control performed one.
StatusTruthful ==
    \A f \in {flow[a] : a \in Actors} :
        /\ Status(f) = "done" =>
             /\ EffectsOf[f] \cap sent \subseteq acked \ again
             /\ EffectsOf[f] \ Optional[f] \subseteq acked
        /\ Status(f) \in {"not_submitted", "failed"} =>
             \A a \in Actors, e \in EffectsOf[f] \cap sent : flow[a] = f => e[1] \notin made[a]

\* Two processes that confirm rival controls of one attempt never both claim it,
\* although each looks for the other before it makes its own directory; and two
\* that contend for one claim, as the admissions of two targets from one source do,
\* never both perform their effects, in whatever order each writes its fences.
RivalsApart ==
    \A a, b \in Actors :
        /\ (a # b /\ <<flow[a], flow[b]>> \in Rivals) =>
             ~(Table[flow[a]].place \in made[a] /\ Table[flow[b]].place \in made[b])
        /\ (a # b /\ <<flow[a], flow[b]>> \in Contending) =>
             EffectsOf[flow[a]] \cap sent = {} \/ EffectsOf[flow[b]] \cap sent = {}
=============================================================================
