--------------------------- MODULE DispatchProofs ---------------------------
(* What the dispatch system of a workspace never does, whatever number of      *)
(* tasks, runners, retries and controls there are. Almost everything rests on  *)
(* one fact about the life of a single task: how its claim, its journal, its   *)
(* local row, the calls between two sections and the native platform go        *)
(* together at every moment. The rest ties the lives to what they share: the   *)
(* keys, the local runner slot and the controls.                               *)
EXTENDS Dispatch, AdmissionStoreProofs

-------------------------------------------------------------------------------
(* The inductive invariant, part by part. *)

Untouched ==
    [task |-> "none", process |-> "none", permits |-> {}, creations |-> 0, turns |-> 0,
     launches |-> 0]

\* Nothing of the claim is under way or may still be sent.
AtRest(x) == x.task \notin {"requested", "running"} /\ x.process # "alive" /\ x.permits = {}

\* How far the claim row of the worker's only attempt got.
ClaimOf(c, k) ==
    /\ k.status # "absent" => k.allocation = Phase /\ k.repositories = {TaskRepo[c]}
    /\ k.status \in {"absent", "reserved"} => ~k.started
    /\ k.status \in Held \ {"reserved"} => k.started

\* The latest journal record is consistent in itself.
JournalOf(j) ==
    /\ j.count = 0 => j = NoJournal
    /\ j.count > 0 => j.marker < j.count /\ j.outcome # "none"
    /\ j.sequence <= j.count /\ j.noProgress <= j.count
    /\ j.outcome = "confirmed" => j.thread
    /\ j.turn # "none" \/ j.runner # "none" => j.thread
    /\ Owns(j.runner) => j.turn \notin Inflight
    /\ j.runner \in {"none", "reserved"} => ~j.launched
    /\ j.runner \notin {"none", "reserved", "released"} => j.launched

\* The creation is sent at most once, after the creation boundary.
CreationOf(k, j, x) ==
    /\ ~k.started => x = Untouched /\ j.count = 0
    /\ x.creations <= 1
    /\ "create" \in x.permits => x.creations = 0
    /\ x.task # "none" => x.creations = 1
    /\ j.thread => x.task \in {"running", "idle"}

\* Every correction turn is journaled before it may be sent.
TurnsOf(j, x) ==
    /\ x.turns <= j.sequence
    /\ "continue" \in x.permits => x.turns < j.sequence
    /\ j.turn \notin {"intent", "uncertain"} => x.turns = j.sequence

\* The runner is launched at most once, and seen to have exited before release.
LaunchOf(j, x) ==
    /\ x.launches <= 1
    /\ ~j.launched => x.launches = 0 /\ "launch" \notin x.permits
    /\ "launch" \in x.permits => x.launches = 0
    /\ x.process # "none" => x.launches = 1
    /\ j.runner = "exited" => x.process = "exited"
    /\ j.runner = "released" => x.process # "alive" /\ "launch" \notin x.permits

\* What the local row says is never behind what it must not be behind of.
RowOf(k, j, w, x) ==
    /\ w.status = "absent" => k.status = "absent"
    /\ w.status = "reserved" => k.status \in {"absent", "reserved"}
    /\ k.status = "absent" => w.status \in {"absent", "reserved"}
    /\ k.status = "reserved" => \/ w.status = "reserved"
                                \/ w.status = "starting" /\ w.stage = "creation_pending"
    /\ w.status = "settled" => k.status = "settled"
    /\ w.stage \in {"intent", "reserved"} => w.status = "reserved"
    /\ k.status \in Held /\ k.started /\ ~j.thread => w.status = "starting"
    /\ w.attached <= j.count /\ w.marker <= j.count
    /\ w.thread => j.thread
    /\ w.runner = "released" => j.runner = "released"
    /\ "continue" \in x.permits => w.status = "starting"
    /\ "launch" \in x.permits \/ x.process = "alive" => w.status = "accepting" /\ Owns(w.runner)

\* A call between its two sections has left its mark in the row.
CallsOf(k, j, w, q) ==
    /\ "begin" \in q => /\ ~k.started /\ k.status # "absent"
                        /\ w.status \in {"starting", "settled"}
    /\ "continue" \in q => /\ k.status \in Held /\ w.status = "starting"
                           /\ ~TurnMatched(w, j)
    /\ "launch" \in q => /\ k.status \in Held /\ w.status = "accepting"
                         /\ ~LaunchMatched(w, j)

Life(c, k, j, w, x, q) ==
    /\ ClaimOf(c, k)
    /\ JournalOf(j)
    /\ CreationOf(k, j, x)
    /\ TurnsOf(j, x)
    /\ LaunchOf(j, x)
    /\ RowOf(k, j, w, x)
    /\ CallsOf(k, j, w, q)
    /\ k.status = "settled" => AtRest(x)

Lives == \A c \in Claims : Life(c, claims[c], journal[c], workers[c], world[c], calls[c])

\* Keys, settlements and the local runner slot agree with the claims.
Holdings ==
    /\ ExclusiveOwnership
    /\ allocations[Phase].spec # None
    /\ \A c \in Claims :
        /\ claims[c].status \in Held => ScopeKeys(Phase, {TaskRepo[c]}) \subseteq KeysOwned(c)
        /\ Owns(journal[c].runner) <=> RunnerKeysOwned(c) # {}
        /\ settlements[c] # None => claims[c].status = "settled"
        /\ Owns(workers[c].runner) => meta.runner = c

\* What the controls leave behind.
Controls ==
    /\ Stopped => meta.paused /\ ~meta.resumeQueued
    /\ \A c \in Claims : workers[c].run <= meta.run.generation
    /\ Stopped /\ meta.run.status = "authorized" =>
            \A c \in Claims : workers[c].run < meta.run.generation
    /\ meta.evidence # None => meta.phase \in {"checkpointing", "parked"}

\* What a pause inventory still says about a row that did not change since.
Inventory ==
    meta.evidence # None => \A c \in Claims :
        /\ meta.evidence.bindings[c].attached <= workers[c].attached
        /\ meta.evidence.bindings[c].status = "settled" => workers[c].status = "settled"
        /\ /\ c \in meta.evidence.idle
           /\ meta.evidence.bindings[c] = Binding(workers[c])
           /\ workers[c].status \notin {"starting", "accepting"}
           => world[c].task = "idle"

DispatchInv ==
    DispatchTypeOK /\ Lives /\ Holdings /\ Controls /\ Inventory /\ ParkedIsQuiet

-------------------------------------------------------------------------------
(* Shapes. *)

\* What the proofs need of the constants.
LEMMA DispatchFacts ==
    /\ TaskEstimate \in Nat \ {0} /\ MaxJournal \in Nat /\ MaxRuns \in Nat /\ MaxCommands \in Nat
    /\ Phase \in Allocations
    /\ \A c \in Claims : TaskRepo[c] \in Repositories /\ NativeOf[c] \in Natives
BY DispatchAssumption, NumberAssumption

\* The rows of one worker have their shapes.
LEMMA RowShapes ==
    ASSUME DispatchTypeOK, NEW c \in Claims
    PROVE  /\ claims[c] \in ClaimRecords /\ journal[c] \in JournalRecords
           /\ workers[c] \in WorkerRecords /\ world[c] \in WorldRecords
           /\ calls[c] \subseteq CallKinds /\ approvals[c] \in 0 .. MaxRuns
BY DEF DispatchTypeOK, KernelTypeOK

\* A journal record projects to a claim that crossed its creation boundary.
LEMMA ProjectedStatus ==
    ASSUME NEW j
    PROVE  ClaimStatus(j) \in Held \ {"reserved"}
BY DEF ClaimStatus, Held

\* The local status of a journal record is one of work in progress.
LEMMA ShownStatus ==
    ASSUME NEW j
    PROVE  /\ WorkerStatus(j) \in {"awaiting_acceptance", "accepting", "starting", "blocked",
                                   "running"}
           /\ j.runner \in RunnerStates => LifecycleStage(j) \in
                {"native_observed", "continuation_inflight"} \cup {RunnerStage[s] : s \in DOMAIN RunnerStage}
<1>1. WorkerStatus(j) \in {"awaiting_acceptance", "accepting", "starting", "blocked", "running"}
    BY DEF WorkerStatus, ClaimStatus
<1>2. ASSUME j.runner \in RunnerStates, Owns(j.runner)
      PROVE  j.runner \in DOMAIN RunnerStage
    BY <1>2 DEF RunnerStates, Owns, RunnerStage
<1> QED
    BY <1>1, <1>2 DEF LifecycleStage

\* The version of a claim is bounded by the length of its journal.
LEMMA VersionShape ==
    ASSUME NEW k \in ClaimRecords, NEW j \in JournalRecords
    PROVE  Version(k, j) \in 0 .. MaxJournal + 3
<1>1. j.count \in Nat /\ j.count <= MaxJournal /\ MaxJournal \in Nat
    BY DispatchFacts DEF JournalRecords
<1> QED
    BY <1>1 DEF Version

\* Attaching a journal record gives a row of the right shape.
LEMMA JournalRowShape ==
    ASSUME NEW w \in WorkerRecords, NEW k \in ClaimRecords, NEW j \in JournalRecords
    PROVE  JournalRow(w, k, j) \in WorkerRecords
<1>1. j.runner \in RunnerStates /\ j.thread \in BOOLEAN /\ j.count \in 0 .. MaxJournal
    BY DEF JournalRecords
<1>2. Version(k, j) \in 0 .. MaxJournal + 3
    BY VersionShape
<1>3. WorkerStatus(j) \in {"awaiting_acceptance", "accepting", "starting", "blocked", "running"}
      /\ LifecycleStage(j) \in {"native_observed", "continuation_inflight"}
            \cup {RunnerStage[s] : s \in DOMAIN RunnerStage}
    BY <1>1, ShownStatus
<1> DEFINE st == WorkerStatus(j)
           sg == LifecycleStage(j)
           v == Version(k, j)
           row == [w EXCEPT !.status = st, !.stage = sg, !.seen = v, !.attached = j.count,
                            !.thread = j.thread, !.runner = j.runner]
<1>4. row \in WorkerRecords
    <2> HIDE DEF st, sg, v
    <2> QED
        BY <1>1, <1>2, <1>3 DEF WorkerRecords, st, sg, v
<1> QED
    BY <1>4 DEF JournalRow

\* The fields of an attached row that the invariant speaks of.
LEMMA JournalRowFields ==
    ASSUME NEW w \in WorkerRecords, NEW k \in ClaimRecords, NEW j \in JournalRecords
    PROVE  \/ JournalRow(w, k, j) = w /\ (~LaunchMatched(w, j) \/ ~TurnMatched(w, j))
           \/ /\ LaunchMatched(w, j) /\ TurnMatched(w, j)
              /\ JournalRow(w, k, j).status = WorkerStatus(j)
              /\ JournalRow(w, k, j).stage = LifecycleStage(j)
              /\ JournalRow(w, k, j).attached = j.count
              /\ JournalRow(w, k, j).thread = j.thread
              /\ JournalRow(w, k, j).runner = j.runner
              /\ JournalRow(w, k, j).marker = w.marker
              /\ JournalRow(w, k, j).launch = w.launch
              /\ JournalRow(w, k, j).run = w.run
BY DEF JournalRow, WorkerRecords

-------------------------------------------------------------------------------
(* The life of one task, as facts about its rows alone. *)

\* A row that carries the latest journal record says what it must say.
LEMMA RowFollows ==
    ASSUME NEW k \in ClaimRecords, NEW j \in JournalRecords, NEW w \in WorkerRecords,
           NEW x \in WorldRecords, k.status \in Held \ {"reserved"}, j.count > 0,
           JournalOf(j), CreationOf(k, j, x), TurnsOf(j, x), LaunchOf(j, x),
           w.marker <= j.count, LaunchMatched(w, j), TurnMatched(w, j)
    PROVE  RowOf(k, j, JournalRow(w, k, j), x)
<1> DEFINE v == JournalRow(w, k, j)
<1>1. /\ v.status = WorkerStatus(j) /\ v.attached = j.count /\ v.thread = j.thread
      /\ v.runner = j.runner /\ v.marker = w.marker /\ v.stage = LifecycleStage(j)
    BY JournalRowFields
<1>0. v.stage \notin {"intent", "reserved"}
    <2>1. j.runner \in RunnerStates
        BY DEF JournalRecords
    <2>2. LifecycleStage(j) \in {"native_observed", "continuation_inflight"}
                \cup {RunnerStage[s] : s \in DOMAIN RunnerStage}
        BY <2>1, ShownStatus
    <2> QED
        BY <1>1, <2>2 DEF RunnerStage
<1>2. v.status \in {"awaiting_acceptance", "accepting", "starting", "blocked", "running"}
    BY <1>1, ShownStatus
<1>3. k.status \notin {"absent", "reserved", "settled"}
    BY DEF Held
<1>4. ASSUME ~j.thread PROVE v.status = "starting"
    <2>1. j.turn = "none" /\ j.runner = "none" /\ j.outcome \in {"pending", "uncertain"}
        BY <1>4 DEF JournalOf, JournalRecords
    <2> QED
        BY <1>1, <1>4, <2>1 DEF WorkerStatus, ClaimStatus, Owns, Inflight
<1>5. ASSUME "continue" \in x.permits PROVE v.status = "starting"
    <2>1. j.turn \in Inflight
        BY <1>5 DEF TurnsOf, Inflight, JournalRecords, WorldRecords
    <2>2. ~Owns(j.runner)
        BY <2>1 DEF JournalOf
    <2> QED
        BY <1>1, <2>1, <2>2 DEF WorkerStatus, ClaimStatus, Owns
<1>6. ASSUME "launch" \in x.permits \/ x.process = "alive"
      PROVE  v.status = "accepting" /\ Owns(v.runner)
    <2>1. j.launched
        BY <1>6 DEF LaunchOf
    <2>2. j.runner \notin {"none", "reserved", "released"}
        BY <1>6, <2>1 DEF LaunchOf, JournalOf
    <2> QED
        BY <1>1, <2>2 DEF WorkerStatus, Owns
<1>7. v.attached <= j.count /\ v.marker <= j.count
    BY <1>1 DEF JournalRecords
<1> HIDE DEF v
<1>8. RowOf(k, j, v, x)
    BY <1>0, <1>1, <1>2, <1>3, <1>4, <1>5, <1>6, <1>7 DEF RowOf
<1> QED
    BY <1>8 DEF v

\* One more journal record: the claim follows it, and the row may.
Advances(k, j, w, k2, j2, w2) ==
    /\ k.status \in Held \ {"reserved"} /\ k.started
    /\ k2.status \in Held \ {"reserved"} /\ k2.started
    /\ k2.allocation = k.allocation /\ k2.repositories = k.repositories
    /\ j2.count = j.count + 1
    /\ j.thread => j2.thread
    /\ j.runner = "released" => j2.runner = "released"
    /\ w2 \in {w, JournalRow(w, k2, j2)}

\* A row that lags behind one more record still says what it must say.
LEMMA RowLags ==
    ASSUME NEW k \in ClaimRecords, NEW j \in JournalRecords, NEW w \in WorkerRecords,
           NEW x \in WorldRecords, NEW k2 \in ClaimRecords, NEW j2 \in JournalRecords,
           RowOf(k, j, w, x), Advances(k, j, w, k2, j2, w)
    PROVE  RowOf(k2, j2, w, x)
<1>1. k2.status \notin {"absent", "reserved", "settled"}
      /\ k.status \notin {"absent", "reserved", "settled"}
    BY DEF Advances, Held
<1>2. k.started /\ k.status \in Held
    BY DEF Advances
<1>3. w.attached <= j2.count /\ w.marker <= j2.count
    BY DEF Advances, RowOf, JournalRecords, WorkerRecords
<1>4. w.status # "reserved"
    BY <1>1, <1>2 DEF RowOf, Held, Advances
<1> QED
    BY <1>1, <1>2, <1>3, <1>4 DEF RowOf, Advances

\* The new record answers the same local markers.
Retains(j, j2) == j2.marker = j.marker /\ (j.launched => j2.launched)

\* A record that is appended while no marker of the row is open.
LEMMA LifeRecords ==
    ASSUME NEW c \in Claims, NEW k \in ClaimRecords, NEW j \in JournalRecords,
           NEW w \in WorkerRecords, NEW x \in WorldRecords, NEW q \in SUBSET CallKinds,
           NEW k2 \in ClaimRecords, NEW j2 \in JournalRecords, NEW w2 \in WorkerRecords,
           Life(c, k, j, w, x, q), Advances(k, j, w, k2, j2, w2),
           LaunchMatched(w, j), TurnMatched(w, j),
           Retains(j, j2), JournalOf(j2), CreationOf(k2, j2, x), TurnsOf(j2, x), LaunchOf(j2, x)
    PROVE  Life(c, k2, j2, w2, x, q)
<1>1. ClaimOf(c, k2)
    BY DEF Life, ClaimOf, Advances, Held
<1>2. RowOf(k2, j2, w2, x)
    <2>1. CASE w2 = w
        BY <2>1, RowLags DEF Life
    <2>2. CASE w2 = JournalRow(w, k2, j2)
        <3>1. LaunchMatched(w, j2) /\ TurnMatched(w, j2)
            BY DEF LaunchMatched, TurnMatched, Retains
        <3>2. w.marker <= j2.count /\ j2.count > 0
            BY DEF Life, RowOf, Advances, JournalRecords, WorkerRecords
        <3>3. k2.status \in Held \ {"reserved"}
            BY DEF Advances
        <3> QED
            BY <2>2, <3>1, <3>2, <3>3, RowFollows
    <2> QED
        BY <2>1, <2>2 DEF Advances
<1>3. CallsOf(k2, j2, w2, q)
    <2>1. "continue" \notin q /\ "launch" \notin q
        BY DEF Life, CallsOf
    <2>2. "begin" \notin q
        BY DEF Life, CallsOf, Advances
    <2> QED
        BY <2>1, <2>2 DEF CallsOf
<1>4. k2.status # "settled"
    BY DEF Advances, Held
<1> QED
    BY <1>1, <1>2, <1>3, <1>4 DEF Life

\* The latest record is attached: nothing but the row changes.
LEMMA LifeAttaches ==
    ASSUME NEW c \in Claims, NEW k \in ClaimRecords, NEW j \in JournalRecords,
           NEW w \in WorkerRecords, NEW x \in WorldRecords, NEW q \in SUBSET CallKinds,
           Life(c, k, j, w, x, q), k.status \in Held, j.count > 0
    PROVE  Life(c, k, j, JournalRow(w, k, j), x, q)
<1>1. k.started /\ k.status \in Held \ {"reserved"}
    BY DEF Life, CreationOf, ClaimOf, JournalRecords
<1>2. CASE ~LaunchMatched(w, j) \/ ~TurnMatched(w, j)
    BY <1>2, JournalRowFields
<1>3. CASE LaunchMatched(w, j) /\ TurnMatched(w, j)
    <2>1. RowOf(k, j, JournalRow(w, k, j), x)
        <3>1. w.marker <= j.count
            BY DEF Life, RowOf
        <3> QED
            BY <1>1, <1>3, <3>1, RowFollows DEF Life
    <2>2. CallsOf(k, j, JournalRow(w, k, j), q)
        BY <1>1, <1>3 DEF Life, CallsOf
    <2> QED
        BY <2>1, <2>2 DEF Life
<1> QED
    BY <1>2, <1>3

\* A correction is journaled, and its send is granted to a caller that has the
\* receipt.
LEMMA LifeContinues ==
    ASSUME NEW c \in Claims, NEW k \in ClaimRecords, NEW j \in JournalRecords,
           NEW w \in WorkerRecords, NEW x \in WorldRecords, NEW q \in SUBSET CallKinds,
           NEW k2 \in ClaimRecords, NEW j2 \in JournalRecords, NEW w2 \in WorkerRecords,
           NEW x2 \in WorldRecords,
           Life(c, k, j, w, x, q), Advances(k, j, w, k2, j2, w2),
           "continue" \in q, w.marker = j.count,
           LaunchMatched(w, j) \/ (w2 = w /\ x2 = x),
           ~Owns(j.runner), j.outcome = "confirmed", j.turn \notin Inflight,
           j2 = [j EXCEPT !.sequence = @ + 1, !.turn = "intent", !.marker = w.marker,
                          !.activity = "unknown", !.count = j.count + 1],
           \/ x2 = x
           \/ /\ x2 = [x EXCEPT !.permits = @ \cup {"continue"}]
              /\ w2 = JournalRow(w, k2, j2)
    PROVE  Life(c, k2, j2, w2, x2, q \ {"continue"})
<1>0. /\ JournalOf(j) /\ CreationOf(k, j, x) /\ TurnsOf(j, x) /\ LaunchOf(j, x) /\ RowOf(k, j, w, x)
      /\ CallsOf(k, j, w, q)
    BY DEF Life
<1>1. ClaimOf(c, k2)
    BY DEF Life, ClaimOf, Advances, Held
<1>2. /\ j2.sequence = j.sequence + 1 /\ j2.turn = "intent" /\ j2.marker = j.count
      /\ j2.count = j.count + 1 /\ j2.outcome = "confirmed" /\ j2.thread = j.thread
      /\ j2.runner = j.runner /\ j2.launched = j.launched /\ j2.noProgress = j.noProgress
    BY DEF JournalRecords
<1>3. j.thread /\ j.count \in Nat /\ j.sequence \in Nat
    BY <1>0 DEF JournalOf, JournalRecords
<1>4. JournalOf(j2)
    BY <1>0, <1>2, <1>3 DEF JournalOf, JournalRecords, Owns
<1>5. /\ x2.creations = x.creations /\ x2.task = x.task /\ x2.process = x.process
      /\ x2.turns = x.turns /\ x2.launches = x.launches
      /\ x2.permits \subseteq x.permits \cup {"continue"}
    BY DEF WorldRecords
<1>6. CreationOf(k2, j2, x2)
    BY <1>0, <1>2, <1>3, <1>5 DEF CreationOf, Advances
<1>7. x.turns = j.sequence
    BY <1>0 DEF TurnsOf, Inflight
<1>8. TurnsOf(j2, x2)
    BY <1>2, <1>3, <1>5, <1>7 DEF TurnsOf
<1>9. LaunchOf(j2, x2)
    BY <1>0, <1>2, <1>5 DEF LaunchOf
<1>10. TurnMatched(w, j2) /\ (LaunchMatched(w, j) => LaunchMatched(w, j2))
    BY <1>2 DEF LaunchMatched, TurnMatched
<1>11. RowOf(k2, j2, w2, x2)
    <2>1. CASE w2 = JournalRow(w, k2, j2) /\ LaunchMatched(w, j)
        <3>1. w.marker <= j2.count /\ j2.count > 0
            BY <1>2, <1>3
        <3>2. k2.status \in Held \ {"reserved"}
            BY DEF Advances
        <3> QED
            BY <1>4, <1>6, <1>8, <1>9, <1>10, <2>1, <3>1, <3>2, RowFollows
    <2>2. CASE w2 = w /\ x2 = x
        BY <1>0, <2>2, RowLags
    <2> QED
        BY <2>1, <2>2 DEF Advances
<1>12. CallsOf(k2, j2, w2, q \ {"continue"})
    <2>1. "launch" \notin q /\ "begin" \notin q
        BY <1>0 DEF CallsOf, Advances
    <2> QED
        BY <2>1 DEF CallsOf
<1>13. k2.status # "settled"
    BY DEF Advances, Held
<1> QED
    BY <1>1, <1>4, <1>6, <1>8, <1>9, <1>11, <1>12, <1>13 DEF Life

\* A launch is journaled, and granted to a caller that has the receipt.
LEMMA LifeLaunches ==
    ASSUME NEW c \in Claims, NEW k \in ClaimRecords, NEW j \in JournalRecords,
           NEW w \in WorkerRecords, NEW x \in WorldRecords, NEW q \in SUBSET CallKinds,
           NEW k2 \in ClaimRecords, NEW j2 \in JournalRecords, NEW w2 \in WorkerRecords,
           NEW x2 \in WorldRecords,
           Life(c, k, j, w, x, q), Advances(k, j, w, k2, j2, w2),
           "launch" \in q, j.runner = "reserved", TurnMatched(w, j) \/ (w2 = w /\ x2 = x),
           j.outcome = "confirmed", j.turn \notin Inflight,
           j2 = [j EXCEPT !.runner = "launch_intent", !.launched = TRUE,
                          !.activity = "unknown", !.count = j.count + 1],
           \/ x2 = x
           \/ /\ x2 = [x EXCEPT !.permits = @ \cup {"launch"}]
              /\ w2 = JournalRow(w, k2, j2)
    PROVE  Life(c, k2, j2, w2, x2, q \ {"launch"})
<1>0. /\ JournalOf(j) /\ CreationOf(k, j, x) /\ TurnsOf(j, x) /\ LaunchOf(j, x) /\ RowOf(k, j, w, x)
      /\ CallsOf(k, j, w, q)
    BY DEF Life
<1>1. ClaimOf(c, k2)
    BY DEF Life, ClaimOf, Advances, Held
<1>2. /\ j2.sequence = j.sequence /\ j2.turn = j.turn /\ j2.marker = j.marker
      /\ j2.count = j.count + 1 /\ j2.outcome = "confirmed" /\ j2.thread = j.thread
      /\ j2.runner = "launch_intent" /\ j2.launched /\ j2.noProgress = j.noProgress
    BY DEF JournalRecords
<1>3. j.thread /\ j.count \in Nat /\ j.sequence \in Nat /\ ~j.launched
    BY <1>0 DEF JournalOf, JournalRecords
<1>4. JournalOf(j2)
    <2>1. j.count # 0
        BY <1>0 DEF JournalOf, NoJournal
    <2>2. j.marker \in Nat /\ j.marker < j.count /\ j.noProgress \in Nat
        BY <1>0, <1>3, <2>1 DEF JournalOf, JournalRecords
    <2> QED
        BY <1>0, <1>2, <1>3, <2>2 DEF JournalOf, Owns
<1>5. /\ x2.creations = x.creations /\ x2.task = x.task /\ x2.process = x.process
      /\ x2.turns = x.turns /\ x2.launches = x.launches
      /\ x2.permits \subseteq x.permits \cup {"launch"}
    BY DEF WorldRecords
<1>6. CreationOf(k2, j2, x2)
    BY <1>0, <1>2, <1>3, <1>5 DEF CreationOf, Advances
<1>8. TurnsOf(j2, x2)
    BY <1>0, <1>2, <1>3, <1>5 DEF TurnsOf
<1>9. LaunchOf(j2, x2)
    BY <1>0, <1>2, <1>3, <1>5 DEF LaunchOf
<1>10. LaunchMatched(w, j2) /\ (TurnMatched(w, j) => TurnMatched(w, j2))
    BY <1>2 DEF LaunchMatched, TurnMatched
<1>11. RowOf(k2, j2, w2, x2)
    <2>1. CASE w2 = JournalRow(w, k2, j2) /\ TurnMatched(w, j)
        <3>1. w.marker <= j2.count /\ j2.count > 0
            BY <1>0, <1>2, <1>3 DEF RowOf, WorkerRecords
        <3>2. k2.status \in Held \ {"reserved"}
            BY DEF Advances
        <3> QED
            BY <1>4, <1>6, <1>8, <1>9, <1>10, <2>1, <3>1, <3>2, RowFollows
    <2>2. CASE w2 = w /\ x2 = x
        BY <1>0, <2>2, RowLags
    <2> QED
        BY <2>1, <2>2 DEF Advances
<1>12. CallsOf(k2, j2, w2, q \ {"launch"})
    <2>1. "continue" \notin q /\ "begin" \notin q
        BY <1>0 DEF CallsOf, Advances
    <2> QED
        BY <2>1 DEF CallsOf
<1>13. k2.status # "settled"
    BY DEF Advances, Held
<1> QED
    BY <1>1, <1>4, <1>6, <1>8, <1>9, <1>11, <1>12, <1>13 DEF Life

\* Entering a reservation, or leaving any call, opens nothing.
LEMMA LifeCalls ==
    ASSUME NEW c \in Claims, NEW k, NEW j, NEW w, NEW x, NEW q, NEW q2,
           Life(c, k, j, w, x, q), q2 \subseteq q \cup {"reserve"}
    PROVE  Life(c, k, j, w, x, q2)
BY DEF Life, CallsOf

\* The reservation intent is the first row of a worker.
LEMMA LifeIntends ==
    ASSUME NEW c \in Claims, NEW k \in ClaimRecords, NEW j \in JournalRecords,
           NEW w \in WorkerRecords, NEW x \in WorldRecords, NEW q \in SUBSET CallKinds,
           NEW w2 \in WorkerRecords, NEW g,
           Life(c, k, j, w, x, q), w.status = "absent",
           w2 = [NoWorker EXCEPT !.status = "reserved", !.stage = "intent", !.run = g]
    PROVE  Life(c, k, j, w2, x, q)
<1>1. /\ w2.status = "reserved" /\ w2.stage = "intent" /\ w2.attached = 0 /\ w2.marker = 0
      /\ ~w2.thread /\ w2.runner = "none"
    BY DEF NoWorker
<1>2. k.status = "absent" /\ ~k.started
    BY DEF Life, RowOf, ClaimOf
<1>3. x = Untouched
    BY <1>2 DEF Life, CreationOf
<1>4. RowOf(k, j, w2, x)
    BY <1>1, <1>2, <1>3 DEF RowOf, Held, Untouched, JournalRecords
<1>5. CallsOf(k, j, w2, q)
    BY <1>2 DEF Life, CallsOf, Held
<1> QED
    BY <1>4, <1>5 DEF Life

\* The shared claim is made for a worker that is reserved locally.
LEMMA LifeReserves ==
    ASSUME NEW c \in Claims, NEW k \in ClaimRecords, NEW j \in JournalRecords,
           NEW w \in WorkerRecords, NEW x \in WorldRecords, NEW q \in SUBSET CallKinds,
           NEW k2 \in ClaimRecords,
           Life(c, k, j, w, x, q), k.status = "absent", w.stage \in {"intent", "reserved"},
           k2.status = "reserved", ~k2.started, k2.allocation = Phase,
           k2.repositories = {TaskRepo[c]}
    PROVE  Life(c, k2, j, w, x, q)
<1>1. ~k.started /\ w.status = "reserved"
    BY DEF Life, ClaimOf, RowOf
<1>2. ClaimOf(c, k2)
    BY DEF ClaimOf, Held
<1>3. CreationOf(k2, j, x)
    BY <1>1 DEF Life, CreationOf
<1>4. RowOf(k2, j, w, x)
    BY <1>1 DEF Life, RowOf, Held
<1>5. CallsOf(k2, j, w, q)
    BY DEF Life, CallsOf, Held
<1> QED
    BY <1>2, <1>3, <1>4, <1>5 DEF Life

\* Attaching an admission receipt.
LEMMA LifeAdmitted ==
    ASSUME NEW c \in Claims, NEW k \in ClaimRecords, NEW j \in JournalRecords,
           NEW w \in WorkerRecords, NEW x \in WorldRecords, NEW q \in SUBSET CallKinds,
           Life(c, k, j, w, x, q), k.status \in {"reserved", "starting"}, j.count = 0
    PROVE  Life(c, k, j, AdmissionRow(w, k), x, q)
<1> DEFINE v == AdmissionRow(w, k)
<1>0. RowOf(k, j, w, x) /\ CallsOf(k, j, w, q) /\ ClaimOf(c, k)
    BY DEF Life
<1>1. ~j.thread /\ ~j.launched /\ j.runner = "none" /\ j.sequence = 0
    BY DEF Life, JournalOf, NoJournal
<1>2. "continue" \notin x.permits /\ "launch" \notin x.permits /\ x.process # "alive"
    BY <1>1 DEF Life, TurnsOf, LaunchOf, WorldRecords
<1>3. CASE k.status = "reserved" /\ w.stage = "creation_pending"
    BY <1>3 DEF AdmissionRow
<1>4. CASE k.status = "reserved" /\ w.stage # "creation_pending"
    <2>1. w.status = "reserved"
        BY <1>0, <1>4 DEF RowOf
    <2>2. /\ v.status = "reserved" /\ v.stage = "reserved" /\ v.attached = w.attached
          /\ v.marker = w.marker /\ v.thread = w.thread /\ v.runner = w.runner
        BY <1>4 DEF AdmissionRow, WorkerRecords
    <2>3. CallsOf(k, j, v, q)
        BY <1>0, <2>1 DEF CallsOf
    <2>4. ~k.started
        BY <1>0, <1>4 DEF ClaimOf
    <2> HIDE DEF v
    <2>5. RowOf(k, j, v, x)
        BY <1>0, <1>2, <1>4, <2>1, <2>2, <2>4 DEF RowOf, Held
    <2>6. Life(c, k, j, v, x, q)
        BY <2>3, <2>5 DEF Life
    <2> QED
        BY <2>6 DEF v
<1>5. CASE k.status = "starting"
    <2>1. /\ v.status = "starting" /\ v.stage = "creation_intent" /\ v.attached = w.attached
          /\ v.marker = w.marker /\ v.thread = w.thread /\ v.runner = w.runner
        BY <1>5 DEF AdmissionRow, WorkerRecords
    <2>2. k.started
        BY <1>0, <1>5 DEF ClaimOf, Held
    <2>3. w.status = "starting"
        BY <1>0, <1>1, <1>5, <2>2 DEF RowOf, Held
    <2>4. w.marker = 0
        BY <1>0 DEF RowOf, WorkerRecords
    <2>5. CallsOf(k, j, v, q)
        BY <1>0, <2>2, <2>3, <2>4 DEF CallsOf, TurnMatched
    <2> HIDE DEF v
    <2>6. RowOf(k, j, v, x)
        BY <1>0, <1>2, <1>5, <2>1, <2>3 DEF RowOf
    <2>7. Life(c, k, j, v, x, q)
        BY <2>5, <2>6 DEF Life
    <2> QED
        BY <2>7 DEF v
<1> QED
    BY <1>3, <1>4, <1>5

\* The local owner is in flight before the creation boundary moves.
LEMMA LifePrepares ==
    ASSUME NEW c \in Claims, NEW k \in ClaimRecords, NEW j \in JournalRecords,
           NEW w \in WorkerRecords, NEW x \in WorldRecords, NEW q \in SUBSET CallKinds,
           NEW w2, Life(c, k, j, w, x, q),
           k.status \in {"reserved", "starting"}, w.status = "reserved",
           w2 = [w EXCEPT !.stage = "creation_pending", !.status = "starting"]
    PROVE  Life(c, k, j, w2, x, q \cup {"begin"})
<1>0. RowOf(k, j, w, x) /\ CallsOf(k, j, w, q) /\ ClaimOf(c, k)
    BY DEF Life
<1>1. k.status = "reserved" /\ ~k.started
    BY <1>0 DEF RowOf, ClaimOf
<1>2. x = Untouched
    BY <1>1 DEF Life, CreationOf
<1>3. /\ w2.status = "starting" /\ w2.stage = "creation_pending" /\ w2.attached = w.attached
      /\ w2.marker = w.marker /\ w2.thread = w.thread /\ w2.runner = w.runner
    BY DEF WorkerRecords
<1>4. RowOf(k, j, w2, x)
    BY <1>0, <1>1, <1>2, <1>3 DEF RowOf, Untouched
<1>5. CallsOf(k, j, w2, q \cup {"begin"})
    BY <1>0, <1>1, <1>3 DEF CallsOf
<1> QED
    BY <1>4, <1>5 DEF Life

\* The creation boundary is crossed, and the send granted with the receipt.
LEMMA LifeStarts ==
    ASSUME NEW c \in Claims, NEW k \in ClaimRecords, NEW j \in JournalRecords,
           NEW w \in WorkerRecords, NEW x \in WorldRecords, NEW q \in SUBSET CallKinds,
           NEW k2 \in ClaimRecords, NEW x2 \in WorldRecords, Life(c, k, j, w, x, q),
           k.status = "reserved", w.status = "starting",
           k2 = [k EXCEPT !.status = "starting", !.started = TRUE],
           x2 = x \/ x2 = [x EXCEPT !.permits = @ \cup {"create"}]
    PROVE  Life(c, k2, j, w, x2, q \ {"begin"})
<1>0. RowOf(k, j, w, x) /\ CallsOf(k, j, w, q) /\ ClaimOf(c, k)
    BY DEF Life
<1>1. /\ k2.status = "starting" /\ k2.started /\ k2.allocation = k.allocation
      /\ k2.repositories = k.repositories
    BY DEF ClaimRecords
<1>2. ~k.started
    BY <1>0 DEF ClaimOf
<1>3. j.count = 0 /\ x = Untouched
    BY <1>2 DEF Life, CreationOf
<1>4. /\ x2.permits \subseteq {"create"} /\ x2.creations = 0 /\ x2.task = "none"
      /\ x2.process = "none" /\ x2.turns = 0 /\ x2.launches = 0
    BY <1>3 DEF Untouched
<1>5. ~j.thread /\ j.sequence = 0 /\ j.runner = "none" /\ ~j.launched
    BY <1>3 DEF Life, JournalOf, NoJournal
<1>6. ClaimOf(c, k2)
    BY <1>0, <1>1 DEF ClaimOf, Held
<1>7. CreationOf(k2, j, x2) /\ TurnsOf(j, x2) /\ LaunchOf(j, x2)
    BY <1>1, <1>4, <1>5 DEF CreationOf, TurnsOf, LaunchOf
<1>8. RowOf(k2, j, w, x2)
    BY <1>0, <1>1, <1>4 DEF RowOf
<1>9. CallsOf(k2, j, w, q \ {"begin"})
    BY <1>0, <1>1 DEF CallsOf, Held
<1> QED
    BY <1>1, <1>6, <1>7, <1>8, <1>9 DEF Life

\* The local marker of a correction.
LEMMA LifeMarks ==
    ASSUME NEW c \in Claims, NEW k \in ClaimRecords, NEW j \in JournalRecords,
           NEW w \in WorkerRecords, NEW x \in WorldRecords, NEW q \in SUBSET CallKinds,
           NEW w2, Life(c, k, j, w, x, q), k.status \in Held,
           LaunchMatched(w, j), TurnMatched(w, j), ~Owns(j.runner), j.outcome = "confirmed",
           w2 = [w EXCEPT !.marker = j.count, !.status = "starting",
                          !.stage = "continuation_pending"]
    PROVE  Life(c, k, j, w2, x, q \cup {"continue"})
<1>0. /\ RowOf(k, j, w, x) /\ CallsOf(k, j, w, q) /\ ClaimOf(c, k) /\ JournalOf(j)
      /\ LaunchOf(j, x) /\ CreationOf(k, j, x)
    BY DEF Life
<1>1. j.thread /\ j.count # 0
    BY <1>0 DEF JournalOf, NoJournal
<1>2. k.started /\ k.status \notin {"absent", "reserved", "settled"}
    BY <1>0, <1>1 DEF CreationOf, ClaimOf, Held
<1>3. /\ w2.status = "starting" /\ w2.stage = "continuation_pending" /\ w2.attached = w.attached
      /\ w2.marker = j.count /\ w2.thread = w.thread /\ w2.runner = w.runner
      /\ w2.launch = w.launch
    BY DEF WorkerRecords
<1>4. j.runner \in {"none", "released"}
    BY DEF Owns
<1>5. "launch" \notin x.permits /\ x.process # "alive"
    BY <1>0, <1>4 DEF LaunchOf, JournalOf
<1>6. RowOf(k, j, w2, x)
    BY <1>0, <1>2, <1>3, <1>5 DEF RowOf, JournalRecords
<1>7. ~TurnMatched(w2, j)
    BY <1>0, <1>1, <1>3 DEF TurnMatched, JournalOf, JournalRecords
<1>8. CallsOf(k, j, w2, q \cup {"continue"})
    BY <1>0, <1>2, <1>3, <1>7 DEF CallsOf
<1> QED
    BY <1>6, <1>8 DEF Life

\* The local marker of a launch.
LEMMA LifeReadies ==
    ASSUME NEW c \in Claims, NEW k \in ClaimRecords, NEW j \in JournalRecords,
           NEW w \in WorkerRecords, NEW x \in WorldRecords, NEW q \in SUBSET CallKinds,
           NEW w2, Life(c, k, j, w, x, q), k.status \in Held,
           LaunchMatched(w, j), TurnMatched(w, j), j.runner = "reserved", j.turn \notin Inflight,
           w2 = [w EXCEPT !.launch = TRUE, !.status = "accepting",
                          !.stage = "runner_launch_pending"]
    PROVE  Life(c, k, j, w2, x, q \cup {"launch"})
<1>0. /\ RowOf(k, j, w, x) /\ CallsOf(k, j, w, q) /\ ClaimOf(c, k) /\ JournalOf(j)
      /\ LaunchOf(j, x) /\ CreationOf(k, j, x) /\ TurnsOf(j, x)
    BY DEF Life
<1>1. j.thread /\ j.count # 0 /\ ~j.launched
    BY <1>0 DEF JournalOf, NoJournal
<1>2. k.started /\ k.status \notin {"absent", "reserved", "settled"}
    BY <1>0, <1>1 DEF CreationOf, ClaimOf, Held
<1>3. /\ w2.status = "accepting" /\ w2.stage = "runner_launch_pending"
      /\ w2.attached = w.attached /\ w2.marker = w.marker /\ w2.thread = w.thread
      /\ w2.runner = w.runner /\ w2.launch
    BY DEF WorkerRecords
<1>4. "launch" \notin x.permits /\ x.process # "alive"
    BY <1>0, <1>1 DEF LaunchOf
<1>5. "continue" \notin x.permits
    BY <1>0 DEF TurnsOf, Inflight, JournalRecords, WorldRecords
<1>6. RowOf(k, j, w2, x)
    BY <1>0, <1>1, <1>2, <1>3, <1>4, <1>5 DEF RowOf
<1>7. CallsOf(k, j, w2, q \cup {"launch"})
    BY <1>0, <1>1, <1>2, <1>3 DEF CallsOf, LaunchMatched, TurnMatched
<1> QED
    BY <1>6, <1>7 DEF Life

\* A task that is confirmed idle, corrected and accepted to the end is at rest.
LEMMA TerminalAtRest ==
    ASSUME NEW c \in Claims, NEW k \in ClaimRecords, NEW j \in JournalRecords,
           NEW w \in WorkerRecords, NEW x \in WorldRecords, NEW q \in SUBSET CallKinds,
           Life(c, k, j, w, x, q), ~Owns(j.runner), j.turn \notin Inflight,
           x.task = "idle", x.process # "alive"
    PROVE  AtRest(x)
<1>1. "create" \notin x.permits
    BY DEF Life, CreationOf
<1>2. "continue" \notin x.permits
    BY DEF Life, TurnsOf, Inflight, JournalRecords, WorldRecords
<1>3. "launch" \notin x.permits
    <2>1. j.runner \in {"none", "released"}
        BY DEF Owns
    <2> QED
        BY <2>1 DEF Life, LaunchOf, JournalOf
<1>4. x.permits \subseteq {"create", "continue", "launch"}
    BY DEF WorldRecords, Permits
<1> QED
    BY <1>1, <1>2, <1>3, <1>4 DEF AtRest

\* A creation that made no task, whose send is no longer out, is at rest.
LEMMA NotCreatedAtRest ==
    ASSUME NEW c \in Claims, NEW k \in ClaimRecords, NEW j \in JournalRecords,
           NEW w \in WorkerRecords, NEW x \in WorldRecords, NEW q \in SUBSET CallKinds,
           Life(c, k, j, w, x, q), j.sequence = 0, j.runner = "none",
           x.task \in {"none", "failed"}, "create" \notin x.permits
    PROVE  AtRest(x)
<1>1. "continue" \notin x.permits
    BY DEF Life, TurnsOf, WorldRecords
<1>2. "launch" \notin x.permits /\ x.process # "alive"
    BY DEF Life, LaunchOf, JournalOf
<1>3. x.permits \subseteq {"create", "continue", "launch"}
    BY DEF WorldRecords, Permits
<1> QED
    BY <1>1, <1>2, <1>3 DEF AtRest

\* A claim is settled, and its row may follow.
LEMMA LifeSettles ==
    ASSUME NEW c \in Claims, NEW k \in ClaimRecords, NEW j \in JournalRecords,
           NEW w \in WorkerRecords, NEW x \in WorldRecords, NEW q \in SUBSET CallKinds,
           NEW k2 \in ClaimRecords, NEW w2, Life(c, k, j, w, x, q),
           k.status \in Held, w.status # "reserved", AtRest(x),
           k2.status = "settled", k2.started = k.started, k2.allocation = k.allocation,
           k2.repositories = k.repositories,
           LaunchMatched(w, j), TurnMatched(w, j), w2 \in {w, SettledRow(w, k2, j)}
    PROVE  Life(c, k2, j, w2, x, q)
<1>0. /\ RowOf(k, j, w, x) /\ CallsOf(k, j, w, q) /\ ClaimOf(c, k) /\ CreationOf(k, j, x)
    BY DEF Life
<1>1. /\ w2.status \in {w.status, "settled"} /\ w2.stage \in {w.stage, "settled"}
      /\ w2.status = w.status => w2.stage = w.stage
      /\ w2.attached = w.attached /\ w2.marker = w.marker /\ w2.thread = w.thread
      /\ w2.runner = w.runner
    <2>1. CASE w2 = w
        BY <2>1
    <2>2. CASE w2 = SettledRow(w, k2, j)
        <3>1. w.status # "settled"
            BY <1>0 DEF RowOf, Held
        <3> QED
            BY <2>2, <3>1 DEF SettledRow, WorkerRecords
    <2> QED
        BY <2>1, <2>2
<1>2. k.status \notin {"absent", "settled"} /\ w.status # "absent"
    BY <1>0 DEF RowOf, Held
<1>3. x.permits = {} /\ x.process # "alive"
    BY DEF AtRest
<1>4. ClaimOf(c, k2)
    BY <1>0, <1>2 DEF ClaimOf, Held
<1>5. CreationOf(k2, j, x)
    BY <1>0 DEF CreationOf
<1>6. w2.stage \in {"intent", "reserved"} => w2.status = "reserved"
    BY <1>0, <1>1 DEF RowOf
<1>7. RowOf(k2, j, w2, x)
    BY <1>0, <1>1, <1>2, <1>3, <1>6 DEF RowOf, Held
<1>8. CallsOf(k2, j, w2, q)
    BY <1>0, <1>1, <1>2 DEF CallsOf
<1> QED
    BY <1>4, <1>5, <1>7, <1>8 DEF Life

\* Attaching the receipt of a settlement.
LEMMA LifeCloses ==
    ASSUME NEW c \in Claims, NEW k \in ClaimRecords, NEW j \in JournalRecords,
           NEW w \in WorkerRecords, NEW x \in WorldRecords, NEW q \in SUBSET CallKinds,
           Life(c, k, j, w, x, q), k.status = "settled"
    PROVE  Life(c, k, j, SettledRow(w, k, j), x, q)
<1> DEFINE v == SettledRow(w, k, j)
<1>0. RowOf(k, j, w, x) /\ CallsOf(k, j, w, q)
    BY DEF Life
<1>1. /\ v.status = "settled" /\ v.stage = "settled" /\ v.attached = w.attached
      /\ v.marker = w.marker /\ v.thread = w.thread /\ v.runner = w.runner
    BY DEF SettledRow, WorkerRecords
<1>2. x.permits = {} /\ x.process # "alive"
    BY DEF Life, AtRest
<1> HIDE DEF v
<1>3. RowOf(k, j, v, x)
    BY <1>0, <1>1, <1>2 DEF RowOf, Held
<1>4. CallsOf(k, j, v, q)
    BY <1>0, <1>1 DEF CallsOf, Held
<1>5. Life(c, k, j, v, x, q)
    BY <1>3, <1>4 DEF Life
<1> QED
    BY <1>5 DEF v

\* What the platform, or the death of a sender, does to one task.
Happens(x, x2) ==
    \/ /\ "create" \in x.permits
       /\ x2 = [x EXCEPT !.permits = @ \ {"create"}, !.task = "requested", !.creations = @ + 1]
    \/ x.task = "requested" /\ \E t \in {"running", "failed"} : x2 = [x EXCEPT !.task = t]
    \/ /\ "continue" \in x.permits
       /\ x2 = [x EXCEPT !.permits = @ \ {"continue"}, !.task = "running", !.turns = @ + 1]
    \/ x.task = "running" /\ x2 = [x EXCEPT !.task = "idle"]
    \/ /\ "launch" \in x.permits
       /\ x2 = [x EXCEPT !.permits = @ \ {"launch"}, !.process = "alive", !.launches = @ + 1]
    \/ x.process = "alive" /\ x2 = [x EXCEPT !.process = "exited"]
    \/ \E p \in x.permits : x2 = [x EXCEPT !.permits = @ \ {p}]

\* Only what was granted happens.
LEMMA LifeHappens ==
    ASSUME NEW c \in Claims, NEW k \in ClaimRecords, NEW j \in JournalRecords,
           NEW w \in WorkerRecords, NEW x \in WorldRecords, NEW q \in SUBSET CallKinds,
           NEW x2, Life(c, k, j, w, x, q), Happens(x, x2)
    PROVE  Life(c, k, j, w, x2, q)
<1>0. /\ RowOf(k, j, w, x) /\ CreationOf(k, j, x) /\ TurnsOf(j, x) /\ LaunchOf(j, x)
      /\ JournalOf(j)
    BY DEF Life
<1>1. ~AtRest(x) /\ x # Untouched
    BY DEF Happens, AtRest, Untouched
<1>2. k.started /\ k.status # "settled"
    BY <1>0, <1>1 DEF CreationOf, Life
<1>3. ASSUME "create" \in x.permits,
             x2 = [x EXCEPT !.permits = @ \ {"create"}, !.task = "requested", !.creations = @ + 1]
      PROVE  CreationOf(k, j, x2) /\ TurnsOf(j, x2) /\ LaunchOf(j, x2) /\ RowOf(k, j, w, x2)
    <2>1. /\ x2.permits = x.permits \ {"create"} /\ x2.task = "requested"
          /\ x2.creations = 1 /\ x2.process = x.process /\ x2.turns = x.turns
          /\ x2.launches = x.launches /\ ~j.thread
        BY <1>0, <1>3 DEF WorldRecords, CreationOf
    <2> QED
        BY <1>0, <1>2, <2>1 DEF CreationOf, TurnsOf, LaunchOf, RowOf
<1>4. ASSUME x.task = "requested", NEW t \in {"running", "failed"}, x2 = [x EXCEPT !.task = t]
      PROVE  CreationOf(k, j, x2) /\ TurnsOf(j, x2) /\ LaunchOf(j, x2) /\ RowOf(k, j, w, x2)
    <2>1. /\ x2.permits = x.permits /\ x2.task = t
          /\ x2.creations = x.creations /\ x2.process = x.process /\ x2.turns = x.turns
          /\ x2.launches = x.launches /\ ~j.thread
        BY <1>0, <1>4 DEF WorldRecords, CreationOf
    <2> QED
        BY <1>0, <1>2, <1>4, <2>1 DEF CreationOf, TurnsOf, LaunchOf, RowOf
<1>5. ASSUME "continue" \in x.permits,
             x2 = [x EXCEPT !.permits = @ \ {"continue"}, !.task = "running", !.turns = @ + 1]
      PROVE  CreationOf(k, j, x2) /\ TurnsOf(j, x2) /\ LaunchOf(j, x2) /\ RowOf(k, j, w, x2)
    <2>1. /\ x2.permits = x.permits \ {"continue"} /\ x2.task = "running"
          /\ x2.creations = x.creations /\ x2.process = x.process /\ x2.turns = x.turns + 1
          /\ x2.launches = x.launches
        BY <1>5 DEF WorldRecords
    <2>2. j.turn \in {"intent", "uncertain"} /\ x.turns < j.sequence
        BY <1>0, <1>5 DEF TurnsOf, WorldRecords, JournalRecords
    <2>3. j.thread
        BY <1>0, <2>2 DEF JournalOf
    <2>4. x.task # "none"
        BY <1>0, <2>3 DEF CreationOf
    <2>5. x.turns \in Nat /\ j.sequence \in Nat
        BY DEF WorldRecords, JournalRecords
    <2> QED
        BY <1>0, <1>2, <1>5, <2>1, <2>2, <2>3, <2>4, <2>5 DEF CreationOf, TurnsOf, LaunchOf, RowOf
<1>6. ASSUME x.task = "running", x2 = [x EXCEPT !.task = "idle"]
      PROVE  CreationOf(k, j, x2) /\ TurnsOf(j, x2) /\ LaunchOf(j, x2) /\ RowOf(k, j, w, x2)
    <2>1. /\ x2.permits = x.permits /\ x2.task = "idle"
          /\ x2.creations = x.creations /\ x2.process = x.process /\ x2.turns = x.turns
          /\ x2.launches = x.launches
        BY <1>6 DEF WorldRecords
    <2> QED
        BY <1>0, <1>2, <1>6, <2>1 DEF CreationOf, TurnsOf, LaunchOf, RowOf
<1>7. ASSUME "launch" \in x.permits,
             x2 = [x EXCEPT !.permits = @ \ {"launch"}, !.process = "alive", !.launches = @ + 1]
      PROVE  CreationOf(k, j, x2) /\ TurnsOf(j, x2) /\ LaunchOf(j, x2) /\ RowOf(k, j, w, x2)
    <2>1. /\ x2.permits = x.permits \ {"launch"} /\ x2.process = "alive"
          /\ x2.creations = x.creations /\ x2.task = x.task /\ x2.turns = x.turns
          /\ x2.launches = 1
        BY <1>0, <1>7 DEF WorldRecords, LaunchOf
    <2>2. j.launched /\ j.runner \notin {"exited", "released"}
        BY <1>0, <1>7 DEF LaunchOf
    <2> QED
        BY <1>0, <1>2, <1>7, <2>1, <2>2 DEF CreationOf, TurnsOf, LaunchOf, RowOf
<1>8. ASSUME x.process = "alive", x2 = [x EXCEPT !.process = "exited"]
      PROVE  CreationOf(k, j, x2) /\ TurnsOf(j, x2) /\ LaunchOf(j, x2) /\ RowOf(k, j, w, x2)
    <2>1. /\ x2.permits = x.permits /\ x2.process = "exited"
          /\ x2.creations = x.creations /\ x2.task = x.task /\ x2.turns = x.turns
          /\ x2.launches = x.launches
        BY <1>8 DEF WorldRecords
    <2> QED
        BY <1>0, <1>2, <1>8, <2>1 DEF CreationOf, TurnsOf, LaunchOf, RowOf
<1>9. ASSUME NEW p \in x.permits, x2 = [x EXCEPT !.permits = @ \ {p}]
      PROVE  CreationOf(k, j, x2) /\ TurnsOf(j, x2) /\ LaunchOf(j, x2) /\ RowOf(k, j, w, x2)
    <2>1. /\ x2.permits \subseteq x.permits /\ x2.process = x.process
          /\ x2.creations = x.creations /\ x2.task = x.task /\ x2.turns = x.turns
          /\ x2.launches = x.launches
        BY <1>9 DEF WorldRecords
    <2> QED
        BY <1>0, <1>2, <2>1 DEF CreationOf, TurnsOf, LaunchOf, RowOf
<1>10. CreationOf(k, j, x2) /\ TurnsOf(j, x2) /\ LaunchOf(j, x2) /\ RowOf(k, j, w, x2)
    BY <1>3, <1>4, <1>5, <1>6, <1>7, <1>8, <1>9 DEF Happens
<1> QED
    BY <1>2, <1>10 DEF Life

-------------------------------------------------------------------------------
(* What any step of one worker does to its own rows, and not to the others'.   *)

Tables ==
    /\ claims \in [Claims -> ClaimRecords]
    /\ resources \subseteq [key : Keys, claim : Claims]
    /\ journal \in [Claims -> JournalRecords]
    /\ settlements \in [Claims -> WorkerRecords \cup {None}]
    /\ workers \in [Claims -> WorkerRecords]
    /\ calls \in [Claims -> SUBSET CallKinds]
    /\ world \in [Claims -> WorldRecords]
    /\ meta.runner \in Claims \cup {None}

Same(d) ==
    /\ claims'[d] = claims[d] /\ journal'[d] = journal[d] /\ workers'[d] = workers[d]
    /\ calls'[d] = calls[d] /\ world'[d] = world[d]

\* A row changes by a receipt, by a settlement, or by work that goes on.
RowMoves(w, w2) ==
    /\ w.attached <= w2.attached
    /\ w.status = "settled" => w2.status = "settled"
    /\ \/ Binding(w2) = Binding(w)
       \/ w.attached < w2.attached
       \/ w2.status \in {"starting", "accepting"}
       \/ w.status # "settled" /\ w2.status = "settled"

\* Without the dispatch gates open nothing is entered or granted.
Quiet(c) ==
    /\ RowMoves(workers[c], workers'[c])
    /\ calls'[c] \subseteq calls[c]
    /\ \/ world'[c] = world[c]
       \/ Happens(world[c], world'[c]) /\ workers'[c] = workers[c]

\* The row's generation is kept, or the current one is pinned.
Pinned(c) ==
    \/ workers'[c].run = workers[c].run
    \/ RunCurrent(meta.run.generation) /\ workers'[c].run = meta.run.generation

Moves(c) ==
    /\ Tables'
    /\ Life(c, claims'[c], journal'[c], workers'[c], world'[c], calls'[c])
    /\ \A d \in Claims \ {c} : Same(d)
    /\ Effects \/ Quiet(c)
    /\ Pinned(c)
    /\ UNCHANGED <<allocations, account, approvals, quarantined>>
    /\ meta' = [meta EXCEPT !.runner = meta'.runner]

CoreInv == DispatchTypeOK /\ Lives

\* The tables of the system, as far as one worker's steps touch them.
LEMMA CoreTables ==
    ASSUME CoreInv
    PROVE  /\ Tables
           /\ meta \in MetaRecords
           /\ meta = [meta EXCEPT !.runner = meta.runner]
           /\ KernelTypeOK
           /\ \A c \in Claims : Life(c, claims[c], journal[c], workers[c], world[c], calls[c])
           /\ \A c \in Claims : RowMoves(workers[c], workers[c])
<1>1. meta \in MetaRecords /\ meta.runner \in Claims \cup {None}
    BY DEF CoreInv, DispatchTypeOK, MetaRecords
<1>2. meta = [meta EXCEPT !.runner = meta.runner]
    BY <1>1 DEF MetaRecords
<1>3. Tables
    BY <1>1 DEF CoreInv, DispatchTypeOK, KernelTypeOK, Tables
<1>4. KernelTypeOK
    BY DEF CoreInv, DispatchTypeOK
<1>5. \A c \in Claims : RowMoves(workers[c], workers[c])
    BY <1>3 DEF Tables, RowMoves, WorkerRecords
<1> QED
    BY <1>1, <1>2, <1>3, <1>4, <1>5 DEF CoreInv, Lives

\* The intent of a reservation.
LEMMA ReserveIntentMoves ==
    ASSUME CoreInv, NEW c \in Claims, ReserveIntent(c)
    PROVE  Moves(c)
<1>0. /\ Tables /\ meta \in MetaRecords /\ meta = [meta EXCEPT !.runner = meta.runner]
      /\ Life(c, claims[c], journal[c], workers[c], world[c], calls[c])
    BY CoreTables
<1>1. /\ Effects /\ RunCurrent(meta.run.generation) /\ meta.run.generation \in 0 .. MaxRuns
      /\ UNCHANGED <<claims, resources, allocations, account, quarantined, journal, settlements,
                     meta, approvals, world>>
      /\ calls' = [calls EXCEPT ![c] = @ \cup {"reserve"}]
    BY <1>0 DEF ReserveIntent, TaskApproved, kernelVars, Enter, MetaRecords, RunRecords
<1>2. CASE UNCHANGED workers
    <2>1. Tables'
        BY <1>0, <1>1, <1>2 DEF Tables, CallKinds
    <2>2. Life(c, claims[c], journal[c], workers[c], world[c], calls[c] \cup {"reserve"})
        BY <1>0, LifeCalls
    <2> QED
        BY <1>0, <1>1, <1>2, <2>1, <2>2 DEF Moves, Same, Pinned, Tables
<1>3. CASE workers[c].status = "absent" /\ workers' = [workers EXCEPT ![c] =
                [NoWorker EXCEPT !.status = "reserved", !.stage = "intent",
                                 !.run = meta.run.generation]]
    <2> DEFINE v == [NoWorker EXCEPT !.status = "reserved", !.stage = "intent",
                                     !.run = meta.run.generation]
    <2>1. v \in WorkerRecords /\ v.run = meta.run.generation
        <3>1. 0 \in 0 .. MaxJournal + 3 /\ 0 \in 0 .. MaxJournal /\ 0 \in 0 .. MaxRuns
            BY DispatchFacts
        <3>2. NoWorker \in WorkerRecords
            BY <3>1 DEF NoWorker, WorkerRecords, RunnerStates
        <3> QED
            BY <1>1, <3>2 DEF WorkerRecords
    <2>2. Life(c, claims[c], journal[c], v, world[c], calls[c])
        BY <1>0, <1>3, <2>1, LifeIntends DEF Tables
    <2> HIDE DEF v
    <2>3. Life(c, claims[c], journal[c], v, world[c], calls[c] \cup {"reserve"})
        BY <2>2, LifeCalls
    <2>4. workers' = [workers EXCEPT ![c] = v]
        BY <1>3 DEF v
    <2>5. Tables'
        BY <1>0, <1>1, <2>1, <2>4 DEF Tables, CallKinds
    <2>6. workers'[c] = v /\ calls'[c] = calls[c] \cup {"reserve"}
        BY <1>0, <1>1, <2>4 DEF Tables
    <2> QED
        BY <1>0, <1>1, <2>1, <2>3, <2>4, <2>5, <2>6 DEF Moves, Same, Pinned, Tables
<1> QED
    BY <1>2, <1>3 DEF ReserveIntent

\* A function is itself with any of its own values put back.
LEMMA PutBack ==
    ASSUME CoreInv, NEW c \in Claims
    PROVE  /\ claims = [claims EXCEPT ![c] = claims[c]]
           /\ journal = [journal EXCEPT ![c] = journal[c]]
           /\ workers = [workers EXCEPT ![c] = workers[c]]
           /\ world = [world EXCEPT ![c] = world[c]]
           /\ calls = [calls EXCEPT ![c] = calls[c]]
           /\ settlements = [settlements EXCEPT ![c] = settlements[c]]
           /\ claims[c] \in ClaimRecords /\ journal[c] \in JournalRecords
           /\ workers[c] \in WorkerRecords /\ world[c] \in WorldRecords
           /\ calls[c] \in SUBSET CallKinds /\ settlements[c] \in WorkerRecords \cup {None}
BY CoreTables DEF Tables

\* The rows of one worker become these, and nothing else changes but keys.
Becomes(c, k, j, w, x, q, s, r) ==
    /\ k \in ClaimRecords /\ j \in JournalRecords /\ w \in WorkerRecords /\ x \in WorldRecords
    /\ q \in SUBSET CallKinds /\ s \in WorkerRecords \cup {None} /\ r \in Claims \cup {None}
    /\ claims' = [claims EXCEPT ![c] = k]
    /\ journal' = [journal EXCEPT ![c] = j]
    /\ workers' = [workers EXCEPT ![c] = w]
    /\ world' = [world EXCEPT ![c] = x]
    /\ calls' = [calls EXCEPT ![c] = q]
    /\ settlements' = [settlements EXCEPT ![c] = s]
    /\ meta' = [meta EXCEPT !.runner = r]
    /\ resources' \subseteq [key : Keys, claim : Claims]
    /\ UNCHANGED <<allocations, account, approvals, quarantined>>

\* Entered and granted through the dispatch gates, or neither entered nor granted.
Guarded(c, w, x, q) ==
    \/ Effects
    \/ RowMoves(workers[c], w) /\ q \subseteq calls[c] /\ x = world[c]
    \/ w = workers[c] /\ q \subseteq calls[c] /\ Happens(world[c], x)

PinnedTo(c, w) ==
    \/ w.run = workers[c].run
    \/ RunCurrent(meta.run.generation) /\ w.run = meta.run.generation

\* The new rows of one worker are all there is to show of its step.
LEMMA OwnStep ==
    ASSUME CoreInv, NEW c \in Claims, NEW k, NEW j, NEW w, NEW x, NEW q, NEW s, NEW r,
           Becomes(c, k, j, w, x, q, s, r), Life(c, k, j, w, x, q),
           Guarded(c, w, x, q), PinnedTo(c, w)
    PROVE  Moves(c)
<1>0. /\ Tables /\ meta \in MetaRecords
      /\ RowMoves(workers[c], workers[c])
    BY CoreTables
<1>1. /\ claims'[c] = k /\ journal'[c] = j /\ workers'[c] = w /\ world'[c] = x /\ calls'[c] = q
      /\ \A d \in Claims \ {c} : Same(d)
    BY <1>0 DEF Tables, Same, Becomes
<1>2. meta'.runner = r /\ r \in Claims \cup {None}
    BY <1>0 DEF MetaRecords, Becomes
<1>3. Tables'
    <2>1. claims' \in [Claims -> ClaimRecords]
        BY <1>0 DEF Tables, Becomes
    <2>2. journal' \in [Claims -> JournalRecords]
        BY <1>0 DEF Tables, Becomes
    <2>3. workers' \in [Claims -> WorkerRecords]
        BY <1>0 DEF Tables, Becomes
    <2>4. world' \in [Claims -> WorldRecords]
        BY <1>0 DEF Tables, Becomes
    <2>5. calls' \in [Claims -> SUBSET CallKinds]
        BY <1>0 DEF Tables, Becomes
    <2>6. settlements' \in [Claims -> WorkerRecords \cup {None}]
        BY <1>0 DEF Tables, Becomes
    <2>7. resources' \subseteq [key : Keys, claim : Claims]
        BY DEF Becomes
    <2> QED
        BY <1>2, <2>1, <2>2, <2>3, <2>4, <2>5, <2>6, <2>7 DEF Tables
<1>4. Effects \/ Quiet(c)
    BY <1>0, <1>1 DEF Quiet, Guarded
<1>5. Pinned(c)
    BY <1>1 DEF Pinned, PinnedTo
<1>6. Life(c, claims'[c], journal'[c], workers'[c], world'[c], calls'[c])
    BY <1>1
<1>7. /\ UNCHANGED <<allocations, account, approvals, quarantined>>
      /\ meta' = [meta EXCEPT !.runner = meta'.runner]
    BY <1>2 DEF Becomes
<1> QED
    BY <1>1, <1>3, <1>4, <1>5, <1>6, <1>7 DEF Moves

\* Attaching an admission receipt gives a row of the right shape.
LEMMA AdmissionRowShape ==
    ASSUME NEW w \in WorkerRecords, NEW k \in ClaimRecords, k.status \in {"reserved", "starting"}
    PROVE  AdmissionRow(w, k) \in WorkerRecords /\ AdmissionRow(w, k).run = w.run
<1> DEFINE v == Version(k, NoJournal)
           sg == IF k.status = "reserved" THEN "reserved" ELSE "creation_intent"
<1>1. v \in 0 .. MaxJournal + 3
    BY DispatchFacts DEF Version, NoJournal
<1>2. sg \in {"reserved", "creation_intent"}
    OBVIOUS
<1> HIDE DEF v, sg
<1>3. [w EXCEPT !.stage = sg, !.status = k.status, !.seen = v] \in WorkerRecords
    BY <1>1, <1>2 DEF WorkerRecords
<1>4. [w EXCEPT !.stage = sg, !.status = k.status, !.seen = v].run = w.run
    BY DEF WorkerRecords
<1> QED
    BY <1>3, <1>4 DEF AdmissionRow, v, sg

\* The shared half of a reservation.
LEMMA ReserveSharedMoves ==
    ASSUME CoreInv, NEW c \in Claims, NEW attached \in BOOLEAN, ReserveShared(c, attached)
    PROVE  Moves(c)
<1> DEFINE k == claims[c]  j == journal[c]  w == workers[c]  x == world[c]  q == calls[c]
           q2 == calls[c] \ {"reserve"}
<1>0. /\ Tables /\ meta = [meta EXCEPT !.runner = meta.runner] /\ KernelTypeOK
      /\ Life(c, k, j, w, x, q) /\ RowMoves(w, w)
    BY CoreTables
<1>1. /\ Effects /\ w.stage \in {"intent", "reserved"}
      /\ UNCHANGED <<journal, settlements, meta, approvals, world>>
      /\ calls' = [calls EXCEPT ![c] = q2]
    BY DEF ReserveShared, Leave
<1>2. q2 \in SUBSET CallKinds
    BY <1>0 DEF Tables
<1>3. PICK k2 \in ClaimRecords :
        /\ claims' = [claims EXCEPT ![c] = k2] /\ k2.status = "reserved"
        /\ Life(c, k2, j, w, x, q)
        /\ resources' \subseteq [key : Keys, claim : Claims]
        /\ UNCHANGED <<allocations, account, quarantined>>
    <2>1. CASE claims[c].status = "reserved" /\ UNCHANGED kernelVars
        BY <1>0, <2>1, PutBack DEF Tables, kernelVars
    <2>2. CASE ReserveIn(c, Phase, {TaskRepo[c]}, TaskEstimate, TRUE)
        <3> DEFINE v == [NoClaim EXCEPT !.status = "reserved", !.allocation = Phase,
                                !.repositories = {TaskRepo[c]}, !.estimate = TaskEstimate,
                                !.bound = TRUE]
        <3>1. /\ claims' = [claims EXCEPT ![c] = v] /\ claims[c].status = "absent"
              /\ resources' = resources \cup
                    {[key |-> y, claim |-> c] : y \in ScopeKeys(Phase, {TaskRepo[c]})}
              /\ UNCHANGED <<allocations, account, quarantined>>
              /\ allocations[Phase].spec # None
            BY <2>2 DEF ReserveIn
        <3> HIDE DEF v
        <3>2. v \in ClaimRecords /\ v.status = "reserved" /\ ~v.started /\ v.allocation = Phase
              /\ v.repositories = {TaskRepo[c]}
            BY DispatchFacts DEF ClaimRecords, NoClaim, Held, v
        <3>3. ScopeKeys(Phase, {TaskRepo[c]}) \subseteq RepoKeys
            <4>1. {TaskRepo[c]} \in SUBSET Repositories /\ Phase \in Allocations
                BY DispatchFacts
            <4> QED
                BY <1>0, <3>1, <4>1, ScopeOfRepoKeys
        <3>4. resources' \subseteq [key : Keys, claim : Claims]
            <4>1. resources \subseteq [key : Keys, claim : Claims]
                BY <1>0 DEF Tables
            <4>2. \A y \in ScopeKeys(Phase, {TaskRepo[c]}) : y \in Keys
                BY <3>3 DEF Keys
            <4>3. \A y \in Keys : [key |-> y, claim |-> c] \in [key : Keys, claim : Claims]
                OBVIOUS
            <4>4. \A r \in resources' : \/ r \in resources
                                        \/ \E y \in ScopeKeys(Phase, {TaskRepo[c]}) :
                                                r = [key |-> y, claim |-> c]
                BY <3>1
            <4> QED
                BY <4>1, <4>2, <4>3, <4>4
        <3>5. Life(c, v, j, w, x, q)
            <4> HIDE DEF k, j, w, x, q
            <4> QED
                BY <1>0, <1>1, <3>1, <3>2, PutBack, LifeReserves DEF k, j, w, x, q
        <3> QED
            BY <3>1, <3>2, <3>4, <3>5
    <2> QED
        BY <2>1, <2>2 DEF ReserveShared
<1>4. PICK w2 \in WorkerRecords :
        /\ workers' = [workers EXCEPT ![c] = w2] /\ Life(c, k2, j, w2, x, q) /\ w2.run = w.run
    <2>1. CASE ~attached
        BY <1>3, <2>1, PutBack DEF ReserveShared, AttachAdmission
    <2>2. CASE attached
        <3>1. claims'[c] = k2
            BY <1>0, <1>3 DEF Tables
        <3>2. workers' = [workers EXCEPT ![c] = AdmissionRow(w, k2)]
            BY <2>2, <3>1 DEF ReserveShared, AttachAdmission
        <3>3. j.count = 0
            <4>1. ~k2.started
                BY <1>3 DEF Life, ClaimOf
            <4> QED
                BY <1>3, <4>1 DEF Life, CreationOf
        <3>4. AdmissionRow(w, k2) \in WorkerRecords /\ AdmissionRow(w, k2).run = w.run
            BY <1>3, PutBack, AdmissionRowShape
        <3>5. Life(c, k2, j, AdmissionRow(w, k2), x, q)
            BY <1>3, <3>3, PutBack, LifeAdmitted
        <3> QED
            BY <3>2, <3>4, <3>5
    <2> QED
        BY <2>1, <2>2
<1>5. Life(c, k2, j, w2, x, q2)
    BY <1>4, LifeCalls
<1>6. /\ journal' = [journal EXCEPT ![c] = j] /\ world' = [world EXCEPT ![c] = x]
      /\ settlements' = [settlements EXCEPT ![c] = settlements[c]]
      /\ meta' = [meta EXCEPT !.runner = meta.runner]
    BY <1>0, <1>1, PutBack
<1>7. Becomes(c, k2, j, w2, x, q2, settlements[c], meta.runner)
    BY <1>0, <1>1, <1>2, <1>3, <1>4, <1>6, PutBack DEF Becomes, Tables
<1>8. Guarded(c, w2, x, q2) /\ PinnedTo(c, w2)
    BY <1>1, <1>4 DEF Guarded, PinnedTo
<1> QED
    BY <1>5, <1>7, <1>8, OwnStep

\* The local half of crossing the creation boundary.
LEMMA BeginIntentMoves ==
    ASSUME CoreInv, NEW c \in Claims, BeginIntent(c)
    PROVE  Moves(c)
<1> DEFINE k == claims[c]  j == journal[c]  w == workers[c]  x == world[c]  q == calls[c]
           v == [w EXCEPT !.stage = "creation_pending", !.status = "starting"]
<1>0. /\ Tables /\ meta = [meta EXCEPT !.runner = meta.runner]
      /\ Life(c, k, j, w, x, q)
    BY CoreTables
<1>1. /\ Effects /\ w.status = "reserved" /\ k.status \in {"reserved", "starting"}
      /\ UNCHANGED <<kernelVars, journal, settlements, meta, approvals, world>>
      /\ workers' = [workers EXCEPT ![c].stage = "creation_pending", ![c].status = "starting"]
      /\ calls' = [calls EXCEPT ![c] = q \cup {"begin"}]
    BY DEF BeginIntent, Enter, AdmissionClaim
<1>2. v \in WorkerRecords /\ v.run = w.run
    BY PutBack DEF WorkerRecords
<1>3. workers' = [workers EXCEPT ![c] = v]
    BY <1>0, <1>1 DEF Tables
<1>4. Life(c, k, j, v, x, q \cup {"begin"})
    BY <1>0, <1>1, PutBack, LifePrepares
<1> HIDE DEF v
<1>5. Becomes(c, k, j, v, x, q \cup {"begin"}, settlements[c], meta.runner)
    <2>1. q \cup {"begin"} \in SUBSET CallKinds
        BY PutBack DEF CallKinds
    <2> QED
        BY <1>0, <1>1, <1>2, <1>3, <2>1, PutBack DEF Becomes, Tables, kernelVars
<1>6. Guarded(c, v, x, q \cup {"begin"}) /\ PinnedTo(c, v)
    BY <1>1, <1>2 DEF Guarded, PinnedTo
<1> QED
    BY <1>4, <1>5, <1>6, OwnStep

\* The shared half of crossing the creation boundary.
LEMMA BeginSharedMoves ==
    ASSUME CoreInv, NEW c \in Claims, NEW attached \in BOOLEAN, BeginShared(c, attached)
    PROVE  Moves(c)
<1> DEFINE k == claims[c]  j == journal[c]  w == workers[c]  x == world[c]  q == calls[c]
           q2 == calls[c] \ {"begin"}
           k2 == [k EXCEPT !.status = "starting", !.started = TRUE]
           x2 == IF attached THEN [x EXCEPT !.permits = @ \cup {"create"}] ELSE x
           w2 == IF attached THEN AdmissionRow(w, k2) ELSE w
<1>0. /\ Tables /\ meta = [meta EXCEPT !.runner = meta.runner]
      /\ Life(c, k, j, w, x, q)
    BY CoreTables
<1>1. /\ Effects /\ w.status = "starting" /\ k.status = "reserved" /\ j.count = 0
      /\ UNCHANGED <<journal, settlements, meta, approvals, resources, allocations, account,
                     quarantined>>
      /\ calls' = [calls EXCEPT ![c] = q2]
      /\ claims' = [claims EXCEPT ![c].status = "starting", ![c].started = TRUE]
    BY DEF BeginShared, Leave, BeginIn, AdmissionClaim
<1>2. k2 \in ClaimRecords /\ k2.status = "starting"
    BY PutBack DEF ClaimRecords, Held
<1>3. claims' = [claims EXCEPT ![c] = k2] /\ claims'[c] = k2
    BY <1>0, <1>1 DEF Tables
<1>4. x2 \in WorldRecords /\ world' = [world EXCEPT ![c] = x2]
    <2>1. [x EXCEPT !.permits = @ \cup {"create"}] \in WorldRecords
        BY PutBack DEF WorldRecords, Permits
    <2>2. CASE attached
        BY <1>0, <2>1, <2>2 DEF BeginShared, Grant, Tables
    <2>3. CASE ~attached
        BY <2>3, PutBack DEF BeginShared, Grant
    <2> QED
        BY <2>2, <2>3
<1>5. w2 \in WorkerRecords /\ workers' = [workers EXCEPT ![c] = w2] /\ w2.run = w.run
    <2>1. CASE attached
        <3>1. workers' = [workers EXCEPT ![c] = AdmissionRow(w, claims'[c])]
            BY <2>1 DEF BeginShared, AttachAdmission
        <3> HIDE DEF k2
        <3> QED
            BY <1>2, <1>3, <2>1, <3>1, PutBack, AdmissionRowShape
    <2>2. CASE ~attached
        BY <2>2, PutBack DEF BeginShared, AttachAdmission
    <2> QED
        BY <2>1, <2>2
<1>6. Life(c, k2, j, w, x2, q2)
    <2>1. x2 = x \/ x2 = [x EXCEPT !.permits = @ \cup {"create"}]
        OBVIOUS
    <2> HIDE DEF x2
    <2> QED
        BY <1>0, <1>1, <1>2, <1>4, <2>1, PutBack, LifeStarts
<1>7. q2 \in SUBSET CallKinds
    BY PutBack
<1> HIDE DEF q2, k2, x2
<1>8. Life(c, k2, j, w2, x2, q2)
    <2>1. Life(c, k2, j, AdmissionRow(w, k2), x2, q2)
        BY <1>1, <1>2, <1>4, <1>6, <1>7, PutBack, LifeAdmitted
    <2> QED
        BY <1>6, <2>1
<1> HIDE DEF w2
<1>9. Becomes(c, k2, j, w2, x2, q2, settlements[c], meta.runner)
    BY <1>0, <1>1, <1>2, <1>3, <1>4, <1>5, <1>7, PutBack DEF Becomes, Tables
<1>10. Guarded(c, w2, x2, q2) /\ PinnedTo(c, w2)
    BY <1>1, <1>5 DEF Guarded, PinnedTo
<1> QED
    BY <1>8, <1>9, <1>10, OwnStep

\* Receipt-only recovery of an admission.
LEMMA RecoverAdmissionMoves ==
    ASSUME CoreInv, NEW c \in Claims, RecoverAdmission(c)
    PROVE  Moves(c)
<1> DEFINE k == claims[c]  j == journal[c]  w == workers[c]  x == world[c]  q == calls[c]
           v == AdmissionRow(w, k)
<1>0. /\ Tables /\ meta = [meta EXCEPT !.runner = meta.runner]
      /\ Life(c, k, j, w, x, q)
    BY CoreTables
<1>1. /\ k.status \in {"reserved", "starting"} /\ j.count = 0
      /\ workers' = [workers EXCEPT ![c] = v]
      /\ UNCHANGED <<kernelVars, journal, settlements, meta, approvals, calls, world>>
    BY DEF RecoverAdmission, CanRecoverAdmission, AdmissionClaim
<1>2. v \in WorkerRecords /\ v.run = w.run
    BY <1>1, PutBack, AdmissionRowShape
<1>3. Life(c, k, j, v, x, q)
    BY <1>0, <1>1, PutBack, LifeAdmitted
<1>4. RowMoves(w, v)
    <2>1. v.attached = w.attached /\ v.attached \in Nat
        BY PutBack DEF AdmissionRow, WorkerRecords
    <2>2. w.status # "settled"
        BY <1>0, <1>1 DEF Life, RowOf
    <2>3. CASE k.status = "starting"
        <3>1. v.status = "starting"
            BY <2>3, PutBack DEF AdmissionRow, WorkerRecords
        <3> QED
            BY <2>1, <2>2, <3>1 DEF RowMoves
    <2>4. CASE k.status = "reserved" /\ w.stage = "creation_pending"
        BY <2>4, CoreTables DEF AdmissionRow
    <2>5. CASE k.status = "reserved" /\ w.stage # "creation_pending"
        <3>1. w.status = "reserved"
            BY <1>0, <2>5 DEF Life, RowOf
        <3>2. Binding(v) = Binding(w)
            BY <2>5, <3>1, PutBack DEF AdmissionRow, WorkerRecords, Binding
        <3> QED
            BY <2>1, <2>2, <3>2 DEF RowMoves
    <2> QED
        BY <1>1, <2>3, <2>4, <2>5
<1> HIDE DEF v
<1>5. Becomes(c, k, j, v, x, q, settlements[c], meta.runner)
    BY <1>0, <1>1, <1>2, PutBack DEF Becomes, Tables, kernelVars
<1>6. Guarded(c, v, x, q) /\ PinnedTo(c, v)
    BY <1>2, <1>4 DEF Guarded, PinnedTo
<1> QED
    BY <1>3, <1>5, <1>6, OwnStep

-------------------------------------------------------------------------------
(* Steps of the native lifecycle and of the acceptance runner. *)

\* What appending a record does to the two shared tables.
LEMMA AppendMoves ==
    ASSUME CoreInv, NEW c \in Claims, NEW state \in JournalRecords, NEW tokens \in Nat,
           Append(c, state, tokens)
    PROVE  \E k2 \in ClaimRecords, j2 \in JournalRecords :
            /\ claims' = [claims EXCEPT ![c] = k2] /\ journal' = [journal EXCEPT ![c] = j2]
            /\ claims'[c] = k2 /\ journal'[c] = j2
            /\ j2 = [state EXCEPT !.count = journal[c].count + 1]
            /\ j2 \in JournalRecords
            /\ k2.status = ClaimStatus(j2) /\ k2.started = claims[c].started
            /\ k2.allocation = claims[c].allocation /\ k2.repositories = claims[c].repositories
            /\ journal[c].count < MaxJournal
<1> DEFINE k == claims[c]
           st == ClaimStatus(state)
           nv == IF state.thread THEN NativeOf[c] ELSE None
           e == k.estimate + tokens
           k2 == [k EXCEPT !.status = st, !.native = nv, !.estimate = e]
           j2 == [state EXCEPT !.count = journal[c].count + 1]
<1>0. Tables
    BY CoreTables
<1>1. /\ journal[c].count < MaxJournal
      /\ journal' = [journal EXCEPT ![c] = j2]
      /\ claims' = [claims EXCEPT ![c].status = st, ![c].native = nv, ![c].estimate = @ + tokens]
    BY DEF Append
<1>2. st \in Held /\ nv \in Natives \cup {None}
    BY ProjectedStatus, DispatchFacts
<1>3. j2 \in JournalRecords
    <2>1. journal[c].count + 1 \in 0 .. MaxJournal
        BY <1>1, PutBack, DispatchFacts DEF JournalRecords
    <2> QED
        BY <2>1 DEF JournalRecords
<1>4. ClaimStatus(j2) = st
    BY DEF ClaimStatus, JournalRecords
<1>8. e \in Nat
    BY PutBack DEF ClaimRecords
<1>9. claims' = [claims EXCEPT ![c] = k2]
    BY <1>0, <1>1 DEF Tables
<1> HIDE DEF st, nv, j2, e
<1>5. /\ k2 \in ClaimRecords /\ k2.status = st /\ k2.started = k.started
      /\ k2.allocation = k.allocation /\ k2.repositories = k.repositories
    BY <1>2, <1>8, PutBack DEF ClaimRecords
<1> HIDE DEF k2
<1>7. claims'[c] = k2 /\ journal'[c] = j2
    BY <1>0, <1>1, <1>9 DEF Tables
<1> QED
    BY <1>1, <1>3, <1>4, <1>5, <1>7, <1>9 DEF j2

\* What attaching, or not, does to the row and the slot.
LEMMA AttachMoves ==
    ASSUME CoreInv, NEW c \in Claims, NEW attached \in BOOLEAN, AttachJournal(c, attached),
           claims'[c] \in ClaimRecords, journal'[c] \in JournalRecords
    PROVE  \E w2 \in WorkerRecords, r \in Claims \cup {None} :
            /\ workers' = [workers EXCEPT ![c] = w2]
            /\ meta' = [meta EXCEPT !.runner = r]
            /\ w2.run = workers[c].run
            /\ w2 = IF attached THEN JournalRow(workers[c], claims'[c], journal'[c]) ELSE workers[c]
            /\ attached => AttachAllowed(c, workers[c], journal'[c])
<1> DEFINE v == JournalRow(workers[c], claims'[c], journal'[c])
           r == RunnerSlot(c, workers[c], journal'[c])
<1>0. Tables /\ meta = [meta EXCEPT !.runner = meta.runner]
    BY CoreTables
<1>1. CASE ~attached
    BY <1>0, <1>1, PutBack DEF AttachJournal, Tables
<1>2. CASE attached
    <2>1. v \in WorkerRecords
        BY PutBack, JournalRowShape
    <2>2. v.run = workers[c].run
        BY PutBack, JournalRowFields
    <2>3. r \in Claims \cup {None}
        BY <1>0 DEF RunnerSlot, Tables
    <2>4. /\ workers' = [workers EXCEPT ![c] = v] /\ meta' = [meta EXCEPT !.runner = r]
          /\ AttachAllowed(c, workers[c], journal'[c])
        BY <1>2 DEF AttachJournal
    <2> HIDE DEF v, r
    <2>5. /\ v.run = workers[c].run
          /\ v = JournalRow(workers[c], claims'[c], journal'[c])
        BY <2>2 DEF v
    <2> QED
        BY <1>2, <2>1, <2>3, <2>4, <2>5
<1> QED
    BY <1>1, <1>2

\* A row that receives a newer record moves.
LEMMA AttachedRowMoves ==
    ASSUME NEW w \in WorkerRecords, NEW k \in ClaimRecords, NEW j \in JournalRecords,
           w.attached < j.count, w.status # "settled"
    PROVE  RowMoves(w, JournalRow(w, k, j))
<1>1. JournalRow(w, k, j) = w \/ JournalRow(w, k, j).attached = j.count
    BY JournalRowFields
<1>2. w.attached \in Nat /\ j.count \in Nat
    BY DEF WorkerRecords, JournalRecords
<1> QED
    BY <1>1, <1>2 DEF RowMoves

\* Steps that append a record while no marker of the row is open.
Recording(c, state, tokens, attached) ==
    /\ JournalOpen(c)
    /\ NoUnmatchedIntent(c)
    /\ Append(c, state, tokens)
    /\ AttachJournal(c, attached)
    /\ UNCHANGED <<allocations, account, quarantined, settlements, approvals, calls, world>>
    /\ resources' \subseteq [key : Keys, claim : Claims]

\* Such a step keeps its worker's life when the new record is sound.
LEMMA RecordingMoves ==
    ASSUME CoreInv, NEW c \in Claims, NEW attached \in BOOLEAN,
           NEW state \in JournalRecords, NEW tokens \in Nat,
           Recording(c, state, tokens, attached),
           Retains(journal[c], state), journal[c].thread => state.thread,
           journal[c].runner # "released" \/ state.runner = "released",
           NEW j2, j2 = [state EXCEPT !.count = journal[c].count + 1],
           JournalOf(j2), state.thread => world[c].task \in {"running", "idle"},
           TurnsOf(j2, world[c]), LaunchOf(j2, world[c])
    PROVE  Moves(c)
<1> DEFINE k == claims[c]  j == journal[c]  w == workers[c]  x == world[c]  q == calls[c]
<1>0. /\ Tables /\ meta = [meta EXCEPT !.runner = meta.runner]
      /\ Life(c, k, j, w, x, q)
    BY CoreTables
<1>1. PICK k2 \in ClaimRecords :
        /\ claims' = [claims EXCEPT ![c] = k2] /\ journal' = [journal EXCEPT ![c] = j2]
        /\ claims'[c] = k2 /\ journal'[c] = j2 /\ j2 \in JournalRecords
        /\ k2.status = ClaimStatus(j2) /\ k2.started = k.started
        /\ k2.allocation = k.allocation /\ k2.repositories = k.repositories
    BY AppendMoves DEF Recording
<1>2. PICK w2 \in WorkerRecords, r \in Claims \cup {None} :
        /\ workers' = [workers EXCEPT ![c] = w2] /\ meta' = [meta EXCEPT !.runner = r]
        /\ w2.run = w.run /\ w2 \in {w, JournalRow(w, k2, j2)}
    <2>1. AttachJournal(c, attached) /\ claims'[c] \in ClaimRecords /\ journal'[c] \in JournalRecords
        BY <1>1 DEF Recording
    <2> QED
        BY <1>1, <2>1, AttachMoves
<1>3. k.status \in Held \ {"reserved"} /\ k.started /\ w.status # "settled"
    <2>1. k.started
        BY <1>0, PutBack DEF Recording, JournalOpen, Life, CreationOf, ClaimOf, Held, JournalRecords
    <2>2. k.status \in Held
        BY DEF Recording, JournalOpen
    <2> QED
        BY <1>0, <2>1, <2>2 DEF Life, ClaimOf, RowOf, Held
<1>4. /\ j2.count = j.count + 1 /\ j2.marker = j.marker /\ j2.thread = state.thread
      /\ j2.launched = state.launched /\ j2.runner = state.runner
    BY DEF JournalRecords, Retains
<1>5. k2.status \in Held \ {"reserved"}
    BY <1>1, ProjectedStatus
<1>6. Advances(k, j, w, k2, j2, w2)
    <2>1. j.runner = "released" => j2.runner = "released"
        BY <1>4
    <2>2. j.thread => j2.thread
        BY <1>4
    <2> QED
        BY <1>1, <1>2, <1>3, <1>4, <1>5, <2>1, <2>2 DEF Advances
<1>7. CreationOf(k2, j2, x)
    BY <1>0, <1>1, <1>3, <1>4 DEF CreationOf, Life
<1>12. /\ k \in ClaimRecords /\ j \in JournalRecords /\ w \in WorkerRecords /\ x \in WorldRecords
       /\ q \in SUBSET CallKinds /\ j2 \in JournalRecords
    BY <1>1, PutBack
<1>8. Life(c, k2, j2, w2, x, q)
    <2>1. LaunchMatched(w, j) /\ TurnMatched(w, j)
        BY DEF Recording, NoUnmatchedIntent
    <2>2. Retains(j, j2)
        BY <1>4 DEF Retains
    <2>3. JournalOf(j2) /\ TurnsOf(j2, x) /\ LaunchOf(j2, x)
        OBVIOUS
    <2>4. Life(c, k, j, w, x, q)
        BY <1>0
    <2> HIDE DEF k, j, w, x, q
    <2> QED
        BY <1>6, <1>7, <1>12, <2>1, <2>2, <2>3, <2>4, LifeRecords
<1>9. RowMoves(w, w2)
    <2>1. w.attached < j2.count
        BY <1>0, <1>4, PutBack DEF Life, RowOf, WorkerRecords, JournalRecords
    <2>2. CASE w2 = w
        BY <2>2, CoreTables
    <2>3. CASE w2 = JournalRow(w, k2, j2)
        BY <1>3, <1>12, <2>1, <2>3, AttachedRowMoves
    <2> QED
        BY <1>2, <2>2, <2>3
<1>10. Becomes(c, k2, j2, w2, x, q, settlements[c], r)
    BY <1>0, <1>1, <1>2, PutBack DEF Becomes, Recording, Tables
<1>11. Guarded(c, w2, x, q) /\ PinnedTo(c, w2)
    BY <1>2, <1>9 DEF Guarded, PinnedTo
<1> QED
    BY <1>8, <1>10, <1>11, OwnStep

\* The counters of a sound journal stay behind its length.
LEMMA Counted ==
    ASSUME NEW j \in JournalRecords, JournalOf(j)
    PROVE  /\ j.count \in Nat /\ j.marker \in Nat /\ j.sequence \in Nat /\ j.noProgress \in Nat
           /\ j.marker < j.count + 1 /\ j.sequence <= j.count /\ j.noProgress <= j.count
           /\ j.count = 0 => /\ j.outcome = "none" /\ ~j.thread /\ j.turn = "none"
                             /\ j.runner = "none" /\ ~j.launched
<1>1. CASE j.count = 0
    BY <1>1 DEF JournalOf, JournalRecords, NoJournal
<1>2. CASE j.count # 0
    BY <1>2 DEF JournalOf, JournalRecords
<1> QED
    BY <1>1, <1>2

\* An observation of the task.
LEMMA ObserveMoves ==
    ASSUME CoreInv, NEW c \in Claims, NEW attached \in BOOLEAN,
           NEW outcome \in {"pending", "uncertain", "confirmed"}, NEW thread \in BOOLEAN,
           NEW activity \in {"unknown", "running", "idle"},
           Observe(c, outcome, thread, activity, attached)
    PROVE  Moves(c)
<1> DEFINE j == journal[c]  x == world[c]
           state == [j EXCEPT !.outcome = outcome, !.thread = thread, !.activity = activity]
           j2 == [state EXCEPT !.count = j.count + 1]
<1>0. /\ Tables /\ KernelTypeOK /\ JournalOf(j) /\ TurnsOf(j, x) /\ LaunchOf(j, x)
      /\ j \in JournalRecords
    BY CoreTables, PutBack DEF Life
<1>1. /\ ~Owns(j.runner) /\ (outcome = "confirmed" => thread) /\ (j.thread => thread)
      /\ thread => x.task \in {"running", "idle"}
    BY DEF Observe, RunnerClear
<1>2. state \in JournalRecords
    BY <1>0 DEF JournalRecords
<1>3. /\ j2.count = j.count + 1 /\ j2.outcome = outcome /\ j2.thread = thread
      /\ j2.turn = j.turn /\ j2.marker = j.marker /\ j2.sequence = j.sequence
      /\ j2.noProgress = j.noProgress /\ j2.runner = j.runner /\ j2.launched = j.launched
    BY <1>0 DEF JournalRecords
<1>4. /\ state.thread = thread /\ state.runner = j.runner
      /\ state.marker = j.marker /\ state.launched = j.launched
    BY <1>0 DEF JournalRecords
<1>5. Recording(c, state, 0, attached)
    BY <1>0 DEF Observe, Recording, JournalUnchanged, constantVars, Tables
<1> HIDE DEF state
<1>6. j2 = [state EXCEPT !.count = journal[c].count + 1]
    OBVIOUS
<1> HIDE DEF j2
<1>7. JournalOf(j2)
    BY <1>0, <1>1, <1>3, Counted DEF JournalOf
<1>8. TurnsOf(j2, x) /\ LaunchOf(j2, x)
    BY <1>0, <1>3 DEF TurnsOf, LaunchOf
<1>9. Retains(j, state)
    BY <1>4 DEF Retains
<1> QED
    BY <1>1, <1>2, <1>4, <1>5, <1>6, <1>7, <1>8, <1>9, RecordingMoves

\* What became of a correction turn.
LEMMA DeliveryMoves ==
    ASSUME CoreInv, NEW c \in Claims, NEW attached \in BOOLEAN, NEW progress \in BOOLEAN,
           NEW outcome \in {"acknowledged", "uncertain", "finished"},
           Delivery(c, outcome, progress, attached)
    PROVE  Moves(c)
<1> DEFINE j == journal[c]  x == world[c]
           np == IF progress THEN 0 ELSE j.noProgress + 1
           done == [j EXCEPT !.turn = outcome, !.noProgress = np, !.outcome = "confirmed",
                             !.activity = "idle"]
           state == IF outcome = "finished" THEN done ELSE [j EXCEPT !.turn = outcome]
           j2 == [state EXCEPT !.count = j.count + 1]
<1>0. /\ Tables /\ KernelTypeOK /\ JournalOf(j) /\ TurnsOf(j, x) /\ LaunchOf(j, x)
      /\ CreationOf(claims[c], j, x) /\ j \in JournalRecords
    BY CoreTables, PutBack DEF Life
<1>1. /\ ~Owns(j.runner) /\ j.thread /\ j.turn # "none"
      /\ outcome \in {"acknowledged", "finished"} => x.turns = j.sequence
      /\ Append(c, state, 0)
    BY DEF Delivery, RunnerClear, Inflight
<1>2. np \in 0 .. MaxJournal /\ np <= j.count + 1
    <2>1. j.count < MaxJournal
        BY <1>1 DEF Append
    <2> QED
        BY <1>0, <2>1, Counted, DispatchFacts
<1>3. Recording(c, state, 0, attached)
    BY <1>0, <1>1 DEF Delivery, Recording, JournalUnchanged, constantVars, Tables
<1> HIDE DEF np
<1>4. state \in JournalRecords
    <2>1. done \in JournalRecords
        BY <1>0, <1>2 DEF JournalRecords, Inflight
    <2>2. [j EXCEPT !.turn = outcome] \in JournalRecords
        BY <1>0 DEF JournalRecords, Inflight
    <2> QED
        BY <2>1, <2>2
<1>5. /\ state.turn = outcome /\ state.marker = j.marker /\ state.sequence = j.sequence
      /\ state.noProgress \in {j.noProgress, np} /\ state.runner = j.runner
      /\ state.launched = j.launched /\ state.thread = j.thread
      /\ state.outcome \in {j.outcome, "confirmed"}
    BY <1>0 DEF JournalRecords
<1> HIDE DEF state
<1>6. /\ j2.count = j.count + 1 /\ j2.outcome = state.outcome /\ j2.thread = state.thread
      /\ j2.turn = state.turn /\ j2.marker = state.marker /\ j2.sequence = state.sequence
      /\ j2.noProgress = state.noProgress /\ j2.runner = state.runner
      /\ j2.launched = state.launched
    BY <1>4 DEF JournalRecords
<1>7. j2 = [state EXCEPT !.count = journal[c].count + 1]
    OBVIOUS
<1> HIDE DEF j2
<1>8. JournalOf(j2)
    <2>1. j.outcome # "none"
        BY <1>0, <1>1, Counted DEF JournalOf
    <2>2. j2.noProgress <= j2.count
        BY <1>0, <1>2, <1>5, <1>6, Counted
    <2> QED
        BY <1>0, <1>1, <1>5, <1>6, <2>1, <2>2, Counted DEF JournalOf
<1>9. TurnsOf(j2, x) /\ LaunchOf(j2, x)
    BY <1>0, <1>1, <1>5, <1>6 DEF TurnsOf, LaunchOf
<1>10. Retains(j, state)
    BY <1>5 DEF Retains
<1>11. state.thread => x.task \in {"running", "idle"}
    BY <1>0, <1>1 DEF CreationOf
<1> QED
    BY <1>3, <1>4, <1>5, <1>7, <1>8, <1>9, <1>10, <1>11, RecordingMoves

\* A runner key is reserved for the worker.
LEMMA AcquireMoves ==
    ASSUME CoreInv, NEW c \in Claims, NEW y \in RunnerKeys, NEW attached \in BOOLEAN,
           Acquire(c, y, attached)
    PROVE  Moves(c)
<1> DEFINE j == journal[c]  x == world[c]
           state == [j EXCEPT !.runner = "reserved"]
           j2 == [state EXCEPT !.count = j.count + 1]
<1>0. /\ Tables /\ KernelTypeOK /\ JournalOf(j) /\ TurnsOf(j, x) /\ LaunchOf(j, x)
      /\ CreationOf(claims[c], j, x) /\ j \in JournalRecords
    BY CoreTables, PutBack DEF Life
<1>1. /\ j.runner = "none" /\ j.outcome = "confirmed" /\ j.turn \notin Inflight
      /\ resources' = resources \cup {[key |-> y, claim |-> c]}
    BY DEF Acquire, WorkChecks
<1>2. j.thread /\ ~j.launched
    BY <1>0, <1>1 DEF JournalOf
<1>3. resources' \subseteq [key : Keys, claim : Claims]
    <2>1. [key |-> y, claim |-> c] \in [key : Keys, claim : Claims]
        BY DEF Keys
    <2> QED
        BY <1>0, <1>1, <2>1 DEF Tables
<1>4. Recording(c, state, TaskEstimate, attached)
    BY <1>0, <1>3 DEF Acquire, Recording, JournalUnchanged, constantVars, Tables
<1>5. state \in JournalRecords
    BY <1>0 DEF JournalRecords, RunnerStates
<1>6. /\ j2.count = j.count + 1 /\ j2.outcome = j.outcome /\ j2.thread = j.thread
      /\ j2.turn = j.turn /\ j2.marker = j.marker /\ j2.sequence = j.sequence
      /\ j2.noProgress = j.noProgress /\ j2.runner = "reserved" /\ j2.launched = j.launched
    BY <1>0 DEF JournalRecords
<1>7. /\ state.thread = j.thread /\ state.marker = j.marker /\ state.launched = j.launched
    BY <1>0 DEF JournalRecords
<1> HIDE DEF state
<1>8. j2 = [state EXCEPT !.count = journal[c].count + 1]
    OBVIOUS
<1> HIDE DEF j2
<1>9. JournalOf(j2)
    BY <1>0, <1>1, <1>2, <1>6, Counted DEF JournalOf
<1>10. TurnsOf(j2, x) /\ LaunchOf(j2, x)
    BY <1>0, <1>2, <1>6 DEF TurnsOf, LaunchOf
<1>11. Retains(j, state)
    BY <1>7 DEF Retains
<1>12. x.task \in {"running", "idle"} /\ TaskEstimate \in Nat
    BY <1>0, <1>2, DispatchFacts DEF CreationOf
<1> QED
    BY <1>1, <1>4, <1>5, <1>7, <1>8, <1>9, <1>10, <1>11, <1>12, RecordingMoves

\* An observation of the acceptance process.
LEMMA ObserveProcessMoves ==
    ASSUME CoreInv, NEW c \in Claims, NEW outcome \in {"uncertain", "running", "exited"},
           NEW attached \in BOOLEAN, ObserveProcess(c, outcome, attached)
    PROVE  Moves(c)
<1> DEFINE j == journal[c]  x == world[c]
           state == [j EXCEPT !.runner = outcome]
           j2 == [state EXCEPT !.count = j.count + 1]
<1>0. /\ Tables /\ KernelTypeOK /\ JournalOf(j) /\ TurnsOf(j, x) /\ LaunchOf(j, x)
      /\ CreationOf(claims[c], j, x) /\ j \in JournalRecords
    BY CoreTables, PutBack DEF Life
<1>1. /\ j.runner \in {"launch_intent", "uncertain", "running"}
      /\ outcome = "exited" => x.process = "exited"
    BY DEF ObserveProcess
<1>2. j.thread /\ j.launched /\ j.turn \notin Inflight
    BY <1>0, <1>1 DEF JournalOf, Owns
<1>4. Recording(c, state, 0, attached)
    BY <1>0 DEF ObserveProcess, Recording, JournalUnchanged, constantVars, Tables
<1>5. state \in JournalRecords
    BY <1>0 DEF JournalRecords, RunnerStates
<1>6. /\ j2.count = j.count + 1 /\ j2.outcome = j.outcome /\ j2.thread = j.thread
      /\ j2.turn = j.turn /\ j2.marker = j.marker /\ j2.sequence = j.sequence
      /\ j2.noProgress = j.noProgress /\ j2.runner = outcome /\ j2.launched = j.launched
    BY <1>0 DEF JournalRecords
<1>7. /\ state.thread = j.thread /\ state.marker = j.marker /\ state.launched = j.launched
    BY <1>0 DEF JournalRecords
<1> HIDE DEF state
<1>8. j2 = [state EXCEPT !.count = journal[c].count + 1]
    OBVIOUS
<1> HIDE DEF j2
<1>9. JournalOf(j2)
    <2>1. j.outcome # "none"
        BY <1>0, <1>1, Counted DEF JournalOf
    <2> QED
        BY <1>0, <1>1, <1>2, <1>6, <2>1, Counted DEF JournalOf
<1>10. TurnsOf(j2, x) /\ LaunchOf(j2, x)
    BY <1>0, <1>1, <1>2, <1>6 DEF TurnsOf, LaunchOf
<1>11. Retains(j, state)
    BY <1>7 DEF Retains
<1>12. x.task \in {"running", "idle"}
    BY <1>0, <1>2 DEF CreationOf
<1> QED
    BY <1>1, <1>4, <1>5, <1>7, <1>8, <1>9, <1>10, <1>11, <1>12, RecordingMoves

\* A runner that was never launched, or whose exit is on record, is released.
LEMMA ReleaseMoves ==
    ASSUME CoreInv, NEW c \in Claims, NEW attached \in BOOLEAN, Release(c, attached)
    PROVE  Moves(c)
<1> DEFINE j == journal[c]  x == world[c]
           state == [j EXCEPT !.runner = "released", !.activity = "idle"]
           j2 == [state EXCEPT !.count = j.count + 1]
<1>0. /\ Tables /\ KernelTypeOK /\ JournalOf(j) /\ TurnsOf(j, x) /\ LaunchOf(j, x)
      /\ CreationOf(claims[c], j, x) /\ j \in JournalRecords
    BY CoreTables, PutBack DEF Life
<1>1. /\ j.runner \in {"reserved", "exited"} /\ x.process # "alive"
      /\ resources' \subseteq resources
    BY DEF Release
<1>2. j.thread /\ "launch" \notin x.permits
    <2>1. CASE j.runner = "reserved"
        BY <1>0, <2>1 DEF JournalOf, LaunchOf
    <2>2. CASE j.runner = "exited"
        BY <1>0, <2>2 DEF JournalOf, LaunchOf
    <2> QED
        BY <1>1, <2>1, <2>2
<1>4. Recording(c, state, 0, attached)
    BY <1>0, <1>1 DEF Release, Recording, JournalUnchanged, constantVars, Tables
<1>5. state \in JournalRecords
    BY <1>0 DEF JournalRecords, RunnerStates
<1>6. /\ j2.count = j.count + 1 /\ j2.outcome = j.outcome /\ j2.thread = j.thread
      /\ j2.turn = j.turn /\ j2.marker = j.marker /\ j2.sequence = j.sequence
      /\ j2.noProgress = j.noProgress /\ j2.runner = "released" /\ j2.launched = j.launched
    BY <1>0 DEF JournalRecords
<1>7. /\ state.thread = j.thread /\ state.marker = j.marker /\ state.launched = j.launched
    BY <1>0 DEF JournalRecords
<1> HIDE DEF state
<1>8. j2 = [state EXCEPT !.count = journal[c].count + 1]
    OBVIOUS
<1> HIDE DEF j2
<1>9. JournalOf(j2)
    <2>1. j.outcome # "none"
        BY <1>0, <1>1, Counted DEF JournalOf
    <2> QED
        BY <1>0, <1>2, <1>6, <2>1, Counted DEF JournalOf, Owns
<1>10. TurnsOf(j2, x) /\ LaunchOf(j2, x)
    BY <1>0, <1>1, <1>2, <1>6 DEF TurnsOf, LaunchOf
<1>11. Retains(j, state)
    BY <1>7 DEF Retains
<1>12. x.task \in {"running", "idle"}
    BY <1>0, <1>2 DEF CreationOf
<1> QED
    BY <1>1, <1>4, <1>5, <1>7, <1>8, <1>9, <1>10, <1>11, <1>12, RecordingMoves

\* The local half of a correction.
LEMMA ContinueIntentMoves ==
    ASSUME CoreInv, NEW c \in Claims, ContinueIntent(c)
    PROVE  Moves(c)
<1> DEFINE k == claims[c]  j == journal[c]  w == workers[c]  x == world[c]  q == calls[c]
           v == [w EXCEPT !.marker = j.count, !.status = "starting",
                          !.stage = "continuation_pending"]
<1>0. /\ Tables /\ meta = [meta EXCEPT !.runner = meta.runner]
      /\ Life(c, k, j, w, x, q)
    BY CoreTables
<1>1. /\ Effects /\ k.status \in Held /\ LaunchMatched(w, j) /\ TurnMatched(w, j)
      /\ ~Owns(j.runner) /\ j.outcome = "confirmed"
      /\ UNCHANGED <<kernelVars, journal, settlements, meta, approvals, world>>
      /\ workers' = [workers EXCEPT ![c].marker = j.count, ![c].status = "starting",
                                    ![c].stage = "continuation_pending"]
      /\ calls' = [calls EXCEPT ![c] = q \cup {"continue"}]
    BY DEF ContinueIntent, Enter, JournalOpen, NoUnmatchedIntent, ContinuationChecks, RunnerClear
<1>2. v \in WorkerRecords /\ v.run = w.run
    <2>1. w \in WorkerRecords /\ j.count \in 0 .. MaxJournal
        BY PutBack DEF JournalRecords
    <2> HIDE DEF w, j
    <2> QED
        BY <2>1 DEF WorkerRecords, Active
<1>3. workers' = [workers EXCEPT ![c] = v]
    BY <1>0, <1>1 DEF Tables
<1>4. Life(c, k, j, v, x, q \cup {"continue"})
    BY <1>0, <1>1, PutBack, LifeMarks
<1> HIDE DEF v
<1>5. Becomes(c, k, j, v, x, q \cup {"continue"}, settlements[c], meta.runner)
    <2>1. q \cup {"continue"} \in SUBSET CallKinds
        BY PutBack DEF CallKinds
    <2> QED
        BY <1>0, <1>1, <1>2, <1>3, <2>1, PutBack DEF Becomes, Tables, kernelVars
<1>6. Guarded(c, v, x, q \cup {"continue"}) /\ PinnedTo(c, v)
    BY <1>1, <1>2 DEF Guarded, PinnedTo
<1> QED
    BY <1>4, <1>5, <1>6, OwnStep

\* The local half of a launch.
LEMMA LaunchIntentMoves ==
    ASSUME CoreInv, NEW c \in Claims, LaunchIntent(c)
    PROVE  Moves(c)
<1> DEFINE k == claims[c]  j == journal[c]  w == workers[c]  x == world[c]  q == calls[c]
           v == [w EXCEPT !.launch = TRUE, !.status = "accepting",
                          !.stage = "runner_launch_pending"]
<1>0. /\ Tables /\ meta = [meta EXCEPT !.runner = meta.runner]
      /\ Life(c, k, j, w, x, q)
    BY CoreTables
<1>1. /\ Effects /\ k.status \in Held /\ LaunchMatched(w, j) /\ TurnMatched(w, j)
      /\ j.runner = "reserved" /\ j.turn \notin Inflight
      /\ UNCHANGED <<kernelVars, journal, settlements, meta, approvals, world>>
      /\ workers' = [workers EXCEPT ![c].launch = TRUE, ![c].status = "accepting",
                                    ![c].stage = "runner_launch_pending"]
      /\ calls' = [calls EXCEPT ![c] = q \cup {"launch"}]
    BY DEF LaunchIntent, Enter, JournalOpen, NoUnmatchedIntent, WorkChecks
<1>2. v \in WorkerRecords /\ v.run = w.run
    BY PutBack DEF WorkerRecords
<1>3. workers' = [workers EXCEPT ![c] = v]
    BY <1>0, <1>1 DEF Tables
<1>4. Life(c, k, j, v, x, q \cup {"launch"})
    BY <1>0, <1>1, PutBack, LifeReadies
<1> HIDE DEF v
<1>5. Becomes(c, k, j, v, x, q \cup {"launch"}, settlements[c], meta.runner)
    <2>1. q \cup {"launch"} \in SUBSET CallKinds
        BY PutBack DEF CallKinds
    <2> QED
        BY <1>0, <1>1, <1>2, <1>3, <2>1, PutBack DEF Becomes, Tables, kernelVars
<1>6. Guarded(c, v, x, q \cup {"launch"}) /\ PinnedTo(c, v)
    BY <1>1, <1>2 DEF Guarded, PinnedTo
<1> QED
    BY <1>4, <1>5, <1>6, OwnStep

\* The latest journal record is attached, and nothing else.
LEMMA RecoverNativeMoves ==
    ASSUME CoreInv, NEW c \in Claims, RecoverNative(c)
    PROVE  Moves(c)
<1> DEFINE k == claims[c]  j == journal[c]  w == workers[c]  x == world[c]  q == calls[c]
<1>0. /\ Tables /\ meta = [meta EXCEPT !.runner = meta.runner] /\ KernelTypeOK
      /\ Life(c, k, j, w, x, q)
    BY CoreTables
<1>1. /\ k.status \in Held /\ j.count > 0 /\ w.attached # j.count
      /\ UNCHANGED <<claims, journal, resources, constantVars, quarantined, settlements,
                     approvals, calls, world>>
      /\ AttachJournal(c, TRUE)
    BY DEF RecoverNative, CanRecoverNative, JournalOpen, JournalUnchanged
<1>2. claims'[c] = k /\ journal'[c] = j
    BY <1>1
<1>3. PICK w2 \in WorkerRecords, r \in Claims \cup {None} :
        /\ workers' = [workers EXCEPT ![c] = w2] /\ meta' = [meta EXCEPT !.runner = r]
        /\ w2.run = w.run /\ w2 = JournalRow(w, k, j)
    BY <1>1, <1>2, PutBack, AttachMoves
<1>4. Life(c, k, j, w2, x, q)
    BY <1>0, <1>1, <1>3, PutBack, LifeAttaches
<1>5. RowMoves(w, w2)
    <2>1. w.attached < j.count
        <3>1. w.attached \in Nat /\ j.count \in Nat
            BY PutBack DEF WorkerRecords, JournalRecords
        <3>2. w.attached <= j.count /\ w.attached # j.count
            BY <1>0, <1>1 DEF Life, RowOf
        <3> HIDE DEF w, j
        <3> QED
            BY <3>1, <3>2
    <2>2. w.status # "settled"
        BY <1>0, <1>1 DEF Life, RowOf, Held
    <2> QED
        BY <1>3, <2>1, <2>2, PutBack, AttachedRowMoves
<1>6. Becomes(c, k, j, w2, x, q, settlements[c], r)
    <2>1. claims' = [claims EXCEPT ![c] = k] /\ journal' = [journal EXCEPT ![c] = j]
        BY <1>1, PutBack
    <2> QED
        BY <1>0, <1>1, <1>3, <2>1, PutBack DEF Becomes, constantVars, Tables
<1>7. Guarded(c, w2, x, q) /\ PinnedTo(c, w2)
    BY <1>3, <1>5 DEF Guarded, PinnedTo
<1> QED
    BY <1>4, <1>6, <1>7, OwnStep

\* The shared half of a correction.
LEMMA ContinueSharedMoves ==
    ASSUME CoreInv, NEW c \in Claims, NEW attached \in BOOLEAN, ContinueShared(c, attached)
    PROVE  Moves(c)
<1> DEFINE k == claims[c]  j == journal[c]  w == workers[c]  x == world[c]  q == calls[c]
           q2 == calls[c] \ {"continue"}
           state == [j EXCEPT !.sequence = @ + 1, !.turn = "intent", !.marker = w.marker,
                              !.activity = "unknown"]
           x2 == IF attached THEN [x EXCEPT !.permits = @ \cup {"continue"}] ELSE x
<1>0. /\ Tables /\ meta = [meta EXCEPT !.runner = meta.runner] /\ KernelTypeOK
      /\ Life(c, k, j, w, x, q)
      /\ k \in ClaimRecords /\ j \in JournalRecords /\ w \in WorkerRecords /\ x \in WorldRecords
      /\ q \in SUBSET CallKinds
    BY CoreTables, PutBack
<1>1. /\ "continue" \in q /\ Effects /\ k.status \in Held
      /\ w.marker = j.count /\ ~Owns(j.runner) /\ j.outcome = "confirmed" /\ j.turn \notin Inflight
      /\ Append(c, state, TaskEstimate)
      /\ AttachJournal(c, attached)
      /\ UNCHANGED <<constantVars, quarantined, settlements, approvals, resources>>
      /\ calls' = [calls EXCEPT ![c] = q2]
    BY DEF ContinueShared, Leave, JournalOpen, JournalUnchanged, ContinuationChecks, RunnerClear
<1>2. x2 \in WorldRecords /\ world' = [world EXCEPT ![c] = x2]
    <2>1. [x EXCEPT !.permits = @ \cup {"continue"}] \in WorldRecords
        BY <1>0 DEF WorldRecords, Permits
    <2>2. CASE attached
        BY <1>0, <2>1, <2>2 DEF ContinueShared, Grant, Tables
    <2>3. CASE ~attached
        BY <1>0, <2>3, PutBack DEF ContinueShared, Grant
    <2> QED
        BY <2>2, <2>3
<1>3. JournalOf(j) /\ CallsOf(k, j, w, q) /\ ClaimOf(c, k) /\ CreationOf(k, j, x) /\ RowOf(k, j, w, x)
    BY <1>0 DEF Life
<1>4. state \in JournalRecords
    <2>1. j.count < MaxJournal
        BY <1>1 DEF Append
    <2>2. j.sequence + 1 \in 0 .. MaxJournal
        BY <1>0, <1>3, <2>1, Counted, DispatchFacts
    <2> QED
        BY <1>0, <1>1, <2>2 DEF JournalRecords, Inflight
<1>5. TaskEstimate \in Nat
    BY DispatchFacts
<1> HIDE DEF state
<1>6. PICK k2 \in ClaimRecords, j2 \in JournalRecords :
        /\ claims' = [claims EXCEPT ![c] = k2] /\ journal' = [journal EXCEPT ![c] = j2]
        /\ claims'[c] = k2 /\ journal'[c] = j2
        /\ j2 = [state EXCEPT !.count = j.count + 1]
        /\ k2.status = ClaimStatus(j2) /\ k2.started = k.started
        /\ k2.allocation = k.allocation /\ k2.repositories = k.repositories
    BY <1>1, <1>4, <1>5, AppendMoves
<1>7. PICK w2 \in WorkerRecords, r \in Claims \cup {None} :
        /\ workers' = [workers EXCEPT ![c] = w2] /\ meta' = [meta EXCEPT !.runner = r]
        /\ w2.run = w.run /\ w2 = IF attached THEN JournalRow(w, k2, j2) ELSE w
        /\ attached => AttachAllowed(c, w, j2)
    BY <1>1, <1>6, AttachMoves
<1>8. /\ j2 = [j EXCEPT !.sequence = @ + 1, !.turn = "intent", !.marker = w.marker,
                        !.activity = "unknown", !.count = j.count + 1]
      /\ j2.count = j.count + 1 /\ j2.thread = j.thread /\ j2.runner = j.runner
      /\ j2.launched = j.launched /\ j2.marker = w.marker
    BY <1>0, <1>6 DEF JournalRecords, state
<1>9. k.status \in Held \ {"reserved"} /\ k.started
    <2>1. j.count # 0
        BY <1>0, <1>1, <1>3, Counted
    <2>2. k.started
        BY <1>3, <2>1 DEF CreationOf
    <2> QED
        BY <1>1, <1>3, <2>2 DEF ClaimOf
<1>10. Advances(k, j, w, k2, j2, w2)
    <2>1. k2.status \in Held \ {"reserved"}
        BY <1>6, ProjectedStatus
    <2> QED
        BY <1>6, <1>7, <1>8, <1>9, <2>1 DEF Advances
<1>11. LaunchMatched(w, j) \/ (w2 = w /\ x2 = x)
    <2>1. w.status = "starting" /\ (LaunchMatched(w, j2) => LaunchMatched(w, j))
        BY <1>1, <1>3, <1>8 DEF CallsOf, LaunchMatched
    <2> QED
        BY <1>7, <2>1 DEF AttachAllowed
<1>12. \/ x2 = x
       \/ x2 = [x EXCEPT !.permits = @ \cup {"continue"}] /\ w2 = JournalRow(w, k2, j2)
    BY <1>7
<1>13. Life(c, k2, j2, w2, x2, q2)
    <2> HIDE DEF x2
    <2> QED
        BY <1>0, <1>1, <1>2, <1>8, <1>10, <1>11, <1>12, LifeContinues
<1>14. q2 \in SUBSET CallKinds
    BY <1>0
<1> HIDE DEF x2, q2
<1>15. Becomes(c, k2, j2, w2, x2, q2, settlements[c], r)
    BY <1>0, <1>1, <1>2, <1>6, <1>7, <1>14, PutBack DEF Becomes, constantVars, Tables
<1>16. Guarded(c, w2, x2, q2) /\ PinnedTo(c, w2)
    BY <1>1, <1>7 DEF Guarded, PinnedTo
<1> QED
    BY <1>13, <1>15, <1>16, OwnStep

\* The shared half of a launch.
LEMMA LaunchSharedMoves ==
    ASSUME CoreInv, NEW c \in Claims, NEW attached \in BOOLEAN, LaunchShared(c, attached)
    PROVE  Moves(c)
<1> DEFINE k == claims[c]  j == journal[c]  w == workers[c]  x == world[c]  q == calls[c]
           q2 == calls[c] \ {"launch"}
           state == [j EXCEPT !.runner = "launch_intent", !.launched = TRUE,
                              !.activity = "unknown"]
           x2 == IF attached THEN [x EXCEPT !.permits = @ \cup {"launch"}] ELSE x
<1>0. /\ Tables /\ meta = [meta EXCEPT !.runner = meta.runner] /\ KernelTypeOK
      /\ Life(c, k, j, w, x, q)
      /\ k \in ClaimRecords /\ j \in JournalRecords /\ w \in WorkerRecords /\ x \in WorldRecords
      /\ q \in SUBSET CallKinds
    BY CoreTables, PutBack
<1>1. /\ "launch" \in q /\ Effects /\ k.status \in Held
      /\ j.runner = "reserved" /\ j.outcome = "confirmed" /\ j.turn \notin Inflight
      /\ w.status = "accepting"
      /\ Append(c, state, 0)
      /\ AttachJournal(c, attached)
      /\ UNCHANGED <<constantVars, quarantined, settlements, approvals, resources>>
      /\ calls' = [calls EXCEPT ![c] = q2]
    BY DEF LaunchShared, Leave, JournalOpen, JournalUnchanged, WorkChecks
<1>2. x2 \in WorldRecords /\ world' = [world EXCEPT ![c] = x2]
    <2>1. [x EXCEPT !.permits = @ \cup {"launch"}] \in WorldRecords
        BY <1>0 DEF WorldRecords, Permits
    <2>2. CASE attached
        BY <1>0, <2>1, <2>2 DEF LaunchShared, Grant, Tables
    <2>3. CASE ~attached
        BY <1>0, <2>3, PutBack DEF LaunchShared, Grant
    <2> QED
        BY <2>2, <2>3
<1>3. JournalOf(j) /\ CallsOf(k, j, w, q) /\ ClaimOf(c, k) /\ CreationOf(k, j, x) /\ RowOf(k, j, w, x)
    BY <1>0 DEF Life
<1>4. state \in JournalRecords
    BY <1>0 DEF JournalRecords, RunnerStates
<1>5. 0 \in Nat
    OBVIOUS
<1> HIDE DEF state
<1>6. PICK k2 \in ClaimRecords, j2 \in JournalRecords :
        /\ claims' = [claims EXCEPT ![c] = k2] /\ journal' = [journal EXCEPT ![c] = j2]
        /\ claims'[c] = k2 /\ journal'[c] = j2
        /\ j2 = [state EXCEPT !.count = j.count + 1]
        /\ k2.status = ClaimStatus(j2) /\ k2.started = k.started
        /\ k2.allocation = k.allocation /\ k2.repositories = k.repositories
    BY <1>1, <1>4, <1>5, AppendMoves
<1>7. PICK w2 \in WorkerRecords, r \in Claims \cup {None} :
        /\ workers' = [workers EXCEPT ![c] = w2] /\ meta' = [meta EXCEPT !.runner = r]
        /\ w2.run = w.run /\ w2 = IF attached THEN JournalRow(w, k2, j2) ELSE w
        /\ attached => AttachAllowed(c, w, j2)
    <2>1. AttachJournal(c, attached) /\ claims'[c] \in ClaimRecords /\ journal'[c] \in JournalRecords
        BY <1>1, <1>6
    <2> QED
        BY <1>6, <2>1, AttachMoves
<1>8. /\ j2 = [j EXCEPT !.runner = "launch_intent", !.launched = TRUE,
                        !.activity = "unknown", !.count = j.count + 1]
      /\ j2.count = j.count + 1 /\ j2.thread = j.thread /\ j2.runner = "launch_intent"
      /\ j2.launched /\ j2.marker = j.marker
    BY <1>0, <1>6 DEF JournalRecords, state
<1>9. k.status \in Held \ {"reserved"} /\ k.started
    <2>1. j.count # 0
        BY <1>0, <1>1, <1>3, Counted
    <2>2. k.started
        BY <1>3, <2>1 DEF CreationOf
    <2> QED
        BY <1>1, <1>3, <2>2 DEF ClaimOf
<1>10. Advances(k, j, w, k2, j2, w2)
    <2>1. k2.status \in Held \ {"reserved"}
        BY <1>6, ProjectedStatus
    <2> QED
        BY <1>1, <1>6, <1>7, <1>8, <1>9, <2>1 DEF Advances
<1>11. TurnMatched(w, j) \/ (w2 = w /\ x2 = x)
    <2>1. LaunchMatched(w, j2) /\ (TurnMatched(w, j2) => TurnMatched(w, j))
        BY <1>8 DEF TurnMatched, LaunchMatched
    <2> QED
        BY <1>1, <1>7, <2>1 DEF AttachAllowed
<1>12. \/ x2 = x
       \/ x2 = [x EXCEPT !.permits = @ \cup {"launch"}] /\ w2 = JournalRow(w, k2, j2)
    BY <1>7
<1>13. Life(c, k2, j2, w2, x2, q2)
    <2>1. j2 = [j EXCEPT !.runner = "launch_intent", !.launched = TRUE,
                         !.activity = "unknown", !.count = j.count + 1]
        BY <1>8
    <2> HIDE DEF k, j, w, x, q, x2
    <2> QED
        BY <1>0, <1>1, <1>2, <1>10, <1>11, <1>12, <2>1, LifeLaunches DEF q2, q
<1>14. q2 \in SUBSET CallKinds
    BY <1>0
<1> HIDE DEF x2, q2
<1>15. Becomes(c, k2, j2, w2, x2, q2, settlements[c], r)
    BY <1>0, <1>1, <1>2, <1>6, <1>7, <1>14, PutBack DEF Becomes, constantVars, Tables
<1>16. Guarded(c, w2, x2, q2) /\ PinnedTo(c, w2)
    BY <1>1, <1>7 DEF Guarded, PinnedTo
<1> QED
    BY <1>13, <1>15, <1>16, OwnStep

-------------------------------------------------------------------------------
(* The two ends of a claim, and the environment. *)

\* The row of a settlement receipt.
LEMMA SettledRowFields ==
    ASSUME NEW w \in WorkerRecords, NEW k \in ClaimRecords, NEW j \in JournalRecords
    PROVE  /\ SettledRow(w, k, j) \in WorkerRecords
           /\ SettledRow(w, k, j).status = "settled" /\ SettledRow(w, k, j).run = w.run
           /\ SettledRow(w, k, j).runner = w.runner /\ SettledRow(w, k, j).attached = w.attached
<1> DEFINE v == Version(k, j)
<1>1. v \in 0 .. MaxJournal + 3
    BY VersionShape
<1> HIDE DEF v
<1>2. [w EXCEPT !.status = "settled", !.stage = "settled", !.seen = v] \in WorkerRecords
    BY <1>1 DEF WorkerRecords
<1> QED
    BY <1>2 DEF SettledRow, v, WorkerRecords

\* Sealing a claim that is at rest, with or without the local receipt.
LEMMA CommitMoves ==
    ASSUME CoreInv, NEW c \in Claims, NEW attached \in BOOLEAN, NEW actual \in Nat,
           Commit(c, actual), AttachSettlement(c, attached),
           UNCHANGED <<constantVars, quarantined, journal, meta, approvals, calls, world>>,
           claims[c].status \in Held, workers[c].status \notin {"reserved", "settled"},
           AtRest(world[c]), NoUnmatchedIntent(c)
    PROVE  Moves(c)
<1> DEFINE k == claims[c]  j == journal[c]  w == workers[c]  x == world[c]  q == calls[c]
           k2 == [k EXCEPT !.status = "settled", !.actual = actual]
<1>0. /\ Tables /\ meta = [meta EXCEPT !.runner = meta.runner]
      /\ Life(c, k, j, w, x, q) /\ RowMoves(w, w)
      /\ k \in ClaimRecords /\ j \in JournalRecords /\ w \in WorkerRecords /\ x \in WorldRecords
      /\ q \in SUBSET CallKinds
    BY CoreTables, PutBack
<1>1. claims' = [claims EXCEPT ![c] = k2] /\ resources' \subseteq resources
      /\ settlements' = [settlements EXCEPT ![c] = w]
    BY <1>0 DEF Commit, Tables
<1>2. /\ k2 \in ClaimRecords /\ k2.status = "settled" /\ k2.started = k.started
      /\ k2.allocation = k.allocation /\ k2.repositories = k.repositories
    BY <1>0 DEF ClaimRecords
<1>3. claims'[c] = k2
    BY <1>0, <1>1 DEF Tables
<1> HIDE DEF k2
<1>4. PICK w2 \in WorkerRecords :
        /\ workers' = [workers EXCEPT ![c] = w2] /\ w2 \in {w, SettledRow(w, k2, j)}
        /\ w2.run = w.run /\ RowMoves(w, w2)
    <2>1. CASE ~attached
        BY <1>0, <2>1, PutBack DEF AttachSettlement
    <2>2. CASE attached
        <3>1. workers' = [workers EXCEPT ![c] = SettledRow(w, k2, j)]
            BY <1>3, <2>2 DEF AttachSettlement
        <3>2. /\ SettledRow(w, k2, j) \in WorkerRecords
              /\ SettledRow(w, k2, j).status = "settled" /\ SettledRow(w, k2, j).run = w.run
              /\ SettledRow(w, k2, j).attached = w.attached
            BY <1>0, <1>2, SettledRowFields
        <3>3. w.attached <= w.attached
            BY <1>0 DEF WorkerRecords
        <3>4. RowMoves(w, SettledRow(w, k2, j))
            BY <3>2, <3>3 DEF RowMoves
        <3> QED
            BY <3>1, <3>2, <3>4
    <2> QED
        BY <2>1, <2>2
<1>5. Life(c, k2, j, w2, x, q)
    <2>1. LaunchMatched(w, j) /\ TurnMatched(w, j) /\ AtRest(x) /\ k.status \in Held
          /\ w.status # "reserved"
        BY DEF NoUnmatchedIntent
    <2> HIDE DEF k, j, w, x, q
    <2> QED
        BY <1>0, <1>2, <1>4, <2>1, LifeSettles
<1>6. journal' = [journal EXCEPT ![c] = j] /\ world' = [world EXCEPT ![c] = x]
      /\ calls' = [calls EXCEPT ![c] = q] /\ meta' = [meta EXCEPT !.runner = meta.runner]
    BY <1>0, PutBack
<1>7. Becomes(c, k2, j, w2, x, q, w, meta.runner)
    <2>1. w \in WorkerRecords \cup {None} /\ meta.runner \in Claims \cup {None}
        BY <1>0 DEF Tables
    <2>2. resources' \subseteq [key : Keys, claim : Claims]
        BY <1>0, <1>1 DEF Tables
    <2>3. UNCHANGED <<allocations, account, approvals, quarantined>>
        BY DEF constantVars
    <2> HIDE DEF k, j, w, x, q
    <2> QED
        BY <1>0, <1>1, <1>2, <1>4, <1>6, <2>1, <2>2, <2>3 DEF Becomes
<1>8. Guarded(c, w2, x, q) /\ PinnedTo(c, w2)
    BY <1>4 DEF Guarded, PinnedTo
<1> QED
    BY <1>5, <1>7, <1>8, OwnStep

\* A terminal settlement.
LEMMA SettleTerminalMoves ==
    ASSUME CoreInv, Holdings, NEW c \in Claims, NEW attached \in BOOLEAN, NEW actual \in Totals,
           SettleTerminal(c, actual, attached)
    PROVE  Moves(c)
<1>1. Life(c, claims[c], journal[c], workers[c], world[c], calls[c])
    BY CoreTables
<1>2. ~Owns(journal[c].runner)
    BY DEF Holdings, SettleTerminal, MaintenanceOpen
<1>3. AtRest(world[c])
    BY <1>1, <1>2, PutBack, TerminalAtRest DEF SettleTerminal
<1>4. actual \in Nat
    BY NumberAssumption
<1> QED
    BY <1>3, <1>4, CommitMoves DEF SettleTerminal, JournalOpen

\* The settlement of a creation that made no task.
LEMMA SettleNotCreatedMoves ==
    ASSUME CoreInv, NEW c \in Claims, NEW attached \in BOOLEAN, SettleNotCreated(c, attached)
    PROVE  Moves(c)
<1>1. /\ Life(c, claims[c], journal[c], workers[c], world[c], calls[c])
      /\ claims[c] \in ClaimRecords /\ journal[c] \in JournalRecords
      /\ workers[c] \in WorkerRecords /\ world[c] \in WorldRecords
    BY CoreTables, PutBack
<1>2. AtRest(world[c])
    BY <1>1, PutBack, NotCreatedAtRest DEF SettleNotCreated
<1>3. workers[c].status = "starting"
    <2>1. CASE journal[c].count > 0
        <3>1. claims[c].started
            BY <1>1, <2>1 DEF Life, CreationOf, JournalRecords
        <3> QED
            BY <1>1, <3>1 DEF Life, RowOf, SettleNotCreated
    <2>2. CASE ~(journal[c].count > 0)
        BY <2>2 DEF SettleNotCreated
    <2> QED
        BY <2>1, <2>2
<1>4. NoUnmatchedIntent(c)
    BY DEF SettleNotCreated, NoUnmatchedIntent, LaunchMatched, TurnMatched
<1> QED
    BY <1>2, <1>3, <1>4, CommitMoves DEF SettleNotCreated

\* The receipt of a settlement is recovered.
LEMMA RecoverSettlementMoves ==
    ASSUME CoreInv, Holdings, NEW c \in Claims, RecoverSettlement(c)
    PROVE  Moves(c)
<1> DEFINE k == claims[c]  j == journal[c]  w == workers[c]  x == world[c]  q == calls[c]
           w2 == SettledRow(w, k, j)
<1>0. /\ Tables /\ meta = [meta EXCEPT !.runner = meta.runner]
      /\ Life(c, k, j, w, x, q)
      /\ k \in ClaimRecords /\ j \in JournalRecords /\ w \in WorkerRecords /\ x \in WorldRecords
      /\ q \in SUBSET CallKinds
    BY CoreTables, PutBack
<1>1. /\ k.status = "settled"
      /\ UNCHANGED <<kernelVars, journal, settlements, meta, approvals, calls, world>>
      /\ workers' = [workers EXCEPT ![c] = w2]
    BY <1>0 DEF RecoverSettlement, CanRecoverSettlement, Holdings, Tables
<1>2. /\ w2 \in WorkerRecords /\ w2.status = "settled" /\ w2.run = w.run
      /\ w2.attached = w.attached
    BY <1>0, SettledRowFields
<1>3. Life(c, k, j, w2, x, q)
    BY <1>0, <1>1, LifeCloses
<1>4. RowMoves(w, w2)
    <2>1. w.attached <= w.attached
        BY <1>0 DEF WorkerRecords
    <2> HIDE DEF w2
    <2>2. w.status # "settled" \/ Binding(w2) = Binding(w)
        BY DEF Binding, WorkerRecords, SettledRow, w2
    <2> QED
        BY <1>2, <2>1, <2>2 DEF RowMoves
<1> HIDE DEF w2
<1>5. Becomes(c, k, j, w2, x, q, settlements[c], meta.runner)
    BY <1>0, <1>1, <1>2, PutBack DEF Becomes, kernelVars, Tables
<1>6. Guarded(c, w2, x, q) /\ PinnedTo(c, w2)
    BY <1>2, <1>4 DEF Guarded, PinnedTo
<1> QED
    BY <1>3, <1>5, <1>6, OwnStep

\* What the platform does keeps the shape of the table.
LEMMA HappensShape ==
    ASSUME NEW x \in WorldRecords, NEW x2, Happens(x, x2)
    PROVE  x2 \in WorldRecords
<1> DEFINE p(s) == x.permits \ {s}
           m == x.creations + 1  n == x.turns + 1  l == x.launches + 1
<1>1. m \in Nat /\ n \in Nat /\ l \in Nat /\ \A s : p(s) \in SUBSET Permits
    BY DEF WorldRecords
<1> HIDE DEF p, m, n, l
<1>2. [x EXCEPT !.permits = p("create"), !.task = "requested", !.creations = m] \in WorldRecords
    BY <1>1 DEF WorldRecords
<1>3. [x EXCEPT !.permits = p("continue"), !.task = "running", !.turns = n] \in WorldRecords
    BY <1>1 DEF WorldRecords
<1>4. [x EXCEPT !.permits = p("launch"), !.process = "alive", !.launches = l] \in WorldRecords
    BY <1>1 DEF WorldRecords
<1>5. /\ \A t \in {"running", "failed", "idle"} : [x EXCEPT !.task = t] \in WorldRecords
      /\ [x EXCEPT !.process = "exited"] \in WorldRecords
      /\ \A s : [x EXCEPT !.permits = p(s)] \in WorldRecords
    BY <1>1 DEF WorldRecords
<1> QED
    BY <1>2, <1>3, <1>4, <1>5 DEF Happens, p, m, n, l

\* The environment, and the death of a coordinator.
LEMMA NativeStepMoves ==
    ASSUME CoreInv, NEW c \in Claims, NativeStep(c)
    PROVE  Moves(c)
<1> DEFINE k == claims[c]  j == journal[c]  w == workers[c]  x == world[c]  q == calls[c]
<1>0. /\ Tables /\ meta = [meta EXCEPT !.runner = meta.runner]
      /\ Life(c, k, j, w, x, q) /\ RowMoves(w, w)
      /\ k \in ClaimRecords /\ j \in JournalRecords /\ w \in WorkerRecords /\ x \in WorldRecords
      /\ q \in SUBSET CallKinds
    BY CoreTables, PutBack
<1>1. CASE Abandon(c)
    <2>1. PICK y \in q : calls' = [calls EXCEPT ![c] = q \ {y}]
        BY <1>1 DEF Abandon
    <2>2. UNCHANGED <<kernelVars, journal, settlements, meta, workers, approvals, world>>
        BY <1>1 DEF Abandon, ledgerVars
    <2> DEFINE q2 == q \ {y}
    <2>3. q2 \subseteq q /\ q2 \in SUBSET CallKinds
        BY <1>0
    <2>4. Life(c, k, j, w, x, q2)
        BY <1>0, LifeCalls
    <2> HIDE DEF q2
    <2>5. Becomes(c, k, j, w, x, q2, settlements[c], meta.runner)
        BY <1>0, <2>1, <2>2, <2>3, PutBack DEF Becomes, kernelVars, Tables, q2
    <2>6. Guarded(c, w, x, q2) /\ PinnedTo(c, w)
        BY <1>0, <2>3 DEF Guarded, PinnedTo
    <2> QED
        BY <2>4, <2>5, <2>6, OwnStep
<1>2. CASE \E x2 : Happens(x, x2) /\ Native(c, x2)
    <2>1. PICK x2 : Happens(x, x2) /\ Native(c, x2)
        BY <1>2
    <2>2. x2 \in WorldRecords
        BY <1>0, <2>1, HappensShape
    <2>3. Life(c, k, j, w, x2, q)
        BY <1>0, <2>1, LifeHappens
    <2>4. Becomes(c, k, j, w, x2, q, settlements[c], meta.runner)
        BY <1>0, <2>1, <2>2, PutBack DEF Native, ledgerVars, Becomes, kernelVars, Tables
    <2>5. Guarded(c, w, x2, q) /\ PinnedTo(c, w)
        BY <2>1 DEF Guarded, PinnedTo
    <2> QED
        BY <2>3, <2>4, <2>5, OwnStep
<1>3. ASSUME ~Abandon(c)
      PROVE  \E x2 : Happens(x, x2) /\ Native(c, x2)
    BY <1>3 DEF NativeStep, SendCreation, CreationEnds, SendTurn, TurnEnds, SendLaunch,
                ProcessExits, LosePermit, Happens
<1> QED
    BY <1>1, <1>2, <1>3

-------------------------------------------------------------------------------
(* Every step of a worker, and what it does to the shared keys and the slot. *)

TaskStep(c) ==
    \/ AdmissionStep(c)
    \/ NativeLifecycleStep(c)
    \/ RunnerStep(c)
    \/ SettlementStep(c)
    \/ NativeStep(c)

\* A step of a worker changes its own rows, in the way its life allows.
LEMMA TaskStepMoves ==
    ASSUME CoreInv, Holdings, NEW c \in Claims, TaskStep(c)
    PROVE  Moves(c)
<1>1. CASE AdmissionStep(c)
    BY <1>1, ReserveIntentMoves, ReserveSharedMoves, BeginIntentMoves, BeginSharedMoves,
       RecoverAdmissionMoves DEF AdmissionStep
<1>2. CASE NativeLifecycleStep(c)
    BY <1>2, ObserveMoves, ContinueIntentMoves, ContinueSharedMoves, DeliveryMoves,
       RecoverNativeMoves DEF NativeLifecycleStep
<1>3. CASE RunnerStep(c)
    BY <1>3, LaunchIntentMoves, AcquireMoves, LaunchSharedMoves, ObserveProcessMoves,
       ReleaseMoves DEF RunnerStep
<1>4. CASE SettlementStep(c)
    BY <1>4, SettleTerminalMoves, SettleNotCreatedMoves, RecoverSettlementMoves
       DEF SettlementStep
<1>5. CASE NativeStep(c)
    BY <1>5, NativeStepMoves
<1> QED
    BY <1>1, <1>2, <1>3, <1>4, <1>5 DEF TaskStep

\* The local runner slot follows the row of the worker that moves.
SlotMoves(c) ==
    \/ workers'[c].runner = workers[c].runner /\ meta'.runner = meta.runner
    \/ Owns(workers'[c].runner) /\ meta'.runner = c /\ meta.runner \in {None, c}
    \/ ~Owns(workers'[c].runner) /\ meta'.runner \in {None, meta.runner} /\ meta.runner = c
    \/ ~Owns(workers'[c].runner) /\ meta'.runner = meta.runner

KeepsKeys(c) ==
    /\ UNCHANGED <<resources, settlements>>
    /\ Owns(journal'[c].runner) <=> Owns(journal[c].runner)
    /\ claims'[c].status \in Held => claims[c].status \in Held
    /\ claims[c].status = "settled" => claims'[c].status = "settled"

ReservesKeys(c) ==
    /\ ReserveIn(c, Phase, {TaskRepo[c]}, TaskEstimate, TRUE)
    /\ UNCHANGED <<journal, settlements>>

TakesRunner(c) ==
    /\ \E y \in RunnerKeys : ~Owned(y) /\ resources' = resources \cup {[key |-> y, claim |-> c]}
    /\ Owns(journal'[c].runner)
    /\ UNCHANGED settlements
    /\ claims[c].status \in Held

ReturnsRunner(c) ==
    /\ resources' = {r \in resources : r.key \notin RunnerKeysOwned(c)}
    /\ ~Owns(journal'[c].runner)
    /\ UNCHANGED settlements
    /\ claims[c].status \in Held

ReturnsAll(c) ==
    /\ resources' = {r \in resources : r.claim # c}
    /\ claims'[c].status = "settled"
    /\ UNCHANGED journal
    /\ settlements' = [settlements EXCEPT ![c] = workers[c]]
    /\ RunnerKeysOwned(c) = {}

KeyMoves(c) ==
    KeepsKeys(c) \/ ReservesKeys(c) \/ TakesRunner(c) \/ ReturnsRunner(c) \/ ReturnsAll(c)

\* Attaching a record moves the slot with the row, or leaves both.
LEMMA AttachSlot ==
    ASSUME CoreInv, NEW c \in Claims, NEW attached \in BOOLEAN, AttachJournal(c, attached),
           Moves(c)
    PROVE  SlotMoves(c)
<1> DEFINE w == workers[c]  j2 == journal'[c]  k2 == claims'[c]
<1>0. /\ w \in WorkerRecords /\ j2 \in JournalRecords /\ k2 \in ClaimRecords
      /\ workers \in [Claims -> WorkerRecords] /\ meta \in MetaRecords
    BY PutBack, CoreTables DEF Moves, Tables
<1>1. CASE ~attached
    BY <1>1 DEF AttachJournal, SlotMoves
<1>2. CASE attached
    <2>1. /\ workers'[c] = JournalRow(w, k2, j2) /\ meta'.runner = RunnerSlot(c, w, j2)
          /\ AttachAllowed(c, w, j2)
        BY <1>0, <1>2 DEF AttachJournal, MetaRecords
    <2>2. CASE ~LaunchMatched(w, j2) \/ ~TurnMatched(w, j2)
        BY <2>1, <2>2 DEF JournalRow, RunnerSlot, SlotMoves
    <2>3. CASE LaunchMatched(w, j2) /\ TurnMatched(w, j2)
        <3>1. workers'[c].runner = j2.runner
            BY <1>0, <2>1, <2>3, JournalRowFields
        <3> QED
            BY <2>1, <2>3, <3>1 DEF RunnerSlot, AttachAllowed, SlotMoves
    <2> QED
        BY <2>2, <2>3
<1> QED
    BY <1>1, <1>2

\* What a step of the admission bridge does to keys and slot.
LEMMA AdmissionKeys ==
    ASSUME CoreInv, NEW c \in Claims, Moves(c), AdmissionStep(c)
    PROVE  KeyMoves(c) /\ SlotMoves(c)
<1>0. Tables /\ workers[c] \in WorkerRecords /\ claims[c] \in ClaimRecords
    BY CoreTables, PutBack
<1>1. ~Owns("none")
    BY DEF Owns
<1>2. CASE ReserveIntent(c)
    <2>1. KeepsKeys(c) /\ UNCHANGED meta
        BY <1>2 DEF ReserveIntent, KeepsKeys, kernelVars
    <2>2. workers'[c].runner = workers[c].runner \/ workers'[c].runner = "none"
        BY <1>0, <1>2 DEF ReserveIntent, Tables, NoWorker
    <2> QED
        BY <1>1, <2>1, <2>2 DEF KeyMoves, SlotMoves
<1>3. CASE BeginIntent(c)
    <2>1. KeepsKeys(c) /\ UNCHANGED meta
        BY <1>3 DEF BeginIntent, KeepsKeys, kernelVars
    <2>2. workers'[c].runner = workers[c].runner
        BY <1>0, <1>3 DEF BeginIntent, Tables, WorkerRecords
    <2> QED
        BY <2>1, <2>2 DEF KeyMoves, SlotMoves
<1>4. ASSUME NEW k \in ClaimRecords PROVE AdmissionRow(workers[c], k).runner = workers[c].runner
    BY <1>0 DEF AdmissionRow, WorkerRecords
<1>5. ASSUME NEW attached \in BOOLEAN, AttachAdmission(c, attached), UNCHANGED meta
      PROVE  SlotMoves(c)
    <2>1. claims'[c] \in ClaimRecords
        BY DEF Moves, Tables
    <2>2. workers'[c].runner = workers[c].runner
        BY <1>0, <1>4, <1>5, <2>1 DEF AttachAdmission, Tables
    <2> QED
        BY <1>5, <2>2 DEF SlotMoves
<1>6. ASSUME NEW attached \in BOOLEAN, ReserveShared(c, attached)
      PROVE  KeyMoves(c) /\ SlotMoves(c)
    <2>1. SlotMoves(c)
        BY <1>5, <1>6 DEF ReserveShared
    <2>2. CASE UNCHANGED kernelVars
        BY <1>6, <2>1, <2>2 DEF ReserveShared, KeyMoves, KeepsKeys, kernelVars
    <2>3. CASE ReserveIn(c, Phase, {TaskRepo[c]}, TaskEstimate, TRUE)
        BY <1>6, <2>1, <2>3 DEF ReserveShared, KeyMoves, ReservesKeys
    <2> QED
        BY <1>6, <2>1, <2>2, <2>3 DEF ReserveShared
<1>7. ASSUME NEW attached \in BOOLEAN, BeginShared(c, attached)
      PROVE  KeyMoves(c) /\ SlotMoves(c)
    <2>1. SlotMoves(c)
        BY <1>5, <1>7 DEF BeginShared
    <2>2. /\ claims[c].status = "reserved" /\ UNCHANGED <<resources, journal, settlements>>
        BY <1>7 DEF BeginShared, BeginIn
    <2> QED
        BY <2>1, <2>2 DEF KeyMoves, KeepsKeys, Held
<1>8. CASE RecoverAdmission(c)
    <2>1. KeepsKeys(c) /\ UNCHANGED meta
        BY <1>8 DEF RecoverAdmission, KeepsKeys, kernelVars
    <2>2. workers'[c].runner = workers[c].runner
        BY <1>0, <1>4, <1>8 DEF RecoverAdmission, Tables
    <2> QED
        BY <2>1, <2>2 DEF KeyMoves, SlotMoves
<1> QED
    BY <1>2, <1>3, <1>6, <1>7, <1>8 DEF AdmissionStep

\* What a step of the native lifecycle does to keys and slot.
LEMMA LifecycleKeys ==
    ASSUME CoreInv, NEW c \in Claims, Moves(c), NativeLifecycleStep(c)
    PROVE  KeyMoves(c) /\ SlotMoves(c)
<1>0. Tables /\ workers[c] \in WorkerRecords /\ journal[c] \in JournalRecords
    BY CoreTables, PutBack
<1>1. ASSUME NEW attached \in BOOLEAN,
             NEW outcome \in {"pending", "uncertain", "confirmed"}, NEW thread \in BOOLEAN,
             NEW activity \in {"unknown", "running", "idle"},
             Observe(c, outcome, thread, activity, attached)
      PROVE  KeyMoves(c) /\ SlotMoves(c)
    <2>1. SlotMoves(c)
        BY <1>1, AttachSlot DEF Observe
    <2>2. /\ claims[c].status # "settled" /\ claims[c].status \in Held
          /\ journal'[c].runner = journal[c].runner
        BY <1>0, <1>1 DEF Observe, Append, JournalOpen, Held, Tables, JournalRecords
    <2> QED
        BY <1>1, <2>1, <2>2 DEF Observe, JournalUnchanged, KeyMoves, KeepsKeys
<1>2. ASSUME NEW attached \in BOOLEAN, ContinueShared(c, attached)
      PROVE  KeyMoves(c) /\ SlotMoves(c)
    <2>1. SlotMoves(c)
        BY <1>2, AttachSlot DEF ContinueShared
    <2>2. /\ claims[c].status # "settled" /\ claims[c].status \in Held
          /\ journal'[c].runner = journal[c].runner
        BY <1>0, <1>2 DEF ContinueShared, Append, JournalOpen, Held, Tables, JournalRecords
    <2> QED
        BY <1>2, <2>1, <2>2 DEF ContinueShared, JournalUnchanged, KeyMoves, KeepsKeys
<1>3. ASSUME NEW attached \in BOOLEAN,
             NEW outcome \in {"acknowledged", "uncertain", "finished"}, NEW progress \in BOOLEAN,
             Delivery(c, outcome, progress, attached)
      PROVE  KeyMoves(c) /\ SlotMoves(c)
    <2>1. SlotMoves(c)
        BY <1>3, AttachSlot DEF Delivery
    <2>2. /\ claims[c].status # "settled" /\ claims[c].status \in Held
          /\ journal'[c].runner = journal[c].runner
        BY <1>0, <1>3 DEF Delivery, Append, JournalOpen, Held, Tables, JournalRecords
    <2> QED
        BY <1>3, <2>1, <2>2 DEF Delivery, JournalUnchanged, KeyMoves, KeepsKeys
<1>4. CASE ContinueIntent(c)
    <2>1. KeepsKeys(c) /\ UNCHANGED meta
        BY <1>4 DEF ContinueIntent, KeepsKeys, kernelVars
    <2>2. workers'[c].runner = workers[c].runner
        BY <1>0, <1>4 DEF ContinueIntent, Tables, WorkerRecords
    <2> QED
        BY <2>1, <2>2 DEF KeyMoves, SlotMoves
<1>5. CASE RecoverNative(c)
    <2>1. SlotMoves(c)
        BY <1>5, AttachSlot DEF RecoverNative
    <2> QED
        BY <1>5, <2>1 DEF RecoverNative, JournalUnchanged, KeyMoves, KeepsKeys
<1> QED
    BY <1>1, <1>2, <1>3, <1>4, <1>5 DEF NativeLifecycleStep

\* What a step of the acceptance runner does to keys and slot.
LEMMA RunnerKeysMove ==
    ASSUME CoreInv, NEW c \in Claims, Moves(c), RunnerStep(c)
    PROVE  KeyMoves(c) /\ SlotMoves(c)
<1>0. Tables /\ workers[c] \in WorkerRecords /\ journal[c] \in JournalRecords
    BY CoreTables, PutBack
<1>1. CASE LaunchIntent(c)
    <2>1. KeepsKeys(c) /\ UNCHANGED meta
        BY <1>1 DEF LaunchIntent, KeepsKeys, kernelVars
    <2>2. workers'[c].runner = workers[c].runner
        BY <1>0, <1>1 DEF LaunchIntent, Tables, WorkerRecords
    <2> QED
        BY <2>1, <2>2 DEF KeyMoves, SlotMoves
<1>2. ASSUME NEW attached \in BOOLEAN, NEW y \in RunnerKeys, Acquire(c, y, attached)
      PROVE  KeyMoves(c) /\ SlotMoves(c)
    <2>1. SlotMoves(c)
        BY <1>2, AttachSlot DEF Acquire
    <2>2. claims[c].status \in Held /\ journal'[c].runner = "reserved"
        BY <1>0, <1>2 DEF Acquire, Append, JournalOpen, Held, Tables, JournalRecords
    <2>3. TakesRunner(c)
        BY <1>2, <2>2 DEF Acquire, JournalUnchanged, TakesRunner, Owns
    <2> QED
        BY <2>1, <2>3 DEF KeyMoves
<1>3. ASSUME NEW attached \in BOOLEAN, LaunchShared(c, attached)
      PROVE  KeyMoves(c) /\ SlotMoves(c)
    <2>1. SlotMoves(c)
        BY <1>3, AttachSlot DEF LaunchShared
    <2>2. /\ claims[c].status # "settled" /\ claims[c].status \in Held
          /\ journal'[c].runner = "launch_intent" /\ journal[c].runner = "reserved"
        BY <1>0, <1>3 DEF LaunchShared, Append, JournalOpen, Held, Tables, JournalRecords
    <2> QED
        BY <1>3, <2>1, <2>2 DEF LaunchShared, JournalUnchanged, KeyMoves, KeepsKeys, Owns
<1>4. ASSUME NEW attached \in BOOLEAN, NEW outcome \in {"uncertain", "running", "exited"},
             ObserveProcess(c, outcome, attached)
      PROVE  KeyMoves(c) /\ SlotMoves(c)
    <2>1. SlotMoves(c)
        BY <1>4, AttachSlot DEF ObserveProcess
    <2>2. /\ claims[c].status # "settled" /\ claims[c].status \in Held
          /\ journal'[c].runner = outcome
          /\ journal[c].runner \in {"launch_intent", "uncertain", "running"}
        BY <1>0, <1>4 DEF ObserveProcess, Append, JournalOpen, Held, Tables, JournalRecords
    <2> QED
        BY <1>4, <2>1, <2>2 DEF ObserveProcess, JournalUnchanged, KeyMoves, KeepsKeys, Owns
<1>5. ASSUME NEW attached \in BOOLEAN, Release(c, attached)
      PROVE  KeyMoves(c) /\ SlotMoves(c)
    <2>1. SlotMoves(c)
        BY <1>5, AttachSlot DEF Release
    <2>2. claims[c].status \in Held /\ journal'[c].runner = "released"
        BY <1>0, <1>5 DEF Release, Append, JournalOpen, Held, Tables, JournalRecords
    <2>3. ReturnsRunner(c)
        BY <1>5, <2>2 DEF Release, JournalUnchanged, ReturnsRunner, Owns
    <2> QED
        BY <2>1, <2>3 DEF KeyMoves
<1> QED
    BY <1>1, <1>2, <1>3, <1>4, <1>5 DEF RunnerStep

\* What a settlement, or its recovery, does to keys and slot.
LEMMA SettlementKeys ==
    ASSUME CoreInv, NEW c \in Claims, Moves(c), SettlementStep(c)
    PROVE  KeyMoves(c) /\ SlotMoves(c)
<1>0. Tables /\ workers[c] \in WorkerRecords /\ journal[c] \in JournalRecords
      /\ claims[c] \in ClaimRecords /\ claims'[c] \in ClaimRecords
    BY CoreTables, PutBack DEF Moves, Tables
<1>1. ASSUME NEW k \in ClaimRecords
      PROVE  SettledRow(workers[c], k, journal[c]).runner = workers[c].runner
    BY <1>0, SettledRowFields
<1>2. ASSUME NEW attached \in BOOLEAN, NEW actual, Commit(c, actual), RunnerKeysOwned(c) = {},
             AttachSettlement(c, attached), UNCHANGED <<journal, meta>>
      PROVE  KeyMoves(c) /\ SlotMoves(c)
    <2>1. workers'[c].runner = workers[c].runner
        BY <1>0, <1>1, <1>2 DEF AttachSettlement, Tables
    <2>2. claims'[c].status = "settled"
        BY <1>0, <1>2 DEF Commit, Tables, ClaimRecords
    <2>3. ReturnsAll(c)
        BY <1>2, <2>2 DEF Commit, ReturnsAll
    <2> QED
        BY <1>2, <2>1, <2>3 DEF KeyMoves, SlotMoves
<1>3. CASE RecoverSettlement(c)
    <2>1. KeepsKeys(c) /\ UNCHANGED meta
        BY <1>3 DEF RecoverSettlement, KeepsKeys, kernelVars
    <2>2. workers'[c].runner = workers[c].runner
        BY <1>0, <1>1, <1>3 DEF RecoverSettlement, Tables
    <2> QED
        BY <2>1, <2>2 DEF KeyMoves, SlotMoves
<1>4. ASSUME NEW attached \in BOOLEAN, NEW actual \in Totals, SettleTerminal(c, actual, attached)
      PROVE  KeyMoves(c) /\ SlotMoves(c)
    BY <1>2, <1>4 DEF SettleTerminal, MaintenanceOpen
<1>5. ASSUME NEW attached \in BOOLEAN, SettleNotCreated(c, attached)
      PROVE  KeyMoves(c) /\ SlotMoves(c)
    BY <1>2, <1>5 DEF SettleNotCreated, MaintenanceOpen
<1> QED
    BY <1>3, <1>4, <1>5 DEF SettlementStep

\* Every step of a worker moves keys and slot in one of these ways.
LEMMA TaskStepKeys ==
    ASSUME CoreInv, NEW c \in Claims, Moves(c), TaskStep(c)
    PROVE  KeyMoves(c) /\ SlotMoves(c)
<1>1. CASE NativeStep(c)
    <2>1. UNCHANGED <<claims, resources, journal, settlements, workers, meta>>
        BY <1>1 DEF NativeStep, SendCreation, CreationEnds, SendTurn, TurnEnds, SendLaunch,
                    ProcessExits, LosePermit, Abandon, Native, kernelVars, ledgerVars
    <2> QED
        BY <2>1 DEF KeyMoves, KeepsKeys, SlotMoves
<1> QED
    BY <1>1, AdmissionKeys, LifecycleKeys, RunnerKeysMove, SettlementKeys DEF TaskStep

\* Only the keys of the worker that moves change hands.
LEMMA OthersKeepKeys ==
    ASSUME ExclusiveOwnership, NEW c \in Claims, KeyMoves(c), NEW d \in Claims \ {c}
    PROVE  KeysOwned(d)' = KeysOwned(d)
<1>1. \A r : r.claim # c => (r \in resources' <=> r \in resources)
    <2>1. CASE KeepsKeys(c)
        BY <2>1 DEF KeepsKeys
    <2>2. CASE ReservesKeys(c)
        BY <2>2 DEF ReservesKeys, ReserveIn
    <2>3. CASE TakesRunner(c)
        BY <2>3 DEF TakesRunner
    <2>4. CASE ReturnsRunner(c)
        <3>1. \A r \in resources : r.claim # c => r.key \notin RunnerKeysOwned(c)
            BY DEF ExclusiveOwnership, RunnerKeysOwned, KeysOwned
        <3> QED
            BY <2>4, <3>1 DEF ReturnsRunner
    <2>5. CASE ReturnsAll(c)
        BY <2>5 DEF ReturnsAll
    <2> QED
        BY <2>1, <2>2, <2>3, <2>4, <2>5 DEF KeyMoves
<1>2. {r \in resources' : r.claim = d} = {r \in resources : r.claim = d}
    BY <1>1
<1> QED
    BY <1>2 DEF KeysOwned

\* No key gets a second owner.
LEMMA StepExclusively ==
    ASSUME ExclusiveOwnership, NEW c \in Claims, KeyMoves(c)
    PROVE  ExclusiveOwnership'
<1>1. CASE KeepsKeys(c)
    BY <1>1 DEF KeepsKeys, ExclusiveOwnership
<1>2. CASE ReservesKeys(c)
    <2>1. \A r \in resources' \ resources : r.claim = c /\ ~Owned(r.key)
        BY <1>2 DEF ReservesKeys, ReserveIn, CheckCapacity
    <2> QED
        BY <2>1 DEF ExclusiveOwnership, Owned
<1>3. CASE TakesRunner(c)
    <2>1. \A r \in resources' \ resources : r.claim = c /\ ~Owned(r.key)
        BY <1>3 DEF TakesRunner
    <2> QED
        BY <2>1 DEF ExclusiveOwnership, Owned
<1>4. CASE ReturnsRunner(c)
    BY <1>4 DEF ReturnsRunner, ExclusiveOwnership
<1>5. CASE ReturnsAll(c)
    BY <1>5 DEF ReturnsAll, ExclusiveOwnership
<1> QED
    BY <1>1, <1>2, <1>3, <1>4, <1>5 DEF KeyMoves

\* What the keys of one claim, its record and the slot say of one another.
Holding(c) ==
    /\ claims[c].status \in Held => ScopeKeys(Phase, {TaskRepo[c]}) \subseteq KeysOwned(c)
    /\ Owns(journal[c].runner) <=> RunnerKeysOwned(c) # {}
    /\ settlements[c] # None => claims[c].status = "settled"

\* The keys of the worker that moves stay the ones its claim accounts for.
LEMMA StepHolding ==
    ASSUME CoreInv, Holdings, NEW c \in Claims, Moves(c), KeyMoves(c)
    PROVE  Holding(c)'
<1>0. /\ Tables /\ KernelTypeOK /\ Holding(c) /\ UNCHANGED allocations
      /\ RepoKeys \cap RunnerKeys = {}
    BY CoreTables, NoneAssumption DEF Holdings, Holding, Moves
<1>1. ScopeKeys(Phase, {TaskRepo[c]})' = ScopeKeys(Phase, {TaskRepo[c]})
    BY <1>0 DEF ScopeKeys
<1>2. ScopeKeys(Phase, {TaskRepo[c]}) \subseteq RepoKeys
    <2>1. {TaskRepo[c]} \in SUBSET Repositories /\ Phase \in Allocations
        BY DispatchFacts
    <2> QED
        BY <1>0, <2>1, ScopeOfRepoKeys DEF Holdings
<1>3. CASE KeepsKeys(c)
    BY <1>0, <1>1, <1>3 DEF KeepsKeys, Holding, KeysOwned, RunnerKeysOwned
<1>4. CASE ReservesKeys(c)
    <2>1. KeysOwned(c)' = KeysOwned(c) \cup ScopeKeys(Phase, {TaskRepo[c]})
        <3>1. resources' = resources \cup
                {[key |-> k, claim |-> c] : k \in ScopeKeys(Phase, {TaskRepo[c]})}
            BY <1>4 DEF ReservesKeys, ReserveIn
        <3> QED
            BY <3>1, RowsAdded
    <2>2. RunnerKeysOwned(c)' = RunnerKeysOwned(c)
        BY <1>0, <1>2, <2>1 DEF RunnerKeysOwned
    <2>3. settlements'[c] = None
        BY <1>0, <1>4 DEF ReservesKeys, ReserveIn, Holding
    <2> QED
        BY <1>0, <1>1, <1>4, <2>1, <2>2, <2>3 DEF ReservesKeys, Holding
<1>5. CASE TakesRunner(c)
    <2>1. PICK y \in RunnerKeys : resources' = resources \cup {[key |-> y, claim |-> c]}
        BY <1>5 DEF TakesRunner
    <2>2. KeysOwned(c)' = KeysOwned(c) \cup {y}
        <3>1. resources' = resources \cup {[key |-> k, claim |-> c] : k \in {y}}
            BY <2>1
        <3> QED
            BY <3>1, RowsAdded
    <2>3. settlements'[c] = None
        BY <1>0, <1>5 DEF TakesRunner, Holding, Held
    <2> QED
        BY <1>0, <1>1, <1>5, <2>2, <2>3 DEF TakesRunner, Holding, RunnerKeysOwned
<1>6. CASE ReturnsRunner(c)
    <2>1. KeysOwned(c)' = KeysOwned(c) \ RunnerKeys
        BY <1>6 DEF ReturnsRunner, KeysOwned, RunnerKeysOwned
    <2>2. RunnerKeysOwned(c)' = {}
        BY <2>1 DEF RunnerKeysOwned
    <2>3. settlements'[c] = None
        BY <1>0, <1>6 DEF ReturnsRunner, Holding, Held
    <2>4. ScopeKeys(Phase, {TaskRepo[c]}) \subseteq KeysOwned(c)'
        BY <1>0, <1>2, <1>6, <2>1 DEF ReturnsRunner, Holding
    <2> QED
        BY <1>1, <1>6, <2>2, <2>3, <2>4 DEF ReturnsRunner, Holding
<1>7. CASE ReturnsAll(c)
    <2>1. KeysOwned(c)' = {}
        BY <1>7 DEF ReturnsAll, KeysOwned
    <2>2. RunnerKeysOwned(c)' = {} /\ ~Owns(journal'[c].runner)
        BY <1>0, <1>7, <2>1 DEF ReturnsAll, Holding, RunnerKeysOwned
    <2> QED
        BY <1>7, <2>2 DEF ReturnsAll, Holding, Held
<1> QED
    BY <1>3, <1>4, <1>5, <1>6, <1>7 DEF KeyMoves

\* Keys, settlements and slot keep agreeing with the claims.
LEMMA StepHoldings ==
    ASSUME CoreInv, Holdings, NEW c \in Claims, Moves(c), KeyMoves(c), SlotMoves(c)
    PROVE  Holdings'
<1>0. Tables /\ UNCHANGED allocations /\ \A d \in Claims \ {c} : Same(d)
    BY CoreTables DEF Moves
<1>1. ExclusiveOwnership'
    BY StepExclusively DEF Holdings
<1>2. ASSUME NEW d \in Claims PROVE Holding(d)'
    <2>1. CASE d = c
        BY <2>1, StepHolding
    <2>2. CASE d # c
        <3>1. Same(d) /\ Holding(d)
            BY <1>0, <2>2 DEF Holdings, Holding
        <3>2. KeysOwned(d)' = KeysOwned(d)
            BY <2>2, OthersKeepKeys DEF Holdings
        <3>3. settlements'[d] = settlements[d]
            BY <1>0, <2>2 DEF KeyMoves, KeepsKeys, ReservesKeys, TakesRunner, ReturnsRunner,
                              ReturnsAll, Tables
        <3> QED
            BY <1>0, <3>1, <3>2, <3>3 DEF Same, Holding, RunnerKeysOwned, ScopeKeys
    <2> QED
        BY <2>1, <2>2
<1>3. ASSUME NEW d \in Claims, Owns(workers'[d].runner) PROVE meta'.runner = d
    <2>1. \A e \in Claims : Owns(workers[e].runner) => meta.runner = e
        BY DEF Holdings
    <2>2. CASE d = c
        BY <1>3, <2>1, <2>2 DEF SlotMoves
    <2>3. CASE d # c
        <3>1. meta.runner = d
            BY <1>0, <1>3, <2>1, <2>3 DEF Same
        <3>2. d # None
            BY NoneAssumption
        <3> QED
            BY <2>3, <3>1, <3>2 DEF SlotMoves
    <2> QED
        BY <2>2, <2>3
<1>4. (allocations[Phase].spec # None)'
    BY <1>0 DEF Holdings
<1> QED
    BY <1>1, <1>2, <1>3, <1>4 DEF Holdings, Holding

-------------------------------------------------------------------------------
(* What the controls leave behind, and what a parked workspace is. *)

\* A step of a worker leaves the controls alone, but for the slot.
LEMMA MetaKept ==
    ASSUME CoreInv, NEW c \in Claims, Moves(c)
    PROVE  /\ meta' \in MetaRecords
           /\ meta'.paused = meta.paused /\ meta'.phase = meta.phase
           /\ meta'.command = meta.command /\ meta'.evidence = meta.evidence
           /\ meta'.resumeQueued = meta.resumeQueued /\ meta'.run = meta.run
           /\ Stopped' = Stopped
<1> DEFINE r == meta'.runner
<1>1. meta \in MetaRecords /\ meta' = [meta EXCEPT !.runner = r] /\ r \in Claims \cup {None}
    BY CoreTables DEF Moves, Tables
<1> HIDE DEF r
<1> QED
    BY <1>1 DEF MetaRecords, Stopped

\* A step of a worker keeps the shape of every table.
LEMMA TaskStepTypeOK ==
    ASSUME CoreInv, NEW c \in Claims, Moves(c)
    PROVE  DispatchTypeOK'
<1>1. Tables' /\ UNCHANGED <<allocations, account, approvals, quarantined>>
    BY DEF Moves
<1>2. meta' \in MetaRecords
    BY MetaKept
<1>3. DispatchTypeOK
    BY DEF CoreInv
<1> QED
    BY <1>1, <1>2, <1>3 DEF DispatchTypeOK, KernelTypeOK, Tables

\* A step of a worker keeps every life.
LEMMA TaskStepLives ==
    ASSUME CoreInv, NEW c \in Claims, Moves(c)
    PROVE  Lives'
<1>1. ASSUME NEW d \in Claims
      PROVE  Life(d, claims'[d], journal'[d], workers'[d], world'[d], calls'[d])
    <2>1. CASE d = c
        BY <2>1 DEF Moves
    <2>2. CASE d # c
        BY <2>2 DEF Moves, Same, CoreInv, Lives
    <2> QED
        BY <2>1, <2>2
<1> QED
    BY <1>1 DEF Lives, Life, ClaimOf, JournalOf, CreationOf, TurnsOf, LaunchOf, RowOf, CallsOf

\* A step of a worker leaves the controls as the stops and resumes left them.
LEMMA TaskStepControls ==
    ASSUME CoreInv, Controls, NEW c \in Claims, Moves(c)
    PROVE  Controls'
<1>1. /\ Pinned(c) /\ \A d \in Claims \ {c} : workers'[d] = workers[d]
    BY DEF Moves, Same
<1>2. meta.run.generation \in Nat /\ \A d \in Claims : workers[d].run \in Nat
    <2>1. meta \in MetaRecords /\ Tables
        BY CoreTables
    <2> QED
        BY <2>1 DEF MetaRecords, RunRecords, Tables, WorkerRecords
<1>3. ASSUME NEW d \in Claims
      PROVE  /\ workers'[d].run <= meta.run.generation
             /\ Stopped /\ meta.run.status = "authorized" =>
                    workers'[d].run < meta.run.generation
    BY <1>1, <1>2 DEF Controls, Pinned, RunCurrent
<1> QED
    BY <1>3, MetaKept DEF Controls

\* Of a task that is at rest nothing happens but what shows it at rest.
LEMMA RestStays ==
    ASSUME NEW x \in WorldRecords, NEW x2, AtRest(x)
    PROVE  ~Happens(x, x2)
BY DEF AtRest, Happens

\* An idle task stays idle while its creation and its turns are not out.
LEMMA IdleStays ==
    ASSUME NEW x \in WorldRecords, NEW x2, Happens(x, x2), x.task = "idle",
           "create" \notin x.permits, "continue" \notin x.permits
    PROVE  x2.task = "idle"
BY DEF Happens, WorldRecords

\* While an inventory stands, the gates are closed: whatever moves, moves away
\* from the rows the inventory is bound to, or leaves its idle tasks idle.
LEMMA TaskStepInventory ==
    ASSUME CoreInv, Controls, Inventory, NEW c \in Claims, Moves(c)
    PROVE  Inventory'
<1> SUFFICES ASSUME meta.evidence # None, NEW d \in Claims
             PROVE  LET e == meta.evidence IN
                    /\ e.bindings[d].attached <= workers'[d].attached
                    /\ e.bindings[d].status = "settled" => workers'[d].status = "settled"
                    /\ /\ d \in e.idle
                       /\ e.bindings[d] = Binding(workers'[d])
                       /\ workers'[d].status \notin {"starting", "accepting"}
                       => world'[d].task = "idle"
    BY MetaKept DEF Inventory, Binding
<1> DEFINE e == meta.evidence  w == workers[d]  w2 == workers'[d]  x == world[d]  x2 == world'[d]
<1>0. /\ w \in WorkerRecords /\ w2 \in WorkerRecords /\ x \in WorldRecords
      /\ Life(d, claims[d], journal[d], w, x, calls[d])
      /\ meta \in MetaRecords /\ e \in EvidenceRecords
    <2>1. meta \in MetaRecords
        BY CoreTables
    <2>2. e \in EvidenceRecords
        BY <2>1 DEF MetaRecords
    <2> QED
        BY <2>1, <2>2, CoreTables, PutBack DEF Moves, Tables
<1>1. e.bindings[d].attached \in Nat /\ w.attached \in Nat /\ w2.attached \in Nat
    BY <1>0 DEF EvidenceRecords, WorkerRecords
<1>2. /\ e.bindings[d].attached <= w.attached
      /\ e.bindings[d].status = "settled" => w.status = "settled"
      /\ /\ d \in e.idle /\ e.bindings[d] = Binding(w)
         /\ w.status \notin {"starting", "accepting"}
         => x.task = "idle"
    BY DEF Inventory
<1>3. CASE d # c
    <2>1. w2 = w /\ x2 = x
        BY <1>3 DEF Moves, Same
    <2> QED
        BY <1>2, <2>1
<1>4. CASE d = c
    <2>1. Quiet(d)
        <3>1. ~Effects
            BY DEF Controls, Stopped, Effects
        <3> QED
            BY <1>4, <3>1 DEF Moves
    <2>2. RowMoves(w, w2)
        BY <2>1 DEF Quiet
    <2>3. /\ e.bindings[d].attached <= w2.attached
          /\ e.bindings[d].status = "settled" => w2.status = "settled"
        BY <1>1, <1>2, <2>2 DEF RowMoves
    <2>4. ASSUME d \in e.idle, e.bindings[d] = Binding(w2),
                 w2.status \notin {"starting", "accepting"}
          PROVE  x2.task = "idle"
        <3>1. e.bindings[d].attached = w2.attached /\ e.bindings[d].status = w2.status
            BY <2>4 DEF Binding
        <3>2. ~(w.attached < w2.attached)
            BY <1>1, <1>2, <3>1
        <3>3. ~(w.status # "settled" /\ w2.status = "settled")
            BY <1>2, <3>1
        <3>4. Binding(w2) = Binding(w)
            BY <2>2, <2>4, <3>2, <3>3 DEF RowMoves
        <3>5. w.status = w2.status
            BY <3>4 DEF Binding
        <3>6. x.task = "idle"
            BY <1>2, <2>4, <3>4, <3>5
        <3>7. "create" \notin x.permits /\ "continue" \notin x.permits
            BY <1>0, <2>4, <3>5, <3>6 DEF Life, CreationOf, RowOf
        <3> QED
            BY <1>0, <2>1, <3>6, <3>7, IdleStays DEF Quiet
    <2> QED
        BY <2>3, <2>4
<1> QED
    BY <1>3, <1>4

\* Nothing wakes a parked workspace.
LEMMA TaskStepParked ==
    ASSUME CoreInv, Controls, ParkedIsQuiet, NEW c \in Claims, Moves(c)
    PROVE  ParkedIsQuiet'
<1> SUFFICES ASSUME meta.phase = "parked", NEW d \in Claims
             PROVE  /\ world'[d].task \notin {"requested", "running"}
                    /\ world'[d].process # "alive" /\ world'[d].permits = {}
                    /\ calls'[d] \subseteq {"reserve"}
    BY MetaKept DEF ParkedIsQuiet, Live
<1>1. AtRest(world[d]) /\ calls[d] \subseteq {"reserve"}
    BY DEF ParkedIsQuiet, Live, AtRest
<1>2. ~Effects
    BY DEF Controls, Stopped, Effects
<1>3. world[d] \in WorldRecords
    BY PutBack
<1>4. CASE d # c
    BY <1>1, <1>4 DEF Moves, Same, AtRest
<1>5. CASE d = c
    <2>1. Quiet(d)
        BY <1>2, <1>5 DEF Moves
    <2>2. world'[d] = world[d]
        BY <1>1, <1>3, <2>1, RestStays DEF Quiet
    <2> QED
        BY <1>1, <2>1, <2>2 DEF Quiet, AtRest
<1> QED
    BY <1>4, <1>5

-------------------------------------------------------------------------------
(* The controls. *)

\* What no control touches.
ControlFrame ==
    /\ UNCHANGED <<claims, resources, allocations, account, journal, settlements, workers, calls,
                   world>>
    /\ meta'.runner = meta.runner

\* A run that was fenced, or checkpointed, is one that is not authorised.
LEMMA RunShapes ==
    ASSUME NEW run \in RunRecords, NEW m \in 0 .. MaxCommands
    PROVE  /\ Fence(run, m) \in RunRecords /\ Fence(run, m).generation = run.generation
           /\ Fence(run, m).status # "authorized"
           /\ Checkpoint(run, m) \in RunRecords /\ Checkpoint(run, m).generation = run.generation
           /\ Checkpoint(run, m).status = "authorized" => run.status = "authorized"
<1> DEFINE n == IF m = 0 THEN run.command ELSE m
           f == [run EXCEPT !.status = "fenced", !.command = n]
           g == [run EXCEPT !.status = "checkpointed"]
<1>1. n \in 0 .. MaxCommands
    BY DEF RunRecords
<1>2. g \in RunRecords /\ g.generation = run.generation /\ g.status = "checkpointed"
    BY DEF RunRecords
<1> HIDE DEF n, g
<1>3. f \in RunRecords /\ f.generation = run.generation /\ f.status = "fenced"
    BY <1>1 DEF RunRecords
<1> HIDE DEF f
<1> QED
    BY <1>2, <1>3 DEF Fence, Checkpoint, f, g, n

\* A stop, whoever asks for it.
LEMMA StopShape ==
    ASSUME NEW m \in MetaRecords, m.command < MaxCommands
    PROVE  /\ Stop(m) \in MetaRecords
           /\ Stop(m).runner = m.runner /\ Stop(m).paused /\ ~Stop(m).resumeQueued
           /\ Stop(m).phase = "stop_requested" /\ Stop(m).evidence = None
           /\ Stop(m).run.generation = m.run.generation /\ Stop(m).run.status # "authorized"
<1> DEFINE n == m.command + 1
           f == Fence(m.run, n)
           s == [m EXCEPT !.paused = TRUE, !.phase = "stop_requested", !.command = n,
                          !.evidence = None, !.resumeQueued = FALSE, !.run = f]
<1>1. n \in 0 .. MaxCommands /\ m.run \in RunRecords
    BY DispatchFacts DEF MetaRecords
<1>2. f \in RunRecords /\ f.generation = m.run.generation /\ f.status # "authorized"
    BY <1>1, RunShapes
<1> HIDE DEF n, f
<1>3. /\ s \in MetaRecords /\ s.runner = m.runner /\ s.paused /\ ~s.resumeQueued
      /\ s.phase = "stop_requested" /\ s.evidence = None /\ s.run = f
    BY <1>1, <1>2 DEF MetaRecords, PausePhases
<1>4. Stop(m) = s
    BY DEF Stop, n, f
<1> HIDE DEF s
<1> QED
    BY <1>2, <1>3, <1>4

StopPhases == {"stop_requested", "checkpointing", "parked"}

\* A meta row that a control may leave behind.
Sound(m) ==
    /\ m \in MetaRecords /\ m.runner = meta.runner
    /\ m.phase \in StopPhases => m.paused /\ ~m.resumeQueued
    /\ m.run.generation >= meta.run.generation
    /\ m.phase \in StopPhases /\ m.run.status = "authorized" =>
            \/ m.run.generation > meta.run.generation
            \/ Stopped /\ meta.run.status = "authorized"
    /\ m.evidence # None => m.phase \in {"checkpointing", "parked"}
    /\ m.evidence \in {None, meta.evidence, Evidence}
    /\ m.phase = "parked" => meta.phase = "parked" \/ ParkGuard

\* The meta row, opened once for all controls.
LEMMA MetaShape ==
    ASSUME CoreInv, Controls
    PROVE  /\ meta \in MetaRecords /\ meta.run \in RunRecords /\ meta.run.generation \in Nat
           /\ meta.run.generation >= meta.run.generation
           /\ meta.command \in 0 .. MaxCommands /\ meta.phase \in PausePhases
           /\ meta.paused \in BOOLEAN /\ meta.resumeQueued \in BOOLEAN
           /\ Stopped <=> meta.phase \in StopPhases
           /\ meta.phase \in StopPhases => meta.paused /\ ~meta.resumeQueued
           /\ meta.evidence # None => meta.phase \in {"checkpointing", "parked"}
<1>1. meta \in MetaRecords
    BY CoreTables
<1>2. Stopped <=> meta.phase \in StopPhases
    BY DEF Stopped, StopPhases
<1>3. /\ meta.run \in RunRecords /\ meta.command \in 0 .. MaxCommands /\ meta.phase \in PausePhases
      /\ meta.paused \in BOOLEAN /\ meta.resumeQueued \in BOOLEAN
    BY <1>1 DEF MetaRecords
<1>4. meta.run.generation \in Nat
    BY <1>3 DEF RunRecords
<1>5. meta.run.generation >= meta.run.generation
    BY <1>4
<1> QED
    BY <1>1, <1>2, <1>3, <1>4, <1>5 DEF Controls

\* The inventory has its shape.
LEMMA EvidenceShape ==
    ASSUME CoreInv
    PROVE  Evidence \in EvidenceRecords
<1>1. \A c \in Claims : workers[c] \in WorkerRecords
    BY PutBack
<1>2. \A c \in Claims : Binding(workers[c]) \in
            [status : {"absent"} \cup Active \cup {"settled"}, thread : BOOLEAN,
             attached : 0 .. MaxJournal, marker : 0 .. MaxJournal, launch : BOOLEAN]
    BY <1>1 DEF Binding, WorkerRecords, Active
<1>3. meta.runner \in Claims \cup {None}
    BY CoreTables DEF Tables
<1>4. TasksSeen({"idle"}) \subseteq Claims /\ TasksSeen({"running"}) \subseteq Claims
    BY DEF TasksSeen
<1> QED
    BY <1>2, <1>3, <1>4 DEF Evidence, EvidenceRecords

\* A new generation is authorised.
LEMMA AuthorizeSound ==
    ASSUME CoreInv, Controls, Authorize
    PROVE  Sound(meta')
<1> DEFINE g == meta.run.generation + 1
           run == [generation |-> g, status |-> "authorized", command |-> 0]
           m == [meta EXCEPT !.run = run]
<1>1. g \in 0 .. MaxRuns /\ g > meta.run.generation /\ 0 \in 0 .. MaxCommands
    <2>1. meta.run.generation < MaxRuns
        BY DEF Authorize
    <2> QED
        BY <2>1, MetaShape, DispatchFacts
<1>2. run \in RunRecords /\ run.generation = g
    BY <1>1 DEF RunRecords
<1>3. meta' = m
    BY DEF Authorize, ControlStep
<1> HIDE DEF run, g
<1>4. /\ m \in MetaRecords /\ m.runner = meta.runner /\ m.phase = meta.phase
      /\ m.paused = meta.paused /\ m.resumeQueued = meta.resumeQueued
      /\ m.evidence = meta.evidence /\ m.run = run
    BY <1>2, MetaShape DEF MetaRecords
<1> HIDE DEF m
<1>5. m.run.generation >= meta.run.generation /\ m.run.generation > meta.run.generation
    BY <1>1, <1>2, <1>4, MetaShape DEF g
<1> QED
    BY <1>3, <1>4, <1>5, MetaShape DEF Sound

\* The brain is stopped by its owner, or by its run.
LEMMA StopSound ==
    ASSUME CoreInv, Controls, meta.command < MaxCommands, meta' = Stop(meta)
    PROVE  Sound(meta')
<1>1. meta \in MetaRecords
    BY MetaShape
<1>2. /\ meta' \in MetaRecords /\ meta'.runner = meta.runner /\ meta'.paused
      /\ ~meta'.resumeQueued /\ meta'.phase = "stop_requested" /\ meta'.evidence = None
      /\ meta'.run.generation = meta.run.generation /\ meta'.run.status # "authorized"
    BY <1>1, StopShape
<1> QED
    BY <1>2, MetaShape DEF Sound

\* The current run is fenced.
LEMMA RunStopSound ==
    ASSUME CoreInv, Controls, RunStop
    PROVE  Sound(meta')
<1>1. CASE ~Stopped
    BY <1>1, StopSound DEF RunStop, ControlStep
<1>2. CASE Stopped
    <2> DEFINE run == Fence(meta.run, meta.command)
               m == [meta EXCEPT !.run = run]
    <2>1. meta' = m
        BY <1>2 DEF RunStop, ControlStep
    <2>2. /\ run \in RunRecords /\ run.generation = meta.run.generation
          /\ run.status # "authorized"
        BY MetaShape, RunShapes
    <2> HIDE DEF run
    <2>3. /\ m \in MetaRecords /\ m.runner = meta.runner /\ m.phase = meta.phase
          /\ m.paused = meta.paused /\ m.resumeQueued = meta.resumeQueued
          /\ m.evidence = meta.evidence /\ m.run = run
        BY <2>2, MetaShape DEF MetaRecords
    <2> HIDE DEF m
    <2> QED
        BY <2>1, <2>2, <2>3, MetaShape DEF Sound
<1> QED
    BY <1>1, <1>2

\* Dispatch is paused.
LEMMA PauseSound ==
    ASSUME CoreInv, Controls, PauseDispatch
    PROVE  Sound(meta')
<1> DEFINE run == Fence(meta.run, 0)
           m == [meta EXCEPT !.paused = TRUE, !.resumeQueued = FALSE, !.run = run]
<1>1. meta' = m
    BY DEF PauseDispatch, ControlStep
<1>2. /\ run \in RunRecords /\ run.generation = meta.run.generation
      /\ run.status # "authorized"
    <2>1. 0 \in 0 .. MaxCommands
        BY DispatchFacts
    <2> QED
        BY <2>1, MetaShape, RunShapes
<1> HIDE DEF run
<1>3. /\ m \in MetaRecords /\ m.runner = meta.runner /\ m.phase = meta.phase
      /\ m.paused /\ ~m.resumeQueued /\ m.evidence = meta.evidence /\ m.run = run
    BY <1>2, MetaShape DEF MetaRecords
<1> HIDE DEF m
<1> QED
    BY <1>1, <1>2, <1>3, MetaShape DEF Sound

\* The brain, or the queued resume of dispatch, is resumed.
LEMMA ResumeSound ==
    ASSUME CoreInv, Controls, BrainResume \/ ResumeDispatch \/ Activate
    PROVE  Sound(meta')
<1>1. CASE BrainResume
    <2> DEFINE n == meta.command + 1
               m == [meta EXCEPT !.phase = "resume_requested", !.command = n, !.evidence = None]
    <2>1. meta' = m /\ n \in 0 .. MaxCommands
        BY <1>1, MetaShape, DispatchFacts DEF BrainResume, ControlStep
    <2> HIDE DEF n
    <2>2. /\ m \in MetaRecords /\ m.runner = meta.runner /\ m.phase = "resume_requested"
          /\ m.evidence = None /\ m.run = meta.run
        BY <2>1, MetaShape DEF MetaRecords, PausePhases
    <2> HIDE DEF m
    <2> QED
        BY <2>1, <2>2, MetaShape DEF Sound, StopPhases
<1>2. CASE ResumeDispatch
    <2> DEFINE m == [meta EXCEPT !.resumeQueued = TRUE]
    <2>1. meta' = m /\ ~Stopped
        BY <1>2 DEF ResumeDispatch, ControlStep
    <2>2. /\ m \in MetaRecords /\ m.runner = meta.runner /\ m.phase = meta.phase
          /\ m.evidence = meta.evidence /\ m.run = meta.run
        BY MetaShape DEF MetaRecords
    <2> HIDE DEF m
    <2> QED
        BY <2>1, <2>2, MetaShape DEF Sound, StopPhases
<1>3. CASE Activate
    <2> DEFINE m == [meta EXCEPT !.paused = FALSE]
    <2>1. meta' = m /\ ~Stopped
        BY <1>3 DEF Activate, ControlStep
    <2>2. /\ m \in MetaRecords /\ m.runner = meta.runner /\ m.phase = meta.phase
          /\ m.evidence = meta.evidence /\ m.run = meta.run
        BY MetaShape DEF MetaRecords
    <2> HIDE DEF m
    <2> QED
        BY <2>1, <2>2, MetaShape DEF Sound, StopPhases
<1> QED
    BY <1>1, <1>2, <1>3

\* The brain processes its queue.
LEMMA ProcessSound ==
    ASSUME CoreInv, Controls, Process
    PROVE  Sound(meta')
<1>1. CASE Stopped
    <2> DEFINE ph == IF meta.phase = "stop_requested" THEN "checkpointing" ELSE meta.phase
               m == [meta EXCEPT !.phase = ph]
    <2>1. meta' = m
        BY <1>1 DEF Process, ControlStep
    <2>2. /\ ph \in StopPhases /\ (ph = "parked" => meta.phase = "parked")
          /\ meta.evidence # None => ph \in {"checkpointing", "parked"}
        BY <1>1, MetaShape DEF StopPhases
    <2> HIDE DEF ph
    <2>3. /\ m \in MetaRecords /\ m.runner = meta.runner /\ m.phase = ph
          /\ m.paused = meta.paused /\ m.resumeQueued = meta.resumeQueued
          /\ m.evidence = meta.evidence /\ m.run = meta.run
        BY <2>2, MetaShape DEF MetaRecords, StopPhases, PausePhases
    <2> HIDE DEF m
    <2> QED
        BY <1>1, <2>1, <2>2, <2>3, MetaShape DEF Sound
<1>2. CASE ~Stopped
    <2> DEFINE p == meta.paused /\ (~meta.resumeQueued \/ DispatchBlocked)
               m == [meta EXCEPT !.phase = "ready", !.paused = p, !.resumeQueued = FALSE]
    <2>1. meta' = m
        BY <1>2 DEF Process, ControlStep
    <2>2. p \in BOOLEAN
        OBVIOUS
    <2> HIDE DEF p
    <2>3. /\ m \in MetaRecords /\ m.runner = meta.runner /\ m.phase = "ready"
          /\ m.evidence = meta.evidence /\ m.run = meta.run
        BY <2>2, MetaShape DEF MetaRecords, PausePhases
    <2> HIDE DEF m
    <2>4. meta.evidence = None
        BY <1>2, MetaShape DEF StopPhases
    <2> QED
        BY <2>1, <2>3, <2>4, MetaShape DEF Sound, StopPhases
<1> QED
    BY <1>1, <1>2

\* An inventory is retained, and the workspace parks.
LEMMA ParkSound ==
    ASSUME CoreInv, Controls, ObservePause \/ Park
    PROVE  Sound(meta')
<1>1. CASE ObservePause
    <2> DEFINE e == Evidence
               m == [meta EXCEPT !.evidence = e]
    <2>1. meta' = m /\ meta.phase = "checkpointing" /\ e \in EvidenceRecords
        BY <1>1, EvidenceShape DEF ObservePause, ControlStep
    <2> HIDE DEF e
    <2>2. /\ m \in MetaRecords /\ m.runner = meta.runner /\ m.phase = meta.phase
          /\ m.paused = meta.paused /\ m.resumeQueued = meta.resumeQueued
          /\ m.evidence = e /\ m.run = meta.run
        BY <2>1, MetaShape DEF MetaRecords
    <2> HIDE DEF m
    <2> QED
        BY <2>1, <2>2, MetaShape DEF Sound, e
<1>2. CASE Park
    <2> DEFINE run == Checkpoint(meta.run, meta.command)
               m == [meta EXCEPT !.phase = "parked", !.paused = TRUE, !.run = run]
    <2>1. meta' = m /\ ParkGuard /\ meta.phase = "checkpointing"
        BY <1>2 DEF Park, ParkGuard, ControlStep
    <2>2. /\ run \in RunRecords /\ run.generation = meta.run.generation
          /\ run.status = "authorized" => meta.run.status = "authorized"
        BY MetaShape, RunShapes
    <2> HIDE DEF run
    <2>3. /\ m \in MetaRecords /\ m.runner = meta.runner /\ m.phase = "parked"
          /\ m.paused /\ m.resumeQueued = meta.resumeQueued
          /\ m.evidence = meta.evidence /\ m.run = run
        BY <2>2, MetaShape DEF MetaRecords, PausePhases
    <2> HIDE DEF m
    <2> QED
        BY <2>1, <2>2, <2>3, MetaShape DEF Sound, StopPhases
<1> QED
    BY <1>1, <1>2

\* What a control, or the fence of an enrollment, does.
ControlMoves ==
    /\ ControlFrame
    /\ Sound(meta')
    /\ approvals' \in [Claims -> 0 .. MaxRuns]
    /\ quarantined' \in BOOLEAN

\* Every control leaves a sound meta row, and every task as it was.
LEMMA ControlStepMoves ==
    ASSUME CoreInv, Controls, ControlNext \/ Fenced
    PROVE  ControlMoves
<1>0. /\ approvals \in [Claims -> 0 .. MaxRuns] /\ quarantined \in BOOLEAN
      /\ meta.run.generation \in 0 .. MaxRuns
    BY MetaShape DEF CoreInv, DispatchTypeOK, KernelTypeOK, RunRecords
<1>1. ASSUME NEW m, ControlStep(m), Sound(m)
      PROVE  ControlMoves
    BY <1>0, <1>1 DEF ControlStep, kernelVars, ControlMoves, ControlFrame, Sound
<1>2. Sound(meta)
    BY MetaShape DEF Sound
<1>3. ASSUME NEW c \in Claims, ApproveTask(c) \/ RevokeTask(c)
      PROVE  ControlMoves
    <2>1. approvals' \in [Claims -> 0 .. MaxRuns]
        <3>1. 0 \in 0 .. MaxRuns
            BY DispatchFacts
        <3> QED
            BY <1>0, <1>3, <3>1 DEF ApproveTask, RevokeTask
    <2>2. UNCHANGED <<kernelVars, journal, settlements, meta, workers, calls, world>>
        BY <1>3 DEF ApproveTask, RevokeTask
    <2>3. Sound(meta')
        BY <1>2, <2>2
    <2> QED
        BY <1>0, <2>1, <2>2, <2>3 DEF ControlMoves, ControlFrame, kernelVars
<1>4. ASSUME NEW m, ControlStep(m), Sound(meta') PROVE ControlMoves
    BY <1>1, <1>4 DEF ControlStep
<1>5. CASE Authorize
    BY <1>4, <1>5, AuthorizeSound DEF Authorize
<1>6. CASE BrainStop
    <2>1. meta' = Stop(meta) /\ meta.command < MaxCommands
        BY <1>6 DEF BrainStop, ControlStep
    <2> QED
        BY <1>4, <1>6, <2>1, StopSound DEF BrainStop
<1>7. CASE RunStop
    BY <1>4, <1>7, RunStopSound DEF RunStop
<1>8. CASE PauseDispatch
    BY <1>4, <1>8, PauseSound DEF PauseDispatch
<1>9. CASE BrainResume \/ ResumeDispatch \/ Activate
    BY <1>4, <1>9, ResumeSound DEF BrainResume, ResumeDispatch, Activate
<1>10. CASE Process
    BY <1>4, <1>10, ProcessSound DEF Process
<1>11. CASE ObservePause \/ Park
    BY <1>4, <1>11, ParkSound DEF ObservePause, Park
<1>12. CASE Fenced
    <2> DEFINE m == [meta EXCEPT !.resumeQueued = FALSE]
    <2>1. /\ meta.paused /\ quarantined' = TRUE /\ meta' \in {m, meta}
          /\ UNCHANGED <<claims, resources, allocations, account, journal, settlements>>
          /\ UNCHANGED <<workers, approvals, calls, world>>
        BY <1>12 DEF Fenced, constantVars
    <2>2. /\ m \in MetaRecords /\ m.runner = meta.runner /\ m.phase = meta.phase
          /\ m.paused = meta.paused /\ ~m.resumeQueued /\ m.evidence = meta.evidence
          /\ m.run = meta.run
        BY MetaShape DEF MetaRecords
    <2> HIDE DEF m
    <2>3. Sound(m)
        BY <2>2, MetaShape DEF Sound
    <2>4. Sound(meta') /\ meta'.runner = meta.runner
        BY <1>2, <2>1, <2>2, <2>3
    <2> QED
        BY <1>0, <2>1, <2>4 DEF ControlMoves, ControlFrame
<1> QED
    BY <1>3, <1>5, <1>6, <1>7, <1>8, <1>9, <1>10, <1>11, <1>12 DEF ControlNext

\* Where the controls are right, a control keeps them right.
LEMMA ControlsStay ==
    ASSUME CoreInv, Controls, ControlMoves
    PROVE  Controls'
<1>1. \A c \in Claims : workers[c].run \in Nat /\ workers'[c] = workers[c]
    BY PutBack DEF WorkerRecords, ControlMoves, ControlFrame
<1>2. meta'.run.generation \in Nat
    BY DEF ControlMoves, Sound, MetaRecords, RunRecords
<1>3. Stopped' <=> meta'.phase \in StopPhases
    BY DEF Stopped, StopPhases
<1>4. ASSUME NEW c \in Claims
      PROVE  /\ workers[c].run <= meta'.run.generation
             /\ meta'.phase \in StopPhases /\ meta'.run.status = "authorized" =>
                    workers[c].run < meta'.run.generation
    <2>1. /\ workers[c].run <= meta.run.generation /\ meta.run.generation \in Nat
          /\ Stopped /\ meta.run.status = "authorized" => workers[c].run < meta.run.generation
        BY MetaShape DEF Controls
    <2>2. /\ meta'.run.generation >= meta.run.generation
          /\ meta'.phase \in StopPhases /\ meta'.run.status = "authorized" =>
                \/ meta'.run.generation > meta.run.generation
                \/ Stopped /\ meta.run.status = "authorized"
        BY DEF ControlMoves, Sound
    <2> QED
        BY <1>1, <1>2, <2>1, <2>2
<1> QED
    BY <1>1, <1>3, <1>4 DEF Controls, ControlMoves, Sound

\* An inventory that is taken says what is so, and one that is kept still does.
LEMMA ControlsInventory ==
    ASSUME CoreInv, Inventory, ControlMoves
    PROVE  Inventory'
<1>1. workers' = workers /\ world' = world /\ meta'.evidence \in {None, meta.evidence, Evidence}
    BY DEF ControlMoves, ControlFrame, Sound
<1>2. CASE meta'.evidence = None
    BY <1>2 DEF Inventory
<1>3. CASE meta'.evidence = meta.evidence
    BY <1>1, <1>3 DEF Inventory, Binding
<1>4. CASE meta'.evidence = Evidence
    <2>1. ASSUME NEW c \in Claims
          PROVE  /\ meta'.evidence.bindings[c] = Binding(workers[c])
                 /\ c \in meta'.evidence.idle => world[c].task = "idle"
        BY <1>4 DEF Evidence, TasksSeen
    <2>2. ASSUME NEW c \in Claims
          PROVE  /\ Binding(workers[c]).attached = workers[c].attached
                 /\ Binding(workers[c]).status = workers[c].status
                 /\ workers[c].attached <= workers[c].attached
        BY PutBack DEF Binding, WorkerRecords
    <2> QED
        BY <1>1, <2>1, <2>2 DEF Inventory
<1> QED
    BY <1>1, <1>2, <1>3, <1>4

\* What may be parked is at rest.
LEMMA ParkedAtRest ==
    ASSUME CoreInv, Inventory, ParkGuard, NEW c \in Claims
    PROVE  ~Live(c) /\ calls[c] \subseteq {"reserve"}
<1> DEFINE k == claims[c]  j == journal[c]  w == workers[c]  x == world[c]  q == calls[c]
<1>0. /\ CreationOf(k, j, x) /\ RowOf(k, j, w, x) /\ CallsOf(k, j, w, q) /\ ClaimOf(c, k)
      /\ x \in WorldRecords /\ q \subseteq CallKinds /\ w \in WorkerRecords
      /\ k \in ClaimRecords
    BY CoreTables, PutBack DEF Life
<1>1. CASE w.status \in {"absent", "reserved"}
    <2>1. ~k.started
        BY <1>0, <1>1 DEF RowOf, ClaimOf
    <2>2. x = Untouched
        BY <1>0, <2>1 DEF CreationOf
    <2>3. "begin" \notin q /\ "continue" \notin q /\ "launch" \notin q
        BY <1>0, <1>1 DEF CallsOf
    <2> QED
        BY <1>0, <2>2, <2>3 DEF Live, Untouched, CallKinds
<1>2. CASE w.status \notin {"absent", "reserved"}
    <2>1. /\ meta.evidence # None /\ c \in meta.evidence.idle
          /\ meta.evidence.bindings[c] = Binding(w)
          /\ w.status \notin {"starting", "accepting"}
        BY <1>2 DEF ParkGuard, NoIssues, Workers
    <2>2. x.task = "idle"
        BY <2>1 DEF Inventory
    <2>3. x.creations = 1 /\ k.started
        BY <1>0, <2>2 DEF CreationOf, Untouched
    <2>4. x.permits = {} /\ x.process # "alive"
        <3>1. "create" \notin x.permits /\ "continue" \notin x.permits /\ "launch" \notin x.permits
            BY <1>0, <2>1, <2>3 DEF CreationOf, RowOf
        <3>2. x.permits \subseteq Permits
            BY <1>0 DEF WorldRecords
        <3> QED
            BY <1>0, <2>1, <3>1, <3>2 DEF RowOf, Permits
    <2>5. "begin" \notin q /\ "continue" \notin q /\ "launch" \notin q
        BY <1>0, <2>1, <2>3 DEF CallsOf
    <2> QED
        BY <1>0, <2>2, <2>4, <2>5 DEF Live, CallKinds
<1> QED
    BY <1>1, <1>2

\* A control keeps a parked workspace quiet.
LEMMA ControlsParked ==
    ASSUME CoreInv, Inventory, ParkedIsQuiet, ControlMoves
    PROVE  ParkedIsQuiet'
<1> SUFFICES ASSUME meta'.phase = "parked", NEW c \in Claims
             PROVE  (~Live(c) /\ calls[c] \subseteq {"reserve"})'
    BY DEF ParkedIsQuiet
<1>1. world' = world /\ calls' = calls /\ (meta.phase = "parked" \/ ParkGuard)
    BY DEF ControlMoves, ControlFrame, Sound
<1>2. ~Live(c) /\ calls[c] \subseteq {"reserve"}
    BY <1>1, ParkedAtRest DEF ParkedIsQuiet
<1> QED
    BY <1>1, <1>2 DEF Live

-------------------------------------------------------------------------------
(* The invariant holds at first, and every step keeps it. *)

\* The invariant holds on an initialised platform.
LEMMA DispatchInitInv == DispatchInit => DispatchInv
<1> SUFFICES ASSUME DispatchInit PROVE DispatchInv
    OBVIOUS
<1>1. /\ NoClaim \in ClaimRecords /\ NoJournal \in JournalRecords /\ NoWorker \in WorkerRecords
      /\ Untouched \in WorldRecords
    <2>1. 0 \in 0 .. MaxJournal + 3 /\ 0 \in 0 .. MaxJournal /\ 0 \in 0 .. MaxRuns
        BY DispatchFacts
    <2>2. NoClaim \in ClaimRecords
        BY DEF NoClaim, ClaimRecords
    <2>3. NoJournal \in JournalRecords
        BY <2>1 DEF NoJournal, JournalRecords, RunnerStates
    <2>4. NoWorker \in WorkerRecords
        BY <2>1 DEF NoWorker, WorkerRecords, RunnerStates
    <2>5. Untouched \in WorldRecords
        BY DEF Untouched, WorldRecords
    <2> QED
        BY <2>2, <2>3, <2>4, <2>5
<1>2. /\ claims = [c \in Claims |-> NoClaim] /\ journal = [c \in Claims |-> NoJournal]
      /\ workers = [c \in Claims |-> NoWorker] /\ world = [c \in Claims |-> Untouched]
      /\ calls = [c \in Claims |-> {}] /\ settlements = [c \in Claims |-> None]
      /\ resources = {}
    BY DEF DispatchInit, Untouched
<1>3. allocations \in [Allocations -> AllocationRecords] /\ allocations[Phase].spec # None
    <2> DEFINE u == [total |-> 0, complete |-> TRUE, fresh |-> TRUE, included |-> {}]
    <2>1. PhaseSpec \in Specs /\ PhaseSpec # None /\ Phase \in Allocations
        BY PhaseAssumption, NoneAssumption, DispatchFacts
    <2>2. u \in UsageRecords
        BY PhaseAssumption DEF UsageRecords
    <2> HIDE DEF u
    <2>3. /\ [spec |-> PhaseSpec, closed |-> FALSE, usage |-> u] \in AllocationRecords
          /\ [spec |-> None, closed |-> FALSE, usage |-> None] \in AllocationRecords
        BY <2>1, <2>2 DEF AllocationRecords
    <2>4. allocations = [a \in Allocations |->
                IF a = Phase THEN [spec |-> PhaseSpec, closed |-> FALSE, usage |-> u]
                             ELSE [spec |-> None, closed |-> FALSE, usage |-> None]]
        BY DEF DispatchInit, u
    <2> QED
        BY <2>1, <2>3, <2>4
<1>4. meta \in MetaRecords /\ meta.runner = None /\ meta.paused /\ ~meta.resumeQueued
      /\ meta.phase = "ready" /\ meta.evidence = None
      /\ meta.run.status = "none" /\ meta.run.generation = 0
    <2>1. NoRun \in RunRecords /\ 0 \in 0 .. MaxCommands
        BY DispatchFacts DEF NoRun, RunRecords
    <2> HIDE DEF NoRun
    <2>2. meta \in MetaRecords /\ meta.run = NoRun
        BY <2>1 DEF DispatchInit, MetaRecords, PausePhases
    <2> QED
        BY <2>2 DEF DispatchInit, NoRun
<1>5. DispatchTypeOK
    <2>1. approvals = [c \in Claims |-> 0] /\ account = "fit" /\ quarantined = FALSE
        BY DEF DispatchInit
    <2>2. 0 \in 0 .. MaxRuns
        BY DispatchFacts
    <2> QED
        BY <1>1, <1>2, <1>3, <1>4, <2>1, <2>2 DEF DispatchTypeOK, KernelTypeOK
<1>6. Lives
    <2>1. ASSUME NEW c \in Claims
          PROVE  Life(c, NoClaim, NoJournal, NoWorker, Untouched, {})
        BY DEF Life, ClaimOf, JournalOf, CreationOf, TurnsOf, LaunchOf, RowOf, CallsOf, Untouched,
               NoClaim, NoJournal, NoWorker, Owns, Held, Inflight
    <2> QED
        BY <1>2, <2>1 DEF Lives
<1>7. Holdings
    <2>1. ASSUME NEW c \in Claims
          PROVE  KeysOwned(c) = {} /\ claims[c].status = "absent"
                 /\ journal[c].runner = "none" /\ workers[c].runner = "none"
                 /\ settlements[c] = None
        BY <1>2 DEF KeysOwned, NoClaim, NoJournal, NoWorker
    <2> QED
        BY <1>2, <1>3, <2>1 DEF Holdings, ExclusiveOwnership, RunnerKeysOwned, Held, Owns
<1>8. Controls
    <2>1. \A c \in Claims : workers[c].run = 0
        BY <1>2 DEF NoWorker
    <2> QED
        BY <1>4, <2>1 DEF Controls, Stopped
<1>9. Inventory /\ ParkedIsQuiet
    BY <1>4 DEF Inventory, ParkedIsQuiet
<1> QED
    BY <1>5, <1>6, <1>7, <1>8, <1>9 DEF DispatchInv

\* Every step keeps the invariant.
LEMMA StepDispatchInv == DispatchInv /\ [DispatchNext]_dispatchVars => DispatchInv'
<1> SUFFICES ASSUME DispatchInv, [DispatchNext]_dispatchVars PROVE DispatchInv'
    OBVIOUS
<1>0. CoreInv /\ Holdings /\ Controls /\ Inventory /\ ParkedIsQuiet
    BY DEF DispatchInv, CoreInv
<1>1. ASSUME NEW c \in Claims, TaskStep(c) PROVE DispatchInv'
    <2>1. Moves(c)
        BY <1>0, <1>1, TaskStepMoves
    <2>2. KeyMoves(c) /\ SlotMoves(c)
        BY <1>0, <1>1, <2>1, TaskStepKeys
    <2>3. DispatchTypeOK' /\ Lives'
        BY <1>0, <2>1, TaskStepTypeOK, TaskStepLives
    <2>4. Holdings'
        BY <1>0, <2>1, <2>2, StepHoldings
    <2>5. Controls' /\ Inventory' /\ ParkedIsQuiet'
        BY <1>0, <2>1, TaskStepControls, TaskStepInventory, TaskStepParked
    <2> QED
        BY <2>3, <2>4, <2>5 DEF DispatchInv
<1>2. ASSUME ControlNext \/ Fenced PROVE DispatchInv'
    <2>1. ControlMoves
        BY <1>0, <1>2, ControlStepMoves
    <2>2. DispatchTypeOK'
        <3>1. meta' \in MetaRecords
            BY <2>1 DEF ControlMoves, Sound
        <3> QED
            BY <1>0, <2>1, <3>1 DEF CoreInv, DispatchTypeOK, KernelTypeOK, ControlMoves, ControlFrame
    <2>3. Lives'
        BY <1>0, <2>1 DEF CoreInv, Lives, ControlMoves, ControlFrame, Life, ClaimOf, JournalOf,
            CreationOf, TurnsOf, LaunchOf, RowOf, CallsOf
    <2>4. Holdings'
        <3>1. /\ UNCHANGED <<claims, resources, allocations, journal, settlements, workers>>
              /\ meta'.runner = meta.runner
            BY <2>1 DEF ControlMoves, ControlFrame
        <3>2. ExclusiveOwnership' /\ (allocations[Phase].spec # None)'
            BY <1>0, <3>1 DEF Holdings, ExclusiveOwnership
        <3>3. ASSUME NEW c \in Claims
              PROVE  /\ KeysOwned(c)' = KeysOwned(c)
                     /\ RunnerKeysOwned(c)' = RunnerKeysOwned(c)
                     /\ ScopeKeys(Phase, {TaskRepo[c]})' = ScopeKeys(Phase, {TaskRepo[c]})
            BY <3>1 DEF KeysOwned, RunnerKeysOwned, ScopeKeys
        <3> QED
            BY <1>0, <3>1, <3>2, <3>3 DEF Holdings
    <2>5. Controls' /\ Inventory' /\ ParkedIsQuiet'
        BY <1>0, <2>1, ControlsStay, ControlsInventory, ControlsParked
    <2> QED
        BY <2>2, <2>3, <2>4, <2>5 DEF DispatchInv
<1>3. CASE UNCHANGED dispatchVars
    <2>1. UNCHANGED <<claims, resources, allocations, account, quarantined, journal, settlements,
                      meta, workers, approvals, calls, world>>
        BY <1>3 DEF dispatchVars, kernelVars, ledgerVars
    <2>2. DispatchTypeOK'
        BY <1>0, <2>1 DEF CoreInv, DispatchTypeOK, KernelTypeOK
    <2>3. Lives'
        BY <1>0, <2>1 DEF CoreInv, Lives, Life, ClaimOf, JournalOf, CreationOf, TurnsOf, LaunchOf,
            RowOf, CallsOf
    <2>4. Holdings'
        BY <1>0, <2>1 DEF Holdings, ExclusiveOwnership, ScopeKeys, KeysOwned, RunnerKeysOwned
    <2>5. Controls' /\ Inventory' /\ ParkedIsQuiet'
        BY <1>0, <2>1 DEF Controls, Stopped, Inventory, Binding, ParkedIsQuiet, Live
    <2> QED
        BY <2>2, <2>3, <2>4, <2>5 DEF DispatchInv
<1> QED
    BY <1>1, <1>2, <1>3 DEF DispatchNext, TaskStep

-------------------------------------------------------------------------------
(* What follows from the invariant. *)

\* The permits of one kind are at most one.
LEMMA OnePermit ==
    ASSUME NEW S, NEW p
    PROVE  /\ p \in S => Cardinality(S \cap {p}) = 1
           /\ p \notin S => Cardinality(S \cap {p}) = 0
<1>1. CASE p \in S
    <2>1. S \cap {p} = {p}
        BY <1>1
    <2> QED
        BY <1>1, <2>1, FS_Singleton
<1>2. CASE p \notin S
    <2>1. S \cap {p} = {}
        BY <1>2
    <2> QED
        BY <1>2, <2>1, FS_EmptySet
<1> QED
    BY <1>1, <1>2

\* The invariant, one claim at a time.
LEMMA LifeOf ==
    ASSUME DispatchInv, NEW c \in Claims
    PROVE  /\ Life(c, claims[c], journal[c], workers[c], world[c], calls[c])
           /\ claims[c] \in ClaimRecords /\ journal[c] \in JournalRecords
           /\ workers[c] \in WorkerRecords /\ world[c] \in WorldRecords
BY PutBack DEF DispatchInv, CoreInv, Lives

\* No native effect is sent twice.
LEMMA InvNoEffectTwice == DispatchInv => NoEffectTwice
<1> SUFFICES ASSUME DispatchInv, NEW c \in Claims
             PROVE  LET x == world[c] IN
                    /\ x.creations + Cardinality(x.permits \cap {"create"}) <= 1
                    /\ x.launches + Cardinality(x.permits \cap {"launch"}) <= 1
                    /\ x.turns + Cardinality(x.permits \cap {"continue"}) <= journal[c].sequence
    BY DEF NoEffectTwice
<1> DEFINE x == world[c]  j == journal[c]
<1>1. /\ CreationOf(claims[c], j, x) /\ TurnsOf(j, x) /\ LaunchOf(j, x)
      /\ x.creations \in Nat /\ x.turns \in Nat /\ x.launches \in Nat /\ j.sequence \in Nat
    BY LifeOf DEF Life, WorldRecords, JournalRecords
<1>2. x.creations + Cardinality(x.permits \cap {"create"}) <= 1
    BY <1>1, OnePermit DEF CreationOf
<1>3. x.launches + Cardinality(x.permits \cap {"launch"}) <= 1
    BY <1>1, OnePermit DEF LaunchOf
<1>4. x.turns + Cardinality(x.permits \cap {"continue"}) <= j.sequence
    BY <1>1, OnePermit DEF TurnsOf
<1> QED
    BY <1>2, <1>3, <1>4

\* A settled claim is at rest.
LEMMA InvReleasedAtRest == DispatchInv => ReleasedAtRest
BY LifeOf DEF Life, ReleasedAtRest, AtRest, Live

\* A reservation that was not started is not started.
LEMMA InvReservedMeansUnstarted == DispatchInv => ReservedMeansUnstarted
<1> SUFFICES ASSUME DispatchInv, NEW c \in Claims, workers[c].status \in {"absent", "reserved"}
             PROVE  ~claims[c].started /\ ~Live(c) /\ world[c].task = "none"
    BY DEF ReservedMeansUnstarted
<1>1. claims[c].status \in {"absent", "reserved"}
    BY LifeOf DEF Life, RowOf, ClaimOf, ClaimRecords, Held
<1>2. ~claims[c].started
    BY <1>1, LifeOf DEF Life, ClaimOf
<1>3. world[c] = Untouched
    BY <1>2, LifeOf DEF Life, CreationOf
<1> QED
    BY <1>2, <1>3 DEF Untouched, Live

\* A live task holds its claim.
LEMMA LiveIsHeld ==
    ASSUME DispatchInv, NEW c \in Claims, Live(c)
    PROVE  claims[c].status \in Held
<1>1. ~AtRest(world[c]) /\ world[c] # Untouched
    BY DEF Live, AtRest, Untouched
<1> QED
    BY <1>1, LifeOf DEF Life, CreationOf, ClaimOf, ClaimRecords

\* Live tasks have disjoint keys.
LEMMA InvRepositoryExclusive == DispatchInv => RepositoryExclusive
<1> SUFFICES ASSUME DispatchInv, NEW c \in Claims, NEW d \in Claims, c # d, Live(c), Live(d),
                    NEW y, y \in ScopeKeys(Phase, {TaskRepo[c]}),
                    y \in ScopeKeys(Phase, {TaskRepo[d]})
             PROVE  FALSE
    BY DEF RepositoryExclusive
<1>1. y \in KeysOwned(c) /\ y \in KeysOwned(d)
    BY LiveIsHeld DEF DispatchInv, Holdings
<1> QED
    BY <1>1 DEF KeysOwned, DispatchInv, Holdings, ExclusiveOwnership

\* A launched runner owns the local slot.
LEMMA InvOneRunnerProcess == DispatchInv => OneRunnerProcess
<1> SUFFICES ASSUME DispatchInv, NEW c \in Claims, NEW d \in Claims, c # d,
                    Launching(c), Launching(d)
             PROVE  FALSE
    BY DEF OneRunnerProcess
<1>1. Owns(workers[c].runner) /\ Owns(workers[d].runner)
    BY LifeOf DEF Launching, Life, RowOf
<1> QED
    BY <1>1 DEF DispatchInv, Holdings

\* What the ledger let go of, the shared store let go of before.
LEMMA InvLocalReleaseFollowsShared == DispatchInv => LocalReleaseFollowsShared
<1> SUFFICES ASSUME DispatchInv, NEW c \in Claims
             PROVE  /\ workers[c].status = "settled" => claims[c].status = "settled"
                    /\ workers[c].runner = "released" => RunnerKeysOwned(c) = {}
                    /\ Owns(workers[c].runner) => meta.runner = c
    BY DEF LocalReleaseFollowsShared
<1>1. RowOf(claims[c], journal[c], workers[c], world[c]) /\ Holdings
    BY LifeOf DEF Life, DispatchInv
<1>2. journal[c].runner = "released" => ~Owns(journal[c].runner)
    BY DEF Owns
<1> QED
    BY <1>1, <1>2 DEF RowOf, Holdings

\* While the brain is stopped nothing is open or current.
LEMMA InvStopWins == DispatchInv => StopWins
BY DEF DispatchInv, Controls, StopWins

\* The inductive invariant of the dispatch system holds in every reachable
\* state, for any number of tasks, keys, runs and records
\* (dispatch_admission.py, native_lifecycle.py, runner_coordination.py,
\* ownership_settlement.py, workspace_pause.py).
THEOREM DispatchInvariant == DispatchSpec => []DispatchInv
<1>1. DispatchInit => DispatchInv
    BY DispatchInitInv
<1>2. DispatchInv /\ [DispatchNext]_dispatchVars => DispatchInv'
    BY StepDispatchInv
<1> QED
    BY <1>1, <1>2, PTL DEF DispatchSpec

\* Every table keeps its shape.
THEOREM DispatchTypeCorrect == DispatchSpec => []DispatchTypeOK
<1>1. DispatchInv => DispatchTypeOK
    BY DEF DispatchInv
<1> QED
    BY <1>1, DispatchInvariant, PTL

\* A task is created at most once, its runner launched at most once, and every
\* correction that was sent has a journal entry of its own
\* (dispatch_admission.py, begin_creation; native_lifecycle.py,
\* begin_continuation; runner_coordination.py, begin).
THEOREM EffectsOnce == DispatchSpec => []NoEffectTwice
    BY DispatchInvariant, InvNoEffectTwice, PTL

\* What a claim held goes back only when nothing of it is under way and nobody
\* may still start something (ownership_settlement.py, settle).
THEOREM ReleaseAtRest == DispatchSpec => []ReleasedAtRest
    BY DispatchInvariant, InvReleasedAtRest, PTL

\* A row that shows an unstarted reservation is never behind a started claim
\* (workspace_pause.py, inspect, which skips such a row).
THEOREM ReservedUnstarted == DispatchSpec => []ReservedMeansUnstarted
    BY DispatchInvariant, InvReservedMeansUnstarted, PTL

\* Two live tasks share no repository key (admission.py, check_capacity).
THEOREM RepositoriesExclusive == DispatchSpec => []RepositoryExclusive
    BY DispatchInvariant, InvRepositoryExclusive, PTL

\* Two acceptance processes are never alive or about to be launched together
\* (runner_coordination.py, begin).
THEOREM OneRunnerAtATime == DispatchSpec => []OneRunnerProcess
    BY DispatchInvariant, InvOneRunnerProcess, PTL

\* The ledger lets go of a task or a runner only after the shared store did
\* (runner_coordination.py and ownership_settlement.py, attach_in).
THEOREM SharedReleasesFirst == DispatchSpec => []LocalReleaseFollowsShared
    BY DispatchInvariant, InvLocalReleaseFollowsShared, PTL

\* A stop wins over whatever was queued or current (brain_control.py, request).
THEOREM StopAlwaysWins == DispatchSpec => []StopWins
    BY DispatchInvariant, InvStopWins, PTL

\* A parked workspace is quiet and stays so until it is resumed
\* (brain_control.py, park).
THEOREM ParkedStaysQuiet == DispatchSpec => []ParkedIsQuiet
<1>1. DispatchInv => ParkedIsQuiet
    BY DEF DispatchInv
<1> QED
    BY <1>1, DispatchInvariant, PTL

-------------------------------------------------------------------------------
(* What a step may never do. *)

\* A step that enlarges the permits of a claim is the shared half of one of the
\* three two-section calls, and checked everything again.
LEMMA GrantsAreChecked ==
    ASSUME DispatchInv, NEW c \in Claims, TaskStep(c),
           ~(world'[c].permits \subseteq world[c].permits)
    PROVE  Effects /\ \E launching \in BOOLEAN : TaskIn(c, launching)
<1>0. world \in [Claims -> WorldRecords]
    BY DEF DispatchInv, DispatchTypeOK
<1>1. world' # world
    OBVIOUS
<1>2. CASE AdmissionStep(c)
    BY <1>1, <1>2 DEF AdmissionStep, ReserveIntent, BeginIntent, ReserveShared, BeginShared,
                      RecoverAdmission
<1>3. CASE NativeLifecycleStep(c)
    <2>1. \E attached \in BOOLEAN : ContinueShared(c, attached)
        BY <1>1, <1>3 DEF NativeLifecycleStep, Observe, Delivery, ContinueIntent, RecoverNative
    <2> QED
        BY <2>1 DEF ContinueShared, ContinuationChecks
<1>4. CASE RunnerStep(c)
    <2>1. \E attached \in BOOLEAN : LaunchShared(c, attached)
        BY <1>1, <1>4 DEF RunnerStep, LaunchIntent, Acquire, ObserveProcess, Release
    <2> QED
        BY <2>1 DEF LaunchShared, WorkChecks
<1>5. CASE SettlementStep(c)
    BY <1>1, <1>5 DEF SettlementStep, SettleTerminal, SettleNotCreated, RecoverSettlement
<1>6. CASE NativeStep(c)
    <2>1. ASSUME NEW x2, Happens(world[c], x2) PROVE x2.permits \subseteq world[c].permits
        BY <1>0, <2>1 DEF Happens, WorldRecords
    <2>2. UNCHANGED world \/ \E x2 : Happens(world[c], x2) /\ world' = [world EXCEPT ![c] = x2]
        BY <1>6 DEF NativeStep, SendCreation, CreationEnds, SendTurn, TurnEnds, SendLaunch,
                    ProcessExits, LosePermit, Abandon, Native, Happens
    <2> QED
        BY <1>0, <1>1, <2>1, <2>2
<1> QED
    BY <1>2, <1>3, <1>4, <1>5, <1>6 DEF TaskStep

\* No permit is handed out but under the run that is current.
LEMMA StepPermits ==
    ASSUME DispatchInv, DispatchNext, NEW d \in Claims,
           ~(world'[d].permits \subseteq world[d].permits)
    PROVE  /\ meta.run.status = "authorized" /\ meta.run.generation = workers[d].run
           /\ approvals[d] = meta.run.generation /\ ~meta.paused /\ ~Stopped
<1>1. CASE \E c \in Claims : TaskStep(c)
    <2>1. PICK c \in Claims : TaskStep(c)
        BY <1>1
    <2>2. Moves(c)
        BY <2>1, TaskStepMoves DEF DispatchInv, CoreInv
    <2>3. c = d
        BY <2>2 DEF Moves, Same
    <2>4. Effects /\ \E launching \in BOOLEAN : TaskIn(d, launching)
        BY <2>1, <2>3, GrantsAreChecked
    <2> QED
        BY <2>4 DEF Effects, TaskIn, TaskApproved, RunCurrent
<1>2. CASE ControlNext \/ Fenced
    BY <1>2, ControlStepMoves DEF DispatchInv, CoreInv, ControlMoves, ControlFrame
<1> QED
    BY <1>1, <1>2 DEF DispatchNext, TaskStep

\* Permission to create, correct or launch is handed out only under a run that
\* is still current after the gap between the two sections (dispatch_admission.py,
\* native_lifecycle.py and runner_coordination.py, the shared sections).
THEOREM PermitsAreCurrent == DispatchSpec => PermitsNeedCurrentRun
<1>1. DispatchInv /\ [DispatchNext]_dispatchVars =>
        [\A c \in Claims : ~(world'[c].permits \subseteq world[c].permits) =>
            /\ meta.run.status = "authorized"
            /\ meta.run.generation = workers[c].run
            /\ approvals[c] = meta.run.generation
            /\ ~meta.paused /\ ~Stopped]_dispatchVars
    BY StepPermits
<1> QED
    BY <1>1, DispatchInvariant, PTL DEF DispatchSpec, PermitsNeedCurrentRun

\* The brain opens dispatch only for a resume that was neither fenced nor queued
\* before a run was authorised.
LEMMA StepResume ==
    ASSUME DispatchInv, DispatchNext, meta.run.status # "none" \/ quarantined,
           meta.paused, meta.resumeQueued
    PROVE  meta'.paused \/ meta'.resumeQueued
<1>0. CoreInv /\ Controls /\ Holdings /\ meta \in MetaRecords
    BY MetaShape DEF DispatchInv, CoreInv
<1>1. CASE \E c \in Claims : TaskStep(c)
    BY <1>0, <1>1, TaskStepMoves, MetaKept
<1>2. CASE ControlNext
    <2>1. ~Stopped
        BY <1>0, MetaShape
    <2>2. ASSUME ~Activate PROVE meta'.paused \/ meta'.resumeQueued
        BY <1>0, <1>2, <2>1, <2>2 DEF MetaRecords, ControlNext, Authorize, ApproveTask, RevokeTask,
            BrainStop, BrainResume, RunStop, Stop, PauseDispatch, ResumeDispatch, Process,
            ObservePause, Park, DispatchBlocked, ControlStep
    <2>3. CASE Activate
        <3>1. meta'.resumeQueued = meta.resumeQueued
            BY <1>0, <2>3 DEF Activate, ControlStep, MetaRecords
        <3> QED
            BY <3>1
    <2> QED
        BY <2>2, <2>3
<1>3. CASE Fenced
    BY <1>0, <1>3 DEF Fenced, MetaRecords
<1> QED
    BY <1>1, <1>2, <1>3 DEF DispatchNext, TaskStep

\* A resume that is queued when a run is authorised, or a fence raised, is not
\* taken for its activation (core.py, process).
THEOREM ResumeNeverActivates == DispatchSpec => ResumeIsNotActivation
<1>1. DispatchInv /\ [DispatchNext]_dispatchVars =>
        [(meta.run.status # "none" \/ quarantined) /\ meta.paused /\ meta.resumeQueued
            => meta'.paused \/ meta'.resumeQueued]_dispatchVars
    BY StepResume
<1> QED
    BY <1>1, DispatchInvariant, PTL DEF DispatchSpec, ResumeIsNotActivation
=============================================================================
