------------------------ MODULE DispatchRecoveryProofs ------------------------
(***************************************************************************)
(* A local row that a crash left behind the shared store can be brought up *)
(* to date without any new authority: some receipt-only recovery finds all *)
(* that it requires.  What each requires is known from how the row, the    *)
(* claim, the journal, the settlement and the local slot can part at all.  *)
(***************************************************************************)
EXTENDS DispatchProofs

\* The local slot of the acceptance runner is a row's that says so.
SlotOf(c) == meta.runner = c => workers[c].status # "absent" /\ Owns(workers[c].runner)

\* How far the row of a worker can be from what the shared store says.
ReceiptOf(c) ==
    /\ claims[c].status \in Held /\ journal[c].count = 0
            => claims[c].status \in {"reserved", "starting"}
    /\ claims[c].status \in Held /\ journal[c].count > 0 /\ workers[c].attached = journal[c].count
            => UpToDate(c)
    /\ workers[c].stage = "settled" => claims[c].status = "settled"
    /\ claims[c].status = "settled" /\ workers[c].stage = "settled" => UpToDate(c)
    /\ claims[c].status = "settled" /\ workers[c].stage # "settled" => workers[c] = settlements[c]

RecoveryInv == \A c \in Claims : SlotOf(c) /\ ReceiptOf(c)

-------------------------------------------------------------------------------
(* One step of a worker, on its own row. *)

\* A claim that is held has a row, which is not settled.
LEMMA HeldRow ==
    ASSUME CoreInv, NEW c \in Claims, ReceiptOf(c), claims[c].status \in Held
    PROVE  /\ workers[c].status # "absent" /\ workers[c].stage # "settled"
           /\ claims[c].status \notin {"absent", "settled"}
BY CoreTables DEF Life, RowOf, ReceiptOf, Held

\* Copying the latest journal record to the row, or losing that copy, leaves the
\* row either as it was and behind, or exact; and the slot follows it.
LEMMA AttachRecovers ==
    ASSUME CoreInv, NEW c \in Claims, Moves(c), SlotOf(c), ReceiptOf(c),
           NEW attached \in BOOLEAN, AttachJournal(c, attached),
           claims[c].status \in Held, claims'[c].status \in Held \ {"reserved"},
           journal'[c].count > 0, workers[c].attached < journal'[c].count
    PROVE  SlotOf(c)' /\ ReceiptOf(c)'
<1> DEFINE w == workers[c]  j2 == journal'[c]  k2 == claims'[c]
<1>0. /\ w \in WorkerRecords /\ j2 \in JournalRecords /\ k2 \in ClaimRecords
      /\ workers \in [Claims -> WorkerRecords] /\ meta \in MetaRecords
    BY PutBack, CoreTables DEF Moves, Tables
<1>1. w.status # "absent" /\ w.stage # "settled"
    BY HeldRow
<1>2. w.attached # j2.count
    BY <1>0 DEF WorkerRecords, JournalRecords
<1>3. c # None
    BY NoneAssumption
<1>4. k2.status # "settled" /\ j2.count # 0
    BY <1>0 DEF Held, JournalRecords
<1>5. CASE workers'[c] = w /\ meta'.runner = meta.runner
    <2>1. SlotOf(c)'
        BY <1>5 DEF SlotOf
    <2> QED BY <1>1, <1>2, <1>4, <1>5, <2>1 DEF ReceiptOf
<1>6. CASE attached
    <2>1. /\ workers'[c] = JournalRow(w, k2, j2) /\ meta'.runner = RunnerSlot(c, w, j2)
          /\ AttachAllowed(c, w, j2)
        BY <1>0, <1>6 DEF AttachJournal, MetaRecords
    <2>2. CASE ~LaunchMatched(w, j2) \/ ~TurnMatched(w, j2)
        BY <1>5, <2>1, <2>2 DEF JournalRow, RunnerSlot
    <2>3. CASE LaunchMatched(w, j2) /\ TurnMatched(w, j2)
        <3>1. /\ workers'[c].seen = Version(k2, j2) /\ workers'[c].runner = j2.runner
              /\ workers'[c].status = WorkerStatus(j2) /\ workers'[c].stage = LifecycleStage(j2)
            BY <1>0, <2>1, <2>3 DEF JournalRow, WorkerRecords
        <3>2. workers'[c].status # "absent"
            BY <3>1, ShownStatus
        <3>3. workers'[c].stage # "settled"
            <4>1. j2.runner \in RunnerStates
                BY <1>0 DEF JournalRecords
            <4>2. LifecycleStage(j2) \in {"native_observed", "continuation_inflight"}
                        \cup {RunnerStage[s] : s \in DOMAIN RunnerStage}
                BY <4>1, ShownStatus
            <4> QED BY <3>1, <4>2 DEF RunnerStage
        <3>4. UpToDate(c)'
            BY <3>1 DEF UpToDate
        <3>5. meta'.runner = c => Owns(j2.runner)
            BY <1>3, <2>1, <2>3 DEF RunnerSlot, AttachAllowed
        <3>6. SlotOf(c)'
            BY <3>1, <3>2, <3>5 DEF SlotOf
        <3>7. ReceiptOf(c)'
            BY <1>4, <3>3, <3>4 DEF ReceiptOf
        <3> QED BY <3>6, <3>7
    <2> QED BY <2>2, <2>3
<1>7. CASE ~attached
    BY <1>5, <1>7 DEF AttachJournal
<1> QED BY <1>6, <1>7

\* A step that appends one more journal record.
LEMMA AppendRecovers ==
    ASSUME CoreInv, NEW c \in Claims, Moves(c), SlotOf(c), ReceiptOf(c),
           JournalOpen(c), NEW state, NEW tokens, Append(c, state, tokens),
           NEW attached \in BOOLEAN, AttachJournal(c, attached)
    PROVE  SlotOf(c)' /\ ReceiptOf(c)'
<1>0. /\ claims \in [Claims -> ClaimRecords] /\ journal \in [Claims -> JournalRecords]
      /\ claims'[c] \in ClaimRecords /\ journal'[c] \in JournalRecords
      /\ workers[c] \in WorkerRecords
      /\ Life(c, claims[c], journal[c], workers[c], world[c], calls[c])
    BY CoreTables DEF Moves, Tables
<1>1. claims'[c].status = ClaimStatus(state)
    <2> DEFINE st == ClaimStatus(state)
               nv == IF state.thread THEN NativeOf[c] ELSE None
    <2>1. claims' = [claims EXCEPT ![c].status = st, ![c].native = nv, ![c].estimate = @ + tokens]
        BY DEF Append
    <2> HIDE DEF st, nv
    <2>2. claims'[c].status = st
        BY <1>0, <2>1 DEF ClaimRecords
    <2> QED BY <2>2 DEF st
<1>2. claims'[c].status \in Held \ {"reserved"}
    BY <1>1, ProjectedStatus
<1>3. journal' = [journal EXCEPT ![c] = [state EXCEPT !.count = journal[c].count + 1]]
    BY DEF Append
<1>4. journal'[c] = [state EXCEPT !.count = journal[c].count + 1]
    BY <1>0, <1>3
<1>5. "count" \in DOMAIN journal'[c]
    BY <1>0 DEF JournalRecords
<1>6. DOMAIN [state EXCEPT !.count = journal[c].count + 1] = DOMAIN state
    OBVIOUS
<1>7. [state EXCEPT !.count = journal[c].count + 1].count = journal[c].count + 1
    BY <1>4, <1>5, <1>6
<1>8. journal'[c].count = journal[c].count + 1
    BY <1>4, <1>7
<1>9. journal[c].count \in Nat /\ workers[c].attached \in Nat
      /\ workers[c].attached <= journal[c].count
    BY <1>0 DEF JournalRecords, WorkerRecords, Life, RowOf
<1>10. journal'[c].count > 0 /\ workers[c].attached < journal'[c].count
    BY <1>8, <1>9
<1>11. claims[c].status \in Held
    BY DEF JournalOpen
<1> QED BY <1>2, <1>10, <1>11, AttachRecovers

\* A local intent changes the row and nothing it is compared with.
LEMMA IntentRecovers ==
    ASSUME CoreInv, NEW c \in Claims, SlotOf(c), ReceiptOf(c),
           UNCHANGED <<claims, journal, settlements, meta>>,
           claims[c].status \in Held, workers'[c].status # "absent",
           workers'[c].stage # "settled",
           workers'[c].attached = workers[c].attached,
           workers'[c].seen = workers[c].seen, workers'[c].runner = workers[c].runner
    PROVE  SlotOf(c)' /\ ReceiptOf(c)'
BY HeldRow DEF SlotOf, ReceiptOf, UpToDate

\* An admission receipt, copied or lost, before the journal begins.
LEMMA ReceiptRecovers ==
    ASSUME CoreInv, NEW c \in Claims, SlotOf(c), ReceiptOf(c), Moves(c), UNCHANGED meta,
           claims'[c].status \in {"reserved", "starting"}, journal'[c].count = 0,
           workers'[c] \in {workers[c], AdmissionRow(workers[c], claims'[c])},
           workers[c].status # "absent", workers[c].stage # "settled"
    PROVE  SlotOf(c)' /\ ReceiptOf(c)'
<1>1. workers[c] \in WorkerRecords /\ claims'[c] \in ClaimRecords
    BY PutBack DEF Moves, Tables
<1>2. /\ AdmissionRow(workers[c], claims'[c]).status # "absent"
      /\ AdmissionRow(workers[c], claims'[c]).stage # "settled"
      /\ AdmissionRow(workers[c], claims'[c]).runner = workers[c].runner
    BY <1>1 DEF AdmissionRow, WorkerRecords
<1>3. /\ workers'[c].status # "absent" /\ workers'[c].stage # "settled"
      /\ workers'[c].runner = workers[c].runner
    BY <1>2
<1> QED BY <1>3 DEF SlotOf, ReceiptOf

\* The steps of the admission bridge.
LEMMA AdmissionRecovers ==
    ASSUME CoreInv, NEW c \in Claims, SlotOf(c), ReceiptOf(c), Moves(c), AdmissionStep(c)
    PROVE  SlotOf(c)' /\ ReceiptOf(c)'
<1>0. /\ Tables /\ workers[c] \in WorkerRecords /\ claims[c] \in ClaimRecords
      /\ journal[c] \in JournalRecords
      /\ Life(c, claims[c], journal[c], workers[c], world[c], calls[c])
    BY CoreTables, PutBack
<1>1. claims[c].status \in {"absent", "reserved"} => journal[c].count = 0
    BY <1>0 DEF Life, ClaimOf, CreationOf
<1>2. ASSUME NEW attached \in BOOLEAN, AttachAdmission(c, attached)
      PROVE  workers'[c] \in {workers[c], AdmissionRow(workers[c], claims'[c])}
    BY <1>0, <1>2 DEF AttachAdmission, Tables
<1>3. CASE ReserveIntent(c)
    <2>1. UNCHANGED <<claims, journal, settlements, meta>>
        BY <1>3 DEF ReserveIntent, kernelVars
    <2>2. CASE UNCHANGED workers
        BY <2>1, <2>2 DEF SlotOf, ReceiptOf, UpToDate
    <2>3. CASE /\ workers[c].status = "absent"
               /\ workers' = [workers EXCEPT ![c] = [NoWorker EXCEPT !.status = "reserved",
                                    !.stage = "intent", !.run = meta.run.generation]]
        <3>1. workers'[c].stage = "intent"
            BY <1>0, <2>3 DEF Tables, NoWorker
        <3>2. claims[c].status = "absent"
            BY <1>0, <2>3 DEF Life, RowOf
        <3> QED BY <2>1, <2>3, <3>1, <3>2 DEF SlotOf, ReceiptOf, Held
    <2> QED BY <1>3, <2>2, <2>3 DEF ReserveIntent
<1>4. CASE BeginIntent(c)
    <2>1. /\ UNCHANGED <<claims, journal, settlements, meta>> /\ claims[c].status \in Held
          /\ workers' = [workers EXCEPT ![c].stage = "creation_pending", ![c].status = "starting"]
        BY <1>4 DEF BeginIntent, AdmissionClaim, kernelVars, Held
    <2>2. /\ workers'[c].status # "absent" /\ workers'[c].stage # "settled"
          /\ workers'[c].attached = workers[c].attached /\ workers'[c].seen = workers[c].seen
          /\ workers'[c].runner = workers[c].runner
        BY <1>0, <2>1 DEF Tables, WorkerRecords
    <2> QED BY <2>1, <2>2, IntentRecovers
<1>5. ASSUME NEW attached \in BOOLEAN, ReserveShared(c, attached)
      PROVE  SlotOf(c)' /\ ReceiptOf(c)'
    <2>1. /\ UNCHANGED <<journal, meta>> /\ workers[c].stage \in {"intent", "reserved"}
          /\ AttachAdmission(c, attached)
        BY <1>5 DEF ReserveShared
    <2>2. claims[c].status \in {"absent", "reserved"} /\ claims'[c].status = "reserved"
        BY <1>0, <1>5 DEF ReserveShared, ReserveIn, kernelVars, Tables, NoClaim
    <2>3. workers[c].status # "absent"
        BY <1>0, <2>1 DEF Life, RowOf
    <2> QED BY <1>1, <1>2, <2>1, <2>2, <2>3, ReceiptRecovers
<1>6. ASSUME NEW attached \in BOOLEAN, BeginShared(c, attached)
      PROVE  SlotOf(c)' /\ ReceiptOf(c)'
    <2>1. /\ UNCHANGED <<journal, meta>> /\ workers[c].stage = "creation_pending"
          /\ workers[c].status = "starting" /\ journal[c].count = 0
          /\ AttachAdmission(c, attached)
        BY <1>6 DEF BeginShared, AdmissionClaim
    <2>2. claims'[c].status = "starting"
        BY <1>0, <1>6 DEF BeginShared, BeginIn, Tables, ClaimRecords
    <2> QED BY <1>2, <2>1, <2>2, ReceiptRecovers
<1>7. CASE RecoverAdmission(c)
    <2>1. /\ UNCHANGED <<claims, journal, meta>> /\ journal[c].count = 0
          /\ claims[c].status \in {"reserved", "starting"} /\ workers[c].status # "absent"
          /\ workers'[c] = AdmissionRow(workers[c], claims[c])
        BY <1>0, <1>7 DEF RecoverAdmission, CanRecoverAdmission, AdmissionClaim, kernelVars, Tables
    <2>2. workers[c].stage # "settled"
        BY <2>1 DEF ReceiptOf
    <2> QED BY <2>1, <2>2, ReceiptRecovers
<1> QED BY <1>3, <1>4, <1>5, <1>6, <1>7 DEF AdmissionStep

\* The steps of the native lifecycle.
LEMMA LifecycleRecovers ==
    ASSUME CoreInv, NEW c \in Claims, SlotOf(c), ReceiptOf(c), Moves(c), NativeLifecycleStep(c)
    PROVE  SlotOf(c)' /\ ReceiptOf(c)'
<1>0. /\ Tables /\ workers[c] \in WorkerRecords /\ claims[c] \in ClaimRecords
      /\ journal[c] \in JournalRecords
      /\ Life(c, claims[c], journal[c], workers[c], world[c], calls[c])
    BY CoreTables, PutBack
<1>1. ASSUME NEW attached \in BOOLEAN,
             NEW outcome \in {"pending", "uncertain", "confirmed"}, NEW thread \in BOOLEAN,
             NEW activity \in {"unknown", "running", "idle"},
             Observe(c, outcome, thread, activity, attached)
      PROVE  SlotOf(c)' /\ ReceiptOf(c)'
    BY <1>1, AppendRecovers DEF Observe
<1>2. ASSUME NEW attached \in BOOLEAN, ContinueShared(c, attached)
      PROVE  SlotOf(c)' /\ ReceiptOf(c)'
    BY <1>2, AppendRecovers DEF ContinueShared
<1>3. ASSUME NEW attached \in BOOLEAN,
             NEW outcome \in {"acknowledged", "uncertain", "finished"}, NEW progress \in BOOLEAN,
             Delivery(c, outcome, progress, attached)
      PROVE  SlotOf(c)' /\ ReceiptOf(c)'
    BY <1>3, AppendRecovers DEF Delivery
<1>4. CASE ContinueIntent(c)
    <2>1. /\ UNCHANGED <<claims, journal, settlements, meta>> /\ claims[c].status \in Held
          /\ workers' = [workers EXCEPT ![c].marker = journal[c].count,
                                  ![c].status = "starting", ![c].stage = "continuation_pending"]
        BY <1>4 DEF ContinueIntent, JournalOpen, kernelVars
    <2>2. /\ workers'[c].status # "absent" /\ workers'[c].stage # "settled"
          /\ workers'[c].attached = workers[c].attached /\ workers'[c].seen = workers[c].seen
          /\ workers'[c].runner = workers[c].runner
        BY <1>0, <2>1 DEF Tables, WorkerRecords
    <2> QED BY <2>1, <2>2, IntentRecovers
<1>5. CASE RecoverNative(c)
    <2>1. /\ UNCHANGED <<claims, journal>> /\ claims[c].status \in Held /\ journal[c].count > 0
          /\ workers[c].attached # journal[c].count /\ AttachJournal(c, TRUE)
        BY <1>5 DEF RecoverNative, CanRecoverNative, JournalOpen
    <2>2. workers[c].attached < journal[c].count
        <3>1. /\ workers[c].attached \in Nat /\ journal[c].count \in Nat
              /\ workers[c].attached <= journal[c].count
            BY <1>0 DEF WorkerRecords, JournalRecords, Life, RowOf
        <3> QED BY <2>1, <3>1
    <2>3. claims[c].status # "reserved"
        BY <1>0, <2>1 DEF Life, ClaimOf, CreationOf, JournalRecords
    <2> QED BY <2>1, <2>2, <2>3, AttachRecovers
<1> QED BY <1>1, <1>2, <1>3, <1>4, <1>5 DEF NativeLifecycleStep

\* The steps of the acceptance runner.
LEMMA RunnerRecovers ==
    ASSUME CoreInv, NEW c \in Claims, SlotOf(c), ReceiptOf(c), Moves(c), RunnerStep(c)
    PROVE  SlotOf(c)' /\ ReceiptOf(c)'
<1>1. ASSUME NEW attached \in BOOLEAN, NEW y \in RunnerKeys, Acquire(c, y, attached)
      PROVE  SlotOf(c)' /\ ReceiptOf(c)'
    BY <1>1, AppendRecovers DEF Acquire
<1>2. ASSUME NEW attached \in BOOLEAN, LaunchShared(c, attached)
      PROVE  SlotOf(c)' /\ ReceiptOf(c)'
    BY <1>2, AppendRecovers DEF LaunchShared
<1>3. ASSUME NEW attached \in BOOLEAN, NEW outcome \in {"uncertain", "running", "exited"},
             ObserveProcess(c, outcome, attached)
      PROVE  SlotOf(c)' /\ ReceiptOf(c)'
    BY <1>3, AppendRecovers DEF ObserveProcess
<1>4. ASSUME NEW attached \in BOOLEAN, Release(c, attached)
      PROVE  SlotOf(c)' /\ ReceiptOf(c)'
    BY <1>4, AppendRecovers DEF Release
<1>5. CASE LaunchIntent(c)
    <2>1. /\ UNCHANGED <<claims, journal, settlements, meta>> /\ claims[c].status \in Held
          /\ workers' = [workers EXCEPT ![c].launch = TRUE, ![c].status = "accepting",
                                        ![c].stage = "runner_launch_pending"]
        BY <1>5 DEF LaunchIntent, JournalOpen, kernelVars
    <2>2. /\ workers'[c].status # "absent" /\ workers'[c].stage # "settled"
          /\ workers'[c].attached = workers[c].attached /\ workers'[c].seen = workers[c].seen
          /\ workers'[c].runner = workers[c].runner
        BY <2>1, CoreTables DEF Tables, WorkerRecords
    <2> QED BY <2>1, <2>2, IntentRecovers
<1> QED BY <1>1, <1>2, <1>3, <1>4, <1>5 DEF RunnerStep

\* Sealing a claim binds the row it was decided on, or closes that row with it.
LEMMA CommitRecovers ==
    ASSUME CoreInv, NEW c \in Claims, ReceiptOf(c), NEW actual, NEW attached \in BOOLEAN,
           MaintenanceOpen(c), claims[c].status \in Held, Commit(c, actual),
           AttachSettlement(c, attached), UNCHANGED <<journal, meta>>
    PROVE  SlotOf(c)' /\ ReceiptOf(c)'
<1>0. Tables /\ workers[c] \in WorkerRecords
    BY CoreTables, PutBack
<1>1. claims'[c].status = "settled" /\ settlements'[c] = workers[c]
    BY <1>0 DEF Commit, Tables, ClaimRecords
<1>2. SlotOf(c)'
    BY NoneAssumption DEF MaintenanceOpen, SlotOf
<1>3. CASE ~attached
    <2>1. workers'[c] = workers[c] /\ workers[c].stage # "settled"
        BY <1>3, HeldRow DEF AttachSettlement
    <2> QED BY <1>1, <1>2, <2>1 DEF ReceiptOf, Held
<1>4. CASE attached
    <2>1. workers'[c] = SettledRow(workers[c], claims'[c], journal[c])
        BY <1>0, <1>4 DEF AttachSettlement, Tables
    <2>2. workers'[c].stage = "settled" /\ workers'[c].seen = Version(claims'[c], journal[c])
        BY <1>0, <2>1 DEF SettledRow, WorkerRecords
    <2>3. UpToDate(c)'
        BY <2>2 DEF UpToDate
    <2> QED BY <1>1, <1>2, <2>2, <2>3 DEF ReceiptOf, Held
<1> QED BY <1>3, <1>4

\* Settlement, and its recovery.
LEMMA SettlementRecovers ==
    ASSUME CoreInv, Holdings, NEW c \in Claims, SlotOf(c), ReceiptOf(c), SettlementStep(c)
    PROVE  SlotOf(c)' /\ ReceiptOf(c)'
<1>1. ASSUME NEW attached \in BOOLEAN, NEW actual \in Totals, SettleTerminal(c, actual, attached)
      PROVE  SlotOf(c)' /\ ReceiptOf(c)'
    BY <1>1, CommitRecovers DEF SettleTerminal, JournalOpen
<1>2. ASSUME NEW attached \in BOOLEAN, SettleNotCreated(c, attached)
      PROVE  SlotOf(c)' /\ ReceiptOf(c)'
    BY <1>2, CommitRecovers DEF SettleNotCreated
<1>3. CASE RecoverSettlement(c)
    <2>0. Tables /\ workers[c] \in WorkerRecords
        BY CoreTables, PutBack
    <2>1. /\ UNCHANGED <<claims, journal, settlements, meta>> /\ claims[c].status = "settled"
          /\ workers'[c] = SettledRow(workers[c], claims[c], journal[c])
        BY <1>3, <2>0 DEF RecoverSettlement, CanRecoverSettlement, Holdings, kernelVars, Tables
    <2>2. /\ workers'[c].stage = "settled" /\ workers'[c].status # "absent"
          /\ workers'[c].seen = Version(claims[c], journal[c])
          /\ workers'[c].runner = workers[c].runner
        BY <2>0, <2>1 DEF SettledRow, WorkerRecords
    <2>3. UpToDate(c)'
        BY <2>1, <2>2 DEF UpToDate
    <2> QED BY <2>1, <2>2, <2>3 DEF SlotOf, ReceiptOf, Held
<1> QED BY <1>1, <1>2, <1>3 DEF SettlementStep

\* Every step of a worker.
LEMMA TaskStepRecovers ==
    ASSUME CoreInv, Holdings, NEW c \in Claims, SlotOf(c), ReceiptOf(c), Moves(c), TaskStep(c)
    PROVE  SlotOf(c)' /\ ReceiptOf(c)'
<1>1. CASE NativeStep(c)
    <2>1. UNCHANGED <<claims, journal, settlements, workers, meta>>
        BY <1>1 DEF NativeStep, SendCreation, CreationEnds, SendTurn, TurnEnds, SendLaunch,
                    ProcessExits, LosePermit, Abandon, Native, kernelVars, ledgerVars
    <2> QED BY <2>1 DEF SlotOf, ReceiptOf, UpToDate
<1> QED BY <1>1, AdmissionRecovers, LifecycleRecovers, RunnerRecovers, SettlementRecovers DEF TaskStep

-------------------------------------------------------------------------------
(* Every step of the system, and what follows. *)

\* A step of one worker leaves the rows of the others, and their slot.
LEMMA OthersRecover ==
    ASSUME CoreInv, NEW c \in Claims, Moves(c), KeyMoves(c), SlotMoves(c),
           NEW d \in Claims \ {c}, SlotOf(d), ReceiptOf(d)
    PROVE  SlotOf(d)' /\ ReceiptOf(d)'
<1>1. /\ claims'[d] = claims[d] /\ journal'[d] = journal[d] /\ workers'[d] = workers[d]
    BY DEF Moves, Same
<1>2. settlements'[d] = settlements[d]
    BY CoreTables DEF KeyMoves, KeepsKeys, ReservesKeys, TakesRunner, ReturnsRunner, ReturnsAll, Tables
<1>3. meta'.runner = d => meta.runner = d
    BY NoneAssumption DEF SlotMoves
<1> QED BY <1>1, <1>2, <1>3 DEF SlotOf, ReceiptOf, UpToDate

\* It holds of an initialised platform.
LEMMA InitRecovers == DispatchInit => RecoveryInv
BY NoneAssumption DEF DispatchInit, RecoveryInv, SlotOf, ReceiptOf, NoClaim, NoWorker, Held

\* And every step keeps it.
LEMMA StepRecovers == DispatchInv /\ RecoveryInv /\ [DispatchNext]_dispatchVars => RecoveryInv'
<1> SUFFICES ASSUME DispatchInv, RecoveryInv, [DispatchNext]_dispatchVars PROVE RecoveryInv'
    OBVIOUS
<1>0. CoreInv /\ Holdings
    BY DEF DispatchInv, CoreInv
<1>1. ASSUME NEW c \in Claims, TaskStep(c) PROVE RecoveryInv'
    <2>1. Moves(c)
        BY <1>0, <1>1, TaskStepMoves
    <2>2. KeyMoves(c) /\ SlotMoves(c)
        BY <1>0, <1>1, <2>1, TaskStepKeys
    <2>3. SlotOf(c)' /\ ReceiptOf(c)'
        BY <1>0, <1>1, <2>1, TaskStepRecovers DEF RecoveryInv
    <2>4. ASSUME NEW d \in Claims \ {c} PROVE SlotOf(d)' /\ ReceiptOf(d)'
        BY <1>0, <2>1, <2>2, OthersRecover DEF RecoveryInv
    <2> QED BY <2>3, <2>4 DEF RecoveryInv
<1>2. CASE UNCHANGED <<claims, journal, settlements, workers, meta>>
    BY <1>2 DEF RecoveryInv, SlotOf, ReceiptOf, UpToDate
<1>3. CASE UNCHANGED <<claims, journal, settlements, workers>> /\ meta'.runner = meta.runner
    BY <1>3 DEF RecoveryInv, SlotOf, ReceiptOf, UpToDate
<1>4. ASSUME ControlNext \/ Fenced
      PROVE  UNCHANGED <<claims, journal, settlements, workers>> /\ meta'.runner = meta.runner
    BY <1>0, <1>4, ControlStepMoves DEF ControlMoves, ControlFrame, DispatchInv
<1>5. ASSUME UNCHANGED dispatchVars PROVE UNCHANGED <<claims, journal, settlements, workers, meta>>
    BY <1>5 DEF dispatchVars, kernelVars, ledgerVars
<1> QED BY <1>1, <1>2, <1>3, <1>4, <1>5 DEF DispatchNext, TaskStep

\* A row that lags, with no open marker and no other worker in the slot, has a
\* recovery all of whose requirements hold.
LEMMA LagHasRecovery == DispatchInv /\ RecoveryInv => LagIsRecoverable
<1> SUFFICES ASSUME DispatchInv, RecoveryInv, NEW c \in Claims,
                    workers[c].status # "absent", claims[c].status # "absent", ~UpToDate(c),
                    NoUnmatchedIntent(c), meta.runner \in {None, c}
             PROVE  CanRecoverAdmission(c) \/ CanRecoverNative(c) \/ CanRecoverSettlement(c)
    BY DEF LagIsRecoverable
<1>0. /\ SlotOf(c) /\ ReceiptOf(c) /\ Holdings /\ c # None
      /\ claims[c] \in ClaimRecords /\ journal[c] \in JournalRecords
      /\ workers[c] \in WorkerRecords
      /\ Life(c, claims[c], journal[c], workers[c], world[c], calls[c])
    BY PutBack, CoreTables, NoneAssumption DEF DispatchInv, CoreInv, RecoveryInv
<1>1. CASE claims[c].status = "settled"
    BY <1>0, <1>1, RowAssumption DEF CanRecoverSettlement, ReceiptOf
<1>2. CASE claims[c].status \in Held /\ journal[c].count = 0
    BY <1>0, <1>2 DEF CanRecoverAdmission, AdmissionClaim, ReceiptOf
<1>3. CASE claims[c].status \in Held /\ journal[c].count > 0
    <2>1. workers[c].attached # journal[c].count
        BY <1>0, <1>3 DEF ReceiptOf
    <2>2. AttachAllowed(c, workers[c], journal[c])
        BY <1>0 DEF AttachAllowed, NoUnmatchedIntent, SlotOf, Holdings
    <2>3. JournalOpen(c)
        BY <1>3 DEF JournalOpen
    <2> QED BY <1>3, <2>1, <2>2, <2>3 DEF CanRecoverNative
<1>4. claims[c].status \in Held \cup {"settled"}
    BY <1>0 DEF ClaimRecords, Held
<1>5. journal[c].count = 0 \/ journal[c].count > 0
    BY <1>0 DEF JournalRecords
<1> QED BY <1>1, <1>2, <1>3, <1>4, <1>5

\* Whatever crashes between the shared commit and the local one, and whatever
\* was paused, fenced or revoked since, the row that was left behind can be
\* brought up to date by a recovery that needs no authority.
THEOREM LagRecovers == DispatchSpec => []LagIsRecoverable
BY DispatchInitInv, InitRecovers, StepDispatchInv, StepRecovers, LagHasRecovery, PTL
   DEF DispatchSpec
===============================================================================
