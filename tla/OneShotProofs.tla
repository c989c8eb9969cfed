--------------------------- MODULE OneShotProofs ---------------------------
(* That running any table of plans keeps the promise of OneShotEffect. The     *)
(* inductive invariant says what a process that is between two steps of its     *)
(* plan can rely on: the records it has claimed, the checks it has passed, the  *)
(* locks it has taken. The plans themselves are constants: all that is used of  *)
(* them is in the assumptions of OneShotPlans.                                  *)
EXTENDS OneShot, TLAPS

\* Process a is past step i of its plan and not past step k.
At(a, i, k) == mode[a] = "run" /\ i < pc[a] /\ pc[a] <= k

\* It has claimed the effect r in this run of its plan and may still perform it.
Holding(a, r, j, k) ==
    /\ j \in ClaimsAt(flow[a], r) /\ k \in PerformsAt(flow[a], r)
    /\ Passes(flow[a], j, k) /\ At(a, j, k)
Held(a, r) == \E j, k \in DOMAIN Plan[flow[a]] : Holding(a, r, j, k)

\* A check that refuses is ahead of the process, on its way to step k.
Barred(a, k) ==
    \E i \in DOMAIN Plan[flow[a]] :
        /\ pc[a] <= i /\ Passes(flow[a], i, k)
        /\ Plan[flow[a]][i].do = "check" /\ Broken(Plan[flow[a]][i])

\* The directories that the records of the plans are in.
Places == UNION {{Plan[f][k].record[1] : k \in DOMAIN Plan[f]} : f \in Flows}

TypeInv ==
    /\ flow \in Assignments
    /\ pc \in [Actors -> Nat]
    /\ mode \in [Actors -> {"run", "failed", "over"}]
    /\ made \in [Actors -> SUBSET Places]

\* What was there, was done, or was claimed too late is on record; no effect was
\* done again.
OnRecord == Given[flow] \cup sent \cup fenced \subseteq journal /\ again = {}

\* A held effect is claimed, by one process, and not performed.
ClaimsHeld ==
    \A a \in Actors, r \in ClaimedEffects : Held(a, r) => r \in journal /\ r \notin Given[flow] \cup sent
HeldAlone ==
    \A a, b \in Actors, r \in ClaimedEffects : Held(a, r) /\ Held(b, r) => a = b

\* Between a process and an effect it claimed too late is a check that refuses.
LateStops ==
    \A a \in Actors, r \in ClaimedEffects : \A j, k \in DOMAIN Plan[flow[a]] :
        Holding(a, r, j, k) /\ r \in fenced => Barred(a, k)

\* Inside its locked steps a process holds the locks.
LocksHeld == \A a \in Actors : mode[a] = "run" /\ Locked(flow[a], pc[a]) => lock = a

\* An effect with a row leaves it, and a process that looked for either is right.
RowsKept ==
    \A r \in Effects \ ClaimedEffects, row \in Rows : RowFirst(r, row) =>
        /\ r \notin fenced \cup Given[flow]
        /\ r \in sent => row \in journal
        /\ \A a \in Actors : \A i \in DOMAIN Plan[flow[a]], k \in PerformsAt(flow[a], r) :
            At(a, i, k) =>
                /\ Looks(flow[a], i, k, row) => row \notin journal
                /\ Finds(flow[a], i, k, r) => r \in journal

IInv == TypeInv /\ OnRecord /\ ClaimsHeld /\ HeldAlone /\ LateStops /\ LocksHeld /\ RowsKept

-----------------------------------------------------------------------------
(* What a step does, whichever action it is of. *)

\* The process takes the step it is at, and goes on.
Takes(a) == mode[a] = "run" /\ mode'[a] = "run" /\ pc[a] \in DOMAIN Steps(a) /\ pc'[a] = pc[a] + 1

\* It starts, takes its step or a branch, or it stops running.
Moves(a) ==
    /\ flow' = flow
    /\ pc' \in [Actors -> Nat] /\ mode' \in [Actors -> {"run", "failed", "over"}]
    /\ \A b \in Actors \ {a} : pc'[b] = pc[b] /\ mode'[b] = mode[b]
    /\ mode'[a] = "run" =>
         \/ mode[a] = "over" /\ pc'[a] \in {1, ConfirmAt[flow[a]]}
         \/ Takes(a)
         \/ On(a, "fork") /\ pc'[a] = JumpTo(flow[a], pc[a])

\* It takes the locks from nobody, gives them back, or they stay as they are.
Locks(a) ==
    \/ On(a, "lock") /\ Takes(a) /\ lock = Nobody /\ lock' = a
    \/ On(a, "unlock") /\ Takes(a) /\ lock' = Nobody
    \/ ~On(a, "lock") /\ ~On(a, "unlock") /\ lock' = lock
    \/ mode'[a] # "run" /\ lock' \in {lock, Released(a)}

\* It creates a record that was not there; a claim that a changed fact, a rival
\* or a stop has overtaken is marked.
Writes(a) ==
    LET r == Step(a).record IN
    /\ On(a, "write") /\ Takes(a) /\ r \notin journal /\ journal' = journal \cup {r}
    /\ fenced' \subseteq fenced \cup {r} /\ fenced \subseteq fenced'
    /\ fenced' # fenced => \E c \in Rechecks[flow[a]][pc[a]] : Broken(c)
    /\ UNCHANGED <<sent, again>>

\* It performs the effect of its step, with its row if the effect is local.
Acts(a) ==
    LET r == Step(a).record IN
    /\ mode[a] = "run" /\ pc[a] \in DOMAIN Steps(a) /\ Performs(Step(a)) /\ Performed(r)
    /\ mode'[a] = "run" => Takes(a)
    /\ journal' = IF On(a, "commit") THEN journal \cup {Step(a).saves} ELSE journal
    /\ UNCHANGED fenced

\* It does neither. A check that it passes holds.
Rests(a) ==
    /\ journal \subseteq journal' /\ journal' \ journal \subseteq Leaves(flow[a])
    /\ mode'[a] = "run" => ~On(a, "write") /\ (On(a, "check") => Holds(Step(a)))
    /\ UNCHANGED <<sent, again, fenced>>

\* It claims a place by a record that it creates.
Makes(a) ==
    /\ made' \in [Actors -> SUBSET Places]
    /\ \A b \in Actors \ {a} : made'[b] = made[b]
    /\ made'[a] # made[a] =>
         Writes(a) /\ Marks(flow[a], Step(a).record) /\ made'[a] = made[a] \cup {Step(a).record[1]}

Stride(a) ==
    /\ Moves(a) /\ Locks(a) /\ Makes(a) /\ changed' = changed
    /\ Writes(a) \/ Acts(a) \/ Rests(a)

\* A step of the world around the processes, or none.
Around ==
    /\ UNCHANGED <<flow, pc, mode, made, lock, sent, again, fenced>>
    /\ changed \subseteq changed' /\ journal \subseteq journal'
    /\ \A r \in journal' \ journal : \E a \in Actors : r \in Leaves(flow[a])

\* Where a branch goes is a place in the plan.
LEMMA Jumps ==
    ASSUME TypeInv, NEW a \in Actors, On(a, "fork")
    PROVE  /\ pc[a] + 1 \in Nat /\ JumpTo(flow[a], pc[a]) \in Nat
           /\ JumpTo(flow[a], pc[a]) = pc[a] + 1 + Step(a).skip
BY PlanAssumption, ActorAssumption, SMT DEF TypeInv, On, Step, Steps, JumpTo

\* A process that refuses stops running and leaves the records alone.
LEMMA RefuseStride ==
    ASSUME TypeInv, NEW a \in Actors, mode[a] = "run", Refuse(a)
    PROVE  Stride(a)
<1>1. /\ Moves(a) /\ mode'[a] # "run"
  BY SMT DEF TypeInv, Refuse, Moves
<1>2. Locks(a)
  BY <1>1 DEF Refuse, Locks
<1>3. Rests(a) /\ Makes(a) /\ changed' = changed
  BY <1>1 DEF TypeInv, Refuse, Rests, Makes, effect
<1> QED BY <1>1, <1>2, <1>3 DEF Stride

\* A step that only goes on, at a check that holds or at a step that writes
\* nothing and touches no lock.
LEMMA GoStride ==
    ASSUME TypeInv, NEW a \in Actors, mode[a] = "run", pc[a] \in DOMAIN Steps(a),
           Goto(a, pc[a] + 1), UNCHANGED <<made, journal, lock, changed, sent, again, fenced>>,
           ~On(a, "write"), ~On(a, "lock"), ~On(a, "unlock"), On(a, "check") => Holds(Step(a))
    PROVE  Stride(a)
<1>1. Moves(a)
  BY SMT DEF TypeInv, Goto, Moves, Takes
<1>2. Locks(a)
  BY DEF Locks
<1>3. Rests(a) /\ Makes(a) /\ changed' = changed
  BY DEF TypeInv, Rests, Makes
<1> QED BY <1>1, <1>2, <1>3 DEF Stride

\* Every action of a process is a stride of it: one lemma for each.
LEMMA StartStride ==
    ASSUME TypeInv, NEW a \in Actors, Start(a)
    PROVE  Stride(a)
<1>0. flow[a] \in Flows /\ ConfirmAt[flow[a]] \in Nat
  BY PlanAssumption, ActorAssumption DEF TypeInv
<1>1. Moves(a)
  BY <1>0, SMT DEF TypeInv, Start, Moves
<1>2. Locks(a)
  BY DEF Start, Locks, disk, On
<1>3. Rests(a) /\ Makes(a) /\ changed' = changed
  BY DEF TypeInv, Start, Rests, Makes, disk, effect, On
<1> QED BY <1>1, <1>2, <1>3 DEF Stride

\* A check goes on when it holds and refuses otherwise.
LEMMA CheckStride ==
    ASSUME TypeInv, NEW a \in Actors, Check(a)
    PROVE  Stride(a)
<1>0. mode[a] = "run" /\ pc[a] \in DOMAIN Steps(a) /\ Step(a).do = "check"
  BY DEF Check, On
<1>1. CASE Holds(Step(a))
  BY <1>0, <1>1, GoStride DEF Check, On, disk, effect
<1>2. CASE ~Holds(Step(a))
  BY <1>0, <1>2, RefuseStride DEF Check
<1> QED BY <1>1, <1>2

\* A record that is there refuses; one that is not is created, and may claim a place.
LEMMA WriteStride ==
    ASSUME TypeInv, NEW a \in Actors, WriteRecord(a)
    PROVE  Stride(a)
<1> DEFINE r == Step(a).record
<1>0. mode[a] = "run" /\ pc[a] \in DOMAIN Steps(a) /\ Step(a).do = "write"
  BY DEF WriteRecord, On
<1>1. CASE r \in journal
  BY <1>0, <1>1, RefuseStride DEF WriteRecord
<1>2. CASE r \notin journal
  <2>1. /\ journal' = journal \cup {r} /\ Goto(a, pc[a] + 1)
        /\ fenced' = IF \E c \in Rechecks[flow[a]][pc[a]] : Broken(c) THEN fenced \cup {r} ELSE fenced
        /\ UNCHANGED <<lock, changed, sent, again>>
    BY <1>2 DEF WriteRecord
  <2>2. Moves(a) /\ Takes(a)
    BY <1>0, <2>1, SMT DEF TypeInv, Goto, Moves, Takes
  <2>3. Locks(a)
    BY <1>0, <2>1 DEF Locks, On
  <2>4. Writes(a)
    BY <1>0, <1>2, <2>1, <2>2 DEF Writes, On
  <2>5. Makes(a)
    <3>1. made' = [made EXCEPT ![a] = IF Marks(flow[a], r) THEN @ \cup {r[1]} ELSE @]
      BY <1>2 DEF WriteRecord
    <3>2. flow[a] \in Flows /\ pc[a] \in DOMAIN Plan[flow[a]] /\ r = Plan[flow[a]][pc[a]].record
      BY <1>0, ActorAssumption DEF TypeInv, Step, Steps
    <3>3. r[1] \in Places
      BY <3>2 DEF Places
    <3> HIDE DEF r
    <3>4. /\ made' \in [Actors -> SUBSET Places] /\ \A b \in Actors \ {a} : made'[b] = made[b]
          /\ made'[a] = IF Marks(flow[a], r) THEN made[a] \cup {r[1]} ELSE made[a]
      BY <3>1, <3>3 DEF TypeInv
    <3> QED BY <2>4, <3>4 DEF Makes, r
  <2> QED BY <2>1, <2>2, <2>3, <2>4, <2>5 DEF Stride
<1> QED BY <1>1, <1>2

\* A send is performed, with or without its answer, or refuses.
LEMMA SendStride ==
    ASSUME TypeInv, NEW a \in Actors, SendEffect(a)
    PROVE  Stride(a)
<1> DEFINE r == Step(a).record
<1>0. mode[a] = "run" /\ pc[a] \in DOMAIN Steps(a) /\ Step(a).do = "send"
  BY DEF SendEffect, On
<1>1. ~On(a, "commit") /\ ~On(a, "lock") /\ ~On(a, "unlock") /\ Performs(Step(a))
  BY <1>0 DEF On, Performs
<1>2. CASE Performed(r) /\ Goto(a, pc[a] + 1) /\ UNCHANGED <<made, disk, fenced>>
  <2>1. Moves(a) /\ Takes(a)
    BY <1>0, <1>2, SMT DEF TypeInv, Goto, Moves, Takes
  <2>2. Locks(a) /\ Acts(a) /\ Makes(a) /\ changed' = changed
    BY <1>0, <1>1, <1>2, <2>1 DEF TypeInv, Locks, Acts, Makes, disk
  <2> QED BY <2>1, <2>2 DEF Stride
<1>3. CASE /\ Performed(r) /\ mode' = [mode EXCEPT ![a] = "failed"] /\ lock' = Released(a)
           /\ UNCHANGED <<flow, pc, made, journal, changed, fenced>>
  <2>1. Moves(a) /\ mode'[a] # "run"
    BY <1>3, SMT DEF TypeInv, Moves
  <2>2. Locks(a) /\ Acts(a) /\ Makes(a) /\ changed' = changed
    BY <1>0, <1>1, <1>3, <2>1 DEF TypeInv, Locks, Acts, Makes
  <2> QED BY <2>1, <2>2 DEF Stride
<1>4. CASE Refuse(a)
  BY <1>0, <1>4, RefuseStride
<1> QED BY <1>2, <1>3, <1>4 DEF SendEffect

\* A commit performs its effect and leaves its row, or refuses.
LEMMA CommitStride ==
    ASSUME TypeInv, NEW a \in Actors, CommitEffect(a)
    PROVE  Stride(a)
<1> DEFINE r == Step(a).record
<1>0. mode[a] = "run" /\ pc[a] \in DOMAIN Steps(a) /\ Step(a).do = "commit" /\ On(a, "commit")
  BY DEF CommitEffect, On
<1>1. ~On(a, "lock") /\ ~On(a, "unlock") /\ Performs(Step(a))
  BY <1>0 DEF On, Performs
<1>2. CASE /\ Performed(r) /\ journal' = journal \cup {Step(a).saves} /\ Goto(a, pc[a] + 1)
           /\ UNCHANGED <<made, lock, changed, fenced>>
  <2>1. Moves(a) /\ Takes(a)
    BY <1>0, <1>2, SMT DEF TypeInv, Goto, Moves, Takes
  <2>2. Locks(a) /\ Acts(a) /\ Makes(a) /\ changed' = changed
    BY <1>0, <1>1, <1>2, <2>1 DEF TypeInv, Locks, Acts, Makes
  <2> QED BY <2>1, <2>2 DEF Stride
<1>3. CASE Refuse(a)
  BY <1>0, <1>3, RefuseStride
<1> QED BY <1>2, <1>3 DEF CommitEffect

\* An exec ends the process as far as the plan goes.
LEMMA ExecStride ==
    ASSUME TypeInv, NEW a \in Actors, ExecEffect(a)
    PROVE  Stride(a)
<1> DEFINE r == Step(a).record
<1>0. mode[a] = "run" /\ pc[a] \in DOMAIN Steps(a) /\ Step(a).do = "exec"
  BY DEF ExecEffect, On
<1>1. ~On(a, "commit") /\ ~On(a, "lock") /\ ~On(a, "unlock") /\ Performs(Step(a))
  BY <1>0 DEF On, Performs
<1>2. CASE /\ Performed(r) /\ mode' = [mode EXCEPT ![a] = "over"] /\ pc' = [pc EXCEPT ![a] = 0]
           /\ lock' = Released(a) /\ UNCHANGED <<flow, made, journal, changed, fenced>>
  <2>1. Moves(a) /\ mode'[a] # "run"
    BY <1>2, SMT DEF TypeInv, Moves
  <2>2. Locks(a) /\ Acts(a) /\ Makes(a) /\ changed' = changed
    BY <1>0, <1>1, <1>2, <2>1 DEF TypeInv, Locks, Acts, Makes
  <2> QED BY <2>1, <2>2 DEF Stride
<1>3. CASE Refuse(a)
  BY <1>0, <1>3, RefuseStride
<1> QED BY <1>2, <1>3 DEF ExecEffect

\* Observations and the backup write no record.
LEMMA ObserveStride ==
    ASSUME TypeInv, NEW a \in Actors, Observe(a) \/ BackUp(a) \/ VerifyBackup(a)
    PROVE  Stride(a)
<1>0. mode[a] = "run" /\ pc[a] \in DOMAIN Steps(a) /\ Step(a).do \in {"see", "copy", "manifest", "verify"}
  BY DEF Observe, BackUp, VerifyBackup, On
<1>1. CASE Goto(a, pc[a] + 1) /\ UNCHANGED <<made, disk, effect>>
  BY <1>0, <1>1, GoStride DEF On, disk, effect
<1>2. CASE Refuse(a)
  BY <1>0, <1>2, RefuseStride
<1> QED BY <1>1, <1>2 DEF Observe, BackUp, VerifyBackup

\* A branch stays in the plan.
LEMMA BranchStride ==
    ASSUME TypeInv, NEW a \in Actors, Branch(a)
    PROVE  Stride(a)
<1>0. On(a, "fork") /\ UNCHANGED <<made, disk, effect>>
  BY DEF Branch
<1>1. mode[a] = "run" /\ pc[a] \in DOMAIN Steps(a) /\ ~On(a, "lock") /\ ~On(a, "unlock")
      /\ ~On(a, "write") /\ ~On(a, "check")
  BY <1>0 DEF On
<1>2. Moves(a)
  <2>1. PICK k \in {pc[a] + 1, JumpTo(flow[a], pc[a])} : Goto(a, k)
    BY <1>0, Jumps DEF Branch
  <2>2. k \in Nat /\ (k = pc[a] + 1 \/ k = JumpTo(flow[a], pc[a]))
    BY <1>0, <2>1, Jumps
  <2> QED BY <1>0, <1>1, <2>1, <2>2, SMT DEF TypeInv, Goto, Moves, Takes
<1>3. Locks(a) /\ Rests(a) /\ Makes(a) /\ changed' = changed
  BY <1>0, <1>1 DEF TypeInv, Locks, Rests, Makes, disk, effect
<1> QED BY <1>2, <1>3 DEF Stride

\* The locks are taken from nobody and given back to nobody.
LEMMA LockStride ==
    ASSUME TypeInv, NEW a \in Actors, TakeLock(a) \/ ReleaseLock(a)
    PROVE  Stride(a)
<1>0. mode[a] = "run" /\ pc[a] \in DOMAIN Steps(a) /\ Goto(a, pc[a] + 1)
      /\ UNCHANGED <<made, journal, changed, effect>>
  BY DEF TakeLock, ReleaseLock, On
<1>1. ~On(a, "write") /\ ~On(a, "check")
  BY DEF TakeLock, ReleaseLock, On
<1>2. Moves(a) /\ Takes(a)
  BY <1>0, SMT DEF TypeInv, Goto, Moves, Takes
<1>3. Locks(a)
  BY <1>2 DEF TakeLock, ReleaseLock, Locks
<1>4. Rests(a) /\ Makes(a) /\ changed' = changed
  BY <1>0, <1>1 DEF TypeInv, Rests, Makes, effect
<1> QED BY <1>2, <1>3, <1>4 DEF Stride

\* The end of a confirmation leaves only what the table says it leaves.
LEMMA CloseStride ==
    ASSUME TypeInv, NEW a \in Actors, Close(a)
    PROVE  Stride(a)
<1>1. mode' = [mode EXCEPT ![a] = "over"] /\ pc' = [pc EXCEPT ![a] = 0] /\ UNCHANGED <<flow, made, lock, changed, effect>>
  BY DEF Close
<1>2. Moves(a) /\ mode'[a] # "run"
  BY <1>1, SMT DEF TypeInv, Moves
<1>3. journal \subseteq journal' /\ journal' \ journal \subseteq Leaves(flow[a])
  BY DEF Close, Leaves
<1>4. Locks(a) /\ Rests(a) /\ Makes(a) /\ changed' = changed
  BY <1>1, <1>2, <1>3 DEF TypeInv, Locks, Rests, Makes, effect
<1> QED BY <1>2, <1>4 DEF Stride

\* A crash leaves the records and frees the locks.
LEMMA CrashStride ==
    ASSUME TypeInv, NEW a \in Actors, Crash(a)
    PROVE  Stride(a)
<1>1. Moves(a) /\ mode'[a] # "run"
  BY SMT DEF TypeInv, Crash, Moves
<1>2. Locks(a) /\ Rests(a) /\ Makes(a) /\ changed' = changed
  BY <1>1 DEF TypeInv, Crash, Locks, Rests, Makes, effect
<1> QED BY <1>1, <1>2 DEF Stride

\* A step is a stride of one process or is around them all.
LEMMA StepKinds ==
    ASSUME TypeInv, [Next]_vars
    PROVE  Around \/ \E a \in Actors : Stride(a)
<1>1. CASE UNCHANGED vars
  BY <1>1 DEF vars, process, disk, effect, Around
<1>2. CASE Drift
  BY <1>2 DEF Drift, process, effect, Around
<1>3. CASE \E place \in Stoppable : Stop(place)
  <2>1. PICK place \in Stoppable : Stop(place)
    BY <1>3
  <2>2. PICK a \in Actors : place \in Table[flow[a]].stoppable
    BY <2>1 DEF Stop
  <2>3. journal' = journal \cup {<<place, "stop">>} /\ <<place, "stop">> \in Leaves(flow[a])
    BY <2>1, <2>2 DEF Stop, Leaves
  <2> QED BY <2>1, <2>3 DEF Stop, process, effect, Around
<1>4. ASSUME NEW a \in Actors,
             \/ Start(a) \/ Check(a) \/ WriteRecord(a) \/ SendEffect(a) \/ CommitEffect(a) \/ ExecEffect(a)
             \/ Observe(a) \/ Branch(a) \/ TakeLock(a) \/ ReleaseLock(a) \/ BackUp(a) \/ VerifyBackup(a)
             \/ Close(a) \/ Crash(a)
      PROVE  Stride(a)
  BY <1>4, StartStride, CheckStride, WriteStride, SendStride, CommitStride, ExecStride, ObserveStride,
     BranchStride, LockStride, CloseStride, CrashStride
<1> QED BY <1>1, <1>2, <1>3, <1>4 DEF Next

-----------------------------------------------------------------------------
(* Where a process is between two steps of its plan. *)

\* A process that comes past a step of its plan on the way to a later one takes
\* that step, whatever branches are between them; only its own stride moves it.
LEMMA ComesPast ==
    ASSUME TypeInv, NEW a \in Actors, NEW b \in Actors, Stride(a),
           NEW i, NEW k, Passes(flow[b], i, k), At(b, i, k)', k \in Nat
    PROVE  At(b, i, k) \/ (a = b /\ Takes(a) /\ pc[a] = i)
<1>0. flow[b] \in Flows /\ i \in Nat /\ ConfirmAt[flow[b]] \in Nat \ {0} /\ ConfirmAt[flow[b]] <= i
  BY PlanAssumption, ActorAssumption DEF TypeInv, Passes
<1>1. mode'[b] = "run" /\ i < pc'[b] /\ pc'[b] <= k /\ pc[b] \in Nat /\ pc'[b] \in Nat
  BY SMT DEF At, Stride, Moves, TypeInv
<1>2. CASE a # b
  BY <1>1, <1>2 DEF Stride, Moves, At
<1>3. CASE a = b /\ mode[a] = "over" /\ pc'[a] \in {1, ConfirmAt[flow[a]]}
  BY <1>0, <1>1, <1>3, SMT
<1>4. CASE a = b /\ Takes(a)
  BY <1>0, <1>1, <1>4, SMT DEF Takes, At
<1>5. CASE a = b /\ On(a, "fork") /\ pc'[a] = JumpTo(flow[a], pc[a])
  <2>1. pc[a] \in DOMAIN Plan[flow[a]] /\ Plan[flow[a]][pc[a]].do = "fork" /\ mode[a] = "run"
    BY <1>5 DEF On, Step, Steps
  <2>2. ~(pc[a] <= i /\ i < pc'[a] /\ pc'[a] <= k)
    BY <1>5, <2>1 DEF Passes
  <2>3. pc[a] < pc'[a]
    BY <1>0, <1>5, <2>1, PlanAssumption, SMT DEF JumpTo, TypeInv
  <2>4. i < pc[a] /\ pc[a] <= k
    BY <1>0, <1>1, <1>5, <2>2, <2>3, SMT
  <2> QED BY <1>5, <2>1, <2>4 DEF At
<1> QED BY <1>1, <1>2, <1>3, <1>4, <1>5 DEF Stride, Moves

\* The flows, and so the plans, stay; what has spoken against a step has spoken
\* for good.
LEMMA Lasting ==
    ASSUME TypeInv, Around \/ \E a \in Actors : Stride(a)
    PROVE  /\ flow' = flow /\ journal \subseteq journal' /\ changed \subseteq changed'
           /\ \A c : Broken(c) => Broken(c)'
           /\ Given[flow]' = Given[flow]
<1>1. CASE Around
  BY <1>1 DEF Around, Broken
<1>2. CASE \E a \in Actors : Stride(a)
  BY <1>2 DEF Stride, Moves, Writes, Acts, Rests, Broken
<1> QED BY <1>1, <1>2

\* The flows, the places in the plans and the claimed places keep their shape.
LEMMA TypeKept ==
    ASSUME TypeInv, Around \/ \E a \in Actors : Stride(a)
    PROVE  TypeInv'
BY DEF TypeInv, Around, Stride, Moves, Makes

-----------------------------------------------------------------------------
(* The locks. *)

\* The locked positions follow each other: what makes one locked is the lock step
\* before it, or that the one before it is locked and does not unlock.
LEMMA LockedNext ==
    ASSUME NEW f \in Flows, NEW p \in Nat, Locked(f, p + 1)
    PROVE  \/ p \in DOMAIN Plan[f] /\ Plan[f][p].do = "lock"
           \/ Locked(f, p) /\ ~(p \in DOMAIN Plan[f] /\ Plan[f][p].do = "unlock")
<1>0. DOMAIN Plan[f] \subseteq Nat
  BY PlanAssumption
<1>1. PICK q \in DOMAIN Plan[f] : q < p + 1 /\ Plan[f][q].do = "lock" /\ Unbroken(f, q, p + 1)
  BY DEF Locked
<1>2. q \in Nat
  BY <1>0
<1>3. CASE q = p
  BY <1>1, <1>3
<1>4. CASE q # p
  <2>1. q < p /\ Unbroken(f, q, p)
    BY <1>0, <1>1, <1>2, <1>4, SMT DEF Unbroken
  <2>2. ~(p \in DOMAIN Plan[f] /\ Plan[f][p].do = "unlock")
    BY <1>1, <1>2, <2>1, SMT DEF Unbroken
  <2> QED BY <1>1, <2>1, <2>2 DEF Locked
<1> QED BY <1>3, <1>4

\* Inside its locked steps a process holds the locks: nobody else takes them, and
\* it gives them back only where it leaves those steps.
LEMMA LocksKept ==
    ASSUME TypeInv, LocksHeld, NEW a \in Actors, Stride(a)
    PROVE  LocksHeld'
<1> SUFFICES ASSUME NEW b \in Actors, mode'[b] = "run", Locked(flow[b], pc'[b])
             PROVE  lock' = b
  BY Lasting DEF LocksHeld
<1>0. /\ flow[b] \in Flows /\ flow[a] \in Flows /\ pc[a] \in Nat /\ pc[b] \in Nat /\ Nobody \notin Actors
      /\ mode[b] = "run" /\ Locked(flow[b], pc[b]) => lock = b
      /\ mode[a] = "run" /\ Locked(flow[a], pc[a]) => lock = a
  BY PlanAssumption, ActorAssumption DEF TypeInv, LocksHeld, Nobody
<1>1. CASE a # b
  <2>1. mode[b] = "run" /\ Locked(flow[b], pc[b]) /\ lock = b
    BY <1>0, <1>1 DEF Stride, Moves
  <2>2. CASE On(a, "lock") /\ lock = Nobody
    BY <1>0, <2>1, <2>2
  <2>3. CASE On(a, "unlock")
    <3>1. Locked(flow[a], pc[a]) /\ mode[a] = "run"
      BY <1>0, <2>3, PlanAssumption DEF On, Step, Steps
    <3> QED BY <1>0, <1>1, <2>1, <3>1
  <2>4. CASE lock' \in {lock, Released(a)}
    BY <1>1, <2>1, <2>4 DEF Released
  <2> QED BY <2>2, <2>3, <2>4 DEF Stride, Locks
<1>2. CASE a = b /\ mode[a] = "over" /\ pc'[a] \in {1, ConfirmAt[flow[a]]}
  BY <1>0, <1>2, PlanAssumption
<1>3. CASE a = b /\ Takes(a)
  <2>1. mode[a] = "run" /\ pc[a] \in DOMAIN Plan[flow[a]] /\ Locked(flow[a], pc[a] + 1)
    BY <1>3 DEF Takes, Steps
  <2>2. CASE Plan[flow[a]][pc[a]].do = "lock"
    BY <1>3, <2>1, <2>2 DEF Stride, Locks, On, Step, Steps
  <2>3. CASE Locked(flow[a], pc[a]) /\ Plan[flow[a]][pc[a]].do # "unlock"
    BY <1>0, <1>3, <2>1, <2>3 DEF Stride, Locks, On, Step, Steps
  <2> QED BY <1>0, <2>1, <2>2, <2>3, LockedNext
<1>4. CASE a = b /\ On(a, "fork") /\ pc'[a] = JumpTo(flow[a], pc[a])
  <2>1. mode[a] = "run" /\ Locked(flow[a], pc[a])
    BY <1>0, <1>4, PlanAssumption DEF On, Step, Steps
  <2>2. ~On(a, "lock") /\ ~On(a, "unlock")
    BY <1>4 DEF On
  <2> QED BY <1>0, <1>4, <2>1, <2>2 DEF Stride, Locks
<1> QED BY <1>1, <1>2, <1>3, <1>4 DEF Stride, Moves

\* From the check that looks for the row up to the commit the locks are held.
LEMMA LookLocked ==
    ASSUME NEW f \in Flows, NEW i, NEW k \in Nat, NEW row, Looks(f, i, k, row),
           NEW p \in Nat, i < p, p <= k
    PROVE  Locked(f, p)
<1>0. DOMAIN Plan[f] \subseteq Nat /\ i \in DOMAIN Plan[f] /\ i \in Nat
  BY PlanAssumption DEF Looks, Passes
<1>1. PICK q \in DOMAIN Plan[f] : q < i /\ Plan[f][q].do = "lock" /\ Unbroken(f, q, i)
  BY DEF Looks, Locked
<1>2. Plan[f][i].do = "check" /\ Unbroken(f, i, k)
  BY DEF Looks
<1>3. ASSUME NEW u \in DOMAIN Plan[f], q < u, u < p
      PROVE  Plan[f][u].do # "unlock"
  <2>1. u \in Nat /\ q \in Nat
    BY <1>0
  <2>2. CASE u < i
    BY <1>1, <1>3, <2>2 DEF Unbroken
  <2>3. CASE u = i
    BY <1>2, <2>3
  <2>4. CASE i < u
    <3>1. u < k
      BY <1>0, <1>3, <2>1, SMT
    <3> QED BY <1>2, <1>3, <2>4, <3>1 DEF Unbroken
  <2> QED BY <1>0, <2>1, <2>2, <2>3, <2>4, SMT
<1>4. q < p
  BY <1>0, <1>1, SMT
<1> QED BY <1>1, <1>3, <1>4 DEF Locked, Unbroken

-----------------------------------------------------------------------------
(* The claims. *)

\* What a process at a performing step stands on: a claim of its own of an effect
\* that has not been performed, or the row and the claim it has looked for.
LEMMA AtEffect ==
    ASSUME TypeInv, NEW a \in Actors, mode[a] = "run", pc[a] \in DOMAIN Steps(a), Performs(Step(a))
    PROVE  /\ Step(a).record \in Effects /\ pc[a] \in PerformsAt(flow[a], Step(a).record)
           /\ flow[a] \in Flows /\ pc[a] \in Nat
<1> DEFINE f == flow[a]
           k == pc[a]
<1>1. f \in Flows /\ k \in Nat
  BY ActorAssumption DEF TypeInv
<1>2. k \in DOMAIN Plan[f] /\ Performs(Plan[f][k]) /\ Step(a) = Plan[f][k]
  BY DEF Steps, Step
<1> HIDE DEF f, k
<1>3. Plan[f][k].record \in EffectsOf[f] /\ k \in PerformsAt(f, Plan[f][k].record)
  BY <1>1, <1>2 DEF EffectsOf, PerformsAt
<1>4. Plan[f][k].record \in Effects
  BY <1>1, <1>3 DEF Effects
<1> QED BY <1>1, <1>2, <1>3, <1>4 DEF f, k

\* At a performing step of a claimed effect the process holds the claim.
LEMMA HeldAtEffect ==
    ASSUME TypeInv, NEW a \in Actors, mode[a] = "run", pc[a] \in DOMAIN Steps(a), Performs(Step(a)),
           Step(a).record \in ClaimedEffects
    PROVE  \E j \in DOMAIN Plan[flow[a]] : Holding(a, Step(a).record, j, pc[a])
<1> DEFINE r == Step(a).record
           f == flow[a]
           k == pc[a]
<1>1. f \in Flows /\ k \in PerformsAt(f, r) /\ k \in Nat
  BY AtEffect
<1>2. PICK j \in ClaimsAt(f, r) : Passes(f, j, k)
  BY <1>1 DEF ClaimedEffects, ClaimedFirst
<1>3. j \in DOMAIN Plan[f] /\ j < k
  BY <1>2 DEF ClaimsAt, Passes
<1>4. At(a, j, k)
  BY <1>1, <1>3, SMT DEF At
<1> QED BY <1>1, <1>2, <1>3, <1>4 DEF Holding

\* A claim with its two steps is a claim held.
LEMMA HeldFrom ==
    ASSUME TypeInv, NEW a \in Actors, NEW r, NEW j, NEW k, Holding(a, r, j, k)
    PROVE  Held(a, r)
BY DEF Holding, Held, ClaimsAt, PerformsAt

\* An effect about to be performed is claimed, not too late, and not performed.
LEMMA MayPerform ==
    ASSUME IInv, NEW a \in Actors, mode[a] = "run", pc[a] \in DOMAIN Steps(a), Performs(Step(a))
    PROVE  Step(a).record \in journal /\ Step(a).record \notin Given[flow] \cup sent \cup fenced
<1> DEFINE r == Step(a).record
           f == flow[a]
           k == pc[a]
<1>0. TypeInv
  BY DEF IInv
<1>1. f \in Flows /\ k \in PerformsAt(f, r) /\ k \in Nat /\ r \in Effects
  BY <1>0, AtEffect
<1>2. CASE r \in ClaimedEffects
  <2>1. PICK j \in DOMAIN Plan[f] : Holding(a, r, j, k)
    BY <1>0, <1>2, HeldAtEffect
  <2>2. Held(a, r)
    BY <1>0, <2>1, HeldFrom
  <2>3. r \in journal /\ r \notin Given[flow] \cup sent
    BY <1>2, <2>2 DEF IInv, ClaimsHeld
  <2>4. k \in DOMAIN Plan[f]
    BY <1>1 DEF PerformsAt
  <2>5. ~Barred(a, k)
    <3> SUFFICES ASSUME NEW i \in DOMAIN Plan[f], k <= i, i < k PROVE FALSE
      BY DEF Barred, Passes
    <3>1. i \in Nat
      BY <1>1, PlanAssumption
    <3> QED BY <1>1, <3>1, SMT
  <2>6. r \notin fenced
    BY <1>2, <2>1, <2>4, <2>5 DEF IInv, LateStops
  <2> QED BY <2>3, <2>6
<1>3. CASE r \notin ClaimedEffects
  <2>1. PICK row \in Rows : RowFirst(r, row)
    BY <1>1, <1>3, EffectAssumption
  <2>2. PICK i \in DOMAIN Plan[f] : Looks(f, i, k, row)
    BY <1>1, <2>1 DEF RowFirst
  <2>3. PICK n \in DOMAIN Plan[f] : Finds(f, n, k, r)
    BY <1>1, <2>1 DEF RowFirst
  <2>4. At(a, i, k) /\ At(a, n, k)
    BY <1>1, <2>2, <2>3, SMT DEF At, Looks, Finds, Passes
  <2>5. row \notin journal /\ r \in journal /\ r \notin fenced \cup Given[flow] /\ (r \in sent => row \in journal)
    BY <1>1, <1>3, <2>1, <2>2, <2>3, <2>4 DEF IInv, RowsKept
  <2> QED BY <2>5
<1> QED BY <1>2, <1>3

\* A claim that a process holds after a step it held before, or this step wrote it.
LEMMA HoldingStep ==
    ASSUME TypeInv, NEW a \in Actors, NEW b \in Actors, Stride(a),
           NEW r, NEW j, NEW k, Holding(b, r, j, k)'
    PROVE  \/ Holding(b, r, j, k)
           \/ a = b /\ Takes(a) /\ pc[a] = j /\ Step(a).record = r /\ Writes(a)
<1>1. /\ j \in ClaimsAt(flow[b], r) /\ k \in PerformsAt(flow[b], r)
      /\ Passes(flow[b], j, k) /\ At(b, j, k)'
  BY Lasting DEF Holding
<1>2. k \in Nat
  BY <1>1, PlanAssumption, ActorAssumption DEF PerformsAt, TypeInv
<1>3. CASE At(b, j, k)
  BY <1>1, <1>3 DEF Holding
<1>4. CASE a = b /\ Takes(a) /\ pc[a] = j
  <2>1. On(a, "write") /\ Step(a).record = r
    BY <1>1, <1>4 DEF ClaimsAt, On, Step, Steps, Takes
  <2>2. ~Performs(Step(a)) /\ mode'[a] = "run"
    BY <1>4, <2>1 DEF Performs, On, Takes
  <2> QED BY <1>4, <2>1, <2>2 DEF Stride, Acts, Rests
<1> QED BY <1>1, <1>2, <1>3, <1>4, ComesPast

\* The same, whatever the steps.
LEMMA HeldStep ==
    ASSUME TypeInv, NEW a \in Actors, NEW b \in Actors, Stride(a), NEW r, Held(b, r)'
    PROVE  Held(b, r) \/ (a = b /\ Step(a).record = r /\ Writes(a))
<1>1. PICK j \in DOMAIN Plan[flow[b]], k \in DOMAIN Plan[flow[b]] : Holding(b, r, j, k)'
  BY Lasting DEF Held
<1> QED BY <1>1, HoldingStep, HeldFrom

\* An effect that is performed was claimed and had not been performed; what a
\* step claims was not on record.
LEMMA OnRecordKept ==
    ASSUME IInv, NEW a \in Actors, Stride(a)
    PROVE  OnRecord'
<1>0. TypeInv /\ OnRecord /\ Given[flow]' = Given[flow] /\ journal \subseteq journal'
  BY Lasting DEF IInv
<1>1. CASE Writes(a)
  BY <1>0, <1>1 DEF OnRecord, Writes
<1>2. CASE Acts(a)
  <2>1. Step(a).record \in journal /\ Step(a).record \notin sent
    BY <1>2, MayPerform DEF Acts
  <2> QED BY <1>0, <1>2, <2>1 DEF OnRecord, Acts, Performed
<1>3. CASE Rests(a)
  BY <1>0, <1>3 DEF OnRecord, Rests
<1> QED BY <1>1, <1>2, <1>3 DEF Stride

\* A process past its claim has not performed the effect, nor has another.
LEMMA ClaimsKept ==
    ASSUME IInv, NEW a \in Actors, Stride(a)
    PROVE  ClaimsHeld'
<1>0. TypeInv /\ OnRecord /\ flow' = flow /\ Given[flow]' = Given[flow] /\ journal \subseteq journal'
  BY Lasting DEF IInv
<1> SUFFICES ASSUME NEW b \in Actors, NEW r \in ClaimedEffects, Held(b, r)'
             PROVE  r \in journal' /\ r \notin Given[flow] /\ r \notin sent'
  BY <1>0 DEF ClaimsHeld
<1>1. CASE Step(a).record = r /\ Writes(a)
  BY <1>0, <1>1 DEF Writes, OnRecord
<1>2. CASE Held(b, r) /\ ~Acts(a)
  <2>1. sent' = sent
    BY <1>2 DEF Stride, Writes, Rests
  <2> QED BY <1>0, <1>2, <2>1 DEF IInv, ClaimsHeld
<1>3. CASE Held(b, r) /\ Acts(a)
  <2>1. r \in journal /\ r \notin Given[flow] \cup sent
    BY <1>3 DEF IInv, ClaimsHeld
  <2>2. CASE Step(a).record # r
    BY <1>0, <1>3, <2>1, <2>2 DEF Acts, Performed
  <2>3. CASE Step(a).record = r
    <3>1. mode[a] = "run" /\ pc[a] \in DOMAIN Steps(a) /\ Performs(Step(a))
      BY <1>3 DEF Acts
    <3>2. PICK j \in DOMAIN Plan[flow[a]] : Holding(a, r, j, pc[a])
      BY <1>0, <2>3, <3>1, HeldAtEffect
    <3>3. a = b
      BY <1>0, <1>3, <3>2, HeldFrom DEF IInv, HeldAlone
    <3>4. PICK i \in DOMAIN Plan[flow[b]], k \in DOMAIN Plan[flow[b]] : Holding(b, r, i, k)'
      BY <1>0 DEF Held
    <3>5. k \in PerformsAt(flow[a], r) /\ pc[a] \in PerformsAt(flow[a], r) /\ flow[a] \in Flows /\ pc[a] \in Nat
      BY <1>0, <2>3, <3>1, <3>3, <3>4, AtEffect DEF Holding
    <3>6. k = pc[a]
      BY <3>5 DEF ClaimedEffects, ClaimedFirst
    <3>7. mode'[a] = "run" /\ pc'[a] <= pc[a]
      BY <3>3, <3>4, <3>6 DEF Holding, At
    <3>8. pc'[a] = pc[a] + 1
      BY <1>3, <3>7 DEF Acts, Takes
    <3> QED BY <3>5, <3>7, <3>8, SMT
  <2> QED BY <2>2, <2>3
<1> QED BY <1>0, <1>1, <1>2, <1>3, HeldStep

\* A claim that is written was nobody's.
LEMMA AloneKept ==
    ASSUME IInv, NEW a \in Actors, Stride(a)
    PROVE  HeldAlone'
<1>0. TypeInv /\ ClaimsHeld /\ HeldAlone
  BY DEF IInv
<1> SUFFICES ASSUME NEW b \in Actors, NEW c \in Actors, NEW r \in ClaimedEffects, Held(b, r)', Held(c, r)'
             PROVE  b = c
  BY DEF HeldAlone
<1>1. Held(b, r) \/ (a = b /\ Step(a).record = r /\ Writes(a))
  BY <1>0, HeldStep
<1>2. Held(c, r) \/ (a = c /\ Step(a).record = r /\ Writes(a))
  BY <1>0, HeldStep
<1>3. Step(a).record = r /\ Writes(a) => ~Held(b, r) /\ ~Held(c, r)
  BY <1>0 DEF ClaimsHeld, Writes
<1> QED BY <1>0, <1>1, <1>2, <1>3 DEF HeldAlone

\* A claim that was overtaken has a check ahead of it that refuses for good.
LEMMA LateKept ==
    ASSUME IInv, NEW a \in Actors, Stride(a)
    PROVE  LateStops'
<1>0. /\ TypeInv /\ OnRecord /\ ClaimsHeld /\ flow' = flow
      /\ \A c : Broken(c) => Broken(c)'
  BY Lasting DEF IInv
<1> SUFFICES ASSUME NEW b \in Actors, NEW r \in ClaimedEffects,
                    NEW j \in DOMAIN Plan[flow[b]], NEW k \in DOMAIN Plan[flow[b]],
                    Holding(b, r, j, k)', r \in fenced'
             PROVE  Barred(b, k)'
  BY <1>0 DEF LateStops
<1>1. /\ flow[b] \in Flows /\ k \in Nat /\ j \in Nat /\ pc[b] \in Nat /\ pc'[b] \in Nat
      /\ DOMAIN Plan[flow[b]] \subseteq Nat
  BY <1>0, TypeKept, PlanAssumption, ActorAssumption DEF TypeInv
<1>2. CASE Holding(b, r, j, k) /\ r \in fenced
  <2>1. Barred(b, k)
    BY <1>2 DEF IInv, LateStops
  <2>2. PICK i \in DOMAIN Plan[flow[b]] :
          /\ pc[b] <= i /\ Passes(flow[b], i, k)
          /\ Plan[flow[b]][i].do = "check" /\ Broken(Plan[flow[b]][i])
    BY <2>1 DEF Barred
  <2>3. pc'[b] <= i
    <3> SUFFICES ASSUME ~(pc'[b] <= i) PROVE FALSE
      OBVIOUS
    <3>1. At(b, i, k)' /\ i \in Nat
      BY <1>1, SMT DEF Holding, At
    <3>2. ~At(b, i, k)
      BY <1>1, <2>2, <3>1, SMT DEF At
    <3>3. a = b /\ Takes(a) /\ pc[a] = i
      BY <1>0, <1>1, <2>2, <3>1, <3>2, ComesPast
    <3>4. On(a, "check") /\ Step(a) = Plan[flow[b]][i] /\ ~On(a, "write") /\ ~Performs(Step(a))
      BY <2>2, <3>3 DEF On, Step, Steps, Takes, Performs
    <3>5. Holds(Step(a))
      BY <3>3, <3>4 DEF Stride, Writes, Acts, Rests, Takes
    <3> QED BY <2>2, <3>4, <3>5 DEF Holds
  <2>4. Broken(Plan[flow[b]][i])'
    BY <1>0, <2>2
  <2> QED BY <1>0, <2>2, <2>3, <2>4 DEF Barred
<1>3. CASE Holding(b, r, j, k) /\ r \notin fenced
  <2>1. r \in journal
    BY <1>0, <1>3, HeldFrom DEF ClaimsHeld
  <2> QED BY <1>3, <2>1 DEF Stride, Writes, Acts, Rests
<1>4. CASE a = b /\ Takes(a) /\ pc[a] = j /\ Step(a).record = r /\ Writes(a)
  <2>1. r \notin fenced
    BY <1>0, <1>4 DEF Writes, OnRecord
  <2>2. PICK c \in Rechecks[flow[a]][pc[a]] : Broken(c)
    BY <1>4, <2>1 DEF Writes
  <2>3. flow[a] \in Flows /\ j \in DOMAIN Plan[flow[a]] /\ Plan[flow[a]][j].record = r
        /\ pc'[a] = j + 1
    BY <1>1, <1>4 DEF Takes, Step, Steps
  <2>4. r \in Table[flow[a]].fenced /\
        \E i \in DOMAIN Plan[flow[a]] :
            /\ j < i /\ Plan[flow[a]][i].do = "check" /\ c = Plan[flow[a]][i]
            /\ \E s \in DOMAIN Plan[flow[a]] :
                /\ i < s /\ Performs(Plan[flow[a]][s]) /\ Plan[flow[a]][s].record = r
    BY <1>4, <2>2, <2>3 DEF Rechecks
  <2>5. PICK i \in DOMAIN Plan[flow[a]], s \in DOMAIN Plan[flow[a]] :
          /\ j < i /\ Plan[flow[a]][i].do = "check" /\ c = Plan[flow[a]][i]
          /\ i < s /\ Performs(Plan[flow[a]][s]) /\ Plan[flow[a]][s].record = r
    BY <2>4
  <2>6. k \in PerformsAt(flow[a], r) /\ s \in PerformsAt(flow[a], r) /\ j \in ClaimsAt(flow[a], r)
    BY <1>0, <1>4, <2>5 DEF PerformsAt, Holding
  <2>7. k = s
    BY <2>3, <2>6 DEF ClaimedEffects, ClaimedFirst
  <2>8. Passes(flow[a], i, k)
    BY <2>3, <2>4, <2>5, <2>6, <2>7 DEF ClaimedEffects, ClaimedFirst
  <2>9. pc'[a] <= i
    BY <1>1, <1>4, <2>3, <2>5, SMT
  <2> QED BY <1>0, <1>4, <2>2, <2>5, <2>8, <2>9 DEF Barred
<1> QED BY <1>0, <1>2, <1>3, <1>4, HoldingStep

-----------------------------------------------------------------------------
(* The rows. *)

\* What a process has looked for under the locks is as it was when it looked, and
\* an effect and its row are there together.
LEMMA RowsStay ==
    ASSUME IInv, NEW a \in Actors, Stride(a)
    PROVE  RowsKept'
<1>0. /\ TypeInv /\ OnRecord /\ RowsKept /\ LocksHeld
      /\ flow' = flow /\ Given[flow]' = Given[flow] /\ journal \subseteq journal'
  BY Lasting DEF IInv
<1>1. flow[a] \in Flows
  BY <1>0, ActorAssumption DEF TypeInv
<1>2. ASSUME NEW r \in Effects \ ClaimedEffects, NEW row \in Rows, RowFirst(r, row)
      PROVE  r \notin fenced' \cup Given[flow]
  <2>1. r \notin fenced \cup Given[flow]
    BY <1>0, <1>2 DEF RowsKept
  <2>2. CASE r \in fenced'
    <3>1. Writes(a) /\ Step(a).record = r /\ fenced' # fenced
      BY <2>1, <2>2 DEF Stride, Writes, Acts, Rests
    <3>2. pc[a] \in DOMAIN Plan[flow[a]] /\ Plan[flow[a]][pc[a]].record = r
      BY <3>1 DEF Writes, Takes, Step, Steps
    <3>3. Rechecks[flow[a]][pc[a]] # {}
      BY <3>1 DEF Writes
    <3>4. r \in Table[flow[a]].fenced
      BY <1>1, <3>2, <3>3 DEF Rechecks
    <3> QED BY <1>1, <1>2, <3>4 DEF RowFirst
  <2> QED BY <2>1, <2>2
<1>3. ASSUME NEW r \in Effects \ ClaimedEffects, NEW row \in Rows, RowFirst(r, row), r \in sent'
      PROVE  row \in journal'
  <2>1. CASE r \in sent
    BY <1>0, <1>3, <2>1 DEF RowsKept
  <2>2. CASE r \notin sent
    <3>1. Acts(a) /\ Step(a).record = r
      BY <1>3, <2>2 DEF Stride, Writes, Acts, Rests, Performed
    <3>2. pc[a] \in PerformsAt(flow[a], r) /\ mode[a] = "run" /\ pc[a] \in DOMAIN Steps(a)
      BY <1>0, <3>1, AtEffect DEF Acts
    <3>3. Step(a).do = "commit" /\ Step(a).saves = row
      BY <1>1, <1>3, <3>2 DEF RowFirst, Step, Steps
    <3> QED BY <3>1, <3>2, <3>3 DEF Acts, On
  <2> QED BY <2>1, <2>2
<1>4. ASSUME NEW r \in Effects \ ClaimedEffects, NEW row \in Rows, RowFirst(r, row), NEW b \in Actors,
             NEW i \in DOMAIN Plan[flow[b]], NEW k \in PerformsAt(flow[b], r), At(b, i, k)',
             Plan[flow[b]][i].do = "check", Passes(flow[b], i, k), ~At(b, i, k)
      PROVE  a = b /\ Rests(a) /\ Holds(Plan[flow[b]][i])
  <2>1. k \in Nat
    BY <1>0, PlanAssumption, ActorAssumption DEF PerformsAt, TypeInv
  <2>2. a = b /\ Takes(a) /\ pc[a] = i
    BY <1>0, <1>4, <2>1, ComesPast
  <2>3. On(a, "check") /\ Step(a) = Plan[flow[b]][i] /\ ~On(a, "write") /\ ~Performs(Step(a)) /\ mode'[a] = "run"
    BY <1>4, <2>2 DEF On, Step, Steps, Takes, Performs
  <2> QED BY <2>2, <2>3 DEF Stride, Writes, Acts, Rests
<1>5. ASSUME NEW r \in Effects \ ClaimedEffects, NEW row \in Rows, RowFirst(r, row), NEW b \in Actors,
             NEW i \in DOMAIN Plan[flow[b]], NEW k \in PerformsAt(flow[b], r), At(b, i, k)',
             Finds(flow[b], i, k, r)
      PROVE  r \in journal'
  <2>1. CASE At(b, i, k)
    BY <1>0, <1>5, <2>1 DEF RowsKept
  <2>2. CASE ~At(b, i, k)
    BY <1>0, <1>4, <1>5, <2>2 DEF Finds, Holds
  <2> QED BY <2>1, <2>2
<1>6. ASSUME NEW r \in Effects \ ClaimedEffects, NEW row \in Rows, RowFirst(r, row), NEW b \in Actors,
             NEW i \in DOMAIN Plan[flow[b]], NEW k \in PerformsAt(flow[b], r), At(b, i, k)',
             Looks(flow[b], i, k, row)
      PROVE  row \notin journal'
  <2>1. row \notin Leaves(flow[a])
    BY <1>1, <1>6 DEF RowFirst
  <2>2. CASE ~At(b, i, k)
    BY <1>4, <1>6, <2>1, <2>2 DEF Looks, Holds, Broken, Rests
  <2>3. CASE At(b, i, k)
    <3>1. row \notin journal
      BY <1>0, <1>6, <2>3 DEF RowsKept
    <3>2. CASE Rests(a)
      BY <2>1, <3>1, <3>2 DEF Rests
    <3>3. CASE Writes(a)
      <4>1. Step(a).record # row
        BY <1>1, <1>6, <3>3 DEF RowFirst, Writes, Takes, On, Step, Steps
      <4> QED BY <3>1, <3>3, <4>1 DEF Writes
    <3>4. CASE Acts(a) /\ ~(On(a, "commit") /\ Step(a).saves = row)
      BY <3>1, <3>4 DEF Acts
    <3>5. CASE Acts(a) /\ On(a, "commit") /\ Step(a).saves = row
      <4>1. Step(a).record = r /\ mode[a] = "run" /\ pc[a] \in DOMAIN Steps(a) /\ Performs(Step(a))
        BY <1>1, <1>6, <3>5 DEF RowFirst, Acts, On, Step, Steps
      <4>2. pc[a] \in PerformsAt(flow[a], r) /\ pc[a] \in Nat
        BY <1>0, <4>1, AtEffect
      <4>3. PICK n \in DOMAIN Plan[flow[a]] : Looks(flow[a], n, pc[a], row)
        BY <1>1, <1>6, <4>2 DEF RowFirst
      <4>4. n < pc[a]
        BY <4>3 DEF Looks, Passes
      <4>5. Locked(flow[a], pc[a])
        BY <1>1, <4>2, <4>3, <4>4, LookLocked, SMT
      <4>6. flow[b] \in Flows /\ pc[b] \in Nat /\ k \in Nat /\ mode[b] = "run" /\ i < pc[b] /\ pc[b] <= k
        BY <1>0, <2>3, PlanAssumption, ActorAssumption DEF PerformsAt, TypeInv, At
      <4>7. Locked(flow[b], pc[b])
        BY <1>6, <4>6, LookLocked
      <4>8. a = b
        BY <1>0, <4>1, <4>5, <4>6, <4>7 DEF LocksHeld
      <4>9. k = pc[a]
        BY <1>1, <1>6, <4>2, <4>8 DEF RowFirst
      <4>10. mode'[a] = "run" /\ pc'[a] <= pc[a]
        BY <1>6, <4>8, <4>9 DEF At
      <4>11. pc'[a] = pc[a] + 1
        BY <3>5, <4>10 DEF Acts, Takes
      <4> QED BY <4>2, <4>10, <4>11, SMT
    <3> QED BY <3>2, <3>3, <3>4, <3>5 DEF Stride
  <2> QED BY <2>2, <2>3
<1> QED BY <1>0, <1>2, <1>3, <1>5, <1>6 DEF RowsKept

-----------------------------------------------------------------------------
(* The theorems. *)

\* Nothing is held, locked or looked for before a process starts.
LEMMA InvInit == Init => IInv
<1> SUFFICES ASSUME Init PROVE IInv
  OBVIOUS
<1>1. TypeInv
  BY DEF Init, TypeInv
<1>2. OnRecord
  BY DEF Init, OnRecord
<1>3. \A a \in Actors : \A i, k : ~At(a, i, k)
  BY DEF Init, At
<1>4. ClaimsHeld /\ HeldAlone /\ LateStops
  BY <1>3 DEF ClaimsHeld, HeldAlone, LateStops, Held, Holding
<1>5. LocksHeld
  BY DEF Init, LocksHeld
<1>6. RowsKept
  <2>1. ASSUME NEW r \in Effects \ ClaimedEffects, NEW row \in Rows, RowFirst(r, row)
        PROVE  r \notin Given[flow]
    <3> SUFFICES ASSUME r \in Given[flow] PROVE FALSE
      OBVIOUS
    <3>1. flow \in Assignments /\ \A a \in Actors : flow[a] \in Flows
      BY <1>1, ActorAssumption DEF TypeInv
    <3>2. PICK a \in Actors : r \in Table[flow[a]].before
      BY <3>1 DEF Given
    <3> QED BY <2>1, <3>1, <3>2 DEF RowFirst
  <2>2. fenced = {} /\ sent = {}
    BY DEF Init
  <2> QED BY <1>3, <2>1, <2>2 DEF RowsKept
<1> QED BY <1>1, <1>2, <1>4, <1>5, <1>6 DEF IInv

\* What happens around the processes takes nothing from them.
LEMMA AroundKept == ASSUME IInv, Around PROVE IInv'
<1>0. /\ TypeInv /\ TypeInv' /\ flow' = flow /\ Given[flow]' = Given[flow] /\ journal \subseteq journal'
      /\ UNCHANGED <<pc, mode, lock, sent, again, fenced>>
      /\ \A c : Broken(c) => Broken(c)'
  BY Lasting, TypeKept DEF IInv, Around
<1>1. \A a \in Actors : \A i, k : At(a, i, k)' <=> At(a, i, k)
  BY <1>0 DEF At
<1>2. \A a \in Actors : \A r, j, k : Holding(a, r, j, k)' <=> Holding(a, r, j, k)
  BY <1>0, <1>1 DEF Holding
<1>3. \A a \in Actors : \A r : Held(a, r)' <=> Held(a, r)
  BY <1>0, <1>2 DEF Held
<1>4. OnRecord'
  BY <1>0 DEF IInv, OnRecord
<1>5. ClaimsHeld' /\ HeldAlone'
  BY <1>0, <1>3 DEF IInv, ClaimsHeld, HeldAlone
<1>6. LateStops'
  <2>1. \A a \in Actors : \A k : Barred(a, k) => Barred(a, k)'
    BY <1>0 DEF Barred
  <2> QED BY <1>0, <1>2, <2>1 DEF IInv, LateStops
<1>7. LocksHeld'
  BY <1>0 DEF IInv, LocksHeld
<1>8. RowsKept'
  <2>1. ASSUME NEW r, NEW row, RowFirst(r, row), row \notin journal
        PROVE  row \notin journal'
    <3>1. \A a \in Actors : flow[a] \in Flows
      BY <1>0, ActorAssumption DEF TypeInv
    <3> QED BY <2>1, <3>1 DEF RowFirst, Around
  <2> QED BY <1>0, <1>1, <2>1 DEF IInv, RowsKept
<1> QED BY <1>0, <1>4, <1>5, <1>6, <1>7, <1>8 DEF IInv

\* A stride of one process keeps every part of the invariant.
LEMMA StrideKept == ASSUME IInv, NEW a \in Actors, Stride(a) PROVE IInv'
BY TypeKept, OnRecordKept, ClaimsKept, AloneKept, LateKept, LocksKept, RowsStay DEF IInv

\* The inductive invariant: what is done or claimed too late is on record, a claim
\* is held by one process and has a refusing check ahead of it if it is late, the
\* locks are held where the plan holds them, and an effect and its row go together.
THEOREM Invariant == Spec => []IInv
<1>1. IInv /\ [Next]_vars => IInv'
  BY StepKinds, AroundKept, StrideKept DEF IInv
<1> QED BY InvInit, <1>1, PTL DEF Spec

-----------------------------------------------------------------------------
(* That the controls implement OneShotEffect. *)

\* What earlier controls left is claimed and used up.
LEMMA OnceInit == Init => Once!Init
BY DEF Init, Once!Init

\* Around the processes nothing is claimed and nothing performed.
LEMMA AroundOnce ==
    ASSUME IInv, Around
    PROVE  UNCHANGED Once!once
<1>1. flow' = flow /\ Given[flow]' = Given[flow] /\ UNCHANGED <<sent, again, fenced>>
  BY Lasting DEF Around, IInv
<1>2. \A a \in Actors : Leaves(flow[a]) \cap Effects = {}
  BY PlanAssumption, ActorAssumption DEF IInv, TypeInv
<1>3. (journal \cap Effects)' = journal \cap Effects
  BY <1>2 DEF Around
<1> QED BY <1>1, <1>3 DEF Once!once

\* A stride claims one effect, performs one that may be, or neither.
LEMMA StrideOnce ==
    ASSUME IInv, NEW a \in Actors, Stride(a)
    PROVE  [Once!Next]_(Once!once)
<1> DEFINE r == Step(a).record
<1>0. /\ TypeInv /\ OnRecord /\ flow' = flow /\ Given[flow]' = Given[flow]
      /\ flow[a] \in Flows
  BY Lasting, ActorAssumption DEF IInv, TypeInv
<1>1. CASE Writes(a)
  <2>1. /\ r \notin journal /\ journal' = journal \cup {r} /\ UNCHANGED <<sent, again>>
        /\ fenced' \in {fenced, fenced \cup {r}}
    BY <1>1 DEF Writes
  <2>2. CASE r \in Effects
    <3>1. r \in (journal \cap Effects)' \ (journal \cap Effects) /\ Once!Claim(r)
      BY <1>0, <2>1, <2>2 DEF Once!Claim
    <3> QED BY <3>1 DEF Once!Next
  <2>3. CASE r \notin Effects
    <3>1. (journal \cap Effects)' = journal \cap Effects
      BY <2>1, <2>3
    <3>2. fenced' = fenced
      <4> SUFFICES ASSUME fenced' # fenced PROVE FALSE
        OBVIOUS
      <4>1. pc[a] \in DOMAIN Plan[flow[a]] /\ Plan[flow[a]][pc[a]].record = r
            /\ Rechecks[flow[a]][pc[a]] # {}
        BY <1>1 DEF Writes, Takes, Step, Steps
      <4>2. PICK s \in DOMAIN Plan[flow[a]] : Performs(Plan[flow[a]][s]) /\ Plan[flow[a]][s].record = r
        BY <1>0, <4>1 DEF Rechecks
      <4>3. r \in EffectsOf[flow[a]]
        BY <1>0, <4>2 DEF EffectsOf
      <4> QED BY <1>0, <2>3, <4>3 DEF Effects
    <3> QED BY <1>0, <2>1, <3>1, <3>2 DEF Once!once
  <2> QED BY <2>2, <2>3
<1>2. CASE Acts(a)
  <2>1. mode[a] = "run" /\ pc[a] \in DOMAIN Steps(a) /\ Performs(Step(a))
    BY <1>2 DEF Acts
  <2>2. r \in journal /\ r \in Effects /\ r \notin Given[flow] \cup sent \cup fenced
    BY <1>0, <2>1, MayPerform, AtEffect
  <2>3. (journal \cap Effects)' = journal \cap Effects
    <3>1. On(a, "commit") => Step(a).saves \notin Effects
      BY <1>0, PlanAssumption DEF On, Step, Steps
    <3> QED BY <1>2, <3>1 DEF Acts
  <2>4. sent' = sent \cup {r} /\ again' = again /\ fenced' = fenced
    BY <1>2, <2>2 DEF Acts, Performed
  <2>5. r \in sent' \ sent /\ Once!Perform(r)
    BY <1>0, <2>2, <2>3, <2>4 DEF Once!Perform
  <2> QED BY <2>5 DEF Once!Next
<1>3. CASE Rests(a)
  <2>1. (journal \cap Effects)' = journal \cap Effects
    BY <1>0, <1>3, PlanAssumption DEF Rests
  <2> QED BY <1>0, <1>3, <2>1 DEF Rests, Once!once
<1> QED BY <1>1, <1>2, <1>3 DEF Stride

\* Whatever controls are run, by however many processes that crash and start again
\* between any two steps, each effect is claimed before it is performed, performed
\* at most once, and never performed once a changed fact, a rival or the owner's
\* stop was there before its claim.
THEOREM EffectsArePerformedOnce == Spec => EffectsOnce
<1>1. IInv /\ [Next]_vars => [Once!Next]_(Once!once)
  BY StepKinds, AroundOnce, StrideOnce DEF IInv
<1> QED BY Invariant, OnceInit, <1>1, PTL DEF Spec, EffectsOnce, Once!Spec

-----------------------------------------------------------------------------
(* Rivals. Two controls that meet are kept apart by a record that one of them  *)
(* created, or by what each has looked for under the locks.                    *)

\* A process has claimed its place; it has made the record c on its way to that;
\* it has made c on its way to an effect; an effect of control f was performed.
Has(a) == Table[flow[a]].place \in made[a]
Past(a, c, j, k) == j \in ClaimsAt(flow[a], c) /\ Passes(flow[a], j, k) /\ At(a, j, k)
OnWay(a, c) == \E j \in DOMAIN Plan[flow[a]], k \in Granting(flow[a]) : Past(a, c, j, k)
Ready(a, c) == \E j, k \in DOMAIN Plan[flow[a]] : Performs(Plan[flow[a]][k]) /\ Past(a, c, j, k)
Spent(f) == EffectsOf[f] \cap sent # {}

\* Kept apart by one claim: who has the place or is on the way to it made c.
OneClaimApart(a, b, c) ==
    /\ Has(a) \/ Has(b) \/ OnWay(a, c) \/ OnWay(b, c) => c \in journal
    /\ OnWay(a, c) => ~OnWay(b, c) /\ ~Has(b)
    /\ OnWay(b, c) => ~Has(a)
    /\ ~(Has(a) /\ Has(b))

\* Kept apart by the locks: who has the place left a record that the other looks for.
LooksRight(a, g) ==
    \A i \in DOMAIN Plan[flow[a]], k \in Granting(flow[a]), row \in Grants(g) :
        Misses(flow[a], i, k, row) /\ At(a, i, k) => row \notin journal
LocksApart(a, b) ==
    /\ Has(a) => Grants(flow[a]) \cap journal # {}
    /\ Has(b) => Grants(flow[b]) \cap journal # {}
    /\ LooksRight(a, flow[b]) /\ LooksRight(b, flow[a])
    /\ ~(Has(a) /\ Has(b))

\* Kept apart by contention: an effect of either was performed behind c.
ContentionApart(f, g, c) ==
    /\ Spent(f) \/ Spent(g) => c \in journal
    /\ \A x \in Actors : Ready(x, c) /\ flow[x] \in {f, g} => c \in journal
    /\ \A x \in Actors : Ready(x, c) /\ flow[x] = f =>
         ~Spent(g) /\ \A y \in Actors : ~(Ready(y, c) /\ flow[y] = g)
    /\ \A x \in Actors : Ready(x, c) /\ flow[x] = g => ~Spent(f)
    /\ ~(Spent(f) /\ Spent(g))

AllFlows == {flow[x] : x \in Actors}
RivalInv ==
    /\ \A a, b \in Actors : \A c : a # b /\ ByOneClaim(flow[a], flow[b], c) => OneClaimApart(a, b, c)
    /\ \A a, b \in Actors : a # b /\ ByLocks(flow[a], flow[b], AllFlows) => LocksApart(a, b)
    /\ \A a, b \in Actors : \A c :
         /\ ByContention(flow[a], flow[b], c, AllFlows) /\ EffectsOf[flow[a]] \cap EffectsOf[flow[b]] = {}
         /\ EffectsOf[flow[a]] # {} /\ EffectsOf[flow[b]] # {}
         => ContentionApart(flow[a], flow[b], c)

\* A process comes past its claim by writing it.
LEMMA PastStep ==
    ASSUME TypeInv, NEW a \in Actors, NEW b \in Actors, Stride(a),
           NEW c, NEW j, NEW k \in Nat, Past(b, c, j, k)'
    PROVE  Past(b, c, j, k) \/ (a = b /\ Step(a).record = c /\ Writes(a))
<1>1. j \in ClaimsAt(flow[b], c) /\ Passes(flow[b], j, k) /\ At(b, j, k)'
  BY Lasting DEF Past
<1>2. CASE At(b, j, k)
  BY <1>1, <1>2 DEF Past
<1>3. CASE a = b /\ Takes(a) /\ pc[a] = j
  <2>1. On(a, "write") /\ Step(a).record = c
    BY <1>1, <1>3 DEF ClaimsAt, On, Step, Steps, Takes
  <2>2. ~Performs(Step(a)) /\ mode'[a] = "run"
    BY <1>3, <2>1 DEF Performs, On, Takes
  <2> QED BY <1>3, <2>1, <2>2 DEF Stride, Acts, Rests
<1> QED BY <1>1, <1>2, <1>3, ComesPast

\* The same on the way to a place.
LEMMA OnWayStep ==
    ASSUME TypeInv, NEW a \in Actors, NEW b \in Actors, Stride(a), NEW c, OnWay(b, c)'
    PROVE  OnWay(b, c) \/ (a = b /\ Step(a).record = c /\ Writes(a))
<1>1. PICK j \in DOMAIN Plan[flow[b]], k \in Granting(flow[b]) : Past(b, c, j, k)'
  BY Lasting DEF OnWay
<1>2. k \in Nat
  BY PlanAssumption, ActorAssumption DEF Granting, TypeInv
<1> QED BY <1>1, <1>2, PastStep DEF OnWay

\* The same on the way to an effect.
LEMMA ReadyStep ==
    ASSUME TypeInv, NEW a \in Actors, NEW b \in Actors, Stride(a), NEW c, Ready(b, c)'
    PROVE  Ready(b, c) \/ (a = b /\ Step(a).record = c /\ Writes(a))
<1>1. PICK j \in DOMAIN Plan[flow[b]], k \in DOMAIN Plan[flow[b]] :
        Performs(Plan[flow[b]][k]) /\ Past(b, c, j, k)'
  BY Lasting DEF Ready
<1>2. k \in Nat
  BY PlanAssumption, ActorAssumption DEF TypeInv
<1> QED BY <1>1, <1>2, PastStep DEF Ready

\* A process claims its place at a granting step.
LEMMA HasStep ==
    ASSUME TypeInv, NEW a \in Actors, NEW b \in Actors, Stride(a), Has(b)', ~Has(b)
    PROVE  /\ a = b /\ Writes(a) /\ pc[a] \in Granting(flow[a]) /\ pc[a] \in Nat
           /\ mode[a] = "run" /\ Step(a) = Plan[flow[a]][pc[a]] /\ flow[a] \in Flows
<1>1. a = b /\ Writes(a) /\ Marks(flow[a], Step(a).record) /\ Step(a).record[1] = Table[flow[a]].place
  BY Lasting DEF Has, Stride, Makes
<1>2. Takes(a) /\ On(a, "write") /\ pc[a] \in DOMAIN Plan[flow[a]] /\ Step(a) = Plan[flow[a]][pc[a]]
  BY <1>1 DEF Writes, Takes, Step, Steps
<1>3. pc[a] \in Granting(flow[a])
  BY <1>1, <1>2 DEF Granting, On
<1> QED BY <1>1, <1>2, <1>3, ActorAssumption DEF TypeInv, Takes

\* Behind its claim a process is past the step that made it.
LEMMA BehindPast ==
    ASSUME TypeInv, NEW a \in Actors, mode[a] = "run", NEW c, Behind(flow[a], c, pc[a])
    PROVE  \E j \in DOMAIN Plan[flow[a]] : Past(a, c, j, pc[a])
<1>1. PICK j \in ClaimsAt(flow[a], c) : Passes(flow[a], j, pc[a])
  BY DEF Behind
<1>2. j \in DOMAIN Plan[flow[a]] /\ At(a, j, pc[a])
  BY <1>1, SMT DEF ClaimsAt, Passes, At, TypeInv
<1> QED BY <1>1, <1>2 DEF Past

\* Where it claims its place a process makes the one claim or has made it.
LEMMA GrantOnWay ==
    ASSUME TypeInv, NEW a \in Actors, mode[a] = "run", NEW c, NEW f, NEW g, flow[a] \in {f, g},
           ByOneClaim(f, g, c), pc[a] \in Granting(flow[a])
    PROVE  Plan[flow[a]][pc[a]].record = c \/ OnWay(a, c)
<1>1. Plan[flow[a]][pc[a]].record = c \/ Behind(flow[a], c, pc[a])
  BY DEF ByOneClaim
<1> QED BY <1>1, BehindPast DEF OnWay

\* Of two processes with one claim between them only the one that made it gets on.
LEMMA OneClaimKept ==
    ASSUME TypeInv, NEW x \in Actors, Stride(x), NEW a \in Actors, NEW b \in Actors, a # b, NEW c,
           ByOneClaim(flow[a], flow[b], c), OneClaimApart(a, b, c)
    PROVE  OneClaimApart(a, b, c)'
<1>0. journal \subseteq journal'
  BY Lasting
<1>1. /\ Writes(x) /\ Step(x).record = c => c \notin journal /\ c \in journal'
      /\ OnWay(a, c)' => OnWay(a, c) \/ (x = a /\ Step(x).record = c /\ Writes(x))
      /\ OnWay(b, c)' => OnWay(b, c) \/ (x = b /\ Step(x).record = c /\ Writes(x))
  BY OnWayStep DEF Writes
<1>2. ASSUME Has(a)' PROVE Has(a) \/ (x = a /\ Writes(x) /\ (Step(x).record = c \/ OnWay(a, c)))
  <2> SUFFICES ASSUME ~Has(a) PROVE x = a /\ Writes(x) /\ (Step(x).record = c \/ OnWay(a, c))
    OBVIOUS
  <2>1. x = a /\ Writes(x) /\ pc[x] \in Granting(flow[x]) /\ mode[x] = "run" /\ Step(x) = Plan[flow[x]][pc[x]]
    BY <1>2, HasStep
  <2> QED BY <2>1, GrantOnWay
<1>3. ASSUME Has(b)' PROVE Has(b) \/ (x = b /\ Writes(x) /\ (Step(x).record = c \/ OnWay(b, c)))
  <2> SUFFICES ASSUME ~Has(b) PROVE x = b /\ Writes(x) /\ (Step(x).record = c \/ OnWay(b, c))
    OBVIOUS
  <2>1. x = b /\ Writes(x) /\ pc[x] \in Granting(flow[x]) /\ mode[x] = "run" /\ Step(x) = Plan[flow[x]][pc[x]]
    BY <1>3, HasStep
  <2> QED BY <2>1, GrantOnWay
<1> DEFINE W == Writes(x) /\ Step(x).record = c
<1>4. /\ W => c \notin journal /\ c \in journal'
      /\ OnWay(a, c)' => OnWay(a, c) \/ (x = a /\ W)
      /\ OnWay(b, c)' => OnWay(b, c) \/ (x = b /\ W)
      /\ Has(a)' => Has(a) \/ (x = a /\ (W \/ OnWay(a, c)))
      /\ Has(b)' => Has(b) \/ (x = b /\ (W \/ OnWay(b, c)))
  BY <1>1, <1>2, <1>3
<1> HIDE DEF W
<1>5. c \in journal => c \in journal'
  BY <1>0
<1> QED BY <1>4, <1>5 DEF OneClaimApart

\* While a process has the locks nobody writes what it has looked for.
LEMMA LooksKept ==
    ASSUME TypeInv, LocksHeld, NEW x \in Actors, Stride(x), NEW a \in Actors, NEW g, LooksRight(a, g),
           \A h \in AllFlows, row \in Grants(g) :
              /\ row \notin Leaves(h)
              /\ \A k \in DOMAIN Plan[h] : Plan[h][k].do = "commit" => Plan[h][k].saves # row
              /\ \A k \in ClaimsAt(h, row) : Locked(h, k)
    PROVE  LooksRight(a, g)'
<1>0. flow' = flow /\ flow[x] \in AllFlows /\ flow[x] \in Flows /\ flow[a] \in Flows /\ pc[x] \in Nat
  BY Lasting, ActorAssumption DEF AllFlows, TypeInv
<1> SUFFICES ASSUME NEW i \in DOMAIN Plan[flow[a]], NEW k \in Granting(flow[a]), NEW row \in Grants(g),
                    Misses(flow[a], i, k, row), At(a, i, k)'
             PROVE  row \notin journal'
  BY <1>0 DEF LooksRight
<1>1. /\ k \in DOMAIN Plan[flow[a]] /\ k \in Nat /\ Looks(flow[a], i, k, row) /\ Passes(flow[a], i, k)
      /\ Plan[flow[a]][i].do = "check" /\ row \in Plan[flow[a]][i].absent
  BY <1>0, PlanAssumption DEF Granting, Misses, Looks
<1>2. row \notin Leaves(flow[x])
  BY <1>0
<1>3. CASE ~At(a, i, k)
  <2>1. x = a /\ Takes(x) /\ pc[x] = i
    BY <1>1, <1>3, ComesPast
  <2>2. On(x, "check") /\ Step(x) = Plan[flow[a]][i] /\ ~On(x, "write") /\ ~Performs(Step(x)) /\ mode'[x] = "run"
    BY <1>1, <2>1 DEF On, Step, Steps, Takes, Performs
  <2>3. Rests(x) /\ Holds(Step(x))
    BY <2>2 DEF Stride, Writes, Acts, Rests
  <2> QED BY <1>1, <1>2, <2>2, <2>3 DEF Holds, Broken, Rests
<1>4. CASE At(a, i, k)
  <2>1. row \notin journal
    BY <1>4 DEF LooksRight
  <2>2. CASE Rests(x)
    BY <1>2, <2>1, <2>2 DEF Rests
  <2>3. CASE Acts(x)
    <3>1. On(x, "commit") => Step(x).saves # row
      BY <1>0 DEF On, Step, Steps
    <3> QED BY <2>1, <2>3, <3>1 DEF Acts
  <2>4. CASE Writes(x) /\ Step(x).record # row
    BY <2>1, <2>4 DEF Writes
  <2>5. CASE Writes(x) /\ Step(x).record = row
    <3>1. Takes(x) /\ mode[x] = "run" /\ pc[x] \in ClaimsAt(flow[x], row)
      BY <2>5 DEF Writes, Takes, On, Step, Steps, ClaimsAt
    <3>2. lock = x
      BY <1>0, <3>1 DEF LocksHeld
    <3>3. mode[a] = "run" /\ pc[a] \in Nat /\ i < pc[a] /\ pc[a] <= k
      BY <1>4 DEF At, TypeInv
    <3>4. lock = a
      BY <1>0, <1>1, <3>3, LookLocked DEF LocksHeld
    <3>5. ~(i < pc[a] /\ pc[a] < k)
      BY <3>1, <3>2, <3>4 DEF Misses
    <3>6. pc'[a] = pc[a] + 1 /\ pc'[a] <= k
      BY <3>1, <3>2, <3>4 DEF Takes, At
    <3> QED BY <1>1, <3>3, <3>5, <3>6, SMT
  <2> QED BY <2>2, <2>3, <2>4, <2>5 DEF Stride
<1> QED BY <1>3, <1>4

\* Who claims its place under the locks leaves its record, and has found none of the other.
LEMMA HasLeaves ==
    ASSUME TypeInv, NEW x \in Actors, Stride(x), NEW a \in Actors,
           Has(a) => Grants(flow[a]) \cap journal # {}
    PROVE  (Has(a) => Grants(flow[a]) \cap journal # {})'
<1> SUFFICES ASSUME Has(a)' PROVE Grants(flow[a]) \cap journal' # {}
  BY Lasting
<1>1. CASE Has(a)
  BY <1>1, Lasting
<1>2. CASE ~Has(a)
  <2>1. x = a /\ Writes(x) /\ pc[x] \in Granting(flow[x]) /\ Step(x) = Plan[flow[x]][pc[x]]
    BY <1>2, HasStep
  <2>2. Step(x).record \in Grants(flow[a]) /\ Step(x).record \in journal'
    BY <2>1 DEF Grants, Writes
  <2> QED BY <2>2
<1> QED BY <1>1, <1>2

\* Who is about to claim its place has found no record of the other.
LEMMA GrantMisses ==
    ASSUME TypeInv, NEW a \in Actors, NEW g, mode[a] = "run", pc[a] \in Granting(flow[a]),
           Wary(flow[a], g), LooksRight(a, g)
    PROVE  Grants(g) \cap journal = {}
<1> SUFFICES ASSUME NEW row \in Grants(g) PROVE row \notin journal
  OBVIOUS
<1>1. PICK i \in DOMAIN Plan[flow[a]] : Misses(flow[a], i, pc[a], row)
  BY DEF Wary
<1>2. At(a, i, pc[a])
  BY <1>1, SMT DEF At, TypeInv, Misses, Looks, Passes
<1> QED BY <1>1, <1>2 DEF LooksRight

\* Of two wary processes the second finds the record of the first.
LEMMA LocksApartKept ==
    ASSUME TypeInv, LocksHeld, NEW x \in Actors, Stride(x), NEW a \in Actors, NEW b \in Actors, a # b,
           ByLocks(flow[a], flow[b], AllFlows), LocksApart(a, b)
    PROVE  LocksApart(a, b)'
<1>0. flow' = flow /\ Wary(flow[a], flow[b]) /\ Wary(flow[b], flow[a])
  BY Lasting DEF ByLocks
<1>1. LooksRight(a, flow[b])' /\ LooksRight(b, flow[a])'
  <2>1. \A h \in AllFlows, row \in Grants(flow[a]) \cup Grants(flow[b]) :
              /\ row \notin Leaves(h)
              /\ \A k \in DOMAIN Plan[h] : Plan[h][k].do = "commit" => Plan[h][k].saves # row
              /\ \A k \in ClaimsAt(h, row) : Locked(h, k)
    BY DEF ByLocks
  <2>2. LooksRight(a, flow[b]) /\ LooksRight(b, flow[a])
    BY DEF LocksApart
  <2>3. ASSUME NEW f, NEW g, f = flow[a], g = flow[b]
        PROVE  LooksRight(a, g)' /\ LooksRight(b, f)'
    BY <2>1, <2>2, <2>3, LooksKept
  <2> QED BY <1>0, <2>3 DEF LooksRight
<1>2. (Has(a) => Grants(flow[a]) \cap journal # {})' /\ (Has(b) => Grants(flow[b]) \cap journal # {})'
  BY HasLeaves DEF LocksApart
<1>3. ~(Has(a)' /\ Has(b)')
  <2>1. Has(a)' /\ ~Has(a) => ~Has(b) /\ x = a
    BY <1>0, HasStep, GrantMisses DEF LocksApart
  <2>2. Has(b)' /\ ~Has(b) => ~Has(a) /\ x = b
    BY <1>0, HasStep, GrantMisses DEF LocksApart
  <2> QED BY <2>1, <2>2 DEF LocksApart
<1> QED BY <1>0, <1>1, <1>2, <1>3 DEF LocksApart

\* Behind one claim the effects of one of two controls are performed, not of both.
LEMMA PerformReady ==
    ASSUME TypeInv, NEW x \in Actors, Acts(x), NEW f, NEW g, NEW c, ByContention(f, g, c, AllFlows),
           Step(x).record \in EffectsOf[f] \cup EffectsOf[g]
    PROVE  Ready(x, c) /\ flow[x] \in {f, g} /\ Step(x).record \in EffectsOf[flow[x]]
<1>1. /\ mode[x] = "run" /\ pc[x] \in DOMAIN Plan[flow[x]] /\ Performs(Plan[flow[x]][pc[x]])
      /\ Step(x).record = Plan[flow[x]][pc[x]].record /\ flow[x] \in Flows
  BY ActorAssumption DEF Acts, Step, Steps, TypeInv
<1>2. Step(x).record \in EffectsOf[flow[x]]
  BY <1>1 DEF EffectsOf
<1>3. flow[x] \in {f, g}
  BY <1>2 DEF ByContention, AllFlows
<1>4. Behind(flow[x], c, pc[x])
  BY <1>1, <1>3 DEF ByContention
<1>5. PICK j \in DOMAIN Plan[flow[x]] : Past(x, c, j, pc[x])
  BY <1>1, <1>4, BehindPast
<1> QED BY <1>1, <1>2, <1>3, <1>5 DEF Ready

\* Of two that contend for a claim only the one behind it performs its effects.
LEMMA ContentionKept ==
    ASSUME TypeInv, NEW x \in Actors, Stride(x), NEW f, NEW g, NEW c,
           ByContention(f, g, c, AllFlows), EffectsOf[f] \cap EffectsOf[g] = {},
           EffectsOf[f] # {}, EffectsOf[g] # {}, ContentionApart(f, g, c)
    PROVE  ContentionApart(f, g, c)'
<1>0. flow' = flow /\ journal \subseteq journal'
  BY Lasting
<1> DEFINE W == Writes(x) /\ Step(x).record = c
<1>1. \A y \in Actors : Ready(y, c)' => Ready(y, c) \/ (x = y /\ W)
  BY ReadyStep
<1>2. W => c \notin journal /\ c \in journal'
  BY DEF Writes
<1>3. c \in journal => c \in journal'
  BY <1>0
<1>4. /\ Spent(f)' => Spent(f) \/ (Ready(x, c) /\ flow[x] = f)
      /\ Spent(g)' => Spent(g) \/ (Ready(x, c) /\ flow[x] = g)
      /\ W => sent' = sent
  <2>1. CASE sent' = sent
    BY <2>1 DEF Spent
  <2>2. CASE sent' # sent
    <3>1. Acts(x) /\ sent' = sent \cup {Step(x).record}
      BY <2>2 DEF Stride, Writes, Acts, Rests, Performed
    <3>2. Step(x).record \in EffectsOf[f] \cup EffectsOf[g] =>
            Ready(x, c) /\ flow[x] \in {f, g} /\ Step(x).record \in EffectsOf[flow[x]]
      BY <3>1, PerformReady
    <3> QED BY <2>2, <3>1, <3>2 DEF Spent, Writes
  <2> QED BY <2>1, <2>2
<1> HIDE DEF W
<1>5. /\ Spent(f) \/ Spent(g) => c \in journal
      /\ \A y \in Actors : Ready(y, c) /\ flow[y] \in {f, g} => c \in journal
      /\ \A y \in Actors : Ready(y, c) /\ flow[y] = f =>
           ~Spent(g) /\ \A z \in Actors : ~(Ready(z, c) /\ flow[z] = g)
      /\ \A y \in Actors : Ready(y, c) /\ flow[y] = g => ~Spent(f)
      /\ ~(Spent(f) /\ Spent(g))
  BY DEF ContentionApart
<1>6. W => ~Spent(f)' /\ ~Spent(g)'
  BY <1>2, <1>4, <1>5 DEF Spent
<1>7. f # g
  OBVIOUS
<1>8. Spent(f)' \/ Spent(g)' => c \in journal'
  BY <1>3, <1>4, <1>5
<1>9. \A y \in Actors : Ready(y, c)' /\ flow[y] \in {f, g} => c \in journal'
  BY <1>1, <1>2, <1>3, <1>5
<1>10. ASSUME NEW y \in Actors, Ready(y, c)', flow[y] = f
       PROVE  ~Spent(g)' /\ \A z \in Actors : ~(Ready(z, c)' /\ flow[z] = g)
  <2>1. ~Spent(g)'
    BY <1>1, <1>4, <1>5, <1>6, <1>10
  <2>2. ASSUME NEW z \in Actors, Ready(z, c)', flow[z] = g PROVE FALSE
    BY <1>1, <1>2, <1>5, <1>7, <1>10, <2>2
  <2> QED BY <2>1, <2>2
<1>11. \A y \in Actors : Ready(y, c)' /\ flow[y] = g => ~Spent(f)'
  BY <1>1, <1>4, <1>5, <1>6
<1>12. ~(Spent(f)' /\ Spent(g)')
  BY <1>4, <1>5
<1> QED BY <1>0, <1>8, <1>9, <1>10, <1>11, <1>12 DEF ContentionApart

\* At first nobody has a place, a claim or an effect.
LEMMA RivalInit == Init => RivalInv
<1> SUFFICES ASSUME Init PROVE RivalInv
  OBVIOUS
<1>1. \A a \in Actors : \A i, k : ~At(a, i, k)
  BY DEF Init, At
<1>2. \A a \in Actors : \A c : ~OnWay(a, c) /\ ~Ready(a, c)
  BY <1>1 DEF OnWay, Ready, Past
<1>3. \A a \in Actors : ~Has(a)
  BY DEF Init, Has
<1>4. \A f : ~Spent(f)
  BY DEF Init, Spent
<1>5. \A a \in Actors : \A g : LooksRight(a, g)
  BY <1>1 DEF LooksRight
<1> QED BY <1>2, <1>3, <1>4, <1>5 DEF RivalInv, OneClaimApart, LocksApart, ContentionApart

\* What happens around the processes takes nothing from a place or a claim.
LEMMA RivalAround == ASSUME TypeInv, RivalInv, Around PROVE RivalInv'
<1>0. flow' = flow /\ journal \subseteq journal' /\ UNCHANGED <<pc, mode, made, sent>> /\ AllFlows' = AllFlows
  BY Lasting DEF Around, AllFlows
<1>1. \A a \in Actors : \A i, k : At(a, i, k)' <=> At(a, i, k)
  BY <1>0 DEF At
<1>2. \A a \in Actors : \A c, j, k : Past(a, c, j, k)' <=> Past(a, c, j, k)
  BY <1>0, <1>1 DEF Past
<1>3. \A a \in Actors : \A c : (OnWay(a, c)' <=> OnWay(a, c)) /\ (Ready(a, c)' <=> Ready(a, c))
  BY <1>0, <1>2 DEF OnWay, Ready
<1>4. \A a \in Actors : Has(a)' <=> Has(a)
  BY <1>0 DEF Has
<1>5. \A f : Spent(f)' <=> Spent(f)
  BY <1>0 DEF Spent
<1>6. ASSUME NEW a \in Actors, NEW b \in Actors, NEW c, OneClaimApart(a, b, c)
      PROVE  OneClaimApart(a, b, c)'
  BY <1>0, <1>3, <1>4, <1>6 DEF OneClaimApart
<1>7. ASSUME NEW f, NEW g, NEW c, ContentionApart(f, g, c)
      PROVE  ContentionApart(f, g, c)'
  BY <1>0, <1>3, <1>5, <1>7 DEF ContentionApart
<1>8. ASSUME NEW a \in Actors, NEW b \in Actors, ByLocks(flow[a], flow[b], AllFlows), LocksApart(a, b)
      PROVE  LocksApart(a, b)'
  <2>1. \A row \in Grants(flow[a]) \cup Grants(flow[b]) : row \in journal' => row \in journal
    BY <1>8 DEF Around, ByLocks, AllFlows
  <2>2. LooksRight(a, flow[b])' /\ LooksRight(b, flow[a])'
    BY <1>0, <1>1, <1>8, <2>1 DEF LocksApart, LooksRight
  <2> QED BY <1>0, <1>4, <1>8, <2>2 DEF LocksApart
<1>9. \A a, b \in Actors : \A c : a # b /\ ByOneClaim(flow[a], flow[b], c) => OneClaimApart(a, b, c)'
  BY <1>6 DEF RivalInv
<1>10. \A a, b \in Actors : a # b /\ ByLocks(flow[a], flow[b], AllFlows) => LocksApart(a, b)'
  BY <1>8 DEF RivalInv
<1>11. ASSUME NEW a \in Actors, NEW b \in Actors, NEW c,
              ByContention(flow[a], flow[b], c, AllFlows), EffectsOf[flow[a]] \cap EffectsOf[flow[b]] = {},
              EffectsOf[flow[a]] # {}, EffectsOf[flow[b]] # {}
       PROVE  ContentionApart(flow[a], flow[b], c)'
  <2>1. ContentionApart(flow[a], flow[b], c)
    BY <1>11 DEF RivalInv
  <2>2. ASSUME NEW f, NEW g, f = flow[a], g = flow[b]
        PROVE  ContentionApart(f, g, c)'
    BY <1>7, <2>1, <2>2
  <2> QED BY <1>0, <2>2 DEF ContentionApart, Spent
<1> QED BY <1>0, <1>9, <1>10, <1>11 DEF RivalInv

\* A stride of any process keeps rivals apart.
LEMMA RivalStride == ASSUME TypeInv, LocksHeld, RivalInv, NEW x \in Actors, Stride(x) PROVE RivalInv'
<1>0. flow' = flow /\ AllFlows' = AllFlows
  BY Lasting DEF AllFlows
<1>1. \A a, b \in Actors : \A c : a # b /\ ByOneClaim(flow[a], flow[b], c) => OneClaimApart(a, b, c)'
  BY OneClaimKept DEF RivalInv
<1>2. \A a, b \in Actors : a # b /\ ByLocks(flow[a], flow[b], AllFlows) => LocksApart(a, b)'
  BY LocksApartKept DEF RivalInv
<1>3. ASSUME NEW a \in Actors, NEW b \in Actors, NEW c,
             ByContention(flow[a], flow[b], c, AllFlows), EffectsOf[flow[a]] \cap EffectsOf[flow[b]] = {},
             EffectsOf[flow[a]] # {}, EffectsOf[flow[b]] # {}
      PROVE  ContentionApart(flow[a], flow[b], c)'
  <2>1. ContentionApart(flow[a], flow[b], c)
    BY <1>3 DEF RivalInv
  <2>2. ASSUME NEW f, NEW g, f = flow[a], g = flow[b]
        PROVE  ContentionApart(f, g, c)'
    BY <1>3, <2>1, <2>2, ContentionKept
  <2> QED BY <1>0, <2>2 DEF ContentionApart, Spent
<1> QED BY <1>0, <1>1, <1>2, <1>3 DEF RivalInv

\* What keeps rivals apart does so in every state.
LEMMA RivalsKeptApart == ASSUME TypeInv, RivalInv PROVE RivalsApart
<1>0. flow \in Assignments /\ AllFlows = {flow[x] : x \in Actors}
  BY DEF TypeInv, AllFlows
<1> SUFFICES ASSUME NEW a \in Actors, NEW b \in Actors, a # b
             PROVE  /\ <<flow[a], flow[b]>> \in Rivals => ~(Has(a) /\ Has(b))
                    /\ <<flow[a], flow[b]>> \in Contending => ~Spent(flow[a]) \/ ~Spent(flow[b])
  BY DEF RivalsApart, Has, Spent
<1>1. ASSUME <<flow[a], flow[b]>> \in Rivals
      PROVE  ~(Has(a) /\ Has(b))
  <2>1. (\E c : ByOneClaim(flow[a], flow[b], c)) \/ ByLocks(flow[a], flow[b], AllFlows)
    BY <1>0, <1>1, RivalAssumption
  <2> QED BY <2>1 DEF RivalInv, OneClaimApart, LocksApart
<1>2. ASSUME <<flow[a], flow[b]>> \in Contending
      PROVE  ~Spent(flow[a]) \/ ~Spent(flow[b])
  <2>1. PICK c : ByContention(flow[a], flow[b], c, AllFlows)
    BY <1>0, <1>2, RivalAssumption
  <2>2. EffectsOf[flow[a]] \cap EffectsOf[flow[b]] = {}
    BY <1>2 DEF Contending
  <2>3. CASE EffectsOf[flow[a]] # {} /\ EffectsOf[flow[b]] # {}
    BY <2>1, <2>2, <2>3 DEF RivalInv, ContentionApart
  <2>4. CASE EffectsOf[flow[a]] = {} \/ EffectsOf[flow[b]] = {}
    BY <2>4 DEF Spent
  <2> QED BY <2>3, <2>4
<1> QED BY <1>1, <1>2

\* Two processes that confirm rival controls of one attempt never both claim it,
\* and two that contend for one claim never both perform their effects, in
\* whatever order their steps fall, whichever of them crashes and starts again.
THEOREM RivalsStayApart == Spec => []RivalsApart
<1>1. IInv /\ RivalInv /\ [Next]_vars => RivalInv'
  BY StepKinds, RivalAround, RivalStride DEF IInv
<1>2. IInv /\ RivalInv => RivalsApart
  BY RivalsKeptApart DEF IInv
<1> QED BY Invariant, RivalInit, <1>1, <1>2, PTL DEF Spec
-----------------------------------------------------------------------------
(* The status command. It goes by what the records tell of the effects; a step  *)
(* tells which were answered, which outcomes report success, which failed.      *)

\* What a stride of a process answers, says and leaves, beside what Stride says.
Answers(a) ==
    /\ acked \subseteq acked'
    /\ Takes(a) /\ Performs(Step(a)) => Step(a).record \in acked'
    /\ sent' # sent /\ On(a, "commit") => Takes(a)
    /\ sent' # sent /\ On(a, "exec") => mode'[a] = "over"
    /\ mode'[a] = "failed" =>
         /\ mode[a] = "run" /\ pc[a] \in DOMAIN Steps(a)
         /\ ~(pc[a] < TryAt[flow[a]]) \/ Performs(Step(a))
    /\ said' # said =>
         /\ said' = said \cup {Table[flow[a]].place} /\ Table[flow[a]].verdict # {}
         /\ mode[a] = "run" /\ pc[a] > Len(Steps(a)) /\ mode'[a] = "over" /\ sent' = sent
    /\ \A r \in journal' \ journal :
         \/ pc[a] \in LeavesAt(flow[a], r) /\ Takes(a)
         \/ r \in Ends(flow[a])
         \/ mode[a] = "failed" /\ r \in Table[flow[a]].failed

\* Around the processes only a stop leaves a record.
AroundAnswers ==
    /\ UNCHANGED <<acked, said>>
    /\ \A r \in journal' \ journal : \E a \in Actors : r \in Stops(flow[a])

\* A process that refuses fails inside its try block and leaves nothing.
LEMMA RefuseAnswers ==
    ASSUME TypeInv, NEW a \in Actors, mode[a] = "run", pc[a] \in DOMAIN Steps(a), Refuse(a)
    PROVE  Answers(a)
<1>1. UNCHANGED <<acked, sent, said, journal>> /\ mode'[a] # "run"
      /\ (mode'[a] = "failed" => ~(pc[a] < TryAt[flow[a]]))
  BY DEF TypeInv, Refuse, disk, effect
<1> QED BY <1>1 DEF Answers, Takes

\* A step that only goes on tells nothing.
LEMMA GoAnswers ==
    ASSUME TypeInv, NEW a \in Actors, mode[a] = "run", ~Performs(Step(a)), mode'[a] # "failed",
           UNCHANGED <<journal, said, sent, acked>>
    PROVE  Answers(a)
BY DEF Answers

\* Every action of a process tells what Answers says.
LEMMA StartAnswers == ASSUME TypeInv, NEW a \in Actors, Start(a) PROVE Answers(a)
<1>1. mode[a] = "over" /\ mode'[a] = "run" /\ UNCHANGED <<journal, said, sent, acked>>
  BY DEF TypeInv, Start, disk, effect
<1> QED BY <1>1 DEF Answers, Takes

\* The steps that write nothing and perform nothing go on or refuse.
LEMMA QuietAnswers ==
    ASSUME TypeInv, NEW a \in Actors,
           \/ Check(a) \/ Observe(a) \/ Branch(a) \/ TakeLock(a) \/ ReleaseLock(a) \/ BackUp(a) \/ VerifyBackup(a)
    PROVE  Answers(a)
<1>1. /\ mode[a] = "run" /\ pc[a] \in DOMAIN Steps(a)
      /\ Step(a).do \in {"check", "see", "fork", "lock", "unlock", "copy", "manifest", "verify"}
  BY DEF Check, Observe, Branch, TakeLock, ReleaseLock, BackUp, VerifyBackup, On
<1>2. ~Performs(Step(a))
  BY <1>1 DEF Performs
<1>3. Refuse(a) \/ (mode' = mode /\ UNCHANGED <<journal, said, sent, acked>>)
  BY DEF Check, Observe, Branch, TakeLock, ReleaseLock, BackUp, VerifyBackup, Goto, disk, effect
<1> QED BY <1>1, <1>2, <1>3, RefuseAnswers, GoAnswers

\* A record that is created is left by its step.
LEMMA WriteAnswers == ASSUME TypeInv, NEW a \in Actors, WriteRecord(a) PROVE Answers(a)
<1> DEFINE r == Step(a).record
<1>0. mode[a] = "run" /\ pc[a] \in DOMAIN Steps(a) /\ Step(a).do = "write"
  BY DEF WriteRecord, On
<1>1. CASE r \in journal
  BY <1>0, <1>1, RefuseAnswers DEF WriteRecord
<1>2. CASE r \notin journal
  <2>1. /\ journal' = journal \cup {r} /\ Goto(a, pc[a] + 1) /\ UNCHANGED <<said, sent, acked>>
    BY <1>2 DEF WriteRecord
  <2>2. Takes(a) /\ mode'[a] = "run" /\ ~Performs(Step(a))
    BY <1>0, <2>1, SMT DEF TypeInv, Goto, Takes, Performs
  <2>3. pc[a] \in LeavesAt(flow[a], r)
    BY <1>0 DEF LeavesAt, Step, Steps
  <2> QED BY <2>1, <2>2, <2>3 DEF Answers
<1> QED BY <1>1, <1>2

\* An effect goes on only with its answer.
LEMMA SendAnswers == ASSUME TypeInv, NEW a \in Actors, SendEffect(a) PROVE Answers(a)
<1>0. mode[a] = "run" /\ pc[a] \in DOMAIN Steps(a) /\ Step(a).do = "send" /\ ~On(a, "commit") /\ ~On(a, "exec")
  BY DEF SendEffect, On
<1>1. Performs(Step(a))
  BY <1>0 DEF Performs
<1>2. CASE acked' = acked \cup {Step(a).record} /\ Goto(a, pc[a] + 1) /\ UNCHANGED disk
  <2>1. mode'[a] = "run" /\ UNCHANGED <<said, journal>>
    BY <1>0, <1>2 DEF Goto, disk
  <2> QED BY <1>0, <1>2, <2>1 DEF Answers
<1>3. CASE mode' = [mode EXCEPT ![a] = "failed"] /\ UNCHANGED <<journal, said, acked>>
  <2>1. mode'[a] = "failed"
    BY <1>3 DEF TypeInv
  <2> QED BY <1>0, <1>1, <1>3, <2>1 DEF Answers, Takes
<1>4. CASE Refuse(a)
  BY <1>0, <1>4, RefuseAnswers
<1> QED BY <1>2, <1>3, <1>4 DEF SendEffect

\* A commit is its own answer.
LEMMA CommitAnswers == ASSUME TypeInv, NEW a \in Actors, CommitEffect(a) PROVE Answers(a)
<1>0. mode[a] = "run" /\ pc[a] \in DOMAIN Steps(a) /\ Step(a).do = "commit" /\ ~On(a, "exec")
  BY DEF CommitEffect, On
<1>1. CASE /\ acked' = acked \cup {Step(a).record} /\ journal' = journal \cup {Step(a).saves}
           /\ Goto(a, pc[a] + 1) /\ UNCHANGED said
  <2>1. Takes(a) /\ mode'[a] = "run"
    BY <1>0, <1>1, SMT DEF TypeInv, Goto, Takes
  <2>2. pc[a] \in LeavesAt(flow[a], Step(a).saves)
    BY <1>0 DEF LeavesAt, Step, Steps
  <2> QED BY <1>0, <1>1, <2>1, <2>2 DEF Answers
<1>2. CASE Refuse(a)
  BY <1>0, <1>2, RefuseAnswers
<1> QED BY <1>1, <1>2 DEF CommitEffect

\* An exec answers nothing, and nothing follows it.
LEMMA ExecAnswers == ASSUME TypeInv, NEW a \in Actors, ExecEffect(a) PROVE Answers(a)
<1>0. mode[a] = "run" /\ pc[a] \in DOMAIN Steps(a) /\ Step(a).do = "exec" /\ ~On(a, "commit")
  BY DEF ExecEffect, On
<1>1. CASE mode' = [mode EXCEPT ![a] = "over"] /\ UNCHANGED <<journal, said, acked>>
  <2>1. mode'[a] = "over"
    BY <1>1 DEF TypeInv
  <2> QED BY <1>0, <1>1, <2>1 DEF Answers, Takes
<1>2. CASE Refuse(a)
  BY <1>0, <1>2, RefuseAnswers
<1> QED BY <1>1, <1>2 DEF ExecEffect

\* The end of a confirmation leaves what an end leaves, and what a failure leaves
\* if it failed; it reports success only if it did not.
LEMMA CloseAnswers == ASSUME TypeInv, NEW a \in Actors, Close(a) PROVE Answers(a)
<1> DEFINE f == Table[flow[a]]
           closing == {pair[2] : pair \in {p \in f.closes : p[1] \in journal}}
<1>1. /\ mode'[a] = "over" /\ UNCHANGED <<sent, acked>>
      /\ mode[a] = "failed" \/ (mode[a] = "run" /\ pc[a] > Len(Steps(a)))
  BY DEF TypeInv, Close, effect
<1>2. \A r \in journal' \ journal :
        r \in f.always \cup closing \/ (mode[a] = "failed" /\ r \in f.failed)
  BY DEF Close
<1>3. closing \subseteq Ends(flow[a]) /\ f.always \subseteq Ends(flow[a])
  BY DEF Ends
<1>4. said' # said => said' = said \cup {f.place} /\ f.verdict # {} /\ mode[a] = "run"
  BY DEF Close
<1> HIDE DEF closing
<1> QED BY <1>1, <1>2, <1>3, <1>4 DEF Answers, Takes

\* A process that dies tells nothing.
LEMMA CrashAnswers == ASSUME TypeInv, NEW a \in Actors, Crash(a) PROVE Answers(a)
<1>1. mode'[a] = "over" /\ UNCHANGED <<journal, said, sent, acked>>
  BY DEF TypeInv, Crash, effect
<1> QED BY <1>1 DEF Answers, Takes

\* A step is a stride of one process, with what it answers, or is around them all.
LEMMA AnswerKinds ==
    ASSUME TypeInv, [Next]_vars
    PROVE  (Around /\ AroundAnswers) \/ \E a \in Actors : Stride(a) /\ Answers(a)
<1>1. CASE UNCHANGED vars
  BY <1>1 DEF vars, process, disk, effect, Around, AroundAnswers
<1>2. CASE Drift
  BY <1>2 DEF Drift, process, effect, Around, AroundAnswers
<1>3. CASE \E place \in Stoppable : Stop(place)
  <2>1. PICK place \in Stoppable : Stop(place)
    BY <1>3
  <2>2. PICK a \in Actors : place \in Table[flow[a]].stoppable
    BY <2>1 DEF Stop
  <2>3. /\ journal' = journal \cup {<<place, "stop">>} /\ UNCHANGED <<process, said, lock, changed, effect>>
        /\ <<place, "stop">> \in Leaves(flow[a]) /\ <<place, "stop">> \in Stops(flow[a])
    BY <2>1, <2>2 DEF Stop, Leaves, Stops
  <2> QED BY <2>3 DEF process, effect, Around, AroundAnswers
<1>4. ASSUME NEW a \in Actors,
             \/ Start(a) \/ Check(a) \/ WriteRecord(a) \/ SendEffect(a) \/ CommitEffect(a) \/ ExecEffect(a)
             \/ Observe(a) \/ Branch(a) \/ TakeLock(a) \/ ReleaseLock(a) \/ BackUp(a) \/ VerifyBackup(a)
             \/ Close(a) \/ Crash(a)
      PROVE  Stride(a) /\ Answers(a)
  <2>1. Stride(a)
    BY <1>4, StartStride, CheckStride, WriteStride, SendStride, CommitStride, ExecStride, ObserveStride,
       BranchStride, LockStride, CloseStride, CrashStride
  <2>2. Answers(a)
    BY <1>4, StartAnswers, QuietAnswers, WriteAnswers, SendAnswers, CommitAnswers, ExecAnswers, CloseAnswers,
       CrashAnswers
  <2> QED BY <2>1, <2>2
<1> QED BY <1>1, <1>2, <1>3, <1>4 DEF Next
-----------------------------------------------------------------------------
(* What the records tell is so, because of two processes only one can have       *)
(* created the record behind which an effect is performed.                       *)

\* A process has made the record c, on its way to some step; none that has is on
\* its way to the effect e.
OnTrack(a, c) == \E j \in DOMAIN Plan[flow[a]], k \in Nat : Past(a, c, j, k)
Closed(e, c) ==
    c \in journal /\ \A a \in Actors : \A j : \A i \in PerformsAt(flow[a], e) : ~Past(a, c, j, i)

TracksAlone ==
    \A a \in Actors : \A c : OnTrack(a, c) => c \in journal /\ \A b \in Actors : OnTrack(b, c) => a = b

\* An effect was performed by the process on the track of its claim, if there is one:
\* it has the answer, and is still there.
AnswersTracked ==
    \A e, c : PerformedBehind(e, c, AllFlows) =>
        /\ e \in sent => c \in journal
        /\ \A a \in Actors : OnTrack(a, c) /\ e \in sent => e \in acked /\ ~PerformedBy("exec", e, AllFlows)
CommitsAnswered == \A e : PerformedBy("commit", e, AllFlows) /\ e \in sent => e \in acked
PassedAnswered ==
    \A a \in Actors : \A e, i : \A k \in Nat :
        i \in PerformsAt(flow[a], e) /\ Passes(flow[a], i, k) /\ At(a, i, k) => e \in acked

\* A record of a verdict, or a reported success, tells that its effects were answered.
Settled(e, c) == Closed(e, c) /\ (e \in sent => e \in acked)
RecordsTell ==
    \A v : OnlySteps(v, AllFlows, Given[flow]) /\ v \in journal =>
        /\ \A c : LeftBehind(v, c, AllFlows) => c \in journal
        /\ \A e : LeftAfter(v, e, AllFlows) => e \in acked
        /\ \A e, c : PerformedBehind(e, c, AllFlows) /\ LeftBehind(v, c, AllFlows) /\ LeftLast(v, e, AllFlows)
                        => Settled(e, c)
OutcomesTell ==
    \A p \in said :
        /\ \A e : SaidAfter(p, e, AllFlows) => e \in acked
        /\ \A e, c : PerformedBehind(e, c, AllFlows) /\ SaidBehind(p, c, AllFlows) => Settled(e, c)

\* What a step has found is there; a place is claimed behind the mark.
FoundThere ==
    \A a \in Actors : \A i, v : \A k \in Nat : Finds(flow[a], i, k, v) /\ At(a, i, k) => v \in journal
PlacesMarked ==
    \A a \in Actors : \A p \in made[a] :
        /\ MarkingAt(flow[a], p) # {}
        /\ MarkFirst(flow[a], p, AllFlows, Given[flow]) => Table[flow[a]].mark \in journal

\* A process that failed, or the record of that, tells that its effect was not performed.
DenialsTell ==
    \A d, e, c :
        DeniesEffect(d, e, c, AllFlows, Given[flow]) =>
            ((d \in journal \/ \E b \in Actors : mode[b] = "failed" /\ d \in Table[flow[b]].failed)
                => e \notin sent /\ Closed(e, c))

StatusInv ==
    /\ TracksAlone /\ AnswersTracked /\ CommitsAnswered /\ PassedAnswered /\ RecordsTell /\ OutcomesTell
    /\ FoundThere /\ PlacesMarked /\ DenialsTell

\* A process comes on the track of a record by writing it.
LEMMA TrackStep ==
    ASSUME TypeInv, NEW a \in Actors, NEW b \in Actors, Stride(a), NEW c, OnTrack(b, c)'
    PROVE  OnTrack(b, c) \/ (a = b /\ Step(a).record = c /\ Writes(a))
<1>1. PICK j \in DOMAIN Plan[flow[b]], k \in Nat : Past(b, c, j, k)'
  BY Lasting DEF OnTrack
<1> QED BY <1>1, PastStep DEF OnTrack

\* On the way to a step behind the record c a process is on its track.
LEMMA BehindTrack ==
    ASSUME TypeInv, NEW a \in Actors, mode[a] = "run", NEW c, Behind(flow[a], c, pc[a])
    PROVE  OnTrack(a, c) /\ \E j \in DOMAIN Plan[flow[a]] : Past(a, c, j, pc[a])
<1>1. pc[a] \in Nat
  BY DEF TypeInv
<1> QED BY <1>1, BehindPast DEF OnTrack

\* What a process is past is behind it on a track.
LEMMA PastTrack ==
    ASSUME TypeInv, NEW a \in Actors, NEW c, NEW j, NEW i, Past(a, c, j, i), i \in Nat
    PROVE  OnTrack(a, c)
BY DEF OnTrack, Past, ClaimsAt

\* The steps of a plan are numbered.
LEMMA StepNumbers ==
    ASSUME TypeInv, NEW a \in Actors, NEW e, NEW i \in PerformsAt(flow[a], e)
    PROVE  i \in Nat /\ i \in DOMAIN Plan[flow[a]] /\ flow[a] \in Flows /\ i <= Len(Plan[flow[a]])
<1>1. flow[a] \in Flows /\ i \in DOMAIN Plan[flow[a]]
  BY ActorAssumption DEF TypeInv, PerformsAt
<1>2. Len(Plan[flow[a]]) \in Nat /\ DOMAIN Plan[flow[a]] = 1 .. Len(Plan[flow[a]])
  BY <1>1, PlanAssumption
<1> QED BY <1>1, <1>2, SMT

\* Only a process at an effect performs it.
LEMMA SentStep ==
    ASSUME TypeInv, NEW x \in Actors, Stride(x), NEW e, e \in sent', e \notin sent
    PROVE  /\ Acts(x) /\ mode[x] = "run" /\ pc[x] \in PerformsAt(flow[x], e) /\ Step(x).record = e
           /\ sent' # sent /\ Performs(Step(x)) /\ Step(x) = Plan[flow[x]][pc[x]]
<1>1. Acts(x) /\ e = Step(x).record
  BY DEF Stride, Writes, Acts, Rests, Performed
<1>2. mode[x] = "run" /\ pc[x] \in DOMAIN Steps(x) /\ Performs(Step(x))
  BY <1>1 DEF Acts
<1>3. pc[x] \in PerformsAt(flow[x], e)
  BY <1>1, <1>2, AtEffect
<1> QED BY <1>1, <1>2, <1>3 DEF Step, Steps

\* Behind a claim only the process on its track performs the effect.
LEMMA SentOnTrack ==
    ASSUME TypeInv, NEW x \in Actors, Stride(x), NEW e, NEW c, PerformedBehind(e, c, AllFlows),
           e \in sent', e \notin sent
    PROVE  OnTrack(x, c) /\ \E j : Past(x, c, j, pc[x])
<1>1. mode[x] = "run" /\ pc[x] \in PerformsAt(flow[x], e)
  BY SentStep
<1>2. Behind(flow[x], c, pc[x])
  BY <1>1 DEF PerformedBehind, AllFlows
<1> QED BY <1>1, <1>2, BehindTrack

\* Once nobody is on the way to an effect, and its claim is there, it stays as it is.
LEMMA ClosedKept ==
    ASSUME TypeInv, NEW x \in Actors, Stride(x), NEW e, NEW c, PerformedBehind(e, c, AllFlows), Closed(e, c)
    PROVE  Closed(e, c)' /\ (e \in sent' => e \in sent)
<1>0. flow' = flow /\ journal \subseteq journal'
  BY Lasting
<1>1. ASSUME NEW b \in Actors, NEW j, NEW i \in PerformsAt(flow[b], e), Past(b, c, j, i)'
      PROVE  FALSE
  <2>1. i \in Nat
    BY StepNumbers
  <2>2. Past(b, c, j, i) \/ (Step(x).record = c /\ Writes(x))
    BY <1>1, <2>1, PastStep
  <2> QED BY <2>2 DEF Closed, Writes
<1>2. ASSUME e \in sent', e \notin sent
      PROVE  FALSE
  <2>1. pc[x] \in PerformsAt(flow[x], e)
    BY <1>2, SentStep
  <2>2. PICK j : Past(x, c, j, pc[x])
    BY <1>2, SentOnTrack
  <2> QED BY <2>1, <2>2 DEF Closed
<1> QED BY <1>0, <1>1, <1>2 DEF Closed

\* Two processes are never on one track.
LEMMA TracksKept ==
    ASSUME TypeInv, TracksAlone, NEW x \in Actors, Stride(x)
    PROVE  TracksAlone'
<1>0. journal \subseteq journal'
  BY Lasting
<1> SUFFICES ASSUME NEW a \in Actors, NEW c, OnTrack(a, c)'
             PROVE  c \in journal' /\ \A b \in Actors : OnTrack(b, c)' => a = b
  BY DEF TracksAlone
<1> DEFINE W == Step(x).record = c /\ Writes(x)
<1>1. \A b \in Actors : OnTrack(b, c)' => OnTrack(b, c) \/ (x = b /\ W)
  BY TrackStep
<1>2. W => c \notin journal /\ c \in journal'
  BY DEF Writes
<1> HIDE DEF W
<1>3. \A b \in Actors : OnTrack(b, c) => c \in journal
  BY DEF TracksAlone
<1>4. \A b \in Actors : OnTrack(a, c) /\ OnTrack(b, c) => a = b
  BY DEF TracksAlone
<1> QED BY <1>0, <1>1, <1>2, <1>3, <1>4

\* The process on the track of a claim has the answers of its effects.
LEMMA TrackedKept ==
    ASSUME TypeInv, TracksAlone, AnswersTracked, NEW x \in Actors, Stride(x), Answers(x),
           NEW e, NEW c, PerformedBehind(e, c, AllFlows)
    PROVE  /\ e \in sent' => c \in journal'
           /\ \A a \in Actors : OnTrack(a, c)' /\ e \in sent' => e \in acked' /\ ~PerformedBy("exec", e, AllFlows)
<1>0. journal \subseteq journal' /\ acked \subseteq acked'
  BY Lasting DEF Answers
<1>1. CASE e \in sent
  <2>1. c \in journal
    BY <1>1 DEF AnswersTracked
  <2>2. ASSUME NEW a \in Actors, OnTrack(a, c)'
        PROVE  OnTrack(a, c)
    BY <2>1, <2>2, TrackStep DEF Writes
  <2> QED BY <1>0, <1>1, <2>1, <2>2 DEF AnswersTracked
<1>2. CASE e \notin sent /\ e \in sent'
  <2>1. OnTrack(x, c) /\ c \in journal
    BY <1>2, SentOnTrack DEF TracksAlone
  <2>2. /\ Acts(x) /\ pc[x] \in PerformsAt(flow[x], e) /\ Step(x).record = e /\ sent' # sent
        /\ Performs(Step(x)) /\ Step(x) = Plan[flow[x]][pc[x]]
    BY <1>2, SentStep
  <2>3. ASSUME NEW a \in Actors, OnTrack(a, c)'
        PROVE  e \in acked' /\ ~PerformedBy("exec", e, AllFlows)
    <3>1. OnTrack(a, c)
      BY <2>1, <2>3, TrackStep DEF Writes
    <3>2. a = x
      BY <2>1, <3>1 DEF TracksAlone
    <3>3. mode'[x] = "run"
      BY <2>3, <3>2 DEF OnTrack, Past, At
    <3>4. e \in acked'
      BY <2>2, <3>3 DEF Acts, Answers
    <3>5. ~On(x, "exec")
      BY <2>2, <3>3 DEF Answers
    <3>6. Plan[flow[x]][pc[x]].do # "exec"
      BY <2>2, <3>5 DEF On, Acts
    <3> QED BY <2>2, <3>4, <3>6 DEF PerformedBy, AllFlows
  <2> QED BY <1>0, <2>1, <2>3
<1>3. CASE e \notin sent'
  BY <1>3
<1> QED BY <1>1, <1>2, <1>3
\* A commit goes on with its answer.
LEMMA CommitsKept ==
    ASSUME TypeInv, CommitsAnswered, NEW x \in Actors, Stride(x), Answers(x),
           NEW e, PerformedBy("commit", e, AllFlows), e \in sent'
    PROVE  e \in acked'
<1>1. CASE e \in sent
  BY <1>1 DEF CommitsAnswered, Answers
<1>2. CASE e \notin sent
  <2>1. /\ Acts(x) /\ pc[x] \in PerformsAt(flow[x], e) /\ Step(x).record = e /\ sent' # sent
        /\ Performs(Step(x)) /\ Step(x) = Plan[flow[x]][pc[x]]
    BY <1>2, SentStep
  <2>2. On(x, "commit")
    BY <2>1 DEF PerformedBy, AllFlows, On, Acts
  <2> QED BY <2>1, <2>2 DEF Answers
<1> QED BY <1>1, <1>2

\* Who comes past an effect has its answer.
LEMMA PassedKept ==
    ASSUME TypeInv, PassedAnswered, NEW x \in Actors, Stride(x), Answers(x)
    PROVE  PassedAnswered'
<1>0. flow' = flow /\ acked \subseteq acked'
  BY Lasting DEF Answers
<1> SUFFICES ASSUME NEW a \in Actors, NEW e, NEW i, NEW k \in Nat,
                    i \in PerformsAt(flow[a], e), Passes(flow[a], i, k), At(a, i, k)'
             PROVE  e \in acked'
  BY <1>0 DEF PassedAnswered
<1>1. CASE At(a, i, k)
  BY <1>0, <1>1 DEF PassedAnswered
<1>2. CASE a = x /\ Takes(x) /\ pc[x] = i
  <2>1. Performs(Step(x)) /\ Step(x).record = e
    BY <1>2 DEF PerformsAt, Step, Steps
  <2> QED BY <1>2, <2>1 DEF Answers
<1> QED BY <1>1, <1>2, ComesPast

\* Who leaves a record stands at a step of its plan, and goes on.
LEMMA LeftByStep ==
    ASSUME TypeInv, NEW x \in Actors, Stride(x), Answers(x),
           NEW v, OnlySteps(v, AllFlows, Given[flow]), v \in journal', v \notin journal
    PROVE  /\ Takes(x) /\ mode[x] = "run" /\ pc[x] \in LeavesAt(flow[x], v) /\ pc[x] \in Nat
           /\ flow[x] \in AllFlows /\ pc'[x] = pc[x] + 1
<1>1. v \notin Ends(flow[x]) /\ v \notin Table[flow[x]].failed
  BY DEF OnlySteps, AllFlows, Leaves, Ends
<1>2. pc[x] \in LeavesAt(flow[x], v) /\ Takes(x)
  BY <1>1 DEF Answers
<1> QED BY <1>2 DEF Takes, AllFlows, TypeInv

\* A record of a verdict is left after its effects were answered.
LEMMA RecordsKept ==
    ASSUME TypeInv, TracksAlone, AnswersTracked, PassedAnswered, RecordsTell,
           NEW x \in Actors, Stride(x), Answers(x),
           NEW v, OnlySteps(v, AllFlows, Given[flow]), v \in journal'
    PROVE  /\ \A c : LeftBehind(v, c, AllFlows) => c \in journal'
           /\ \A e : LeftAfter(v, e, AllFlows) => e \in acked'
           /\ \A e, c : PerformedBehind(e, c, AllFlows) /\ LeftBehind(v, c, AllFlows) /\ LeftLast(v, e, AllFlows)
                           => Settled(e, c)'
<1>0. flow' = flow /\ journal \subseteq journal' /\ acked \subseteq acked'
  BY Lasting DEF Answers
<1>1. CASE v \in journal
  <2>1. \A c : LeftBehind(v, c, AllFlows) => c \in journal'
    BY <1>0, <1>1 DEF RecordsTell
  <2>2. \A e : LeftAfter(v, e, AllFlows) => e \in acked'
    BY <1>0, <1>1 DEF RecordsTell
  <2>3. ASSUME NEW e, NEW c, PerformedBehind(e, c, AllFlows), LeftBehind(v, c, AllFlows), LeftLast(v, e, AllFlows)
        PROVE  Settled(e, c)'
    <3>1. Closed(e, c) /\ (e \in sent => e \in acked)
      BY <1>1, <2>3 DEF RecordsTell, Settled
    <3>2. Closed(e, c)' /\ (e \in sent' => e \in sent)
      BY <2>3, <3>1, ClosedKept
    <3> QED BY <1>0, <3>1, <3>2 DEF Settled
  <2> QED BY <2>1, <2>2, <2>3
<1>2. CASE v \notin journal
  <2>0. /\ Takes(x) /\ mode[x] = "run" /\ pc[x] \in LeavesAt(flow[x], v) /\ pc[x] \in Nat
        /\ flow[x] \in AllFlows /\ pc'[x] = pc[x] + 1
    BY <1>2, LeftByStep
  <2>1. ASSUME NEW c, LeftBehind(v, c, AllFlows)
        PROVE  OnTrack(x, c) /\ c \in journal
    <3>1. Behind(flow[x], c, pc[x])
      BY <2>0, <2>1 DEF LeftBehind
    <3> QED BY <2>0, <3>1, BehindTrack DEF TracksAlone
  <2>2. ASSUME NEW e, LeftAfter(v, e, AllFlows)
        PROVE  e \in acked'
    <3>1. PICK i \in PerformsAt(flow[x], e) : i = pc[x] \/ Passes(flow[x], i, pc[x])
      BY <2>0, <2>2 DEF LeftAfter
    <3>2. CASE i = pc[x]
      <4>1. Performs(Step(x)) /\ Step(x).record = e
        BY <3>1, <3>2 DEF PerformsAt, Step, Steps
      <4> QED BY <2>0, <4>1 DEF Answers
    <3>3. CASE Passes(flow[x], i, pc[x])
      <4>1. i < pc[x] /\ i \in Nat
        BY <3>1, <3>3, StepNumbers DEF Passes
      <4>2. At(x, i, pc[x])
        BY <2>0, <4>1, SMT DEF At
      <4> QED BY <1>0, <2>0, <3>1, <3>3, <4>2 DEF PassedAnswered
    <3> QED BY <3>1, <3>2, <3>3
  <2>3. ASSUME NEW e, NEW c, PerformedBehind(e, c, AllFlows), LeftBehind(v, c, AllFlows), LeftLast(v, e, AllFlows)
        PROVE  Settled(e, c)'
    <3>1. OnTrack(x, c) /\ c \in journal
      BY <2>1, <2>3
    <3>2. ASSUME NEW b \in Actors, NEW j, NEW i \in PerformsAt(flow[b], e), Past(b, c, j, i)'
          PROVE  FALSE
      <4>1. i \in Nat
        BY StepNumbers
      <4>2. Past(b, c, j, i)
        BY <3>1, <3>2, <4>1, PastStep DEF Writes
      <4>3. b = x
        BY <3>1, <4>1, <4>2, PastTrack DEF TracksAlone
      <4>4. i <= pc[x] /\ pc'[x] <= i
        BY <2>0, <2>3, <3>2, <4>3 DEF LeftLast, Past, At
      <4> QED BY <2>0, <4>1, <4>4, SMT
    <3>3. e \in sent' => e \in acked'
      <4>1. CASE e \in sent
        BY <1>0, <2>3, <3>1, <4>1 DEF AnswersTracked
      <4>2. CASE e \in sent' /\ e \notin sent
        <5>1. Performs(Step(x)) /\ Step(x).record = e
          BY <4>2, SentStep
        <5> QED BY <2>0, <5>1 DEF Answers
      <4> QED BY <4>1, <4>2
    <3> QED BY <1>0, <3>1, <3>2, <3>3 DEF Settled, Closed
  <2> QED BY <1>0, <2>1, <2>2, <2>3
<1> QED BY <1>1, <1>2

\* Past the end of its plan a process is past every step that no branch leaves out.
LEMMA StraightPast ==
    ASSUME TypeInv, NEW x \in Actors, mode[x] = "run", pc[x] > Len(Steps(x)), NEW i, Straight(flow[x], i)
    PROVE  Passes(flow[x], i, pc[x]) /\ At(x, i, pc[x]) /\ pc[x] \in Nat
<1>1. flow[x] \in Flows /\ pc[x] \in Nat /\ i \in DOMAIN Plan[flow[x]]
  BY ActorAssumption DEF TypeInv, Straight
<1>2. Len(Plan[flow[x]]) \in Nat /\ i \in 1 .. Len(Plan[flow[x]]) /\ pc[x] > Len(Plan[flow[x]])
  BY <1>1, PlanAssumption DEF Steps
<1>3. i < pc[x] /\ pc[x] <= pc[x]
  BY <1>1, <1>2, SMT
<1> QED BY <1>1, <1>3 DEF Straight, Passes, At

\* An outcome reports success when all the effects before it were answered.
LEMMA OutcomesKept ==
    ASSUME TypeInv, TracksAlone, AnswersTracked, PassedAnswered, OutcomesTell,
           NEW x \in Actors, Stride(x), Answers(x), NEW p \in said'
    PROVE  /\ \A e : SaidAfter(p, e, AllFlows) => e \in acked'
           /\ \A e, c : PerformedBehind(e, c, AllFlows) /\ SaidBehind(p, c, AllFlows) => Settled(e, c)'
<1>0. flow' = flow /\ journal \subseteq journal' /\ acked \subseteq acked'
  BY Lasting DEF Answers
<1>1. CASE p \in said
  <2>1. \A e : SaidAfter(p, e, AllFlows) => e \in acked'
    BY <1>0, <1>1 DEF OutcomesTell
  <2>2. ASSUME NEW e, NEW c, PerformedBehind(e, c, AllFlows), SaidBehind(p, c, AllFlows)
        PROVE  Settled(e, c)'
    <3>1. Closed(e, c) /\ (e \in sent => e \in acked)
      BY <1>1, <2>2 DEF OutcomesTell, Settled
    <3>2. Closed(e, c)' /\ (e \in sent' => e \in sent)
      BY <2>2, <3>1, ClosedKept
    <3> QED BY <1>0, <3>1, <3>2 DEF Settled
  <2> QED BY <2>1, <2>2
<1>2. CASE p \notin said
  <2>0. /\ p = Table[flow[x]].place /\ Table[flow[x]].verdict # {} /\ mode[x] = "run"
        /\ pc[x] > Len(Steps(x)) /\ mode'[x] = "over" /\ sent' = sent
    BY <1>2 DEF Answers
  <2>1. flow[x] \in Sayers(p, AllFlows)
    BY <2>0 DEF Sayers, AllFlows
  <2>2. ASSUME NEW e, SaidAfter(p, e, AllFlows)
        PROVE  e \in acked'
    <3>1. PICK i \in PerformsAt(flow[x], e) : Straight(flow[x], i)
      BY <2>1, <2>2 DEF SaidAfter
    <3>2. Passes(flow[x], i, pc[x]) /\ At(x, i, pc[x]) /\ pc[x] \in Nat
      BY <2>0, <3>1, StraightPast
    <3> QED BY <1>0, <3>1, <3>2 DEF PassedAnswered
  <2>3. ASSUME NEW e, NEW c, PerformedBehind(e, c, AllFlows), SaidBehind(p, c, AllFlows)
        PROVE  Settled(e, c)'
    <3>1. PICK j \in ClaimsAt(flow[x], c) : Straight(flow[x], j)
      BY <2>1, <2>3 DEF SaidBehind
    <3>2. Past(x, c, j, pc[x]) /\ pc[x] \in Nat
      BY <2>0, <3>1, StraightPast DEF Past
    <3>3. OnTrack(x, c) /\ c \in journal
      BY <3>2, PastTrack DEF TracksAlone
    <3>4. ASSUME NEW b \in Actors, NEW k, NEW i \in PerformsAt(flow[b], e), Past(b, c, k, i)'
          PROVE  FALSE
      <4>1. i \in Nat
        BY StepNumbers
      <4>2. Past(b, c, k, i)
        BY <3>3, <3>4, <4>1, PastStep DEF Writes
      <4>3. b = x
        BY <3>3, <4>1, <4>2, PastTrack DEF TracksAlone
      <4> QED BY <2>0, <3>4, <4>3 DEF Past, At
    <3>5. e \in sent' => e \in acked'
      BY <1>0, <2>0, <2>3, <3>3 DEF AnswersTracked
    <3> QED BY <1>0, <3>3, <3>4, <3>5 DEF Settled, Closed
  <2> QED BY <2>2, <2>3
<1> QED BY <1>1, <1>2

\* What a step found stays.
LEMMA FoundKept ==
    ASSUME TypeInv, FoundThere, NEW x \in Actors, Stride(x)
    PROVE  FoundThere'
<1>0. flow' = flow /\ journal \subseteq journal'
  BY Lasting
<1> SUFFICES ASSUME NEW a \in Actors, NEW i, NEW v, NEW k \in Nat,
                    Finds(flow[a], i, k, v), At(a, i, k)'
             PROVE  v \in journal'
  BY <1>0 DEF FoundThere
<1>1. CASE At(a, i, k)
  BY <1>0, <1>1 DEF FoundThere
<1>2. CASE a = x /\ Takes(x) /\ pc[x] = i
  <2>1. On(x, "check") /\ v \in Step(x).present
    BY <1>2 DEF Finds, On, Takes, Step, Steps
  <2>2. Rests(x) /\ mode'[x] = "run"
    BY <1>2, <2>1 DEF Stride, Writes, Acts, Performs, On, Takes
  <2> QED BY <1>0, <2>1, <2>2 DEF Rests, Holds
<1> QED BY <1>1, <1>2, ComesPast DEF Finds

\* A place is claimed by the mark, or behind it.
LEMMA PlacesKept ==
    ASSUME TypeInv, TracksAlone, RecordsTell, FoundThere, PlacesMarked, NEW x \in Actors, Stride(x),
           NEW a \in Actors, NEW p \in made'[a]
    PROVE  /\ MarkingAt(flow[a], p) # {}
           /\ MarkFirst(flow[a], p, AllFlows, Given[flow]) => Table[flow[a]].mark \in journal'
<1>0. journal \subseteq journal'
  BY Lasting
<1>1. CASE p \in made[a]
  BY <1>0, <1>1 DEF PlacesMarked
<1>2. CASE p \notin made[a]
  <2> DEFINE r == Step(a).record
             f == flow[a]
             k == pc[a]
  <2>1. a = x /\ Writes(a) /\ Marks(f, r) /\ r[1] = p
    BY <1>2 DEF Stride, Makes
  <2>2. /\ On(a, "write") /\ mode[a] = "run" /\ k \in DOMAIN Plan[f] /\ k \in Nat
        /\ Step(a) = Plan[f][k] /\ r \in journal'
    BY <2>1 DEF Writes, Takes, Step, Steps, TypeInv
  <2>3. k \in MarkingAt(f, p)
    BY <2>1, <2>2 DEF MarkingAt, On
  <2>4. ASSUME MarkFirst(f, p, AllFlows, Given[flow])
        PROVE  Table[f].mark \in journal'
    <3> DEFINE mark == Table[f].mark
    <3>1. CASE Plan[f][k].record = mark
      BY <2>2, <3>1
    <3>2. CASE Behind(f, mark, k)
      BY <1>0, <2>2, <3>2, BehindTrack DEF TracksAlone
    <3>3. CASE \E i \in DOMAIN Plan[f] : \E v \in Plan[f][i].present :
                  Finds(f, i, k, v) /\ OnlySteps(v, AllFlows, Given[flow]) /\ LeftBehind(v, mark, AllFlows)
      <4>0. PICK i \in DOMAIN Plan[f] : \E v \in Plan[f][i].present :
                   Finds(f, i, k, v) /\ OnlySteps(v, AllFlows, Given[flow]) /\ LeftBehind(v, mark, AllFlows)
        BY <3>3
      <4>1. PICK v \in Plan[f][i].present :
                   Finds(f, i, k, v) /\ OnlySteps(v, AllFlows, Given[flow]) /\ LeftBehind(v, mark, AllFlows)
        BY <4>0
      <4>2. At(a, i, k)
        BY <2>2, <4>1, SMT DEF Finds, Passes, At
      <4>3. v \in journal
        BY <2>2, <4>1, <4>2 DEF FoundThere
      <4> QED BY <1>0, <4>1, <4>3 DEF RecordsTell
    <3> QED BY <2>3, <2>4, <3>1, <3>2, <3>3 DEF MarkFirst
  <2> QED BY <2>3, <2>4
<1> QED BY <1>1, <1>2

\* A process fails only where it could still have performed its effect, and did not.
LEMMA DenialsKept ==
    ASSUME TypeInv, TracksAlone, AnswersTracked, DenialsTell, NEW x \in Actors, Stride(x), Answers(x),
           NEW d, NEW e, NEW c, DeniesEffect(d, e, c, AllFlows, Given[flow]),
           d \in journal' \/ \E b \in Actors : mode'[b] = "failed" /\ d \in Table[flow[b]].failed
    PROVE  e \notin sent' /\ Closed(e, c)'
<1> DEFINE Told == d \in journal \/ \E b \in Actors : mode[b] = "failed" /\ d \in Table[flow[b]].failed
<1>0. journal \subseteq journal' /\ PerformedBehind(e, c, AllFlows) /\ PerformedBy("exec", e, AllFlows)
  BY Lasting DEF DeniesEffect
<1>1. CASE Told
  <2>1. e \notin sent /\ Closed(e, c)
    BY <1>1 DEF DenialsTell
  <2> QED BY <1>0, <2>1, ClosedKept
<1>2. CASE ~Told
  <2>1. d \notin journal'
    <3> SUFFICES ASSUME d \in journal' PROVE FALSE
      OBVIOUS
    <3>1. LeavesAt(flow[x], d) = {} /\ d \notin Ends(flow[x])
      BY DEF DeniesEffect, AllFlows
    <3> QED BY <1>2, <3>1 DEF Answers
  <2>2. PICK b \in Actors : mode'[b] = "failed" /\ d \in Table[flow[b]].failed
    BY <2>1
  <2>3. b = x
    BY <1>2, <2>2 DEF Stride, Moves
  <2>4. /\ mode[x] = "run" /\ pc[x] \in DOMAIN Plan[flow[x]] /\ mode'[x] = "failed"
        /\ ~(pc[x] < TryAt[flow[x]]) \/ Performs(Plan[flow[x]][pc[x]])
    BY <2>2, <2>3 DEF Answers, Step, Steps
  <2>5. Behind(flow[x], c, pc[x])
    BY <2>2, <2>3, <2>4 DEF DeniesEffect, AllFlows
  <2>6. OnTrack(x, c) /\ c \in journal
    BY <2>4, <2>5, BehindTrack DEF TracksAlone
  <2>7. e \notin sent
    BY <1>0, <2>6 DEF AnswersTracked
  <2>8. e \notin sent'
    <3> SUFFICES ASSUME e \in sent' PROVE FALSE
      OBVIOUS
    <3>1. /\ Acts(x) /\ pc[x] \in PerformsAt(flow[x], e) /\ sent' # sent /\ Step(x) = Plan[flow[x]][pc[x]]
      BY <2>7, SentStep
    <3>2. On(x, "exec")
      BY <1>0, <3>1 DEF PerformedBy, AllFlows, On, Acts
    <3> QED BY <2>4, <3>1, <3>2 DEF Answers
  <2>9. ASSUME NEW y \in Actors, NEW j, NEW i \in PerformsAt(flow[y], e), Past(y, c, j, i)'
        PROVE  FALSE
    <3>1. i \in Nat
      BY StepNumbers
    <3>2. Past(y, c, j, i)
      BY <2>6, <2>9, <3>1, PastStep DEF Writes
    <3>3. y = x
      BY <2>6, <3>1, <3>2, PastTrack DEF TracksAlone
    <3> QED BY <2>4, <2>9, <3>3 DEF Past, At
  <2>10. flow' = flow
    BY Lasting
  <2> QED BY <1>0, <2>6, <2>8, <2>9, <2>10 DEF Closed
<1> QED BY <1>1, <1>2

\* A stride of any process keeps what the records tell.
LEMMA StatusStride ==
    ASSUME TypeInv, StatusInv, NEW x \in Actors, Stride(x), Answers(x)
    PROVE  StatusInv'
<1>0. flow' = flow /\ AllFlows' = AllFlows /\ Given[flow]' = Given[flow]
  BY Lasting DEF AllFlows
<1>1. TracksAlone' /\ PassedAnswered' /\ FoundThere'
  BY TracksKept, PassedKept, FoundKept DEF StatusInv
<1>2. AnswersTracked'
  BY <1>0, TrackedKept DEF StatusInv, AnswersTracked
<1>3. CommitsAnswered'
  BY <1>0, CommitsKept DEF StatusInv, CommitsAnswered
<1>4. RecordsTell'
  BY <1>0, RecordsKept DEF StatusInv, RecordsTell
<1>5. OutcomesTell'
  BY <1>0, OutcomesKept DEF StatusInv, OutcomesTell
<1>6. PlacesMarked'
  BY <1>0, PlacesKept DEF StatusInv, PlacesMarked
<1>7. DenialsTell'
  BY <1>0, DenialsKept DEF StatusInv, DenialsTell
<1> QED BY <1>1, <1>2, <1>3, <1>4, <1>5, <1>6, <1>7 DEF StatusInv

\* What happens around the processes leaves what the records tell.
LEMMA StatusAround ==
    ASSUME TypeInv, StatusInv, Around, AroundAnswers
    PROVE  StatusInv'
<1>0. /\ flow' = flow /\ AllFlows' = AllFlows /\ Given[flow]' = Given[flow] /\ journal \subseteq journal'
      /\ UNCHANGED <<pc, mode, made, sent, acked, said>>
  BY Lasting DEF Around, AroundAnswers, AllFlows
<1>1. \A a \in Actors : \A i, k : At(a, i, k)' <=> At(a, i, k)
  BY <1>0 DEF At
<1>2. \A a \in Actors : \A c, j, k : Past(a, c, j, k)' <=> Past(a, c, j, k)
  BY <1>0, <1>1 DEF Past
<1>3. \A a \in Actors : \A c : OnTrack(a, c)' <=> OnTrack(a, c)
  BY <1>0, <1>2 DEF OnTrack
<1>4. \A e, c : (Closed(e, c) => Closed(e, c)') /\ (Settled(e, c) => Settled(e, c)')
  BY <1>0, <1>2 DEF Closed, Settled
<1>5. TracksAlone'
  BY <1>0, <1>3 DEF StatusInv, TracksAlone
<1>6. AnswersTracked' /\ CommitsAnswered' /\ PassedAnswered' /\ FoundThere'
  BY <1>0, <1>1, <1>3 DEF StatusInv, AnswersTracked, CommitsAnswered, PassedAnswered, FoundThere
<1>7. RecordsTell'
  <2>1. \A v : OnlySteps(v, AllFlows, Given[flow]) /\ v \in journal' => v \in journal
    BY DEF OnlySteps, AllFlows, Around
  <2> QED BY <1>0, <1>4, <2>1 DEF StatusInv, RecordsTell
<1>8. OutcomesTell'
  BY <1>0, <1>4 DEF StatusInv, OutcomesTell
<1>9. PlacesMarked'
  BY <1>0 DEF StatusInv, PlacesMarked
<1>10. DenialsTell'
  <2>1. \A d, e, c : DeniesEffect(d, e, c, AllFlows, Given[flow]) /\ d \in journal' => d \in journal
    BY DEF DeniesEffect, AllFlows, AroundAnswers
  <2> QED BY <1>0, <1>4, <2>1 DEF StatusInv, DenialsTell
<1> QED BY <1>5, <1>6, <1>7, <1>8, <1>9, <1>10 DEF StatusInv

\* At first nothing was performed, reported or claimed.
LEMMA StatusInit == Init => StatusInv
<1> SUFFICES ASSUME Init PROVE StatusInv
  OBVIOUS
<1>1. \A a \in Actors : mode[a] = "over" /\ made[a] = {}
  BY DEF Init
<1>2. \A a \in Actors : \A i, k : ~At(a, i, k)
  BY <1>1 DEF At
<1>3. \A a \in Actors : \A c : ~OnTrack(a, c)
  BY <1>2 DEF OnTrack, Past
<1>4. sent = {} /\ said = {} /\ journal = Given[flow]
  BY DEF Init
<1>5. TracksAlone /\ AnswersTracked /\ CommitsAnswered /\ PassedAnswered /\ OutcomesTell /\ FoundThere /\ PlacesMarked
  BY <1>1, <1>2, <1>3, <1>4
  DEF TracksAlone, AnswersTracked, CommitsAnswered, PassedAnswered, OutcomesTell, FoundThere, PlacesMarked
<1>6. RecordsTell
  BY <1>4 DEF RecordsTell, OnlySteps
<1>7. DenialsTell
  BY <1>1, <1>4 DEF DenialsTell, DeniesEffect
<1> QED BY <1>5, <1>6, <1>7 DEF StatusInv

\* A control that is done has its place; its effects were answered, and none is missing.
LEMMA DoneIsTrue ==
    ASSUME TypeInv, OnRecord, StatusInv, NEW f \in AllFlows, Status(f) = "done", NEW e \in EffectsOf[f]
    PROVE  /\ e \in sent => e \in acked \ again
           /\ e \notin Optional[f] => e \in acked
<1>0. flow \in Assignments /\ AllFlows = {flow[x] : x \in Actors}
  BY DEF TypeInv, AllFlows
<1>1. /\ \E a \in Actors : flow[a] = f /\ Table[f].place \in made[a]
      /\ Table[f].verdict # {} /\ Table[f].verdict \subseteq journal
      /\ Table[f].always = {} \/ Table[f].place \in said
  BY DEF Status
<1>2. Granting(f) # {}
  <2>1. MarkingAt(f, Table[f].place) # {}
    BY <1>1 DEF StatusInv, PlacesMarked
  <2> QED BY <2>1 DEF MarkingAt, Granting
<1>3. /\ TellsAnswer(f, e, AllFlows, Given[flow])
      /\ e \notin Optional[f] => TellsEffect(f, e, AllFlows, Given[flow])
  BY <1>0, <1>1, <1>2, StatusAssumption
<1>4. e \in sent => e \in acked
  <2>1. CASE PerformedBy("commit", e, AllFlows)
    BY <2>1 DEF StatusInv, CommitsAnswered
  <2>2. ASSUME NEW c, PerformedBehind(e, c, AllFlows), NEW v \in Table[f].verdict,
               OnlySteps(v, AllFlows, Given[flow]), LeftBehind(v, c, AllFlows), LeftLast(v, e, AllFlows)
        PROVE  e \in sent => e \in acked
    BY <1>1, <2>2 DEF StatusInv, RecordsTell, Settled
  <2>3. ASSUME NEW c, PerformedBehind(e, c, AllFlows), Table[f].always # {},
               SaidBehind(Table[f].place, c, AllFlows)
        PROVE  e \in sent => e \in acked
    BY <1>1, <2>3 DEF StatusInv, OutcomesTell, Settled
  <2> QED BY <1>3, <2>1, <2>2, <2>3 DEF TellsAnswer
<1>5. e \notin Optional[f] => e \in acked
  BY <1>1, <1>3 DEF TellsEffect, StatusInv, RecordsTell, OutcomesTell
<1> QED BY <1>4, <1>5 DEF OnRecord

\* A control that is not submitted has no place of an effect, and one that failed did
\* not perform its effect.
LEMMA DenialIsTrue ==
    ASSUME TypeInv, StatusInv, NEW f \in AllFlows, Status(f) \in {"not_submitted", "failed"},
           NEW a \in Actors, flow[a] = f, NEW e \in EffectsOf[f], e \in sent
    PROVE  e[1] \notin made[a]
<1>0. flow \in Assignments /\ AllFlows = {flow[x] : x \in Actors}
  BY DEF TypeInv, AllFlows
<1>1. CASE Table[f].mark \notin journal
  <2>1. MarkFirst(f, e[1], AllFlows, Given[flow])
    BY <1>0, StatusAssumption
  <2> QED BY <1>1, <2>1 DEF StatusInv, PlacesMarked
<1>2. CASE Table[f].mark \in journal
  <2>1. Table[f].denies # {} /\ Table[f].denies \subseteq journal
    BY <1>2 DEF Status
  <2>2. PICK d \in Table[f].denies, c \in {Plan[f][k].record : k \in DOMAIN Plan[f]} :
               DeniesEffect(d, e, c, AllFlows, Given[flow])
    BY <1>0, <2>1, StatusAssumption
  <2>3. e \notin sent
    BY <2>1, <2>2 DEF StatusInv, DenialsTell
  <2> QED BY <2>3
<1> QED BY <1>1, <1>2

\* The status command tells the truth: it says done only when every effect that had
\* to be was performed once and answered, and not submitted, or failed, only when no
\* process of that control performed one - for any table of plans that can tell, any
\* number of processes, and whatever crashes or loses its answer.
THEOREM StatusIsTruthful == Spec => []StatusTruthful
<1>1. IInv /\ StatusInv /\ [Next]_vars => StatusInv'
  BY AnswerKinds, StatusStride, StatusAround DEF IInv
<1>2. IInv /\ StatusInv => StatusTruthful
  <2> SUFFICES ASSUME IInv, StatusInv, NEW f \in {flow[a] : a \in Actors}
               PROVE  /\ Status(f) = "done" =>
                           /\ EffectsOf[f] \cap sent \subseteq acked \ again
                           /\ EffectsOf[f] \ Optional[f] \subseteq acked
                      /\ Status(f) \in {"not_submitted", "failed"} =>
                           \A a \in Actors, e \in EffectsOf[f] \cap sent : flow[a] = f => e[1] \notin made[a]
    BY DEF StatusTruthful
  <2>1. TypeInv /\ OnRecord /\ f \in AllFlows
    BY DEF IInv, AllFlows
  <2>2. ASSUME Status(f) = "done"
        PROVE  EffectsOf[f] \cap sent \subseteq acked \ again /\ EffectsOf[f] \ Optional[f] \subseteq acked
    BY <2>1, <2>2, DoneIsTrue
  <2>3. ASSUME Status(f) \in {"not_submitted", "failed"}, NEW a \in Actors, NEW e \in EffectsOf[f] \cap sent,
               flow[a] = f
        PROVE  e[1] \notin made[a]
    BY <2>1, <2>3, DenialIsTrue
  <2> QED BY <2>2, <2>3
<1> QED BY Invariant, StatusInit, <1>1, <1>2, PTL DEF Spec
=============================================================================
