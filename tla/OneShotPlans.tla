---------------------------- MODULE OneShotPlans ----------------------------
(* The plans of the one-shot recovery controls, as one table, and what they   *)
(* have in common whichever controls they are of: where each claims the effects *)
(* it performs, what it looks for under the locks, and what it leaves behind.   *)
EXTENDS OneShotSteps

CONSTANTS Table,        \* the controls, by name
          Actors,
          Assignments   \* which control each actor runs: a set of functions

Flows == DOMAIN Table

\* The steps of a control: its backup, its claim, its try block.
Plan == [f \in Flows |-> Table[f].backup \o Table[f].claim \o Table[f].body]
ConfirmAt == [f \in Flows |-> Len(Table[f].backup) + 1]
TryAt     == [f \in Flows |-> Len(Table[f].backup) + Len(Table[f].claim) + 1]

Performs(step) == step.do \in {"send", "commit", "exec"}
EffectsOf == [f \in Flows |-> {Plan[f][k].record : k \in {i \in DOMAIN Plan[f] : Performs(Plan[f][i])}}]
Effects   == UNION {EffectsOf[f] : f \in Flows}

\* The records that earlier controls have left to the ones the actors run.
Given == [assigned \in Assignments |-> UNION {Table[assigned[a]].before : a \in Actors}]

-----------------------------------------------------------------------------
(* The plan around an effect. *)

\* The steps that claim the effect r, and those that perform it.
ClaimsAt(f, r)   == {k \in DOMAIN Plan[f] : Plan[f][k].do = "write" /\ Plan[f][k].record = r}
PerformsAt(f, r) == {k \in DOMAIN Plan[f] : Performs(Plan[f][k]) /\ Plan[f][k].record = r}

\* Where a branch goes on that leaves its steps out.
JumpTo(f, p) == p + 1 + Plan[f][p].skip

\* Step i is taken by whoever comes to a step after it, up to k.
Passes(f, i, k) ==
    /\ i \in DOMAIN Plan[f] /\ ConfirmAt[f] <= i /\ i < k
    /\ \A p \in DOMAIN Plan[f] : Plan[f][p].do = "fork" => ~(p <= i /\ i < JumpTo(f, p) /\ JumpTo(f, p) <= k)

\* The positions at which the locks are held.
Unbroken(f, q, p) == \A u \in DOMAIN Plan[f] : q < u /\ u < p => Plan[f][u].do # "unlock"
Locked(f, p) == \E q \in DOMAIN Plan[f] : q < p /\ Plan[f][q].do = "lock" /\ Unbroken(f, q, p)

\* What a failure, an end or a stop of a control leaves.
Leaves(f) ==
    Table[f].failed \cup Table[f].always \cup {pair[2] : pair \in Table[f].closes}
        \cup {<<place, "stop">> : place \in Table[f].stoppable}

\* An effect that a control claims itself, once, before it performs it, once; its
\* review is read again in between if it is to be fenced.
ClaimedFirst(f, r) ==
    /\ \A j, k \in PerformsAt(f, r) : j = k
    /\ \A k \in PerformsAt(f, r) : \E j \in ClaimsAt(f, r) : Passes(f, j, k)
    /\ r \in Table[f].fenced =>
         \A j \in ClaimsAt(f, r), k \in PerformsAt(f, r), i \in DOMAIN Plan[f] :
             j < i /\ i < k /\ Plan[f][i].do = "check" => Passes(f, i, k)

\* Under the locks of step k, step i has looked for the row; step i has found r.
Looks(f, i, k, row) ==
    /\ Passes(f, i, k) /\ Plan[f][i].do = "check" /\ row \in Plan[f][i].absent
    /\ Locked(f, i) /\ Unbroken(f, i, k)
Finds(f, i, k, r) == Passes(f, i, k) /\ Plan[f][i].do = "check" /\ r \in Plan[f][i].present

\* An effect whose claim may be left by a control that crashed: it is committed
\* with its row, under the locks under which it was read that there is no such
\* row, and that the claim is there; and nothing else writes the row.
RowFirst(r, row) ==
    \A f \in Flows :
        /\ r \notin Table[f].fenced \cup Table[f].before /\ row \notin Leaves(f)
        /\ \A j, k \in PerformsAt(f, r) : j = k
        /\ \A k \in PerformsAt(f, r) :
            /\ Plan[f][k].do = "commit" /\ Plan[f][k].saves = row
            /\ \E i \in DOMAIN Plan[f] : Looks(f, i, k, row)
            /\ \E i \in DOMAIN Plan[f] : Finds(f, i, k, r)
        /\ \A k \in DOMAIN Plan[f] :
            /\ Plan[f][k].do = "write" => Plan[f][k].record # row
            /\ Plan[f][k].do = "commit" /\ Plan[f][k].saves = row => Plan[f][k].record = r

ClaimedEffects == {r \in Effects : \A f \in Flows : ClaimedFirst(f, r)}
Rows == UNION {{Plan[f][k].saves : k \in DOMAIN Plan[f]} : f \in Flows}

-----------------------------------------------------------------------------
(* Two controls that meet. *)

\* Two controls of which each re-reads that the other is not there.
Refuses(f, g) == \E k \in DOMAIN Table[f].claim : Table[g].mark \in Table[f].claim[k].absent
Rivals == {e \in Flows \X Flows : Refuses(e[1], e[2]) /\ Refuses(e[2], e[1])}

\* Two controls with effects of their own that claim a record in common.
Claims(f) == {Table[f].claim[k].record : k \in {i \in DOMAIN Table[f].claim : Table[f].claim[i].do = "write"}}
Contending ==
    {e \in Flows \X Flows : EffectsOf[e[1]] \cap EffectsOf[e[2]] = {} /\ Claims(e[1]) \cap Claims(e[2]) # {}}

\* The records by which a process claims a place, and the steps of a control that
\* claim its own.
Marks(f, r) == r = Table[f].mark \/ r[2] \in {"dir", "fence", "monitor.claim"}
Granting(f) == {k \in DOMAIN Plan[f] : LET r == Plan[f][k].record IN
                  Plan[f][k].do = "write" /\ r[1] = Table[f].place /\ Marks(f, r)}
Grants(f)   == {Plan[f][k].record : k \in Granting(f)}

\* Before step k the control has claimed the record c.
Behind(f, c, k) == \E j \in ClaimsAt(f, c) : Passes(f, j, k)

\* Each makes the record c, or has made it, where it claims its place.
ByOneClaim(f, g, c) ==
    \A h \in {f, g} : \A k \in Granting(h) : Plan[h][k].record = c \/ Behind(h, c, k)

\* Where it claims its place, each has looked for the records of the other, under
\* the locks under which all of them are written.
Misses(f, i, k, row) == Looks(f, i, k, row) /\ \A u \in ClaimsAt(f, row) : ~(i < u /\ u < k)
Wary(f, g) == \A k \in Granting(f), row \in Grants(g) : \E i \in DOMAIN Plan[f] : Misses(f, i, k, row)
ByLocks(f, g, flows) ==
    /\ Wary(f, g) /\ Wary(g, f)
    /\ \A h \in flows, row \in Grants(f) \cup Grants(g) :
        /\ row \notin Leaves(h)
        /\ \A k \in DOMAIN Plan[h] : Plan[h][k].do = "commit" => Plan[h][k].saves # row
        /\ \A k \in ClaimsAt(h, row) : Locked(h, k)

\* Each performs its effects behind the claim c, and no other control has them.
ByContention(f, g, c, flows) ==
    /\ \A h \in {f, g} : \A k \in DOMAIN Plan[h] : Performs(Plan[h][k]) => Behind(h, c, k)
    /\ \A h \in flows \ {f, g} : EffectsOf[h] \cap (EffectsOf[f] \cup EffectsOf[g]) = {}

-----------------------------------------------------------------------------
(* What the records tell of the effects. Here `flows` are the controls that run, *)
(* `given` the records that were there before them.                             *)

\* The effects that a branch of the plan can leave out.
Optional ==
    [f \in Flows |-> {Plan[f][k].record : k \in {i \in DOMAIN Plan[f] :
        /\ Performs(Plan[f][i])
        /\ \E j \in DOMAIN Plan[f] : Plan[f][j].do = "fork" /\ j < i /\ i <= j + Plan[f][j].skip}}]

\* The steps that leave the record v; v is left by steps only.
LeavesAt(f, v) == {k \in DOMAIN Plan[f] :
    \/ Plan[f][k].do = "write" /\ Plan[f][k].record = v
    \/ Plan[f][k].do = "commit" /\ Plan[f][k].saves = v}
OnlySteps(v, flows, given) == v \notin given /\ \A h \in flows : v \notin Leaves(h)

\* Who leaves v has claimed c.
LeftBehind(v, c, flows) == \A h \in flows : \A k \in LeavesAt(h, v) : Behind(h, c, k)

\* Who performs e has claimed c; nothing but a commit, or an exec, performs it.
PerformedBehind(e, c, flows) == \A h \in flows : \A k \in PerformsAt(h, e) : Behind(h, c, k)
PerformedBy(do, e, flows) == \A h \in flows : \A k \in PerformsAt(h, e) : Plan[h][k].do = do

\* Who leaves v performs e no more; has come past e, or performs it with v.
LeftLast(v, e, flows)  == \A h \in flows : \A k \in LeavesAt(h, v), i \in PerformsAt(h, e) : i <= k
LeftAfter(v, e, flows) ==
    \A h \in flows : \A k \in LeavesAt(h, v) : \E i \in PerformsAt(h, e) : i = k \/ Passes(h, i, k)

\* No branch leaves step i out: who comes to the end has taken it.
Straight(f, i) ==
    /\ i \in DOMAIN Plan[f] /\ ConfirmAt[f] <= i
    /\ \A p \in DOMAIN Plan[f] : Plan[f][p].do = "fork" => ~(p <= i /\ i < JumpTo(f, p))

\* The controls whose outcome can report success in the place p.
Sayers(p, flows) == {h \in flows : Table[h].place = p /\ Table[h].verdict # {}}
SaidBehind(p, c, flows) == \A h \in Sayers(p, flows) : \E j \in ClaimsAt(h, c) : Straight(h, j)
SaidAfter(p, e, flows)  == \A h \in Sayers(p, flows) : \E i \in PerformsAt(h, e) : Straight(h, i)

\* A control that reports success has an answer to the effect e if it was performed:
\* a commit is its own answer; else who leaves a record of the verdict, or says it,
\* is the only process that could perform e, and does so no more.
TellsAnswer(f, e, flows, given) ==
    \/ PerformedBy("commit", e, flows)
    \/ \E c \in {Plan[f][k].record : k \in DOMAIN Plan[f]} :
        /\ PerformedBehind(e, c, flows)
        /\ \/ \E v \in Table[f].verdict :
                OnlySteps(v, flows, given) /\ LeftBehind(v, c, flows) /\ LeftLast(v, e, flows)
           \/ Table[f].always # {} /\ SaidBehind(Table[f].place, c, flows)

\* And e was performed.
TellsEffect(f, e, flows, given) ==
    \/ \E v \in Table[f].verdict : OnlySteps(v, flows, given) /\ LeftAfter(v, e, flows)
    \/ Table[f].always # {} /\ SaidAfter(Table[f].place, e, flows)

\* The steps by which a control claims the place p.
MarkingAt(f, p) == {k \in DOMAIN Plan[f] : LET r == Plan[f][k].record IN
                      Plan[f][k].do = "write" /\ r[1] = p /\ Marks(f, r)}

\* A control claims the place p by its mark, behind it, or behind a record that was
\* itself left behind the mark.
MarkFirst(f, p, flows, given) ==
    \A k \in MarkingAt(f, p) : LET mark == Table[f].mark IN
        \/ Plan[f][k].record = mark \/ Behind(f, mark, k)
        \/ \E i \in DOMAIN Plan[f] : \E v \in Plan[f][i].present :
             Finds(f, i, k, v) /\ OnlySteps(v, flows, given) /\ LeftBehind(v, mark, flows)

\* What the stop command leaves; what an end leaves that did not fail.
Stops(f) == {<<place, "stop">> : place \in Table[f].stoppable}
Ends(f)  == Table[f].always \cup {pair[2] : pair \in Table[f].closes}

\* The record d is left by a failure only, of a process that alone could replace
\* itself by the effect e, and is still there.
DeniesEffect(d, e, c, flows, given) ==
    /\ PerformedBehind(e, c, flows) /\ PerformedBy("exec", e, flows) /\ d \notin given
    /\ \A h \in flows :
        /\ LeavesAt(h, d) = {} /\ d \notin Ends(h) \cup Stops(h)
        /\ d \in Table[h].failed =>
             \A k \in DOMAIN Plan[h] : ~(k < TryAt[h]) \/ Performs(Plan[h][k]) => Behind(h, c, k)

-----------------------------------------------------------------------------
(* What is assumed of the table. *)

\* Every effect is claimed by the control that performs it, or committed with a row.
ASSUME EffectAssumption == \A r \in Effects \ ClaimedEffects : \E row \in Rows : RowFirst(r, row)

\* A plan is a sequence; no control leaves the record of an effect when it ends;
\* and no branch jumps into locked steps, nor does a control start in them.
ASSUME PlanAssumption ==
    \A f \in Flows :
        /\ Len(Plan[f]) \in Nat /\ DOMAIN Plan[f] = 1 .. Len(Plan[f])
        /\ DOMAIN Plan[f] \subseteq Nat \ {0} /\ ConfirmAt[f] \in Nat \ {0}
        /\ Leaves(f) \cap Effects = {}
        /\ ~Locked(f, 1) /\ ~Locked(f, ConfirmAt[f])
        /\ \A p \in DOMAIN Plan[f] :
            /\ Plan[f][p].do = "commit" => Plan[f][p].saves \notin Effects
            /\ Plan[f][p].do = "unlock" => Locked(f, p)
            /\ Plan[f][p].do = "fork" =>
                 /\ Plan[f][p].skip \in Nat
                 /\ Locked(f, JumpTo(f, p)) => Locked(f, p)

ASSUME ActorAssumption ==
    /\ Assignments \subseteq [Actors -> Flows]
    /\ "nobody" \notin Actors

\* Controls that meet as rivals, or contend, are kept apart by a record that only
\* one can create or by the locks.
ASSUME RivalAssumption ==
    \A assigned \in Assignments : LET flows == {assigned[x] : x \in Actors} IN
        \A a, b \in Actors : a # b =>
            /\ <<assigned[a], assigned[b]>> \in Rivals =>
                 \/ \E c \in Claims(assigned[a]) : ByOneClaim(assigned[a], assigned[b], c)
                 \/ ByLocks(assigned[a], assigned[b], flows)
            /\ <<assigned[a], assigned[b]>> \in Contending =>
                 \E c \in Claims(assigned[a]) : ByContention(assigned[a], assigned[b], c, flows)

\* The status command can tell from the records of each control what became of its
\* effects: that all were answered and none is missing, that its place is not
\* claimed, or that a failure left them unperformed.
ASSUME StatusAssumption ==
    \A assigned \in Assignments :
        LET flows == {assigned[x] : x \in Actors}
            given == Given[assigned]
        IN \A f \in flows : \A e \in EffectsOf[f] :
            /\ Table[f].verdict # {} /\ Granting(f) # {} =>
                 /\ TellsAnswer(f, e, flows, given)
                 /\ e \notin Optional[f] => TellsEffect(f, e, flows, given)
            /\ MarkFirst(f, e[1], flows, given)
            /\ Table[f].denies # {} =>
                 \E d \in Table[f].denies, c \in {Plan[f][k].record : k \in DOMAIN Plan[f]} :
                     DeniesEffect(d, e, c, flows, given)

=============================================================================
