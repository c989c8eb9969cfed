---------------------------- MODULE ResourceLease ----------------------------
(***************************************************************************)
(* What the admission kernel promises about exclusive resources, with no   *)
(* accounting, no native identities and no policy: an attempt takes a set  *)
(* of keys nobody holds, may hold one more key for a while, crosses its    *)
(* start boundary at most once, and gives everything back at the end.      *)
(***************************************************************************)
CONSTANTS
    Attempts,       \* the identifiers attempts are made under
    Keys            \* every resource key

VARIABLES
    phase,          \* "none", "held" or "done", per attempt
    holds,          \* the keys an attempt holds
    begun           \* the attempts that crossed the start boundary

leaseVars == <<phase, holds, begun>>

Free(k) == \A c \in Attempts : k \notin holds[c]

Init ==
    /\ phase = [c \in Attempts |-> "none"]
    /\ holds = [c \in Attempts |-> {}]
    /\ begun = {}

\* An attempt starts holding a non-empty set of free keys, all at once.
Take(c, K) ==
    /\ phase[c] = "none"
    /\ K # {}
    /\ \A k \in K : Free(k)
    /\ phase' = [phase EXCEPT ![c] = "held"]
    /\ holds' = [holds EXCEPT ![c] = K]
    /\ UNCHANGED begun

\* The start boundary: crossed once, by an attempt that still holds its keys.
Begin(c) ==
    /\ phase[c] = "held"
    /\ c \notin begun
    /\ begun' = begun \cup {c}
    /\ UNCHANGED <<phase, holds>>

\* A begun attempt borrows one more free key.
Borrow(c, k) ==
    /\ phase[c] = "held"
    /\ c \in begun
    /\ Free(k)
    /\ holds' = [holds EXCEPT ![c] = @ \cup {k}]
    /\ UNCHANGED <<phase, begun>>

\* It returns a key, but never the last one.
Return(c, k) ==
    /\ phase[c] = "held"
    /\ k \in holds[c]
    /\ holds[c] # {k}
    /\ holds' = [holds EXCEPT ![c] = @ \ {k}]
    /\ UNCHANGED <<phase, begun>>

\* The end: every key is given back in the same step, for good.
Finish(c) ==
    /\ phase[c] = "held"
    /\ phase' = [phase EXCEPT ![c] = "done"]
    /\ holds' = [holds EXCEPT ![c] = {}]
    /\ UNCHANGED begun

Next ==
    \E c \in Attempts :
        \/ \E K \in SUBSET Keys : Take(c, K)
        \/ Begin(c)
        \/ \E k \in Keys : Borrow(c, k) \/ Return(c, k)
        \/ Finish(c)

Spec == Init /\ [][Next]_leaseVars
==============================================================================
