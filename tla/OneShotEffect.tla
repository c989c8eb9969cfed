--------------------------- MODULE OneShotEffect ---------------------------
(* What a one-shot control promises of each effect it may have: it is claimed *)
(* before it is performed, it is performed at most once whatever crashes and   *)
(* whoever tries again, and when the reviewed facts, a rival or the owner's     *)
(* stop have spoken before it is claimed it is never performed at all.        *)
CONSTANT Effects
VARIABLES past,       \* effects that an earlier control has used up
          claimed,    \* effects claimed, the past ones among them
          void,       \* effects claimed too late
          performed,  \* effects performed
          repeated    \* effects performed a second time

once == <<past, claimed, void, performed, repeated>>

Init ==
    /\ past \subseteq Effects /\ claimed = past
    /\ void = {} /\ performed = {} /\ repeated = {}

Claim(e) ==
    /\ e \in Effects \ claimed
    /\ claimed' = claimed \cup {e}
    /\ void' \in {void, void \cup {e}}
    /\ UNCHANGED <<past, performed, repeated>>

Perform(e) ==
    /\ e \in claimed \ (past \cup void \cup performed)
    /\ performed' = performed \cup {e}
    /\ UNCHANGED <<past, claimed, void, repeated>>

\* The effect of a step is the one it adds.
Next ==
    \/ \E e \in claimed' \ claimed : Claim(e)
    \/ \E e \in performed' \ performed : Perform(e)

Spec == Init /\ [][Next]_once
=============================================================================
