------------------------------ MODULE MCMailbox ------------------------------
(* Instances of the mailbox small enough for TLC. *)
EXTENDS Mailbox

Saw(kinds) == \E c \in Saved : cmds[c].kind \in kinds
Sends == {c \in Saved : send[c] # "idle"}
Claimed == {c \in Saved : cmds[c].note # "none"}
KindsInOrder == [c \in Saved |-> cmds[c].kind]

\* A native request of the one control that was delivered, while the brain is
\* quiet and the run is not closed.
AboutRequest ==
    /\ ~Saw(Kinds \ Controls) /\ dec = <<>> /\ Len(cmds) <= 2
    /\ Cardinality(Claimed) = 1 /\ ~held /\ run.status \in {"running", "stopping"}

\* A decision and its answers, which alone are delivered.
AboutDecision ==
    /\ ~Saw(Kinds \ (Controls \cup {"decision_response"})) /\ Len(cmds) <= 2
    /\ \A c \in Claimed : cmds[c].kind = "decision_response"

\* Three commands are a Pause with two recoveries, a Pause with the recovered
\* message of its paused run, or a message recovered around another command.
InFamily ==
    \/ SubSeq(KindsInOrder, 1, 2) \in {<<"pause", "pause_recovery">>, <<"message", "reply_recovery">>}
    \/ KindsInOrder = <<"pause", "message", "checkpoint_recovery">>

\* A capability request is delivered beside a Play that is not.
AboutCatalog ==
    ~Saw(Kinds \ {"catalog", "play"}) /\ Len(cmds) <= 2 /\ Claimed \subseteq OfKind("catalog")

\* Bounds a search to one send at a time and to one concern beside the controls
\* of the run: a native request, a decision, a capability request, or messages
\* and recoveries.
Foreground ==
    /\ Cardinality(Sends) <= 1
    /\ req # "none" => AboutRequest
    /\ dec # <<>> => AboutDecision
    /\ Saw({"catalog"}) => AboutCatalog
    /\ Len(cmds) = 3 => InFamily
===============================================================================
