---------------------------- MODULE MCAdmissionStore ----------------------------
(* Instances of the admission kernel small enough for TLC. *)
EXTENDS AdmissionStore, TLC

CONSTANTS ra, rb, k1, k2, k3, k4, run, w1, w2

\* Two workspaces whose checkouts alias: "ra" has a local and a remote key in
\* the first, and the second workspace's clone shares the remote key k2.  The
\* repositories have room for three tasks, the platform's policy for two.
AliasedSpecs ==
    { [workspace |-> w1, maxParallelTasks |-> 2, maxTasks |-> 2, tokenBudget |-> 9,
       checkpointReserve |-> 1, repositories |-> (ra :> {k1, k2}) @@ (rb :> {k3}),
       runners |-> {run}],
      [workspace |-> w2, maxParallelTasks |-> 1, maxTasks |-> 2, tokenBudget |-> 9,
       checkpointReserve |-> 1, repositories |-> (ra :> {k2}) @@ (rb :> {k4}),
       runners |-> {run}] }

\* One phase with a tight budget: two estimates of 2 and the reserve exceed it.
TightSpecs ==
    { [workspace |-> w1, maxParallelTasks |-> 2, maxTasks |-> 3, tokenBudget |-> 4,
       checkpointReserve |-> 1, repositories |-> (ra :> {k1}) @@ (rb :> {k2}),
       runners |-> {}] }

\* Identifiers are interchangeable in every safety property.
Interchangeable ==
    Permutations(Claims) \cup Permutations(Natives) \cup Permutations(Allocations)

\* Left to the budget run: observations that are incomplete, lapse, or
\* incorporate settlements.
SteadyObservations ==
    /\ account # "unfit"
    /\ \A a \in Allocations : allocations[a].usage # None =>
            /\ allocations[a].usage.complete
            /\ allocations[a].usage.fresh
            /\ allocations[a].usage.included = {}
===============================================================================
