------------------------------ MODULE MCDispatch ------------------------------
(* Instances of the dispatch system small enough for TLC. *)
EXTENDS Dispatch, TLC

CONSTANTS c1, c2, ra, rb, k1, k2, run, alt, n1, n2, w1

\* One phase over one repository and one runner.
OneSpec ==
    [workspace |-> w1, maxParallelTasks |-> 1, maxTasks |-> 1, tokenBudget |-> 9,
     checkpointReserve |-> 1, repositories |-> (ra :> {k1}), runners |-> {run}]
OneSpecs == {OneSpec}
OneTaskRepo == (c1 :> ra)
OneNativeOf == (c1 :> n1)

\* Two tasks at a time, over distinct repositories or over aliases of one.
TwoSpec ==
    [OneSpec EXCEPT !.maxParallelTasks = 2, !.maxTasks = 2,
                    !.repositories = (ra :> {k1}) @@ (rb :> {k2}), !.runners = {run, alt}]
TwoSpecs == {TwoSpec}
AliasSpec ==
    [TwoSpec EXCEPT !.repositories = (ra :> {k1}) @@ (rb :> {k1, k2}), !.runners = {run}]
AliasSpecs == {AliasSpec}
TwoTaskRepo == (c1 :> ra) @@ (c2 :> rb)
TwoNativeOf == (c1 :> n1) @@ (c2 :> n2)

\* Exchanging the two workers with all that is theirs leaves TwoSpec as it is,
\* and so does exchanging the two runners.
Workers2 ==
    (c1 :> c2) @@ (c2 :> c1) @@ (ra :> rb) @@ (rb :> ra)
        @@ (k1 :> k2) @@ (k2 :> k1) @@ (n1 :> n2) @@ (n2 :> n1)
Runners2 == (run :> alt) @@ (alt :> run)
Swaps == {Workers2, Runners2, Workers2 @@ Runners2}

\* Bounds a search to one undisturbed run: no control closes it, no approval of
\* a worker is revoked and no adoption fences the platform.
Undisturbed ==
    /\ ~quarantined
    /\ meta.run.status # "fenced"
    /\ \A c \in Claims : workers[c].status # "absent" => approvals[c] # 0

\* The same, with neither a correction nor an unresolved creation.
RunnersOnly ==
    /\ Undisturbed
    /\ \A c \in Claims : workers[c].marker = 0 /\ journal[c].outcome \in {"none", "confirmed"}
===============================================================================
