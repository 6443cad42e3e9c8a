-------------------------- MODULE MCModelElection --------------------------
(* Two runs that share one model pool; one work asks for a fixed model. *)
EXTENDS ModelElection, TLC

CONSTANTS r1, r2, w1, w2, w3, m1, m2

MCRunOf == w1 :> r1 @@ w2 :> r1 @@ w3 :> r2

\* w3 is the report session of a diagnosis: it names its model.
MCFixedModelOf == w1 :> NoModel @@ w2 :> NoModel @@ w3 :> m2

\* One seat on each model, or two on m1 with m2 taken off the list: the edits raise
\* a limit, lower it under the seats taken, and drop the model that w3 names.
Lowered ==
    {[listed |-> {m1, m2}, weighted |-> {m1, m2}, cap |-> (m1 :> 1 @@ m2 :> 1)],
     [listed |-> {m1},    weighted |-> {m1},    cap |-> (m1 :> 2 @@ m2 :> 1)]}

\* The queue of published results is unbounded in the code and nothing in the
\* pool reads it; two attempts in all let one work be retried beside two others;
\* one loop that crashes or is cancelled and one model with a low score at a
\* time are enough.
FewFaults ==
    /\ Len(assignments[r1]) + Len(assignments[r2]) <= 1
    /\ attempts[w1] + attempts[w2] + attempts[w3] <= 2
    /\ Cardinality(unhealthy) <= 1
    /\ Cardinality({r \in Runs : mpc[r] \in {"crashed", "cancelled"}}) <= 1

\* The works of r1 differ in nothing but their names.
Symmetry == Permutations({w1, w2})
=============================================================================
