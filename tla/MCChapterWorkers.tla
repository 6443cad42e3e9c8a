-------------------------- MODULE MCChapterWorkers --------------------------
(* One run of two works on one model pool.                                *)
EXTENDS ChapterWorkers, TLC

CONSTANTS r1, w1, w2, m1, m2

OneRun == w1 :> r1 @@ w2 :> r1
OneRunList == r1 :> <<w1, w2>>

AnyModel == [w \in Works |-> NoModel]

\* One model with one seat, so that works wait for each other, or with two.
OneSeat == {[listed |-> {m1}, weighted |-> {m1}, cap |-> m1 :> 1]}
TwoSeats == {[listed |-> {m1}, weighted |-> {m1}, cap |-> m1 :> 2]}

\* A low score, a dead loop and a cancellation come one at a time, in any order
\* and beside every error of an attempt.
OneDisturbance ==
    \A r \in Runs :
        LET low == unhealthy # {}
            dead == mpc[r] = "crashed"
            leaving == cancelled[r] # "no"
        IN  ~(low /\ dead) /\ ~(low /\ leaving) /\ ~(dead /\ leaving)

\* Three attempts in all let a retry be lost and the work elected in its place
\* be executed once more; works wait for back-offs and for seats, which is enough
\* without low scores.
FewRetries ==
    /\ attempts[w1] + attempts[w2] <= 3
    /\ unhealthy = {}
=============================================================================
