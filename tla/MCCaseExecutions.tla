-------------------------- MODULE MCCaseExecutions --------------------------
(* Instances of CaseExecutions for TLC. *)
EXTENDS CaseExecutions, TLC

\* A restart with nothing in the store leaves a process that differs from a
\* new one by the executions it can no longer begin: not followed.
CrashesThatCount == crashes > 0 => rows # EmptyRows

\* One execution at a time has a save or a confirmation that failed and is not
\* yet withdrawn or recovered, beside whatever the others do.
OneFailsAtATime ==
    Cardinality({e \in Executions : stage[e] \in {"refused", "unconfirmed"}}) <= 1

Symmetry == Permutations(Executions)
=============================================================================
