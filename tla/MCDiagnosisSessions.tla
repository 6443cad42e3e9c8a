------------------------ MODULE MCDiagnosisSessions ------------------------
(* Instances of DiagnosisSessions for TLC. *)
EXTENDS DiagnosisSessions, TLC

\* A diagnosis that begins again with no case solved is one that begins, with the
\* executions that are left: not followed.
ResumesThatCount == restarts > 0 => \E c \in Cases : rows.resolver[c] # Nobody

Symmetry == Permutations(Executions) \cup Permutations(Slots)
=============================================================================
