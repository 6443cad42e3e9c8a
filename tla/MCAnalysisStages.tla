-------------------------- MODULE MCAnalysisStages --------------------------
(* Instances of AnalysisStages for TLC. *)
EXTENDS AnalysisStages, TLC

Symmetry == Permutations(Chapters)

AnySettings == Settings

\* A process whose settings do not change.
AllOn == {[semantic |-> TRUE, ltp |-> TRUE, word2vec |-> TRUE]}
=============================================================================
