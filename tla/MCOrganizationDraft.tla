------------------------ MODULE MCOrganizationDraft ------------------------
(* Two executions, each of one event, beside two that the annotation stored. *)
EXTENDS OrganizationDraft, TLC

CONSTANTS n1, n2

OneContained == {<<n1, n2>>}

\* Whoever states a relation, it is one between a stored event and a new one.
ToNewEvents == {n1} \X (Agents \X Keys)

Symmetry == Permutations(Agents)
=============================================================================
