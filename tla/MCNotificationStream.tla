------------------------ MODULE MCNotificationStream ------------------------
(* Instances of NotificationStream for TLC. *)
EXTENDS NotificationStream, TLC

Symmetry == Permutations(Clients)
=============================================================================
