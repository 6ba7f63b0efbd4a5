------------------------- MODULE MCNotificationQueue -------------------------
(***************************************************************************)
(* NotificationQueue with two workers and three events.  No symmetry: the  *)
(* run checks liveness.                                                    *)
(***************************************************************************)
EXTENDS NotificationQueue
=============================================================================
