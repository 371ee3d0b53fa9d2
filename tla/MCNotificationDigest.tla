------------------------ MODULE MCNotificationDigest ------------------------
(***************************************************************************)
(* Instances of NotificationDigest for TLC.                                *)
(***************************************************************************)
EXTENDS NotificationDigest, TLC

\* No definition names a recipient or a message.  Only for safety.
Symmetric == Permutations(Recipients) \cup Permutations(Messages)
=============================================================================
