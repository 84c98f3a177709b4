--------------------------- MODULE MCNotifications ---------------------------
(* TLC instance of Notifications: rows and requests are interchangeable.   *)
EXTENDS Notifications, TLC

Symmetry ==
  Permutations(Logs) \cup Permutations(Senders) \cup Permutations(Hooks)
=============================================================================
