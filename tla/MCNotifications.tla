--------------------------- MODULE MCNotifications ---------------------------
(* Two workers; three saves where they race, while the clock stands still,  *)
(* and one where they wait; one schedule that is truncated to the present,  *)
(* and one to a later second or to none.                                    *)
EXTENDS Notifications, TLC

Symmetry == Permutations(Workers) \cup Permutations(Messages) \cup Permutations(TaskNames)
=============================================================================
