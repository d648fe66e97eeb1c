-------------------------- MODULE MCTaskCompletion --------------------------
(* Two requests on one pod, a lesson of one task, an achievement for it. *)
EXTENDS TaskCompletion

OneTask == {<<"tasks", 1>>}
=============================================================================
