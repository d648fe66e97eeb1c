----------------------------- MODULE MCJobServer -----------------------------
(* Two messages at a time on one pod; files of up to seven parts; three      *)
(* chapters, one of a type nobody knows; two languages, texts that change    *)
(* and change back.                                                          *)
EXTENDS JobServer, TLC

Symmetry == Permutations(Procs) \cup Permutations(Languages)
=============================================================================
