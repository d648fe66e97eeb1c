------------------------- MODULE MCLoaderCollection -------------------------
(* Two requests and the janitor on one key, and three entries; four for the *)
(* run that looks for the shortest way to lose one.                         *)
EXTENDS LoaderCollection, TLC

Symmetry == Permutations(Procs) \cup Permutations(Entries)
=============================================================================
