----------------------------- MODULE MCApiServer -----------------------------
(***************************************************************************)
(* Requests that race for one key: three of them for the caches, two for   *)
(* the rest.                                                               *)
(***************************************************************************)
EXTENDS ApiServer

OneTask == {<<"tasks", 1>>}
=============================================================================
