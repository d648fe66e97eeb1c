--------------------------- MODULE MCMultiPartCopy ---------------------------
(* Files of up to seven parts. *)
EXTENDS MultiPartCopy
=============================================================================
