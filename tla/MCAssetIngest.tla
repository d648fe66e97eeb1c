---------------------------- MODULE MCAssetIngest ----------------------------
(* Two attempts at a delivery with one stream and two files. *)
EXTENDS AssetIngest
=============================================================================
