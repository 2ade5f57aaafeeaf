---------------------------- MODULE MCReadAhead ----------------------------
(* A stream in one file and one in two volumes. *)
EXTENDS ReadAhead

MCLayouts == {<<3>>, <<2, 3>>}
MCOffsets == {-4, 1}
=============================================================================
