------------------------ MODULE MCArchiveReadCalls -------------------------
(* Instances of ArchiveReadCalls: no entry, one without data, several. *)
EXTENDS ArchiveReadCalls

MCArchives == {<<>>, <<0>>, <<2>>, <<1, 0, 2>>, <<2, 1>>}
=============================================================================
