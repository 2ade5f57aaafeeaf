------------------------- MODULE MCWriteDiskCalls --------------------------
(* Instances of WriteDiskCalls: a directory that can hold one thing and that *)
(* may be there before, and a path beside it.                                *)
EXTENDS WriteDiskCalls

CONSTANTS A, B

MCPaths == {<<>>, <<A>>, <<A, B>>, <<B>>}
MCEntryPaths == {<<A>>, <<A, B>>, <<B>>}
MCTargets == {<<A>>, <<B>>}
MCOffsets == 0 .. 1
MCSizes == {-1, 1}
MCDisks == {d \in [MCPaths -> {Nothing, Dir(0), File(0)}] : WellFormed(d) /\ d[<<B>>] = Nothing /\ d[<<A, B>>] # Dir(0)}
=============================================================================
