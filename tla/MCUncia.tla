------------------------------ MODULE MCUncia ------------------------------
(* Instances of Uncia: two stems, of which the second is the first candidate *)
(* of the first, and up to three archives.                                   *)
EXTENDS Uncia

CONSTANTS S, T

MCFolders == {"s", "s-(1)", "s-(2)", "s-(1)-(1)", "s-(1)-(2)"}
MCFolder == [x \in {S, T} \X (0 .. 2) |->
                IF x[1] = S THEN <<"s", "s-(1)", "s-(2)">>[x[2] + 1]
                ELSE <<"s-(1)", "s-(1)-(1)", "s-(1)-(2)">>[x[2] + 1]]
MCLines == UNION {[1 .. k -> {S, T}] : k \in 0 .. 3}
=============================================================================
