----------------------------- MODULE MCExtract -----------------------------
(* Instances of Extract: archives of up to MaxEntries entries that can get   *)
(* in each other's way, and a destination beside other files.                *)
EXTENDS Extract

CONSTANTS A, B, D, MaxEntries

MCPaths == {<<>>, <<D>>, <<D, A>>, <<D, A, B>>, <<D, B>>, <<A>>, <<A, B>>, <<B>>}
MCDest == <<D>>

Reg(p, size, n) ==
    [path |-> p, rooted |-> FALSE, type |-> "reg", size |-> size, target |-> <<>>, blocks |-> n,
     dots |-> FALSE, harmful |-> FALSE]

EntrySet == {
    Reg(<<A>>, 2, 2), Reg(<<A, B>>, -1, 1), Reg(<<B>>, 2, 1),
    [Reg(<<A>>, 0, 0) EXCEPT !.type = "dir"],
    [Reg(<<B>>, 0, 0) EXCEPT !.type = "link", !.target = <<A>>],
    [Reg(<<A>>, 1, 1) EXCEPT !.dots = TRUE],
    [Reg(<<A, B>>, 1, 1) EXCEPT !.rooted = TRUE],
    [Reg(<<A>>, 1, 1) EXCEPT !.harmful = TRUE]}

MCArchives == UNION {[1 .. n -> EntrySet] : n \in 0 .. MaxEntries}

MCDisks == {
    [p \in MCPaths |-> IF p = <<>> THEN Dir(0) ELSE Nothing],
    [p \in MCPaths |-> IF p = <<>> THEN Dir(0) ELSE IF p = <<A>> THEN File(0) ELSE Nothing],
    [p \in MCPaths |-> IF p \in {<<>>, <<D>>, <<D, A>>} THEN Dir(0)
                       ELSE IF p = <<D, A, B>> THEN File(0) ELSE Nothing]}
=============================================================================
