--------------------------- MODULE MCWintarWrite ---------------------------
(* Files i and j with links a, b, c and d, e; i may have more links than are named. *)
EXTENDS WintarWrite

Path(s) == [kind |-> "path", paths |-> s]
Archive(s) == [kind |-> "archive", paths |-> s]

Chdir == [kind |-> "chdir", paths |-> <<>>]
ChdirNowhere == [kind |-> "chdir_nowhere", paths |-> <<>>]

Job(args, nlink) ==
    [args |-> args,
     ino |-> [p \in {"a", "b", "c", "d", "e", "x"} |->
                IF p \in {"a", "b", "c"} THEN "i" ELSE IF p \in {"d", "e"} THEN "j" ELSE "k"],
     nlink |-> [i \in {"i", "j", "k"} |-> IF i = "i" THEN nlink ELSE IF i = "j" THEN 2 ELSE 1],
     size |-> [i \in {"i", "j", "k"} |-> IF i = "j" THEN 1 ELSE 2]]

MCWorks ==
    {Job(<<Path(<<"a", "b">>), Path(<<"c">>)>>, 3),
     Job(<<Path(<<"a", "b", "a">>)>>, 2),
     Job(<<Path(<<"a", "d">>), Path(<<"b", "e">>)>>, 2),
     Job(<<Path(<<"a", "d", "b", "e">>), Path(<<"c", "a">>)>>, 3),
     Job(<<Path(<<"a">>), Archive(<<"x">>), Path(<<"b">>)>>, 2),
     Job(<<Path(<<"a">>), Chdir, Path(<<"b">>)>>, 3),
     Job(<<Path(<<"a", "b">>), Chdir, Archive(<<"x">>), ChdirNowhere>>, 3)}
=============================================================================
