---------------------------- MODULE SortDirList ----------------------------
(***************************************************************************)
(* archive_write_disk_windows.c: sort_dir_list, the merge sort that orders *)
(* the fixups of WriteDisk before close applies them one after another.    *)
(* The list comes newest first, because new_fixup puts a fixup in front.   *)
(*                                                                         *)
(* A fixup is a name and the position at which it came; a name is a        *)
(* sequence of characters, compared as wcscmp does.                        *)
(***************************************************************************)
EXTENDS Naturals, Sequences, SequencesExt

CONSTANTS
    Chars,      \* the characters, naturals; one of them is the separator
    Separator,
    MaxName,    \* how long names get
    MaxList     \* how many fixups there are

VARIABLES
    list,       \* fixup_list
    sorted,     \* what sort_dir_list makes of it
    done

vars == <<list, sorted, done>>

RECURSIVE Greater(_, _)
\* wcscmp(a, b) > 0
Greater(a, b) ==
    IF a = <<>> \/ b = <<>> THEN Len(a) > Len(b)
    ELSE Head(a) > Head(b) \/ (Head(a) = Head(b) /\ Greater(Tail(a), Tail(b)))

RECURSIVE MergeNewestFirst(_, _)
\* Mutant: takes from a when the names are equal.
MergeNewestFirst(a, b) ==
    CASE a = <<>> -> b
      [] b = <<>> -> a
      [] OTHER -> IF ~Greater(Head(b).name, Head(a).name)
                  THEN <<Head(a)>> \o MergeNewestFirst(Tail(a), b)
                  ELSE <<Head(b)>> \o MergeNewestFirst(a, Tail(b))

RECURSIVE Merge(_, _)
\* Step 3: the list with the greater name gives its first, b when they are equal.
Merge(a, b) ==
    CASE a = <<>> -> b
      [] b = <<>> -> a
      [] OTHER -> IF Greater(Head(a).name, Head(b).name)
                  THEN <<Head(a)>> \o Merge(Tail(a), b)
                  ELSE <<Head(b)>> \o Merge(a, Tail(b))

RECURSIVE Sort(_)
\* t stops at the middle, which belongs to the first half.
Sort(p) ==
    IF Len(p) <= 1 THEN p
    ELSE LET t == (Len(p) + 1) \div 2
         IN  Merge(Sort(SubSeq(p, 1, t)), Sort(SubSeq(p, t + 1, Len(p))))

FixupNames == BoundedSeq(Chars, MaxName) \ {<<>>}

Init ==
    /\ \E names \in BoundedSeq(FixupNames, MaxList) :
            list = [i \in DOMAIN names |-> [name |-> names[i], at |-> i]]
    /\ sorted = <<>>
    /\ done = FALSE

SortList ==
    /\ ~done
    /\ done' = TRUE
    /\ sorted' = Sort(list)
    /\ UNCHANGED list

Next == SortList

Spec == Init /\ [][Next]_vars
-----------------------------------------------------------------------------
(* Properties. *)

Before(x, y) == \E i, j \in DOMAIN sorted : i < j /\ sorted[i] = x /\ sorted[j] = y

\* sort_dir_list gives back the fixups it was given, each once.
NoFixupIsLost == done => Len(sorted) = Len(list) /\ ToSet(sorted) = ToSet(list)

\* "Sort dir list so directories are fixed up in depth-first order": what lies in a
\* directory comes before it, and of two fixups of one directory the older, so
\* that the entry that came last has the last word.
DepthFirstOldestFirst ==
    done => \A x, y \in ToSet(list) :
        /\ IsPrefix(Append(y.name, Separator), x.name) => Before(x, y)
        /\ x.name = y.name /\ x.at > y.at => Before(x, y)
=============================================================================
