------------------------------ MODULE Sanitize -----------------------------
(***************************************************************************)
(* lib/ced.cc: is_harmful_path, which decides whether the path of an entry *)
(* is joined to the destination (JoinSanitizeFsPath) or the entry skipped. *)
(* It counts how deep the components lead; what it is about is where they  *)
(* lead, which where and left record.                                      *)
(*                                                                         *)
(* A path is the sequence of components between separators; empty ones are *)
(* dropped before the loop, and with them the sign that it is rooted: /x   *)
(* looks like x and C:\x like the two components C: and x.  Only the join  *)
(* makes a difference: root / encoded_path drops from root what a rooted   *)
(* path or one with a drive replaces.  Left out are names that are relative *)
(* to a drive (C:x), shares and device names, and the conversion of the    *)
(* name to UTF-16.                                                         *)
(***************************************************************************)
EXTENDS Integers, Sequences

CONSTANTS
    Dot, DotDot,    \* "." and ".."
    Names,          \* every other component
    Paths,          \* the paths there are
    Destination     \* the drive and folders of root

Components == Names \cup {Dot, DotDot}

ASSUME ComponentsAssumption == Dot # DotDot /\ Dot \notin Names /\ DotDot \notin Names
ASSUME PathsAssumption == Paths \subseteq Seq(Components)
ASSUME DestinationAssumption == Destination \in Seq(Names) /\ Destination # <<>>

VARIABLES
    form,       \* how the path begins: with a name, a separator, or a drive and a separator
    paths,      \* what is left to look at
    entries,
    verdict,    \* what the function returns
    where,      \* history: the drive and folders that root and the components so far lead to
    left        \* history: they lead above where the join starts

pathvars == <<form, paths, entries, verdict, where, left>>

\* What root / encoded_path keeps of root: all of it, its drive, or nothing.
Base ==
    CASE form = "relative" -> Destination
      [] form = "rooted" -> <<Destination[1]>>
      [] form = "drive" -> <<>>

\* The path leads to folder or below it.
Inside(folder) ==
    Len(where) >= Len(folder) /\ \A j \in 1 .. Len(folder) : where[j] = folder[j]

PathTypeOK ==
    /\ form \in {"relative", "rooted", "drive"}
    /\ paths \in Seq(Components)
    /\ entries \in Int
    /\ verdict \in {"none", "harmful", "fit"}
    /\ where \in Seq(Names)
    /\ left \in BOOLEAN

PathInit ==
    /\ form \in {"relative", "rooted", "drive"}
    /\ paths \in Paths
    /\ form = "drive" => paths # <<>> /\ Head(paths) \in Names
    /\ entries = 0
    /\ verdict = "none"
    /\ where = Base
    /\ left = FALSE

Running == verdict = "none" /\ paths # <<>>

\* if (p == dot) continue
SkipDot ==
    /\ Running
    /\ Head(paths) = Dot
    /\ paths' = Tail(paths)
    /\ UNCHANGED <<form, entries, verdict, where, left>>

\* if (p != dotdot) entries++
Descend ==
    /\ Running
    /\ Head(paths) \notin {Dot, DotDot}
    /\ paths' = Tail(paths)
    /\ entries' = entries + 1
    /\ where' = Append(where, Head(paths))
    /\ UNCHANGED <<form, verdict, left>>

\* The parent of where the path leads; the root of a drive is its own.
Up == IF Len(where) <= 1 THEN where ELSE SubSeq(where, 1, Len(where) - 1)

\* Mutant: does not look at the count before the end.
AscendAnywhere ==
    /\ Running
    /\ Head(paths) = DotDot
    /\ paths' = Tail(paths)
    /\ entries' = entries - 1
    /\ verdict' = verdict
    /\ left' = (left \/ where = Base)
    /\ where' = Up
    /\ form' = form

\* Mutant: one level too strict.
AscendNotToTop ==
    /\ Running
    /\ Head(paths) = DotDot
    /\ paths' = Tail(paths)
    /\ entries' = entries - 1
    /\ verdict' = IF entries' <= 0 THEN "harmful" ELSE verdict
    /\ left' = (left \/ where = Base)
    /\ where' = Up
    /\ form' = form

\* entries--, and the path is harmful when that is below zero.
Ascend ==
    /\ Running
    /\ Head(paths) = DotDot
    /\ paths' = Tail(paths)
    /\ entries' = entries - 1
    /\ verdict' = IF entries' < 0 THEN "harmful" ELSE verdict
    /\ left' = (left \/ where = Base)
    /\ where' = Up
    /\ form' = form

\* return entries <= 0
Return ==
    /\ verdict = "none" /\ paths = <<>>
    /\ verdict' = IF entries <= 0 THEN "harmful" ELSE "fit"
    /\ UNCHANGED <<form, paths, entries, where, left>>

PathNext == SkipDot \/ Descend \/ Ascend \/ Return

PathSpec == PathInit /\ [][PathNext]_pathvars
-----------------------------------------------------------------------------
(* Properties. *)

\* As long as the function runs, the count is how deep the components lead from where the
\* join starts, and they have never led above.  The name of a drive is counted as well, and
\* may be taken back once by a ".." at the root of the drive.
EntriesIsDepth ==
    verdict = "none" =>
        /\ ~left /\ Inside(Base)
        /\ IF form = "drive" THEN entries \in {Len(where), Len(where) - 1}
           ELSE entries = Len(where) - Len(Base)
        /\ form = "drive" /\ where = <<>> => entries = 0 /\ paths # <<>> /\ Head(paths) \in Names

\* A path that is accepted leads to something below where the join starts, and no part of it
\* leads above: below the destination when it is relative.  The destination plays no part in
\* where another path leads, a rooted one to something on the drive of the destination, one with
\* a drive to something there or, as C:\ and C:\x\.. show, the drive itself.
FitLeadsInside == verdict = "fit" => ~left /\ Inside(Base) /\ where # Base

\* A path is only refused when it leads above where the join starts or names that, or names
\* a drive or leads above one: no entry that could be extracted is skipped.
HarmfulLeadsElsewhere ==
    verdict = "harmful" =>
        \/ left
        \/ paths = <<>> /\ where = Base
        \/ form = "drive" /\ Len(where) = 1
=============================================================================
