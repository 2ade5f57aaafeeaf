------------------------------ MODULE MCPaths ------------------------------
(* The two algorithms on paths: every path of up to MaxLength components for *)
(* Sanitize, every list of up to MaxList fixups for SortDirList.  A          *)
(* behaviour is one of the one or of the other.                              *)
EXTENDS Sanitize, SequencesExt

CONSTANTS MaxLength, Chars, Separator, MaxName, MaxList

VARIABLES list, sorted, done

Fixups == INSTANCE SortDirList

CONSTANTS A, B

MCComponents == BoundedSeq(Components, MaxLength)
MCDestination == <<A, B>>

\* The other one has returned, from a path of no components or a list of no fixups.
MCInit ==
    \/ PathInit /\ list = <<>> /\ sorted = <<>> /\ done = TRUE
    \/ /\ Fixups!Init
       /\ form = "rooted" /\ paths = <<>> /\ entries = 0 /\ verdict = "harmful" /\ where = Base /\ left = FALSE

MCNext ==
    \/ PathNext /\ UNCHANGED <<list, sorted, done>>
    \/ Fixups!Next /\ UNCHANGED pathvars

MCSpec == MCInit /\ [][MCNext]_<<pathvars, list, sorted, done>>

\* What sort_dir_list gives back are the fixups it was given, each once, and what lies in a
\* directory before the directory, the older of two fixups of one path first.
FixupsAreSorted == Fixups!NoFixupIsLost /\ Fixups!DepthFirstOldestFirst
=============================================================================
