--------------------------- MODULE WriteDiskCalls --------------------------
(***************************************************************************)
(* A client that makes any sequence of calls of WriteDisk: what the handle *)
(* guarantees whoever drives it.  A block carries the number of the entry  *)
(* it was meant for, and the client writes no block beyond the end.        *)
(***************************************************************************)
EXTENDS WriteDisk

CONSTANTS
    EntryPaths, \* where entries go
    Targets,    \* what hard links refer to
    Disks,      \* what may be on disk before
    Sizes,      \* the sizes regular files have in their headers, -1 for unknown
    Offsets,    \* the offsets of blocks
    MaxEntries  \* how many headers the client writes

ASSUME DisksAssumption ==
    \A d \in Disks : d \in [Paths -> {Nothing, Dir(0), File(0)}] /\ WellFormed(d)
ASSUME EntryPathsAssumption == EntryPaths \cup Targets \subseteq Paths \ {<<>>}
ASSUME CallsAssumption == Sizes \subseteq Int /\ Offsets \subseteq Nat /\ MaxEntries \in Nat

VARIABLES
    given,      \* the entries given to header, in order
    closed      \* close has been called

vars == <<wdvars, given, closed>>

Entries ==
    [path : EntryPaths, type : {"reg"}, size : Sizes, target : {<<>>}, dots : {FALSE}]
    \cup [path : EntryPaths, type : {"dir"}, size : {0}, target : {<<>>}, dots : BOOLEAN]
    \cup [path : EntryPaths, type : {"link"}, size : {0}, target : Targets, dots : {FALSE}]

Blocks == ((1 .. MaxEntries) \X Offsets) \cup {Zero}

TypeOK ==
    /\ \A p \in Paths : /\ disk[p].kind \in {"none", "dir", "file"}
                        /\ disk[p].data \in Seq(Blocks)
                        /\ disk[p].kind # "file" => disk[p].data = <<>>
                        /\ disk[p].time \in {Now} \cup 1 .. MaxEntries
                        /\ disk[p].owner \in 0 .. MaxEntries
    /\ state \in {"header", "data", "fatal", "freed"}
    /\ cur \in [id : 0 .. MaxEntries, path : Paths, size : Sizes \cup {0, -1}]
    /\ fh \in BOOLEAN
    /\ fh => state = "data" /\ disk[cur.path].kind = "file" /\ disk[cur.path].owner = cur.id
    /\ offset \in Nat
    /\ times \in BOOLEAN
    /\ fixups \in Seq([id : 1 .. MaxEntries, path : Paths])
    /\ wret \in Ret
    /\ faults \in 0 .. MaxFaults
    /\ torn \subseteq 1 .. MaxEntries

Init ==
    /\ \E d \in Disks : Ready(d)
    /\ given = <<>>
    /\ closed = FALSE

CallHeader ==
    \E e \in Entries :
        /\ ~closed /\ Len(given) < MaxEntries
        /\ Header(e, Len(given) + 1)
        /\ given' = Append(given, e)
        /\ UNCHANGED closed

CallDataBlock ==
    \E o \in Offsets :
        /\ ~closed /\ cur.id > 0
        /\ cur.size >= 0 => o <= cur.size
        /\ DataBlock(<<cur.id, o>>, o)
        /\ UNCHANGED <<given, closed>>

CallFinish == ~closed /\ cur.id > 0 /\ FinishEntry /\ UNCHANGED <<given, closed>>
CallClose == ~closed /\ Close /\ closed' = TRUE /\ UNCHANGED given
CallFree == Free /\ closed' = TRUE /\ UNCHANGED given

Next == CallHeader \/ CallDataBlock \/ CallFinish \/ CallClose \/ CallFree

Spec == Init /\ [][Next]_vars
-----------------------------------------------------------------------------
(* Properties. *)

\* What an object was made from.
Size(p) == given[disk[p].owner].size

\* Every file that is finished has the size its header gives, however much of
\* it was written and in whichever order, unless its size could not be set.
FinishedFilesAreWhole ==
    \A p \in Paths :
        /\ disk[p].kind = "file" /\ disk[p].owner \notin torn \cup {0}
        /\ disk[p].owner = cur.id => ~fh
        /\ Size(p) >= 0
        => Len(disk[p].data) = Size(p)

\* No file has a block that was written for another entry, or elsewhere in it.
FilesHoldTheirOwnData ==
    \A p \in Paths : \A i \in DOMAIN disk[p].data :
        disk[p].data[i] \in {<<disk[p].owner, i - 1>>, Zero}

\* Whatever fails and whatever was there, every object lies in a directory, and the handle
\* that is open is one of a file of the present entry: none is left from the entry before.
TreeStaysWellFormed == TypeOK /\ WellFormed(disk)

\* A file disappears only in a call of header for an entry with an acceptable path,
\* and only from where the entry or one of its directories goes.
FilesAreLostOnlyToEntries ==
    [][\A p \in Paths :
            disk[p].kind = "file" /\ disk'[p].kind # "file" =>
                /\ given' # given
                /\ LET e == given'[Len(given')]
                   IN  ~e.dots /\ p \in Ancestors(e.path) \cup {e.path}]_vars

\* After a close in which nothing failed what an entry created has the time of that entry:
\* a directory whatever has been put into it since, a file unless it took the place of a
\* directory that an entry created, because the fixups find their object by name
\* (archive_write_disk_windows.c:1960).
OnlyReplacementsLoseTheirTime ==
    closed /\ faults = 0 /\ state = "header" =>
        \A p \in Paths : disk[p].owner > 0 /\ disk[p].time # disk[p].owner =>
            /\ disk[p].kind = "file"
            /\ \E i \in DOMAIN given : given[i].path = p /\ given[i].type = "dir" /\ disk[p].time = i
=============================================================================
