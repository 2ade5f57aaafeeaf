----------------------------- MODULE WriteDisk -----------------------------
(***************************************************************************)
(* lib/libarchive/archive_write_disk_windows.c: the archive_write_disk     *)
(* handle that turns the entries of an archive into files.  One action per *)
(* function of its table: header, data_block, finish_entry, close, free;   *)
(* wret is what the last call returned.  The options are those uncia sets: *)
(* UNLINK, TIME, SECURE_NODOTDOT and no NO_OVERWRITE or NO_AUTODIR.        *)
(*                                                                         *)
(* A path is a sequence of names below the current directory <<>>.  The    *)
(* metadata of an object is its modification time, the number of the entry *)
(* that set it or Now when the system did.  Sizes and offsets count blocks.*)
(* Symbolic links, hard links that carry data, sparse marks, ACLs, modes   *)
(* and file flags are left out.  MaxFaults system calls may fail.          *)
(***************************************************************************)
EXTENDS Integers, Sequences, FiniteSets

CONSTANTS
    Paths,      \* the paths there are, with their prefixes
    Now,        \* the time the system gives what it changes
    Zero,       \* a block of zeroes, from padding a file
    MaxFaults   \* how many system calls may fail in one behaviour

ASSUME PathsAssumption ==
    /\ <<>> \in Paths
    /\ \A p \in Paths : /\ p \in Seq({p[k] : k \in DOMAIN p})
                        /\ \A k \in 0 .. Len(p) : SubSeq(p, 1, k) \in Paths
ASSUME FaultsAssumption == MaxFaults \in Nat

VARIABLES
    disk,       \* what there is at each path
    state,      \* archive.state of the handle
    cur,        \* the entry given to header last: its number, path and filesize
    fh,         \* the file handle is open
    offset,     \* fd_offset, where the last write ended
    times,      \* TODO_TIMES is set in todo
    fixups,     \* fixup_list, newest first
    wret,       \* what the last call returned
    faults,     \* failing system calls so far
    torn        \* history: the entries whose file could not be given its size

wdvars == <<disk, state, cur, fh, offset, times, fixups, wret, faults, torn>>

Ret == {"ok", "warn", "failed", "fatal"}

\* An object, and who created it: the number of an entry, or 0.
Nothing == [kind |-> "none", data |-> <<>>, time |-> Now, owner |-> 0]
Dir(owner) == [kind |-> "dir", data |-> <<>>, time |-> Now, owner |-> owner]
File(owner) == [kind |-> "file", data |-> <<>>, time |-> Now, owner |-> owner]
-----------------------------------------------------------------------------
(* The file system, as an operation on d leaves it. *)

Parent(p) == SubSeq(p, 1, Len(p) - 1)
Ancestors(p) == {SubSeq(p, 1, k) : k \in 0 .. Len(p) - 1}
Empty(d, p) == \A q \in Paths : q # <<>> /\ Parent(q) = p => d[q].kind = "none"

\* A file system on which everything is in a directory.
WellFormed(d) ==
    d[<<>>].kind = "dir" /\ \A p \in Paths \ {<<>>} : d[p].kind # "none" => d[Parent(p)].kind = "dir"

\* Putting o at p, or removing what is there, changes the time of the directory.
Put(d, p, o) == [d EXCEPT ![p] = o, ![Parent(p)].time = Now]

\* disk_unlink, or disk_rmdir of an empty directory
Clear(d, p) == IF d[p].kind = "none" THEN d ELSE Put(d, p, Nothing)

\* Mutant: leaves a file in the way of a directory.
MakeMissingParents(d, p) ==
    LET made == {q \in Ancestors(p) : d[q].kind = "none"}
    IN  [q \in Paths |-> IF q \in made THEN Dir(0)
                         ELSE IF \E m \in made : Parent(m) = q THEN [d[q] EXCEPT !.time = Now]
                         ELSE d[q]]

\* create_parent_dir and create_dir: a file in the way of a directory goes.
MakeParents(d, p) ==
    LET made == {q \in Ancestors(p) : d[q].kind # "dir"}
    IN  [q \in Paths |-> IF q \in made THEN Dir(0)
                         ELSE IF \E m \in made : Parent(m) = q THEN [d[q] EXCEPT !.time = Now]
                         ELSE d[q]]

\* la_ftruncate: cut the file or fill it up.
Resize(s, n) == [i \in 1 .. n |-> IF i <= Len(s) THEN s[i] ELSE Zero]

\* Mutant: writes where the last write ended.
WriteAtEnd(s, o, b) == Append(s, b)

WriteAt(s, o, b) == [Resize(s, IF o < Len(s) THEN Len(s) ELSE o + 1) EXCEPT ![o + 1] = b]
-----------------------------------------------------------------------------
(* What a call may leave behind: the file system, the state, what it returns *)
(* and how many system calls failed in it.                                   *)

Outcome(d, s, r, failures) == [disk |-> d, state |-> s, ret |-> r, failures |-> failures]

If(c, S) == IF c THEN S ELSE {}

\* finish_entry gives the file the size of the entry, then the entry's time.
SizeIsOff == fh /\ cur.size >= 0 /\ offset # cur.size
Sized == IF SizeIsOff THEN [disk EXCEPT ![cur.path].data = Resize(@, cur.size)] ELSE disk
Gone == disk[cur.path].kind = "none"
Stamped(d) == IF times /\ ~Gone THEN [d EXCEPT ![cur.path].time = cur.id] ELSE d

\* When the size cannot be set the entry stays unfinished.
Torn(f) == IF f.state = "data" THEN torn \cup {cur.id} ELSE torn

FinishOutcomes ==
    IF state = "header" THEN {Outcome(disk, "header", "ok", 0)}
    ELSE {Outcome(Stamped(Sized), "header", IF times /\ Gone THEN "warn" ELSE "ok", 0)}
         \cup If(SizeIsOff, {Outcome(disk, "data", "failed", 1)})
         \cup If(times, {Outcome(Sized, "header", "warn", 1)})

\* restore_entry and create_filesystem_object for entry e with number id, on the file system d.  opens: the
\* file is open; late: TODO_TIMES went from todo to deferred, and to a fixup.
Restored(d, r, failures, opens, now, late) ==
    [disk |-> d, ret |-> r, failures |-> failures, opens |-> opens, times |-> now, late |-> late]

NotRestored(d, failures) == Restored(d, "failed", failures, FALSE, TRUE, FALSE)

\* create_filesystem_object, with the name free and its parent there: room.  cleared is before the
\* parent was made; a link to a directory fails on it at once, any other only in the room, even
\* if its target has just become a directory above it.
Created(room, cleared, e, id) ==
    LET p == e.path
    IN  CASE e.type = "dir" -> Restored(Put(room, p, Dir(id)), "ok", 0, FALSE, FALSE, TRUE)
          [] e.type = "reg" -> Restored(Put(room, p, File(id)), "ok", 0, TRUE, TRUE, FALSE)
          [] e.type = "link" ->
                IF room[e.target].kind = "file"
                THEN Restored(Put(room, p, room[e.target]), "ok", 0, FALSE, FALSE, FALSE)
                ELSE NotRestored(IF cleared[e.target].kind = "dir" THEN cleared ELSE room, 0)

\* What making the parents of p leaves in cleared when a system call fails: some of them made, or
\* the file that was in the way gone and no directory there yet.
HalfMade(cleared, p) ==
    {MakeParents(cleared, a) : a \in Ancestors(p) \cup {p}}
    \cup {Clear(cleared, a) : a \in {q \in Ancestors(p) : cleared[q].kind = "file"}}

RestoreOutcomes(d, e, id) ==
    LET p == e.path
        there == d[p].kind
        stays == there = "dir" /\ (e.type = "dir" \/ ~Empty(d, p))
        cleared == IF stays THEN d ELSE Clear(d, p)
        room == MakeParents(cleared, p)
    IN  {NotRestored(f, 1) : f \in {d} \cup HalfMade(cleared, p)}
        \cup {IF e.type = "dir" /\ there = "dir" THEN Restored(d, "ok", 0, FALSE, TRUE, FALSE)
              ELSE IF stays THEN NotRestored(d, 0)
              ELSE Created(room, cleared, e, id)}
-----------------------------------------------------------------------------
(* The calls. *)

Fails(n) == faults + n <= MaxFaults /\ faults' = faults + n

\* A call in a state that it is not meant for.
Misused == state' = "fatal" /\ wret' = "fatal" /\ UNCHANGED <<disk, cur, fh, offset, times, fixups, faults, torn>>

\* archive_write_disk_new
Ready(d) ==
    /\ disk = d
    /\ state = "header"
    /\ cur = [id |-> 0, path |-> <<>>, size |-> -1]
    /\ fh = FALSE
    /\ offset = 0
    /\ times = FALSE
    /\ fixups = <<>>
    /\ wret = "ok"
    /\ faults = 0
    /\ torn = {}

\* cleanup_pathname refuses the path, or permissive_name_w fails: f is how the
\* entry before was finished.
Refuse(f, e) ==
    /\ Fails(f.failures + IF e.dots THEN 0 ELSE 1)
    /\ disk' = f.disk
    /\ state' = f.state
    /\ wret' = "failed"
    /\ fh' = FALSE
    /\ offset' = 0
    /\ UNCHANGED <<times, fixups>>

\* Mutant: fd_offset is not reset.
RestoreKeepsOffset(f, e, id) ==
    /\ ~e.dots
    /\ \E r \in RestoreOutcomes(f.disk, e, id) :
         /\ Fails(f.failures + r.failures)
         /\ disk' = r.disk
         /\ state' = IF r.ret = "ok" THEN "data" ELSE f.state
         /\ wret' = r.ret
         /\ fh' = r.opens
         /\ offset' = offset
         /\ times' = r.times
         /\ fixups' = IF r.late THEN <<[id |-> id, path |-> e.path]>> \o fixups ELSE fixups

\* Mutant: no call of cleanup_pathname.
RestoreAnyPath(f, e, id) ==
    \E r \in RestoreOutcomes(f.disk, e, id) :
         /\ Fails(f.failures + r.failures)
         /\ disk' = r.disk
         /\ state' = IF r.ret = "ok" THEN "data" ELSE f.state
         /\ wret' = r.ret
         /\ fh' = r.opens
         /\ offset' = 0
         /\ times' = r.times
         /\ fixups' = IF r.late THEN <<[id |-> id, path |-> e.path]>> \o fixups ELSE fixups

Restore(f, e, id) ==
    /\ ~e.dots
    /\ \E r \in RestoreOutcomes(f.disk, e, id) :
         /\ Fails(f.failures + r.failures)
         /\ disk' = r.disk
         /\ state' = IF r.ret = "ok" THEN "data" ELSE f.state
         /\ wret' = r.ret
         /\ fh' = r.opens
         /\ offset' = 0
         /\ times' = r.times
         /\ fixups' = IF r.late THEN <<[id |-> id, path |-> e.path]>> \o fixups ELSE fixups

\* archive_write_header for the entry e, the id-th.  A failure to finish the entry
\* before is not reported.
Header(e, id) ==
    IF state \notin {"header", "data"} THEN Misused
    ELSE \E f \in FinishOutcomes :
           /\ cur' = [id |-> id, path |-> e.path, size |-> IF e.type = "reg" THEN e.size ELSE 0]
           /\ torn' = Torn(f)
           /\ Refuse(f, e) \/ Restore(f, e, id)

\* archive_write_data_block with block b at offset o.
DataBlock(b, o) ==
    IF state # "data" THEN Misused
    ELSE /\ UNCHANGED <<state, cur, fh, times, fixups, torn>>
         /\ \/ /\ fh /\ (cur.size < 0 \/ o < cur.size)
               /\ disk' = [disk EXCEPT ![cur.path].data = WriteAt(@, o, b)]
               /\ offset' = o + 1
               /\ wret' = "ok"
               /\ UNCHANGED faults
            \/ \* nothing to write to, beyond the size, or WriteFile fails
               /\ Fails(IF fh /\ (cur.size < 0 \/ o < cur.size) THEN 1 ELSE 0)
               /\ wret' = "warn"
               /\ UNCHANGED <<disk, offset>>

\* archive_write_finish_entry
FinishEntry ==
    IF state \notin {"header", "data"} THEN Misused
    ELSE \E f \in FinishOutcomes :
           /\ Fails(f.failures)
           /\ disk' = f.disk
           /\ state' = f.state
           /\ wret' = f.ret
           /\ torn' = Torn(f)
           /\ fh' = FALSE
           /\ UNCHANGED <<cur, offset, times, fixups>>

\* Mutant: the oldest fixup of a path has the last word.
FixedInReverse(d) ==
    [p \in Paths |->
        LET mine == {i \in 1 .. Len(fixups) : fixups[i].path = p}
        IN  IF mine = {} \/ d[p].kind = "none" THEN d[p]
            ELSE [d[p] EXCEPT !.time = fixups[CHOOSE i \in mine : \A j \in mine : i >= j].id]]

\* What the fixups do to d: sort_dir_list puts those of the same path in the
\* order in which they were made, so the newest has the last word.
Fixed(d) ==
    [p \in Paths |->
        LET mine == {i \in 1 .. Len(fixups) : fixups[i].path = p}
        IN  IF mine = {} \/ d[p].kind = "none" THEN d[p]
            ELSE [d[p] EXCEPT !.time = fixups[CHOOSE i \in mine : \A j \in mine : i <= j].id]]

\* archive_write_close.  What set_times returns for a fixup is dropped.
Close ==
    IF state \notin {"header", "data"} THEN Misused
    ELSE \E f \in FinishOutcomes :
           /\ Fails(f.failures)
           /\ disk' = Fixed(f.disk)
           /\ state' = f.state
           /\ wret' = f.ret
           /\ torn' = Torn(f)
           /\ fh' = FALSE
           /\ fixups' = <<>>
           /\ UNCHANGED <<cur, offset, times>>

\* archive_write_free closes once more.
Free ==
    /\ state # "freed"
    /\ state' = "freed"
    /\ IF state = "fatal"
       THEN wret' = "fatal" /\ UNCHANGED <<disk, cur, fh, offset, times, fixups, faults, torn>>
       ELSE \E f \in FinishOutcomes :
              /\ Fails(f.failures)
              /\ disk' = Fixed(f.disk)
              /\ wret' = f.ret
              /\ torn' = Torn(f)
              /\ fh' = FALSE
              /\ fixups' = <<>>
              /\ UNCHANGED <<cur, offset, times>>
=============================================================================
