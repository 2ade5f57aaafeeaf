---------------------------- MODULE WintarWrite -----------------------------
(***************************************************************************)
(* tools/wintar/write.c: write_archive, from the first argument to the     *)
(* exit code.  The files below an argument are read one after the other,   *)
(* each goes through the link resolver, and what comes out is written;     *)
(* what the resolver still holds back at the end is opened again.  An      *)
(* argument @archive is copied entry by entry.                             *)
(*                                                                         *)
(* A file has blocks of data, and a block is known by the file it is of.   *)
(* While wintar runs at most MaxFaults things go wrong, one of which is    *)
(* that a file changes its size.                                           *)
(***************************************************************************)
EXTENDS LinkResolver, Integers, FiniteSets

CONSTANTS
    Formats,    \* of the archive
    Works,      \* what there is to do: [args, ino, nlink, size], see WorksAssumption
    Sizes,      \* that files can have, in blocks
    MaxFaults

\* A path, @archive, -C with a directory, and -C without one.
Kinds == {"path", "archive", "chdir", "chdir_nowhere"}

\* An argument is [kind, paths]: the paths that are met below it, or that are in the archive.
\* A file may have more links than names, or be named twice; an entry of another archive is a file
\* of its own, since it does not go through the resolver.
ASSUME WorksAssumption ==
    /\ Sizes \subseteq Nat /\ MaxFaults \in Nat
    /\ \A w \in Works :
        /\ w.ino \in [DOMAIN w.ino -> DOMAIN w.nlink] /\ NoLink \notin DOMAIN w.ino
        /\ w.nlink \in [DOMAIN w.nlink -> Nat \ {0}] /\ w.size \in [DOMAIN w.nlink -> Nat]
        /\ w.args \in Seq([kind : Kinds, paths : Seq(DOMAIN w.ino)])
        /\ \A k \in DOMAIN w.args :
            /\ w.args[k].kind \in {"chdir", "chdir_nowhere"} => w.args[k].paths = <<>>
            /\ w.args[k].kind = "archive" =>
                \A n \in DOMAIN w.args[k].paths : w.nlink[w.ino[w.args[k].paths[n]]] = 1

VARIABLES
    work,           \* one of Works
    format,         \* one of Formats
    argv,           \* the arguments that are left
    pc,             \* where write_archive is
    walk,           \* the paths that are left of the argument
    disk,           \* the disk reader: [state, path, left], the blocks that are left of the file
    cache,          \* of the link resolver
    todo,           \* the entries linkify has returned
    copying,        \* the data of the first of them
    archive,        \* what is in it: entries with their data
    return_value,
    status,         \* the exit code, or -1
    size,           \* of the files now
    faults,
    seen,           \* how often each path was met
    gone,           \* how often an entry of it was given up
    spoiled         \* the files that have changed, or of which an entry or some data was left out

job == <<work, format>>
history == <<seen, gone, spoiled>>
vars == <<job, argv, pc, walk, disk, cache, todo, copying, archive, return_value, status, size, faults, history>>

Paths == DOMAIN work.ino
Inodes == DOMAIN work.nlink
strategy == Strategy(format)

Closed == [state |-> "closed", path |-> NoLink, left |-> 0]

\* archive_read_close, which leaves the state after a fatal error.
CloseDisk == [Closed EXCEPT !.state = IF disk.state = "fatal" THEN "fatal" ELSE "closed"]

Init ==
    /\ work \in Works
    /\ format \in Formats
    /\ argv = work.args
    /\ pc = "args" /\ walk = <<>> /\ disk = Closed
    /\ cache = [i \in {} |-> 0]
    /\ todo = <<>> /\ copying = FALSE
    /\ archive = <<>>
    /\ return_value = 0 /\ status = -1
    /\ size = work.size
    /\ faults = 0
    /\ seen = [p \in Paths |-> 0] /\ gone = [p \in Paths |-> 0] /\ spoiled = {}

Fault == faults < MaxFaults /\ faults' = faults + 1
NoFault == UNCHANGED faults
-----------------------------------------------------------------------------
(* The arguments. *)

Arg == Head(argv)
NextArg == argv' = Tail(argv)
AtArgument(kind) == pc = "args" /\ argv # <<>> /\ Arg.kind = kind
KeepFiles == UNCHANGED <<job, size, history>>

\* write_hierarchy opens the path, or archive_read_disk_open fails and the handle is useless.
OpenPath ==
    /\ AtArgument("path") /\ NextArg
    /\ disk.state = "closed"
    /\ disk' = [disk EXCEPT !.state = "open"]
    /\ walk' = Arg.paths
    /\ pc' = "walk"
    /\ NoFault /\ KeepFiles
    /\ UNCHANGED <<cache, todo, copying, archive, return_value, status>>

DiskOpenFails == IF disk.state = "fatal" THEN NoFault ELSE Fault

OpenPathFails ==
    /\ AtArgument("path") /\ NextArg
    /\ DiskOpenFails
    /\ disk' = [disk EXCEPT !.state = "fatal"]
    /\ return_value' = 1
    /\ KeepFiles
    /\ UNCHANGED <<pc, walk, cache, todo, copying, archive, status>>

OpenArchive ==
    /\ AtArgument("archive") /\ NextArg
    /\ walk' = Arg.paths
    /\ pc' = "append"
    /\ NoFault /\ KeepFiles
    /\ UNCHANGED <<disk, cache, todo, copying, archive, return_value, status>>

OpenArchiveFails ==
    /\ AtArgument("archive") /\ NextArg
    /\ Fault
    /\ return_value' = 1
    /\ KeepFiles
    /\ UNCHANGED <<pc, walk, disk, cache, todo, copying, archive, status>>

\* exit(1): nothing is closed.
Dies ==
    /\ status' = 1
    /\ pc' = "done"
    /\ UNCHANGED <<job, walk, disk, cache, todo, copying, archive, size, history>>

\* The directory is only changed to when the next argument needs it, and it must exist then.
ChangeDir ==
    /\ AtArgument("chdir") /\ NextArg
    /\ NoFault /\ KeepFiles
    /\ UNCHANGED <<pc, walk, disk, cache, todo, copying, archive, return_value, status>>

PendingChdir == Len(argv) < Len(work.args) /\ work.args[Len(work.args) - Len(argv)].kind = "chdir"
ChdirFails ==
    /\ AtArgument("path") \/ AtArgument("archive")
    /\ PendingChdir
    /\ Fault
    /\ Dies
    /\ UNCHANGED <<argv, return_value>>

\* The archive is closed, but without what the resolver holds back.
MissingDir ==
    /\ AtArgument("chdir_nowhere")
    /\ return_value' = 1
    /\ NoFault
    /\ Dies
    /\ UNCHANGED argv

EndOfArguments ==
    /\ pc = "args" /\ argv = <<>>
    /\ pc' = "flush"
    /\ NoFault /\ KeepFiles
    /\ UNCHANGED <<argv, walk, disk, cache, todo, copying, archive, return_value, status>>
-----------------------------------------------------------------------------
(* write_hierarchy and append_archive. *)

EntryOf(p) == [path |-> p, ino |-> work.ino[p], size |-> size[work.ino[p]], link |-> NoLink]

Spoil(ino) == spoiled' = spoiled \cup {ino}

\* The next file goes through the link resolver, which may have no memory for it.
NextFile ==
    /\ pc = "walk" /\ todo = <<>> /\ walk # <<>>
    /\ LET e == EntryOf(Head(walk))
       IN  \E memory \in BOOLEAN :
            /\ IF memory THEN NoFault ELSE Fault
            /\ LET r == Linkify(strategy, cache, e, work.nlink[e.ino], memory)
               IN  cache' = r.cache /\ todo' = r.out
            /\ disk' = [state |-> "data", path |-> e.path, left |-> e.size]
            /\ seen' = [seen EXCEPT ![e.path] = @ + 1]
    /\ walk' = Tail(walk)
    /\ UNCHANGED <<job, argv, pc, copying, archive, return_value, status, size, gone, spoiled>>

\* A file or directory cannot be opened or looked at: the rest of the hierarchy is left out.
NextFileFails ==
    /\ pc = "walk" /\ todo = <<>>
    /\ Fault
    /\ \E fatal \in BOOLEAN : disk' = [Closed EXCEPT !.state = IF fatal THEN "fatal" ELSE "closed"]
    /\ return_value' = 1
    /\ walk' = <<>>
    /\ pc' = "args"
    /\ KeepFiles
    /\ UNCHANGED <<argv, cache, todo, copying, archive, status>>

EndOfWalk ==
    /\ pc = "walk" /\ todo = <<>> /\ walk = <<>>
    /\ disk' = CloseDisk
    /\ pc' = "args"
    /\ NoFault /\ KeepFiles
    /\ UNCHANGED <<argv, walk, cache, todo, copying, archive, return_value, status>>

\* append_archive: an entry of another archive is copied as it is.
AppendEntry ==
    /\ pc = "append" /\ todo = <<>> /\ walk # <<>>
    /\ todo' = <<EntryOf(Head(walk))>>
    /\ seen' = [seen EXCEPT ![Head(walk)] = @ + 1]
    /\ walk' = Tail(walk)
    /\ NoFault
    /\ UNCHANGED <<job, argv, pc, disk, cache, copying, archive, return_value, status, size, gone, spoiled>>

\* The writers that refuse an entry without a size, which is a refused header like any other.
NeedsSize == {"cpio_posix", "cpio_bin_le", "cpio_pwb", "cpio_svr4_nocrc", "cpio_svr4_crc"}

\* An entry whose size the other archive does not tell counts as empty: its data is skipped.
AppendUnsized ==
    /\ pc = "append" /\ todo = <<>> /\ walk # <<>>
    /\ format \notin NeedsSize
    /\ Fault
    /\ todo' = <<WithoutData(EntryOf(Head(walk)))>>
    /\ Spoil(EntryOf(Head(walk)).ino)
    /\ seen' = [seen EXCEPT ![Head(walk)] = @ + 1]
    /\ walk' = Tail(walk)
    /\ UNCHANGED <<job, argv, pc, disk, cache, copying, archive, return_value, status, size, gone>>

\* An archive that cannot be read to its end is the last argument that is looked at.
AppendFails ==
    /\ pc = "append" /\ todo = <<>>
    /\ Fault
    /\ return_value' = 1
    /\ walk' = <<>>
    /\ pc' = "flush"
    /\ KeepFiles
    /\ UNCHANGED <<argv, disk, cache, todo, copying, archive, status>>

EndOfAppend ==
    /\ pc = "append" /\ todo = <<>> /\ walk = <<>>
    /\ pc' = "args"
    /\ NoFault /\ KeepFiles
    /\ UNCHANGED <<argv, walk, disk, cache, todo, copying, archive, return_value, status>>
-----------------------------------------------------------------------------
(* write_entry and copy_file_data_block. *)

AtHeader == pc # "done" /\ todo # <<>> /\ ~copying
AtData == pc # "done" /\ copying
Entry == Head(todo)
Last == Len(archive)

\* wintar is through with the first entry of todo, and with the disk when it was held back.
Written ==
    /\ todo' = Tail(todo)
    /\ disk' = IF pc = "flush" THEN CloseDisk ELSE disk

GiveUp(e) == gone' = [gone EXCEPT ![e.path] = @ + 1] /\ Spoil(e.ino)

\* archive_write_header returns ARCHIVE_OK or a warning.
WriteHeader ==
    /\ AtHeader
    /\ archive' = Append(archive, [path |-> Entry.path, ino |-> Entry.ino, size |-> Entry.size,
                                   link |-> Entry.link, data |-> <<>>])
    /\ IF Entry.size > 0 THEN copying' = TRUE /\ UNCHANGED <<todo, disk>> ELSE Written /\ UNCHANGED copying
    /\ NoFault /\ KeepFiles
    /\ UNCHANGED <<argv, pc, walk, cache, return_value, status>>

\* The entry cannot be stored in this format: it is left out, and return_value stays as it is.
HeaderRefused ==
    /\ AtHeader
    /\ Fault
    /\ Written
    /\ GiveUp(Entry)
    /\ UNCHANGED <<job, argv, pc, walk, cache, copying, archive, return_value, status, size, seen>>

HeaderFatal == AtHeader /\ Fault /\ Dies /\ UNCHANGED <<argv, return_value>>

\* Where the data comes from: the file the disk reader is at, or the entry of the other archive.
Source == IF pc = "append" THEN Entry.ino ELSE work.ino[disk.path]
Left == IF pc = "append" THEN Entry.size - Len(archive[Last].data) ELSE disk.left

\* The format takes no more blocks than the header says.
Fits == Len(archive[Last].data) < Entry.size
Shrunk == pc # "append" /\ size[Source] <= Len(archive[Last].data)

CopyBlock ==
    /\ AtData /\ Left > 0 /\ ~Shrunk /\ Fits
    /\ archive' = [archive EXCEPT ![Last].data = Append(@, Source)]
    /\ disk' = [disk EXCEPT !.left = IF pc = "append" THEN @ ELSE @ - 1]
    /\ NoFault /\ KeepFiles
    /\ UNCHANGED <<argv, pc, walk, cache, todo, copying, return_value, status>>

\* Mutant: waits for all the data the header says.
CopyEndsWhenFull ==
    /\ AtData /\ ~Fits
    /\ copying' = FALSE
    /\ Written
    /\ NoFault /\ KeepFiles
    /\ UNCHANGED <<argv, pc, walk, cache, archive, return_value, status>>

\* At the end of the data, or when the format takes no more of it; the format fills up the rest.
CopyEnds ==
    /\ AtData /\ (Left = 0 \/ (~Shrunk /\ ~Fits))
    /\ copying' = FALSE
    /\ Written
    /\ NoFault /\ KeepFiles
    /\ UNCHANGED <<argv, pc, walk, cache, archive, return_value, status>>

\* A block that is read with a warning ends the data as well, and the block is left out
\* (archive_read_support_format_7zip.c:914); reading a file from disk gives no warning.
CopyStops ==
    /\ AtData /\ pc = "append" /\ Left > 0
    /\ Fault
    /\ copying' = FALSE
    /\ Written
    /\ Spoil(Entry.ino)
    /\ UNCHANGED <<job, argv, pc, walk, cache, archive, return_value, status, size, seen, gone>>

\* A block cannot be read, which is below ARCHIVE_WARN, or cannot be written.
CopyFails ==
    /\ AtData
    /\ IF Left > 0 /\ Shrunk THEN NoFault ELSE Fault
    /\ Dies
    /\ UNCHANGED <<argv, return_value>>
-----------------------------------------------------------------------------
(* The entries held back, and the end. *)

\* The entry held back of a file comes out of the resolver and its file is opened again.
Take(ino) == Without(cache, ino)

Held(ino) == Head(cache[ino].entry)
Flushing(ino) ==
    /\ pc = "flush" /\ todo = <<>> /\ ino \in Deferred(cache)
    /\ cache' = Take(ino)

FlushEntry ==
    \E ino \in Deferred(cache) :
        /\ Flushing(ino)
        /\ disk.state = "closed"
        /\ disk' = [state |-> "data", path |-> Held(ino).path, left |-> size[ino]]
        /\ todo' = <<Held(ino)>>
        /\ NoFault /\ KeepFiles
        /\ UNCHANGED <<argv, pc, walk, copying, archive, return_value, status>>

\* The disk reader cannot be opened, or not be read.
FlushFails ==
    \E ino \in Deferred(cache) :
        /\ Flushing(ino)
        /\ DiskOpenFails
        /\ disk' = [disk EXCEPT !.state = "fatal"]
        /\ return_value' = 1
        /\ GiveUp(Held(ino))
        /\ UNCHANGED <<job, argv, pc, walk, todo, copying, archive, status, size, seen>>

\* The file is no longer there: only a fatal error counts for return_value.
FlushVanished ==
    \E ino \in Deferred(cache) :
        /\ Flushing(ino)
        /\ disk.state = "closed"
        /\ Fault
        /\ disk' = CloseDisk
        /\ GiveUp(Held(ino))
        /\ UNCHANGED <<job, argv, pc, walk, todo, copying, archive, return_value, status, size, seen>>

\* Mutant: closes the archive before all that is held back is in it.
EndOfFlushEarly ==
    /\ pc = "flush" /\ todo = <<>>
    /\ pc' = "close"
    /\ NoFault /\ KeepFiles
    /\ UNCHANGED <<argv, walk, disk, cache, todo, copying, archive, return_value, status>>

EndOfFlush ==
    /\ pc = "flush" /\ todo = <<>> /\ Deferred(cache) = {}
    /\ pc' = "close"
    /\ NoFault /\ KeepFiles
    /\ UNCHANGED <<argv, walk, disk, cache, todo, copying, archive, return_value, status>>

\* archive_write_close, and main returns return_value.
Close ==
    /\ pc = "close"
    /\ \E fails \in BOOLEAN :
        /\ IF fails THEN Fault ELSE NoFault
        /\ return_value' = IF fails THEN 1 ELSE return_value
    /\ status' = return_value'
    /\ pc' = "done"
    /\ KeepFiles
    /\ UNCHANGED <<argv, walk, disk, cache, todo, copying, archive>>

\* Another process makes a file larger or smaller.
OnDisk(ino) ==
    \E k \in DOMAIN work.args : \E n \in DOMAIN work.args[k].paths :
        work.args[k].kind = "path" /\ work.ino[work.args[k].paths[n]] = ino
Resize ==
    /\ pc # "done"
    /\ Fault
    /\ \E ino \in Inodes, s \in Sizes :
        /\ OnDisk(ino) /\ s # size[ino]
        /\ size' = [size EXCEPT ![ino] = s]
        /\ Spoil(ino)
    /\ UNCHANGED <<job, argv, pc, walk, disk, cache, todo, copying, archive, return_value, status, seen, gone>>
-----------------------------------------------------------------------------
Step ==
    \/ OpenPath \/ OpenPathFails \/ OpenArchive \/ OpenArchiveFails
    \/ ChangeDir \/ ChdirFails \/ MissingDir \/ EndOfArguments
    \/ NextFile \/ NextFileFails \/ EndOfWalk
    \/ AppendEntry \/ AppendUnsized \/ AppendFails \/ EndOfAppend
    \/ WriteHeader \/ HeaderRefused \/ HeaderFatal
    \/ CopyBlock \/ CopyEnds \/ CopyStops \/ CopyFails
    \/ FlushEntry \/ FlushFails \/ FlushVanished \/ EndOfFlush
    \/ Close

Next == Step \/ Resize

\* main runs on, and does not wait for a failure.
Spec == Init /\ [][Next]_vars /\ WF_vars(Step /\ NoFault)
-----------------------------------------------------------------------------
(* Properties. *)

Entries == [path : Paths, ino : Inodes, size : Nat, link : Paths \cup {NoLink}]
Archived == [path : Paths, ino : Inodes, size : Nat, link : Paths \cup {NoLink}, data : Seq(Inodes)]

TypeOK ==
    /\ work \in Works /\ format \in Formats
    /\ pc \in {"args", "walk", "append", "flush", "close", "done"}
    /\ argv \in Seq([kind : Kinds, paths : Seq(Paths)]) /\ walk \in Seq(Paths)
    /\ disk.state \in {"closed", "open", "data", "fatal"}
    /\ disk.path \in Paths \cup {NoLink} /\ disk.left \in Nat
    /\ DOMAIN cache \subseteq Inodes
    /\ \A i \in DOMAIN cache :
        /\ cache[i].canonical \in Paths /\ cache[i].links \in Nat \ {0}
        /\ Len(cache[i].entry) <= 1
    /\ \A k \in DOMAIN todo : todo[k] \in Entries
    /\ copying \in BOOLEAN
    /\ copying => todo # <<>> /\ archive # <<>> /\ (pc \notin {"append", "done"} => disk.path \in Paths)
    /\ \A k \in DOMAIN archive : archive[k] \in Archived
    /\ return_value \in {0, 1} /\ status \in {-1, 0, 1}
    /\ size \in [Inodes -> Nat]
    /\ faults \in 0 .. MaxFaults
    /\ seen \in [Paths -> Nat] /\ gone \in [Paths -> Nat] /\ spoiled \subseteq Inodes

Times(s, p) == Cardinality({k \in DOMAIN s : s[k].path = p})

\* The entries that linkify has returned and that are not in the archive yet.
Pending == IF copying THEN Tail(todo) ELSE todo

\* Every entry that was read is in one place: it waits to be written, or it is held back by
\* the resolver, or it is in the archive, or it was given up.  None is lost or written
\* twice when entries change places in the resolver (archive_entry_link_resolver.c:245).
NoEntryIsForgotten ==
    /\ TypeOK
    /\ \A p \in Paths :
        seen[p] = Times(Pending, p) + Cardinality({i \in Deferred(cache) : Held(i).path = p})
                  + Times(archive, p) + gone[p]

\* The data of an entry is that of its own file, whatever the disk reader is at by now, and
\* no more of it than the header says (write.c:530).
DataIsItsOwn ==
    \A k \in DOMAIN archive :
        /\ Len(archive[k].data) <= archive[k].size
        /\ \A n \in DOMAIN archive[k].data : archive[k].data[n] = archive[k].ino

IsData(e, ino) == e.ino = ino /\ e.link = NoLink

\* A hard link can be made: in the formats of tar and mtree the file it leads to is before it
\* in the archive, in those of the newer cpio the data is behind it or still to come.
LinksHaveAFile ==
    \A k \in DOMAIN archive :
        LET e == archive[k]
            Before == \E n \in 1 .. k - 1 : IsData(archive[n], e.ino) /\ archive[n].path = e.link
            Behind == \/ \E n \in k + 1 .. Len(archive) : IsData(archive[n], e.ino)
                      \/ \E n \in DOMAIN todo : IsData(todo[n], e.ino)
                      \/ e.ino \in DOMAIN cache
        IN  e.link # NoLink /\ e.ino \notin spoiled =>
                /\ work.ino[e.link] = e.ino
                /\ IF strategy = "new_cpio" THEN Behind ELSE Before

Visits(ino) == {p \in Paths : work.ino[p] = ino}
SeenOf(ino) == Cardinality(UNION {{p} \X (1 .. seen[p]) : p \in Visits(ino)})

\* What the resolver is for: the data of a file is in the archive once for all its links, and
\* again only when more names were given than it has links.
DataIsNotRepeated ==
    faults = 0 /\ strategy \in {"tar", "new_cpio"} =>
        \A ino \in Inodes :
            LET copies == Cardinality({k \in DOMAIN archive : IsData(archive[k], ino)})
            IN  work.nlink[ino] * (copies - 1) < SeenOf(ino)

\* The archive has every file once, with its own data, and links that lead to it: what the
\* resolver counts and what is written agree, whatever the order of the names.
LinksShareOneCopy == DataIsItsOwn /\ LinksHaveAFile /\ DataIsNotRepeated

Whole(e) == e.link = NoLink /\ e.data = [n \in 1 .. e.size |-> e.ino] /\ e.size = work.size[e.ino]

\* Exit code 0 means that every name given is in the archive, with all the data or as a link to
\* it.  What wintar does not report is left out: the files of which an entry was refused or had
\* vanished when it was written at last, the entries of another archive that have no size or
\* whose data was read with a warning, and the files that have changed.
ZeroMeansArchived ==
    status = 0 =>
        \A k \in DOMAIN work.args : \A n \in DOMAIN work.args[k].paths :
            LET p == work.args[k].paths[n]
                ino == work.ino[p]
            IN  ino \notin spoiled =>
                    /\ \E m \in DOMAIN archive : archive[m].path = p
                    /\ \E m \in DOMAIN archive : archive[m].ino = ino /\ Whole(archive[m])

\* wintar exits, whatever fails.
Termination == <>(pc = "done")
=============================================================================
