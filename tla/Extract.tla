------------------------------ MODULE Extract ------------------------------
(***************************************************************************)
(* tools/uncia/extractor.cc: Extractor::Extract and copy_data, which read  *)
(* the entries of an archive with ArchiveRead and write them where their   *)
(* paths lead with WriteDisk.  pc is the call that comes next.             *)
(*                                                                         *)
(* The number that WriteDisk gives an entry is its place in the archive,   *)
(* and the n-th block of entry i is <<i, n - 1>>, so that it can be told   *)
(* where data comes from.  Entries have the verdict of is_harmful_path;    *)
(* Sanitize models it.  Printing is left out.                              *)
(***************************************************************************)
EXTENDS ArchiveRead, WriteDisk

CONSTANTS
    Dest,       \* the destination
    Archives,   \* the archives there are
    Disks       \* what may be on disk before

ASSUME DestAssumption == Dest \in Paths \ {<<>>}

\* An entry of an archive.  Its path is relative, or rooted: with a separator or a drive in front,
\* so that it says where on the disk it is.
Entry == {e \in [path : Paths, rooted : BOOLEAN, type : {"reg", "dir", "link"}, size : Int,
                 target : Paths, blocks : Nat, dots : BOOLEAN, harmful : BOOLEAN] :
             IF e.rooted THEN e.path # <<>> ELSE Dest \o e.path \in Paths}

\* JoinSanitizeFsPath: operator/ drops the destination in front of a rooted path.
Place(e) == IF e.rooted THEN e.path ELSE Dest \o e.path

ASSUME ArchivesAssumption == Archives \subseteq Seq(Entry)
ASSUME DisksAssumption ==
    \A d \in Disks : d \in [Paths -> {Nothing, Dir(0), File(0)}] /\ WellFormed(d)

VARIABLES
    contents,   \* the entries of the archive
    pc,
    ret,        \* what Extract returns
    ec,         \* an error was put into ec
    failed,     \* history: a call failed before the handles were closed
    fresh       \* history: there was no destination before

vars == <<rvars, wdvars, contents, pc, ret, ec, failed, fresh>>

Init ==
    /\ contents \in Archives
    /\ ReadReady([i \in DOMAIN contents |-> contents[i].blocks])
    /\ \E d \in Disks : Ready(d) /\ fresh = (d[Dest].kind = "none")
    /\ pc = "new"
    /\ ret = FALSE
    /\ ec = FALSE
    /\ failed = FALSE

\* The closer runs on every return after the handles have been made; ok tells whether
\* the call before it went well.
ReturnUnless(ok, next) ==
    /\ pc' = IF ok THEN next ELSE "read_close"
    /\ ret' = TRUE
    /\ failed' = (failed \/ ~ok)

\* archive_read_new may fail; nothing has to be closed then.
New ==
    /\ pc = "new"
    /\ UNCHANGED <<rvars, wdvars, contents, failed, fresh>>
    /\ \/ pc' = "open" /\ UNCHANGED <<ret, ec>>
       \/ pc' = "done" /\ ret' = FALSE /\ ec' = TRUE

\* Mutant: returns without closing.
OpenLeaks ==
    /\ pc = "open"
    /\ Open
    /\ pc' = IF rret' = "ok" THEN "next" ELSE "done"
    /\ ret' = TRUE
    /\ failed' = (rret' # "ok")
    /\ ec' = (rret' # "ok")
    /\ UNCHANGED <<wdvars, contents, fresh>>

\* archive_read_open_filename_w; "return 1" converts to true.
OpenArchive ==
    /\ pc = "open"
    /\ Open
    /\ ReturnUnless(rret' = "ok", "next")
    /\ ec' = (rret' # "ok")
    /\ UNCHANGED <<wdvars, contents, fresh>>

\* Mutant: the data of an entry that is skipped is copied.
NextCopiesSkipped ==
    /\ pc = "next"
    /\ NextHeader
    /\ IF rret' = "eof" THEN pc' = "read_close" /\ ret' = TRUE /\ failed' = failed
       ELSE ReturnUnless(rret' = "ok", IF rret' = "ok" /\ contents[entry'].harmful THEN "copy" ELSE "header")
    /\ UNCHANGED <<wdvars, contents, ec, fresh>>

\* Mutant: asks for another header at the end.
NextIgnoresEnd ==
    /\ pc = "next"
    /\ NextHeader
    /\ IF rret' = "eof" THEN pc' = "next" /\ ret' = TRUE /\ failed' = failed
       ELSE ReturnUnless(rret' = "ok", IF rret' = "ok" /\ contents[entry'].harmful THEN "next" ELSE "header")
    /\ UNCHANGED <<wdvars, contents, ec, fresh>>

\* archive_read_next_header and JoinSanitizeFsPath: a harmful entry is skipped.
NextEntry ==
    /\ pc = "next"
    /\ NextHeader
    /\ IF rret' = "eof" THEN pc' = "read_close" /\ ret' = TRUE /\ failed' = failed
       ELSE ReturnUnless(rret' = "ok", IF rret' = "ok" /\ contents[entry'].harmful THEN "next" ELSE "header")
    /\ UNCHANGED <<wdvars, contents, ec, fresh>>

\* Mutant: the path in the archive is kept.
EntryAsIs(e) == [path |-> e.path, type |-> e.type, size |-> e.size, target |-> e.target, dots |-> e.dots]

\* archive_entry_set_pathname_utf8 gives the entry the joined path; the target of a hard
\* link stays as it is in the archive.
EntryToWrite(e) == [path |-> Place(e), type |-> e.type, size |-> e.size, target |-> e.target, dots |-> e.dots]

\* archive_write_header
WriteHeader ==
    /\ pc = "header"
    /\ Header(EntryToWrite(contents[entry]), entry)
    /\ ReturnUnless(wret' = "ok", "copy")
    /\ UNCHANGED <<rvars, contents, ec, fresh>>

\* Mutant: the last block is written once more at the end of the data.
CopyForEver ==
    /\ pc = "copy"
    /\ ReadDataBlock
    /\ IF rret' = "eof" THEN pc' = (IF read > 0 THEN "write" ELSE "next") /\ UNCHANGED <<ret, failed>>
       ELSE ReturnUnless(rret' = "ok", "write")
    /\ UNCHANGED <<wdvars, contents, ec, fresh>>

\* copy_data: archive_read_data_block
CopyRead ==
    /\ pc = "copy"
    /\ ReadDataBlock
    /\ IF rret' = "eof" THEN pc' = "next" /\ UNCHANGED <<ret, failed>>
       ELSE ReturnUnless(rret' = "ok", "write")
    /\ UNCHANGED <<wdvars, contents, ec, fresh>>

\* Mutant: copies the first block.
CopyOneBlock ==
    /\ pc = "write"
    /\ DataBlock(<<entry, read - 1>>, read - 1)
    /\ ReturnUnless(wret' = "ok", "next")
    /\ UNCHANGED <<rvars, contents, ec, fresh>>

\* copy_data: archive_write_data_block
CopyWrite ==
    /\ pc = "write"
    /\ DataBlock(<<entry, read - 1>>, read - 1)
    /\ ReturnUnless(wret' = "ok", "copy")
    /\ UNCHANGED <<rvars, contents, ec, fresh>>

\* The four calls of the closer, whose results are dropped.
CloseReader ==
    /\ pc = "read_close"
    /\ ReadClose
    /\ pc' = "read_free"
    /\ UNCHANGED <<wdvars, contents, ret, ec, failed, fresh>>

FreeReader ==
    /\ pc = "read_free"
    /\ ReadFree
    /\ pc' = "write_close"
    /\ UNCHANGED <<wdvars, contents, ret, ec, failed, fresh>>

CloseWriter ==
    /\ pc = "write_close"
    /\ Close
    /\ pc' = "write_free"
    /\ UNCHANGED <<rvars, contents, ret, ec, failed, fresh>>

FreeWriter ==
    /\ pc = "write_free"
    /\ Free
    /\ pc' = "done"
    /\ UNCHANGED <<rvars, contents, ret, ec, failed, fresh>>

Done == pc = "done" /\ UNCHANGED vars

Next ==
    \/ New \/ OpenArchive
    \/ NextEntry \/ WriteHeader \/ CopyRead \/ CopyWrite
    \/ CloseReader \/ FreeReader \/ CloseWriter \/ FreeWriter
    \/ Done

\* Extract is a sequential function: it goes on as long as it has not returned.
Spec == Init /\ [][Next]_vars /\ WF_vars(Next)
-----------------------------------------------------------------------------
(* Properties. *)

TypeOK ==
    /\ contents \in Archives
    /\ pc \in {"new", "open", "next", "header", "copy", "write",
               "read_close", "read_free", "write_close", "write_free", "done"}
    /\ ret \in BOOLEAN /\ ec \in BOOLEAN /\ failed \in BOOLEAN /\ fresh \in BOOLEAN
    /\ rret \in RetRead /\ wret \in Ret
    /\ pc \in {"header", "copy", "write"} => entry \in DOMAIN contents /\ rstate = "data"
    /\ pc \in {"copy", "write"} => state = "data"

\* Neither handle is ever called in a state that the call is not meant for: only a
\* failing file makes the reader fatal, and nothing the writer; and Extract stops before it
\* would read on in a stream that has lost its place, so that it believes headers only
\* where a header begins.
ProtocolIsKept ==
    /\ TypeOK
    /\ state # "fatal"
    /\ rstate = "fatal" => rfaults > 0
    /\ pc \in {"header", "copy", "write"} => ~astray

\* Every file that Extract made lies where the entry it belongs to says, and holds
\* the blocks of that entry in their places, whatever failed and whatever was skipped.
DataBelongsToItsEntry ==
    \A p \in Paths : disk[p].kind = "file" /\ disk[p].owner > 0 =>
        /\ \E i \in DOMAIN contents :
               p = Place(contents[i]) /\ (i = disk[p].owner \/ contents[i].type = "link")
        /\ \A n \in DOMAIN disk[p].data : disk[p].data[n] \in {<<disk[p].owner, n - 1>>, Zero}

\* The entries read so far that are not skipped lead to p.
Named(p) ==
    \E i \in DOMAIN contents :
        i <= entry /\ ~contents[i].harmful /\ p \in Ancestors(Place(contents[i])) \cup {Place(contents[i])}

Inside(p) == Dest \in Ancestors(p) \cup {p}

\* Only what an entry that was read and not refused leads to changes, whatever fails and
\* whatever was open or waited for its time before.  It is below the destination, or a
\* directory above it, unless an entry of the archive has a rooted path: nothing keeps those
\* there.
OnlyNamedPlacesChange ==
    [][\A p \in Paths : disk'[p] # disk[p] =>
          /\ Named(p)
          /\ Inside(p) \/ p \in Ancestors(Dest) \/ \E i \in DOMAIN contents : contents[i].rooted]_vars

\* The archives whose entries can all be extracted into a new directory: every path is
\* fit and relative, no path goes through a file, none comes twice, and no entry has more data than
\* its header says.
Extractable ==
    \A i \in DOMAIN contents :
        /\ ~contents[i].harmful /\ ~contents[i].dots /\ ~contents[i].rooted
        /\ contents[i].type = "dir" => contents[i].blocks = 0
        /\ contents[i].type = "reg" /\ contents[i].size >= 0 => contents[i].blocks <= contents[i].size
        /\ \A j \in DOMAIN contents : j # i =>
            /\ contents[j].path # contents[i].path
            /\ contents[j].path \in Ancestors(contents[i].path) => contents[j].type = "dir"

Extracted(i) ==
    LET e == contents[i]
        o == disk[Dest \o e.path]
    IN  /\ o.kind = IF e.type = "dir" THEN "dir" ELSE "file"
        /\ e.type = "reg" => Len(o.data) = IF e.size >= 0 THEN e.size ELSE e.blocks
        /\ e.type = "reg" => \A n \in 1 .. e.blocks : o.data[n] = <<i, n - 1>>

\* When no call fails, such an archive without hard links is extracted completely.
CompleteWhenNothingFails ==
    pc = "done" /\ ret /\ fresh /\ faults = 0 /\ rfaults = 0 /\ Extractable
        /\ (\A i \in DOMAIN contents : contents[i].type # "link")
    => \A i \in DOMAIN contents : Extracted(i)

\* On every return both handles are freed, the archive file has been closed once and
\* no file is left open.
EverythingIsReleased ==
    pc = "done" /\ ret => rstate = "freed" /\ state = "freed" /\ clientCloses = 1 /\ ~fh

\* Extract returns, however the calls end.
Termination == <>(pc = "done")

\* "if (!e.Execute(ec)) { ... uncia extract error" (uncia.cc:147): a failure is
\* returned as false, with ec set.  The code returns 1, which is true.
FailureIsReported == pc = "done" /\ failed => ~ret

\* "-d|--destination  Set archive extracted destination" (uncia.cc:90): an archive is
\* extracted into the destination, its hard links included.  The code looks for
\* their targets in the current directory.
HardLinksAreExtracted ==
    pc = "done" /\ ret /\ fresh /\ faults = 0 /\ rfaults = 0 /\ Extractable
        /\ (\A i \in DOMAIN contents : contents[i].type = "link" =>
                \E j \in 1 .. i - 1 : contents[j].type = "reg" /\ contents[j].path = contents[i].target)
    => \A i \in DOMAIN contents : Extracted(i)
=============================================================================
