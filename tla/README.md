# Verification of uncia

uncia is a command-line tool for Windows that extracts archives. It drives
libarchive, which is part of the repository, and adds what libarchive does not
do: it chooses a folder for each archive, keeps entries inside it, and
"flattens" the result when everything lies in one directory inside another.
The repository also builds `wintar`, libarchive's bsdtar.

This directory holds TLA+ models of uncia's own code, of the two libarchive
handles it drives, of the read-ahead and the tar reader below them, and of how wintar
creates an archive, TLC runs that check them on small instances, and TLAPS
proofs for every instance. Line numbers refer to the files of the repository.

## The system

### Components and how they interact

| Component | Source | State | Operations |
|---|---|---|---|
| command line | `tools/uncia/uncia.cc` | `archive_files`, `destination` | `ParseArgv`, `Execute`, `make_unqiue_extracted_destination`, `make_flat`, `wmain` |
| extractor | `tools/uncia/extractor.cc` | the two handles, one entry | `Extract`, `copy_data` |
| flattening | `lib/fs.cc` | `current`, `depth1`, the directory tree | `flattened_recursive`, `flattened_internal`, `Flattened`, `MakeFlattened` |
| entry paths | `lib/ced.cc` | none | `is_harmful_path`, `JoinSanitizeFsPath`, encoding detection |
| write-disk handle | `lib/libarchive/archive_write_disk_windows.c` | `state`, `fh`, offsets, `todo`/`deferred`, `fixup_list`, the file system | header, data_block, finish_entry, close, free |
| read handle | `lib/libarchive/archive_read.c` | `state`, the pipeline of filters, the client's data, the place in the stream | open, next_header, data_block, data_skip, close, free |
| read-ahead | `lib/libarchive/archive_read.c:1319-1755` | two windows (`client_*`, `buffer`), `position`, `end_of_file`, the data set | look ahead, consume, seek |
| file I/O | `lib/libarchive/archive_read_open_filename.c` | the file pointer, which volume is open | read, skip, seek, switch, close |
| tar reader | `lib/libarchive/archive_read_support_format_tar.c` | what is left of the entry, sparse list, `header_recursion_depth` | read_header, read_data, skip |
| other formats, filters | `lib/libarchive/archive_read_support_*` | decoder state | callbacks of the read handle |
| wintar | `tools/wintar` | the disk reader, the writer, the link resolver, `return_value` | create (`write_archive`), extract, list, append |
| link resolver | `lib/libarchive/archive_entry_link_resolver.c` | the files with links still to come | `archive_entry_linkify`, `partial_links` |
| disk reader | `lib/libarchive/archive_read_disk_windows.c` | `state`, the walk, the open file | open, next_header, data_block, close |
| bela, parseargv | `vendor/bela` | none that matters here | strings, error codes, argument parsing |
| codecs | `lib/{brotli,bzip2,ced,lz4,re2,xz,zlib,zlib-intel,zstd}` | decoder state | behind the filters |

For each archive `Execute` chooses a folder that does not exist, calls
`Extract`, and then `MakeFlattened` on the folder. `Extract` takes headers from
the read handle; a header whose path is harmful is skipped, another one gets its
path joined to the destination and goes to the write-disk handle, followed by
the blocks of data. Whatever happens, a closer closes and frees both handles.
The write-disk handle finishes an entry when the next header comes, and touches
up the times of directories from a sorted list when it is closed.

The read handle asks its format for headers and data, and the format asks the
last filter for bytes: it looks ahead at as many as it needs at once and consumes
them later. The filter at the bottom has the client's blocks, from one file or several,
and keeps a second buffer for what does not lie in one block.

wintar creates an archive from its arguments: a path is walked on disk, `@file`
is an archive whose entries are copied, `-C` changes the directory. Each entry goes
through the link resolver, which may hold it back until all links to the file have
come or the arguments end.

Everything is sequential in one process. What makes the behaviour hard is not
threads but failures that are half handled, state that one call leaves to the
next, names looked up long after they were checked, and other processes.

### What makes each component correct

- **command line**: no folder that was there is filled, no folder is filled
  twice, an archive is given up only for a reason, 0 means that a folder was made, it ends.
- **extractor**: blocks end up in the file of their entry, nothing changes
  but where the entries lead, the handles are only called when they may be, both are
  released on each of the returns, nothing is read from a lost place; failures
  are reported.
- **flattening**: finds the right directory, moves everything, deletes nothing
  else, and does nothing the second time.
- **entry paths**: accepts a path exactly when it leads to something below
  where the join starts and never above it.
- **write-disk handle**: finished files have their size and their own data, files
  are lost only to entries, the tree stays a tree, directories keep the time of
  their entries.
- **read-ahead**: both windows hold bytes of the stream at the place they are said
  to be from, a look ahead shows what comes next or the end, and nothing loops for ever.
- **tar reader**: a header is looked for where one begins, however much of the entry before
  was read; names, sizes and maps go to the right entry; the end is the end.
- **wintar, link resolver**: each file that was walked is archived or its loss is reported, a
  file's data is there once, and each link comes after what it leads to.
- **read handle**: every filter is closed once on each failure path, the end and a
  fatal error are for good, a lost place is never reported as ok.

The list `hazards` of `PROJECT.json` has each difficulty with its line and the
properties that are about it.

## The modules

| Module | Models | Composed of |
|---|---|---|
| `Flatten` | `MakeFlattened` on a table of inodes | |
| `FlattenProofs` | theorems about `Flatten` | `Flatten`, `TLAPS` |
| `Sanitize` | `is_harmful_path` and the join | |
| `WriteDisk` | the write-disk handle and the file system below it, as actions | |
| `WriteDiskCalls` | any client of `WriteDisk` | `WriteDisk` |
| `WriteDiskProofs` | theorems about `WriteDiskCalls` | `WriteDiskCalls`, `TLAPS` |
| `SortDirList` | the merge sort of the fixups | |
| `ArchiveRead` | the read handle, as actions | |
| `ArchiveReadCalls` | any client of `ArchiveRead` | `ArchiveRead` |
| `ArchiveReadProofs` | theorems about `ArchiveReadCalls` | `ArchiveReadCalls`, `TLAPS` |
| `Extract` | `Extract` and `copy_data` | `ArchiveRead`, `WriteDisk` |
| `ExtractProofs` | theorems about `Extract` | `Extract`, lemmas of `ArchiveReadProofs` and `WriteDiskProofs` |
| `ByteStream` | what look ahead, consume and seek promise of a sequence of bytes | |
| `ReadAhead` | the read-ahead over a file or several volumes | refines `ByteStream` |
| `ReadAheadProofs` | theorems about `ReadAhead` | `ReadAhead`, `TLAPS` |
| `TarRead` | the tar reader below the read handle | reads as `ByteStream` promises |
| `TarReadProofs` | theorems about `TarRead` | `TarRead`, `TLAPS` |
| `LinkResolver` | `archive_entry_linkify` and its table, as operators | |
| `WintarWrite` | `write_archive` and all it calls | `LinkResolver` |
| `WintarWriteProofs` | theorems about `WintarWrite` | `WintarWrite`, `TLAPS` |
| `Uncia` | `Execute` and `wmain` | what `Extract` and `Flatten` show of a call |
| `UnciaProofs` | theorems about `Uncia` and `Sanitize` | `Uncia`, `Sanitize`, `TLAPS` |
| `MCPaths` | both algorithms on paths for one run | `Sanitize`, `SortDirList` |
| other `MC*` | values of the constants for TLC | the module of that name |

### How state and actions correspond to the code

**Flatten.** `pc` goes through `MakeFlattened`: `Start` is the `is_directory`
test, which says no as well when it fails, each `Walk` one iteration of the loop in `flattened_internal`, `StopAt`
its return, `TooDeep` its end after 20 iterations. `Rename` and
`RenameFails` are one iteration of the loop over the directory `flat`, in any
order as the iterator gives them; a rename onto a name that is taken fails by
itself, any other failure is a `Fault`. `RemoveAll` deletes everything under
`depth1` or stops somewhere. The errors of these calls are never looked at in the
code, and so the model goes on after each of them. Names are classes of names
equal up to case.

**Sanitize.** One action per branch of the loop. `where` and `left` record where
the components lead, and are never read by an action; the properties compare the
verdict with them. `form` is how the path begins. The function does not look at it (the separators are gone when it counts),
but the join does: `Base` is what `root / encoded_path` keeps of the destination, all of it for a relative path, its drive for
a rooted one (`/x`) and nothing for one with a drive (`C:\x`). Its state and actions have names of their own (`PathInit`, `PathNext`), since
`MCPaths` and `UnciaProofs` take it together with another module.

**WriteDisk.** The actions are parameterised by what the client passes, and
`WriteDiskCalls` and `Extract` call them. A header first finishes the entry
before (`FinishOutcomes`) and drops its error, then refuses the path or
restores the entry (`RestoreOutcomes`, `Created`): unlink first, create, make
missing parents, create again. What a failure leaves of the missing parents is `HalfMade`. `torn` records entries whose file could not be
resized; after that failure the code leaves the state at `data`, and so does
the model. Metadata is the modification time: the number of the entry that set it,
or `Now` when the system did. A block written is `<<entry, offset>>`, so that data
in the wrong place can be seen. `Fixed` uses that `sort_dir_list` keeps fixups
of one path in order, which `SortDirList` checks of the real merge sort.

**ArchiveRead.** `filters` is the pipeline with the number of times each was
closed, `linked` whether `a->filter` still leads to it, `clientCloses` how
often the client's closer ran. The ways for `open` to fail are actions of
their own because each leaves the pipeline in another condition. `NextHeader`
skips what is left of the entry and folds the two results (`Worst`). What filters
and formats return is free within `MaxReadFaults`; `astray` is a ghost that says
the stream is not where a header begins.

**Extract.** One action per call the function makes; `ReturnUnless` is the test
after it. `ret` is what the C++ function returns, where `return 1` is true. `Place` is where the join puts an entry: below the
destination, or where its path says when that is rooted.

**Uncia.** One action per step of `Execute`. `Extract` is a call that may or may not
have made the folder, and `made` says of which archives it did: the folder may be empty, since the parents of an entry are
made before the entry, which may then fail. `Flatten(flat)` is false without a folder.
`Other` is another process that creates a folder at any time, or an entry with a rooted path that does.

**ReadAhead, ByteStream.** A call is an action that begins it (`Ahead`, `Consume`,
`SeekCall`) and one for each round of its loop; `pc` says where in it the call is. `client_*` and
`copy`, `next`, `buffer_size` are the two windows with the code's own counters; `client_buff` is
where in the stream the block came from, since the contents of a byte are its place. `copy` holds
the bytes themselves, so that a wrong copy shows. Reading a block returns any
number of bytes up to the block, as `read` may. `lost` is a history: the place is not
what it is said to be, after a failure or where the code loses it. `ByteStream` is the promise: a place in
one sequence, and calls that return a part of it. `ReadsOneStream` is that
`ReadAhead` implements it under the mapping of its last line, where the place of the stream is
the client's place, a call is one step and each round within it a stutter. What `ByteStream` allows beyond
a plain sequence are the gaps of the code, each named there (see below).

**TarRead.** A tape is a sequence of members; what a header says (`size`, `map`) and what lies
behind it (`body`) are apart. Recursion of `tar_read_header` is the stack `specials`: `Header...`, `Read...`
go down, `LevelReturns`, `ReadMap` and `LevelFails` come back, one level at a time, and
`HeaderReturns` leaves. What is kept between the calls (`remaining`, `padding`,
`unconsumed`, `sparse_list`, the depth, the pending version) is the code's. Record is two bytes
instead of 512, so that bodies end within a record and at its end. The place is a number, as a stream
without losses has it; `on_disk` tells whether it can be moved beyond the end. What a list of pieces
is together (`SumOf`) is a recursive function, so that it can be reasoned about. The properties
compare with the tape, read from its members and not by the code's way (`Told`,
`Namer`, `Data`). Histories: `entry` and `entries` are what was reported, `astray` that holes
were skipped, `clean` that no call failed. `OnTrack` is where the place is claimed to be right: no failure, no
holes skipped, special headers that say the truth of their own bodies (`Orderly`), and no entry reported of which the
headers lie (`Truthful`) or that had too many.

**LinkResolver, WintarWrite.** The resolver is a function from its table and an entry to
a table and the entries that come out; `Found` counts the names down as `find_entry` does. `WintarWrite`
has one action per step of the loops: over arguments (`OpenPath`, `OpenArchive`, `ChangeDir`), over what the
walk or the archive gives (`NextFile`, `AppendEntry`, and `AppendUnsized` for an entry without a size), over the entries the resolver hands
out (`WriteHeader`, `HeaderRefused`), over data (`CopyBlock`, and `CopyStops` when a block comes with a warning), and the last over what is still held
back (`FlushEntry`). `Resize` is another process, which changes a file while it is
archived. The archive is a sequence of headers with the data that came behind each.

## The runs

| Run | Question | Bounds | States |
|---|---|---|---|
| `Flatten` | does flattening keep and delete the right things | 5 inodes, 3 names of which one is `bin`, depth 3, 2 faults | 45 000 |
| `FlattenLoss` | can it lose content without a failing call | the same | finding |
| `WriteDiskCalls` | what holds after any calls | 3 paths, 3 entries, 2 offsets, 4 disks, 1 fault | 1.6 million |
| `ArchiveReadCalls` | what holds after any calls | 3 filters, 3 failures, archives of up to 2 entries | 10 000 |
| `Extract` | does the composition do what it is for | 3 entries of 8 sorts, 3 disks, 1 + 1 faults | 750 000 |
| `ExtractFailure`, `ExtractLinks` | are failures reported, are hard links extracted | 1 and 2 entries | findings |
| `Paths` | is the verdict on a path right; is the merge sort one, with the right order | paths of up to 6 components, relative, rooted and with a drive; lists of 4 names of up to 3 characters | 117 000 |
| `ReadAhead` | are the windows right, is it a stream, does every call return | one file of 3 bytes and two of 2 and 3, blocks of 2, requests of 2 and 3, seeks by -4 and 1, one fault | 240 000 |
| `TarRead` | are entries, names, blocks and the end those of the archive | 890 tapes, records of 2 bytes, depth 3, one fault | 610 000 |
| `WintarWrite` | is everything archived once, with its links, and reported if not | 7 jobs, the four strategies, files of 1 and 2 blocks, three faults | 163 000 |
| `Uncia` | which folders are filled, what exit code 0 says, does it end | 3 archives, 3 candidates, 5 folders, 2 by others | 460 000 |

The bounds are chosen for what the code distinguishes. Five inodes give chains
that hit the depth limit, branching at each level and a clash of names below
`depth1`; the depth of 20 matters only by being reached, so 3 stands for it, as 3
filters for 25 and 3 candidates for 100. In `WriteDisk` the paths are a
directory, something in it and something beside it: a file can take the
place of a directory, the other way round, and a third entry can undo it. For `ReadAhead`, requests are
smaller than, equal to and larger than a block and a file, so that the copy is filled from two blocks,
grown, moved and rolled back; a volume of fewer bytes than a request makes one look ahead cross
volumes, and the lengths grow because each skip is measured by the last. For `TarRead`, the groups of headers
are one or more for each branch of the reader: bodies of less and more than a record, each special
header, nested up to one more than the limit, both kinds of map, maps with less and more than the data,
links, directories, damage, a map whose attributes come in two headers, headers without a file. Any group in front of each of fifteen that leave or find a trace (`Followers`), four ends, and a cut at any byte of the
last eight. The jobs of `WintarWrite` have a file with two names, one with three of which one is never
given, names given twice, an archive whose entry is copied, and missing directories. One
fault per handle meets every error path, with anything before and after it; `Flatten` and
`ArchiveRead`, which are small, have two and three. The two stems of `Uncia` are named so that the
folder of one is a candidate of the other.

`CHECK_DEADLOCK FALSE` is set for the runs of clients that stop after `free`
and of the functions that end (`Paths`, `WintarWrite`).

Every property of a passing run has a mutant, a variant of an operation with a
plausible bug, under which TLC finds the property violated. The mutants are
defined before the operation they replace and are used by nothing else. The type
invariant (`TypeOK`) of a module with proofs is proved there; in the other modules it is a
conjunct of the property about the shape of the state (`TreeStaysWellFormed`, `OpenWhileReadable`,
`ProtocolIsKept`, `WindowsStayInTheirBuffers`, `NoEntryIsForgotten`, `EntriesAreTheFiles`).

### What the passing runs show

- Flattening gives up on a directory only at the limit on its depth, or when it is not known to be one. It deletes only directories it walked through and entries that could
  not be moved; without failures and name clashes it keeps everything.
- Whatever fails, every file a handle made holds blocks of its own entry only,
  each in its place, and has its declared size unless resizing failed. A
  truncated archive leaves a file padded with zeroes.
- Both handles are released on each return of `Extract`, and the archive file is closed
  once, although `archive_read_free` and each failure path close filters, too.
- uncia never fills a folder that was there (without `-d`), even with archives
  whose names collide; only another process can create the folder in between.
- A single archive without `-d` never gives exit code 0 when its folder was not made, in spite of
  finding 2: `MakeFlattened` fails without a folder. It is no more than that. When the parents of
  an entry were made and the entry then failed, the folder is empty and the exit code is 0.
- A path that is accepted leads to something below where the join starts. For a relative path that is the
  destination, and nothing but the destination and the directories above it changes then. A rooted path or one
  with a drive is accepted as well (its separators are dropped before the components are counted, `ced.cc:93`), and the join
  drops the destination for it (`ced.cc:108`): what such an entry makes is elsewhere. `FitLeadsInside` and
  `OnlyNamedPlacesChange` say so.
- Whatever is looked at, consumed and sought, in a file or across volumes, the bytes shown are those of
  the stream at its place, as long as nothing failed; the buffer grows only for a request that
  needs it; every call returns.
- A tar archive is read header by header where they are, in any mixture of reading, skipping and leaving
  entries half read, as long as its headers are true; a cut is only unnoticed between records, or
  in the last entry of a plain file.
- wintar archives every file it walks or the resolver still holds it; a link is
  archived behind its file. Exit code 0 says that all is archived, with the exceptions below.

### Findings

1. `fs.cc:68`: a rename that fails is ignored and `remove_all` deletes what was not
   moved. It needs no failing disk: an entry of the innermost directory with the
   name of the outermost (`d/x/x` beside another file) cannot be moved up
   (`FlattenLoss`).
2. `extractor.cc:59` and four more lines: `return 1` in a function that returns
   `bool` reports failures as success (`ExtractFailure`).
3. `extractor.cc:80`: hard-link targets are not put below the destination, so
   archives with hard links are not extracted (`ExtractLinks`).

The properties of the passing runs say where the code stops short of more,
without a run of its own. With several archives one for which no folder is free is
skipped and the exit code is 0, while for a single one it is an error
(`uncia.cc:60` and `uncia.cc:73`; `GivesUpWhenAllExist`). The time of a directory that
existed before its entry is lost to the files restored into it
(`archive_write_disk_windows.c:1651`; `OnlyReplacementsLoseTheirTime` leaves such
directories out). The fixup of a directory that was replaced by a file overwrites the
file's time (`archive_write_disk_windows.c:1960`), and
`OnlyReplacementsLoseTheirTime` says that nothing else does.

What the models of the lower layers found out of the ordinary is stated as an exception of the
property, at the place named:

- `ReadAhead` (the gaps of `ByteStream`): a file is skipped beyond its end without an error, although the
  comment at `archive_read.c:1528` says less is returned at the end; crossing the end of a
  volume by skipping loses the place; a failing skip after the first chunk counts as -1 byte
  (192); seeking to the last byte of a volume that is not the last fails (1652, 1667); seeking
  before the beginning from the end lands at the offset plus the size of the first volume; a
  seek that fails leaves windows and file pointer apart; a next volume that cannot be opened is
  reported as the end (1403); asking twice at the end shows first the rest and then nothing.
- `TarRead`: the guess whether a hard link of a ustar archive has data looks at "a valid ustar
  header immediately following" (1266), but the header of the link itself is not consumed
  yet, so that the size is never believed (`SizeObeyed`); skipping does not pass over stored holes, reading does
  (656); an unknown version of sparse files stays pending and makes every later
  entry a warning (864); the header that is one too many leaves the depth one higher for good,
  and its body is not skipped (763); behind a long link name its warning is lost, so that
  an entry without a file is reported as ok (1072); a directory by its trailing slash with a body leaves
  the body in the stream (570); a map of less than the data leaves the rest.
- `WintarWrite`: exit code 0 although a file that was held back has vanished (`write.c:560`) or
  a header was refused (`write.c:1000`); what links to it is then without data. The loop that copies data fails
  only below a warning (`write.c:805`): a block that the reader of another archive returns with a warning, as for a wrong
  checksum in a 7-Zip archive (`archive_read_support_format_7zip.c:914`), is dropped with all behind it, the rest is
  zeroes and the exit code 0 (`CopyStops`). An entry whose size the other archive does not tell is copied without its
  data (`write.c:723`). After a fatal error the disk reader stays so, and later arguments are not read.

## Fairness and liveness

`Extract` has weak fairness of `Next` and `Uncia` of `Step`, the steps of the
program: a sequential program that can go on does. Other processes have no
fairness; they may create folders, change files or not. In `ReadAhead`, `TarRead` and `WintarWrite` the fair
steps are those in which nothing new fails: a failure may always happen and ends most loops, and
fairness must not count on one. No call of a handle is ever fair, for the client may stop. `Termination` of
`Extract`, `Uncia` and `WintarWrite`, and `EveryCallReturns` of the two readers, are checked by
TLC. The archives are finite, and a read handle that returns an error ends the
loop, which is why `Extract` ends; `MaxTries` ends the search for a folder. The files that wintar walks are finite, and a
file that grows meanwhile is read to the size in its header. The
other modules are about safety only and assume no fairness.

## The proofs

Assumed are the assumptions named in the modules of the components, which TLC evaluates on every run.
`Flatten`, `Sanitize`, `Uncia`: `Root` is an inode and `None` neither an inode nor a folder, bounds are
naturals, `flattened_internal` looks at one directory and `Execute` at one candidate at least, dots are no names, the destination has a drive, paths are sequences of components
and command lines sequences of stems, every candidate is a folder. `ReadAhead`: blocks and
chunks are not empty, something is asked for, offsets are integers, and there is a volume,
each ending no earlier than the one before. `ArchiveRead`: the client's filter fits into the pipeline.
`TarRead`: a record, a body and a depth are not
nothing, members are members (`Member`), the first begins at 0 and each behind the padded body of the one before, and
the tape ends there or is cut off before; what the headers say may be anything.
`WriteDisk` and its clients: paths are sequences and with a path its beginnings are paths, the disk
is a tree before anything is extracted, no entry names its root, and
sizes are integers (a size that is not declared is -1). `Extract`: an archive is any
sequence of entries (`Entry`), whose paths are paths below `Dest`, which is not the root, or rooted paths of the disk. `WintarWrite`: a path
leads to one file, which has one link at least and a size, the arguments name such paths, and what an
archive (`@file`) contains is a file of its own, with one link. Nothing is
assumed about how many inodes, names, components, archives, folders, volumes, bytes, filters, entries, members,
pieces, blocks or failures there are, nor that candidates of different archives or paths of
different entries differ.

**FlattenProofs.** `TypeCorrect` proves the type invariant. The properties are not
inductive: that `Children(Root) = hoisted` at the end says nothing about the
states before. The invariant proved in `InvHolds` (`IInv`) adds the shape
of the tree at each stage. While walking, every directory passed
holds nothing but the next one, so everything is on the way or below `current`;
`depth1` is the one child of `d`, and once something has been moved its other
children are what was moved; an entry of `flat` is still in it and in `todo`, or it is in
`d`, or it is in `unmoved`. From it follow `HoistingIsComplete` (the
invariant `ContentIsHoisted`), `Idempotence` (`FlatteningIsIdempotent`) and
`DeletionIsConfined` (the action property `OnlyLeftoversAreDeleted`).
That flat is the right directory is a second invariant (`Deep`): until flat is known, every directory passed is a
wrapper and is in the table before what it holds. At the limit all that were counted are wrappers. `FlatIsFound` (`FlatIsTheDeepest`)
says of failures that only one of them makes it give up, that of `is_directory` at the beginning, when nothing was passed yet. It
needs one fact more, that everything which is not on the way is below `flat`: of the content that were
elsewhere, the one that comes first in the table would have its parent on the way, and what is on the way
holds only what is on it (`ContentIsInside`).

**UnciaProofs.** That a folder holds what came from one archive says too little of the
step that fills it. The invariant (`IInv`) adds what the probing establishes (`Fresh`):
when an archive is about to be extracted and its folder is not that of `-d`, uncia has
extracted nothing into that folder yet, and the folder does not exist unless another process
has created it since it was found free. The first half holds because
every folder uncia fills exists from then on (`TypeOK` says so), so no later archive finds it free; it survives
other processes, which create folders and extract nothing of ours. From it follow
`NothingIsShared` (`FoldersAreNotShared`) and `NewFoldersOnly` (the action
property `OnlyNewFoldersAreFilled`). `Probed` adds that all candidates before the present one were seen to
exist, which with folders that stay gives `GivingUpIsDeserved` (`GivesUpWhenAllExist`). `Filled` adds that a folder
found free exists after the extraction only when the extraction made it, from which `ZeroIsDeserved`
(`ZeroMeansFolderMade`) follows.

The last section is about `Sanitize` (`PathSpec`). The inductive invariant is that the count is how deep the
components lead from where the join starts (`Base`), as long as there is no verdict (`EntriesIsDepth`), with the
types and what each verdict means. A drive makes it inexact: its name is counted, and a `..` at the root of the drive
takes that back without leading anywhere, so the count may be one less than the depth. `FitIsInside` and `HarmfulIsElsewhere` are its
two consequences, for paths of any length.

**ReadAheadProofs.** The inductive invariant has three parts, each proved to be kept by every action.
`Shape` is what holds whatever has failed: types, that each counter is within the next
(`Counters`), that a consume reaches for the file only when both windows are empty, and
that a seek knows every volume in front of the one it is at (`Seeking`). That the client's
window ends where its block ends is the fact that makes `CanRollBack` safe, and
`WindowsStay` (`WindowsStayInTheirBuffers`) follows. `Windows` says that unless the place is lost the file
pointer is behind both windows (`InPlace`) and that copy, rest of the block and `end_of_file`
are pieces of one sequence (`Pieces`). That is a fact about sequences: joining, cutting and
dropping pieces of the stream are lemmas of their own (`BytesJoin` and those after it). Since `WindowsAreTheStream` says
nothing of the file pointer, a read would not be known to bring the right block without `InPlace`;
`WindowsAreRight` follows. `History` relates a call in progress to the state in which it began: what has been
consumed and what is left are what was asked for, a seek has not moved the
place yet, a place is lost only because something failed or the end of a volume was crossed. It is what the
refinement needs, since `ByteStream` says of a call what it returns for the place at its beginning, in a
single step, where the code has taken many. In `ReadsAreOneStream` (`ReadsOneStream`) the beginning of a call is
`Asked` of `ByteStream`, a round of a loop is a stutter or `IoFails`, and the round that
returns is the answer of `ByteStream` to that call. The safety of each promise is proved;
that an answer comes is `EveryCallReturns`, which TLC checks.

**ArchiveReadProofs.** That every filter is closed once when the handle is free needs to be known of the states
in between: `Counted` says that the filters are reached from the handle (`linked`) or all closed,
that the client's file is closed when and only when the first filter is, and, when there is no filter, that
only a failing `open` has closed the file. `Piped` says which states of the handle go with a pipeline
that is whole, and `Ended` that none of them is left after the end. Each call has a lemma of its own
(`OpenInv` to `FreeInv`), stated of the action and not of the client's call, so that `ExtractProofs` uses
the same lemmas for another client. `EachIsClosedOnce`, `PipelineIsThere`, `TheEndIsForGood` and `OkIsInPlace`
prove all four properties of the run.

**WriteDiskProofs.** Two layers. `Handled` is what holds whatever the client calls: the disk is a tree of well-formed
objects, an open file is one of the present entry and every block is one of its file's owner, in its place. It is
proved of `HeaderMakes` and the other lemmas about what a call may make of the disk
(`IsRestored`, `IsFinished`), for any number of entries, and gives `TypeCorrect`,
`TreeIsWellFormed`, `DataIsOwn` and the action property `LossesAreMeant`. The second layer is about sizes and times. Neither
`FinishedFilesAreWhole` nor `OnlyReplacementsLoseTheirTime` is inductive: the one says nothing of the open
file, the other nothing before close. `Traced` adds that everything on disk and in the fixups comes from an entry
that was given, that an entry has one file, and that the open file is not longer than its size; `Timed` adds, as
long as nothing has failed, that a file has its time or is about to be given it, and that the newest fixup of a directory
is that of the entry which made it: the list holds fixups of one path in order, and the last to be applied counts. The
invariant (`IInv`) was checked by TLC on the instance of `WriteDiskCalls` (1.6 million states) before it was
proved. All five properties of the run are theorems.

**ExtractProofs.** The composition. The lemmas about both handles are taken as they are, through
instances of their modules of proofs, with the entries of the archive for what a client calls. The invariant (`IInv`) says that each
handle is in order (`Reading`, `Writing`), with which states of the handles each call of `Extract` is reached
(`Phased`), that a file of entry i is where the header of i, or of a link, put it (`Placed`), and that the present
path and those of the fixups are where an entry that was read leads, or above (`Named`). The last is what makes
`RestIsUntouched` inductive: an entry is finished by the next header, and the fixups run at close, when
the path they act on was accepted long before. `ProtocolKept`, `DataIsInPlace`,
`RestIsUntouched` and `AllIsReleased` follow.

`AllIsExtracted` is `CompleteWhenNothingFails`, over a second invariant (`CInv`) that says, as long as nothing has failed, how far
the extraction is: every entry given to `header` is there with its size and all its blocks (`AllWhole`), but for the one that is
open, which has the blocks read so far (`Growing`) and gets its size from the next header or from the closer; no directory is
where a file has still to go (`Unblocked`), since directories are made only above entries; and the loop ends nowhere but at the end of
the archive (`Kept`). It was checked by TLC on the instance of `Extract` (0.8 million states) before it was proved. Of the two handles it
needs what their calls do when nothing fails (`HeaderSucceeds` of both, `CloseSucceeds`); that a new destination has nothing
below it is an induction over the lengths of paths, by a least counterexample (`NothingBelow`). The attempt
showed that the property, which held on the instance, was false in general: `write_data_block` returns a warning for a block beyond
the size of its header and for data of a directory, `copy_data` then gives up, and the rest of the archive is not extracted
though nothing has failed. `Extractable` now says that an entry has no more data than its header says.

**WintarWriteProofs.** `LinkifyKeeps` is about the resolver alone: what goes into `archive_entry_linkify` comes out of it
now or is held, once, and every entry that comes out is of the file that went in. It is proved of the five ways
in which an entry passes the resolver (`LinkifyCases`), for any table. The balance of `NoEntryIsForgotten` is
then kept by each step, but two facts are needed beside it (`Waiting`): what waits to be written is of the file the disk
reader is at, and while data is copied the last entry of the archive is the first that waits. The rest of the
invariant (`Table`) says what an entry held back looks like. `NothingIsForgotten` and `TypeCorrect` follow.

`ZeroIsArchived` is about the whole run and needs to be known at each step of it what is still to come. `Plan` says
that a path that was given has been read, or is still among the arguments or in the walk, unless `return_value` is set
(`Taken`); and what is empty at which stage (`Staged`). `Safe` says where the data of a file is that was read, as
long as nothing of it was given up or left out: an entry with all its data in the archive, an entry that waits with
its full size, or one held back (`Carried`). For this the size that waits must be what the disk reader has left and what is
copied already (`Room`). That the resolver makes a link only of what is a copy of something carried is `Becomes`, proved of
the five ways. The theorem holds for each of the four strategies.

`LinksShare` is `LinksShareOneCopy`, in three parts. `DataIsItsOwn` is in `IInv`. That every link has its file
(`LinksHaveAFile`) is `Links`: a link in the archive, or one that waits, has in tar's formats an entry with data of that
name before it, in the newer cpio an entry with data behind it, waiting or in the table; and the name in
the table is that of an entry already written or waiting (`FirstName`), or else the next link would lead
nowhere. It counts that of two entries that wait the first is the link. That the data is not repeated (`DataIsNotRepeated`) is
`Shared`, an account of each file: copies written, waiting and held back, times the links of the file, are no more
than the names read and those still to come (`Paid`). A name read pays in advance for all the links of its file when
it is the first, and one by one afterwards (`Pays`, again of the five ways); a file whose last link was read leaves the table, and with its
next name a new copy begins. What flushing removes from the table is no longer to come, so from there
on the account grants `nlink - 1` names instead, which is why the count is of `copies - 1`. The account is kept only while nothing
fails (`Careful`): without memory for the table a file is copied again.

**TarReadProofs.** A reader of tar has nothing but numbers to say where it is, so the proofs begin with sums of
lengths: what the first n are together grows with n, cutting a piece cuts the sum, a map that is read in
blocks is at each time the rest of the map from some place of some piece on (`IsRest`). A recursive
function is unfolded by a least counterexample, a set of naturals without a least element being empty
(`LeastOf`, `Everywhere`). Three layers of the invariant follow.

`TypeInv` is the type of the state. That the depth is bounded at all is the only hard part of it: a header too many is counted
and not given back, so `MaxDepth` is no bound. What bounds it is the tape: each such header lies behind the one before, and
there are only so many (`LevelsOK`). `TypesHold` follows. `DepthInv` is what `DepthGivenBack` (`DepthIsBalanced`) needs of a
call in progress: the depth is the headers that are open and the entries that had too many, on each way out.

`Track` is where the reader is. At a header (`Reads`) it is where a member begins, and the stack is all the
special headers in front of it. On the way back (`IsOfFile`) the headers of a file are divided into those that are still on the
stack and those that are done, each of these before any of those; what is known of name, size, map and place is what the headers
that are done make of it (`SizesAre`), so that at the end it is what the tape says (`Told`, `Data`). In the data
(`InTheData`) the place, what remains and the padding add up to the next member, and what is left
of the map is its rest from the place on. At the end there is nothing to be read (`EndsAt`). With each goes an
account (`ReadIn`): the entries are the files in front of the place, one by one, each whole and with its name, and each
special header has found its file or is still held. No property of the run is inductive without it: `EntriesAreTheFiles` says only that a header
is looked for where one begins, and nothing of what is left of the entry while its data is read, or of a size that an
outer header replaces on the way back.

`OnTrack => Track` was checked by TLC on the tapes of the run before it was proved. `NextHeaderIsFound`
(`HeadersAreReadWhereTheyBegin`), `FilesAreReported` (`EntriesAreTheFiles`, of which it and `TypeOK` are parts), `EndIsReal` (`EndIsTheEnd`),
`BlocksAreTheData` (`BlocksAreWhereTheMapSays`) and `WarningsHaveReasons` (`WarningsAreDeserved`) follow: all four
safety properties of the run. The attempt showed that two of them were false in general and held on the instance only for want of tapes. In archives that
follow one another a special header at the end of one names the first file of the next, since a record of zeroes
is passed over inside the group (`Between`). Maps in two headers are joined, and a size
given by a header around the one with a map replaces what reading that map has left (`Truthful` now excludes both);
a special header that lies about its body makes the reader go on in the middle of it (`Orderly`). And the header that is one too many may
be followed by the reading of a map, so that a warning is not given just behind it (`WarningsAreDeserved`). The tapes
of the run have such groups since.

### Only model-checked

- Liveness, which is beyond the prover: `Termination` of `Extract`, `Uncia` and `WintarWrite`, and
  `EveryCallReturns` of `ReadAhead` and `TarRead`.
- `FixupsAreSorted`: `SortDirList` is a recursive algorithm on lists, written with recursive operators, about which induction
  over data would be needed.

## Not modelled

- Conversions: encoding detection, names to UTF-16, stripping of extensions
  (`PathStripExtension`), long path prefixes. Archives are given by their stems.
- In `WriteDisk`: symbolic links and the check for them, ACLs, modes, flags,
  sparse files, hard links that carry data, options that uncia does not set.
  Every entry is taken to have a modification time, and blocks begin no later
  than the declared size.
- In `Sanitize` and `Extract`: names relative to a drive (`C:x`), shares and device names. `Extract` takes the verdict on a path
  as part of the entry, and a rooted path as a place on the same disk.
- In `ArchiveRead`: failing allocations, passphrases, sets of several files, the buffers
  between filters, `archive_read_data`.
- In `ReadAhead`: standard input, tapes, the alignment of blocks; consuming leads at most `MaxBeyond` bytes beyond
  the end; the chunk of a skip, 1 GiB, is `SkipLimit`. The filters between the file and
  the format, each of which has windows of its own.
- In `TarRead`: ACLs, Mac metadata (off by default), conversions of names, attributes that
  make a header fatal, the extension headers of old GNU sparse files, failing allocations.
- In `WintarWrite`: the walk of the tree and the overlapped reads of the disk reader
  (`archive_read_disk_windows.c:826`), substitutions, exclusions, the hash table of the resolver, hard links among the
  entries of an archive that is copied, extracting, listing, appending and updating.
- In `Uncia`: errors of `exists`, which count as "does not exist" in the code;
  parsing of the command line.
- `find_unique_child_dir`, `MakeFlattened(dir, dest, ec)`, `MakeDir`,
  `PathRemoveExtension` in `fs.cc`, which have no caller.
- Formats other than tar, filters, codecs, bela (reasons in `PROJECT.json`). They are nearly all of the
  repository's lines, vendored, and arithmetic on bytes.

## Plan

The order is by what a wrong result costs: first what may delete or misplace
files, then what hides failures, then the algorithms below.

Done: `Flatten` and its proofs; `WriteDisk`, `SortDirList`; `ArchiveRead`;
`Extract` over both; `Sanitize` and its proofs (in `UnciaProofs`); `Uncia` and its proofs; `ByteStream`, `ReadAhead`,
the refinement and the proofs of both; `LinkResolver`, `WintarWrite`; `TarRead`; the proofs of
`ArchiveRead`, `WriteDisk`, `Extract`, `WintarWrite` and `TarRead`.

To be done next, in this order:

1. `Unpack`: the abstract promise of an extraction (a map from entries to
   files that only grows), which `Extract` is shown to implement as one more property
   of its run.
2. `archive_read_data` with sparse blocks (821-903) against a reference
   expansion, and the arithmetic of `write_data_block` with machine integers.
3. The ring of overlapped reads of the disk reader; `ParseArgv`.
