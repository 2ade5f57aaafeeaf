------------------------------ MODULE TarRead ------------------------------
(***************************************************************************)
(* lib/libarchive/archive_read_support_format_tar.c below the read handle  *)
(* of archive_read.c: how the headers and the data of a tar archive are    *)
(* found in a stream that nothing but its bytes divides.  The stream is    *)
(* read as ByteStream promises.                                            *)
(*                                                                         *)
(* A tape is a sequence of members, each a header of Record bytes and a    *)
(* body that is padded to records.  What a header says of its body (size,  *)
(* map) and what the body is (body) are apart, since not every writer      *)
(* agrees.  Data never looks like a header.  A call is an action that      *)
(* begins it and one for each header, return or round of its loop.         *)
(* Mac metadata, ACLs, conversions and failing allocations are left out.   *)
(***************************************************************************)
EXTENDS Integers, Sequences, SequencesExt, FiniteSets

CONSTANTS
    Tapes,      \* the tapes: the members, where they begin, how many bytes there are
    Record,     \* 512
    BodyLimit,  \* the largest body of a special header, 1 MiB
    MaxDepth,   \* how many headers may belong together, 32
    MaxFaults

ASSUME NumbersAssumption ==
    {Record, BodyLimit, MaxDepth} \subseteq Nat \ {0} /\ MaxFaults \in Nat

Least(a, b) == IF a < b THEN a ELSE b
First(set) == CHOOSE i \in set : \A j \in set : i <= j
Padded(n) == ((n + Record - 1) \div Record) * Record
PaddingOf(n) == Padded(n) - n

FileFlags == {"reg", "slash", "bare", "link"}
StringFlags == {"longname", "longlink", "pax", "global"}
SpecialFlags == StringFlags \cup {"volume"}

\* A piece of a sparse file.
Piece(offset, length, hole) == [offset |-> offset, remaining |-> length, hole |-> hole]
Map == Seq([offset : Nat, remaining : Nat, hole : BOOLEAN])

\* The attributes are those of a pax header; a resize of -1 is none.
Member == [
    flag : FileFlags \cup SpecialFlags \cup {"null", "damaged"}, size : Nat, body : Nat, gnu : BOOLEAN,
    malformed : BOOLEAN, resize : Nat \cup {-1}, version : {"no", "1.0", "other"},
    map : Map, mapsize : Nat, inner : Map]

ASSUME TapesAssumption ==
    \A t \in Tapes :
        /\ t.members \in Seq(Member)
        /\ DOMAIN t.starts = 1 .. Len(t.members) + 1 /\ t.starts[1] = 0
        /\ \A i \in DOMAIN t.members : t.starts[i + 1] = t.starts[i] + Record + Padded(t.members[i].body)
        /\ t.size \in 0 .. t.starts[Len(t.members) + 1]

VARIABLES
    tape,
    on_disk,        \* the stream is a file, which can be moved beyond its end
    concatenated,   \* read_concatenated_archives
    pos,            \* the place in the stream
    dead,           \* reading it has failed
    pax,            \* archive_format is pax interchange
    depth,          \* header_recursion_depth
    specials,       \* the headers that are being read, one inside the other
    remaining,      \* entry_bytes_remaining
    padding,        \* entry_padding
    unconsumed,     \* entry_bytes_unconsumed
    sparse_list,
    pending,        \* the sparse version that is still to be looked at: sparse_gnu_pending
    state,          \* archive.state of the handle
    pc,             \* where the call is
    res,            \* what the header read last has returned
    reply,          \* the last call, what it returned, and the block that came with it
    faults,         \* failures so far
    entry,          \* history: the file of the entry being read, and the special header that names it
    entries,        \* history: the entries reported
    astray,         \* history: a skip has left holes unread
    clean           \* history: no call has failed, none wants to be made again

tar == <<pax, depth, specials, remaining, padding, unconsumed, sparse_list, pending>>
media == <<tape, on_disk, concatenated>>
vars == <<media, pos, dead, tar, state, pc, res, reply, faults, entry, entries, astray, clean>>

Members == tape.members
Size == tape.size

\* Where member i begins, and where the tape would end.
Start(i) == tape.starts[i]
Here == {i \in DOMAIN Members : Start(i) = pos}
Flag(i) == Members[i].flag

Files == {i \in DOMAIN Members : Flag(i) \in FileFlags}

\* What the first n of a sequence of lengths are together.
SumUpTo(lengths, n) ==
    LET sum[k \in 0 .. Len(lengths)] == IF k = 0 THEN 0 ELSE sum[k - 1] + lengths[k]
    IN  sum[n]

Lengths(pieces) == [k \in DOMAIN pieces |-> pieces[k].remaining]
SumOf(pieces) == SumUpTo(Lengths(pieces), Len(pieces))

\* A hole is not stored.
Stored(pieces) == [k \in DOMAIN pieces |-> IF pieces[k].hole THEN 0 ELSE pieces[k].remaining]

NoEntry == [file |-> 0, by |-> 0]
NoBlock == [at |-> 0, offset |-> 0, size |-> 0]

Init ==
    /\ tape \in Tapes
    /\ on_disk \in BOOLEAN /\ concatenated \in BOOLEAN
    /\ pos = 0 /\ dead = FALSE
    /\ pax = FALSE /\ depth = 0 /\ specials = <<>>
    /\ remaining = 0 /\ padding = 0 /\ unconsumed = 0 /\ sparse_list = <<>> /\ pending = "no"
    /\ state = "header" /\ pc = "idle" /\ res = "ok"
    /\ reply = [call |-> "open", ret |-> "ok", block |-> NoBlock]
    /\ faults = 0
    /\ entry = NoEntry /\ entries = <<>> /\ astray = FALSE /\ clean = TRUE
-----------------------------------------------------------------------------
(* The stream. *)

\* A look ahead at n bytes, which are there, or are not all there, or cannot be read.
Shows(n) == ~dead /\ pos + n <= Size /\ UNCHANGED <<dead, faults>>
TooShort(n) == ~dead /\ pos + n > Size /\ UNCHANGED <<dead, faults>>
Breaks ==
    /\ dead' = TRUE
    /\ IF dead THEN UNCHANGED faults ELSE faults < MaxFaults /\ faults' = faults + 1

\* Consuming n bytes from p on, which may be beyond the end when the stream is a file.
Passes(p, n) ==
    /\ n = 0 \/ (~dead /\ (on_disk \/ p + n <= Size))
    /\ pos' = p + n
    /\ UNCHANGED <<dead, faults>>
CannotPass(p, n) ==
    /\ n > 0
    /\ pos' = p
    /\ Breaks \/ (~dead /\ ~on_disk /\ p + n > Size /\ UNCHANGED <<dead, faults>>)
-----------------------------------------------------------------------------
(* Calls of the handle. *)

Returns(call, ret, block) ==
    /\ pc' = "idle"
    /\ reply' = [call |-> call, ret |-> ret, block |-> block]
    /\ clean' = (clean /\ ret \in {"ok", "warn", "eof"})

\* A call in a state that it is not meant for.
Misused(call) ==
    /\ pc = "idle"
    /\ state' = "fatal"
    /\ Returns(call, "fatal", NoBlock)
    /\ UNCHANGED <<media, pos, dead, tar, res, faults, entry, entries, astray>>

\* archive_read_format_tar_skip: what is passed over.
Skipped == Least(SumUpTo(Stored(sparse_list), Len(sparse_list)), remaining) + padding + unconsumed

Skip ==
    /\ Passes(pos, Skipped)
    /\ remaining' = 0 /\ padding' = 0 /\ unconsumed' = 0 /\ sparse_list' = <<>>
    /\ astray' = (astray \/ \E p \in ToSet(sparse_list) : p.hole /\ p.remaining > 0)

DataSkip ==
    /\ pc = "idle" /\ state = "data"
    /\ state' = "header"
    /\ \/ Skip /\ Returns("skip", "ok", NoBlock)
       \/ /\ CannotPass(pos, Skipped)
          /\ Returns("skip", "fatal", NoBlock)
          /\ UNCHANGED <<remaining, padding, unconsumed, sparse_list, astray>>
    /\ UNCHANGED <<media, pax, depth, specials, pending, res, entry, entries>>

\* _archive_read_next_header2, after what is left of the entry before.
NextHeader ==
    /\ pc = "idle" /\ state \in {"header", "data"}
    /\ pc' = "header" /\ state' = "header"
    /\ IF state = "data"
       THEN Skip
       ELSE sparse_list' = <<>> /\ UNCHANGED <<pos, dead, faults, remaining, padding, unconsumed, astray>>
    /\ entry' = NoEntry
    /\ UNCHANGED <<media, pax, depth, specials, pending, res, reply, entries, clean>>

NextHeaderCannotSkip ==
    /\ pc = "idle" /\ state = "data"
    /\ CannotPass(pos, Skipped)
    /\ state' = "fatal"
    /\ Returns("header", "fatal", NoBlock)
    /\ UNCHANGED <<media, tar, res, entry, entries, astray>>

NextHeaderMisused == state \notin {"header", "data"} /\ Misused("header")
DataSkipMisused == state # "data" /\ Misused("skip")
-----------------------------------------------------------------------------
(* tar_read_header: the headers that belong to an entry, one inside the other. *)

\* The header being read returns r to the one around it.
Gives(r) == pc' = "return" /\ res' = r
Reading == pc = "header"
Kept == UNCHANGED <<media, unconsumed, sparse_list, pending, state, reply, entries, astray, clean>>
InHeader == Kept /\ UNCHANGED <<remaining, padding, entry>>

HeaderBreaks == Reading /\ Breaks /\ Gives("fatal") /\ InHeader /\ UNCHANGED <<pos, pax, depth, specials>>

\* Without the records of zeroes, too, a tape ends where a record ends.
HeaderAtEnd ==
    /\ Reading
    /\ TooShort(Record)
    /\ Gives(IF pos >= Size THEN "eof" ELSE "fatal")
    /\ InHeader /\ UNCHANGED <<pos, pax, depth, specials>>

\* Where the end of a tape leaves the place: behind a second record of zeroes if there is one.
AfterNull == {pos + Record} \cup
    {pos + 2 * Record : i \in {j \in Here : j < Len(Members) /\ Flag(j + 1) = "null" /\ pos + 2 * Record <= Size}}

NullRecord ==
    /\ Reading
    /\ Shows(Record)
    /\ \E i \in Here : Flag(i) = "null"
    /\ IF concatenated
       THEN pos' = pos + Record /\ UNCHANGED <<pc, res>>
       ELSE pos' \in AfterNull /\ Gives("eof")
    /\ InHeader /\ UNCHANGED <<pax, depth, specials>>

\* checksum: the record is no header.
Damaged ==
    /\ Reading
    /\ Shows(Record)
    /\ \A i \in Here : Flag(i) = "damaged"
    /\ pos' = pos + Record
    /\ Gives("retry")
    /\ InHeader /\ UNCHANGED <<pax, depth, specials>>

\* A header that is one, at the place.
Header(i) ==
    /\ Reading
    /\ Shows(Record)
    /\ i \in Here /\ Flag(i) \notin {"null", "damaged"}

\* Mutant: one header too few.
TooDeepEarly == depth >= MaxDepth - 1

TooDeep == depth >= MaxDepth

TooManyHeaders ==
    /\ \E i \in Here : Header(i)
    /\ TooDeep
    /\ depth' = depth + 1
    /\ pos' = pos + Record
    /\ Gives("warn")
    /\ InHeader /\ UNCHANGED <<pax, specials>>

\* Header i is read inside those before it.
Enters(i) == ~TooDeep /\ depth' = depth + 1 /\ specials' = Append(specials, i)

\* A header whose body is for the entry that follows: read_body_to_string.
ReadSpecial ==
    \E i \in Here :
        /\ Header(i) /\ Flag(i) \in StringFlags
        /\ Enters(i)
        /\ pax' = (pax \/ Flag(i) \in {"pax", "global"})
        /\ IF Members[i].size > BodyLimit \/ pos + Record + Padded(Members[i].size) > Size
           THEN pos' = pos + Record /\ Gives("fatal")
           ELSE pos' = pos + Record + Padded(Members[i].size) /\ UNCHANGED <<pc, res>>
        /\ InHeader

SpecialBreaks ==
    \E i \in Here :
        /\ Reading /\ ~dead /\ pos + Record <= Size
        /\ Flag(i) \in StringFlags
        /\ Enters(i)
        /\ pax' = (pax \/ Flag(i) \in {"pax", "global"})
        /\ Breaks
        /\ pos' = pos + Record
        /\ Gives("fatal")
        /\ InHeader

ReadVolume ==
    \E i \in Here :
        /\ Header(i) /\ Flag(i) = "volume"
        /\ Enters(i)
        /\ pos' = pos + Record
        /\ InHeader /\ UNCHANGED <<pax, pc, res>>

\* header_common: the size counts, except for what has no data by its nature.  For a hard
\* link it does in pax archives; in others the header itself is taken for one that follows.
SizeObeyed(i) == Flag(i) \in {"reg", "slash"} \/ (Flag(i) = "link" /\ pax /\ ~Members[i].gnu)

ReadFile ==
    \E i \in Here :
        /\ Header(i) /\ i \in Files
        /\ Enters(i)
        /\ pos' = pos + Record
        /\ pax' = (pax /\ ~Members[i].gnu)
        /\ remaining' = IF SizeObeyed(i) THEN Members[i].size ELSE 0
        /\ padding' = PaddingOf(remaining')
        /\ Gives("ok")
        /\ entry' = [file |-> i, by |-> 0]
        /\ Kept
-----------------------------------------------------------------------------
(* The way back: tar_read_header behind the switch, for the innermost header. *)

Inner == Last(specials)
Worked == res \in {"ok", "warn"}

\* header_pax_extensions applies the attributes now: a size, a map, a version.
Applies == pc = "return" /\ specials # <<>> /\ Flag(Inner) = "pax" /\ Worked
Attributes == Members[Inner]

\* What the header makes of what the one inside it returned.
Err ==
    CASE Flag(Inner) = "longlink" /\ Worked -> "ok"
      [] Applies /\ Attributes.malformed -> "warn"
      [] OTHER -> res

NowRemaining == IF Applies /\ Attributes.resize >= 0 THEN Attributes.resize ELSE remaining
NowPending == IF Applies /\ Attributes.version # "no" THEN Attributes.version ELSE pending
NowSparse == IF Applies THEN sparse_list \o Attributes.map ELSE sparse_list

Leaves ==
    /\ pc = "return" /\ specials # <<>>
    /\ specials' = Front(specials)
    /\ UNCHANGED <<media, pax, unconsumed, state, reply, entries, astray, clean>>

Names(i) == Flag(i) = "longname" \/ (Flag(i) = "pax" /\ ~Members[i].malformed)

\* Mutant: the special header next to the file has the last word.
NamedFirst == IF Names(Inner) /\ Worked /\ entry.by = 0 THEN Inner ELSE entry.by

\* L and x name the entry, and what is around them has the last word.  Attributes that are
\* malformed are left before the name is set.
Named == IF Names(Inner) /\ Worked THEN Inner ELSE entry.by

Shallower == depth - 1

\* Everything but a version that is not known is dealt with.
StillPending(v) == IF v = "other" THEN v ELSE "no"

\* The header returns to the one around it.
LevelReturns ==
    /\ Leaves
    /\ Worked /\ (NowPending # "1.0")
    /\ depth' = Shallower
    /\ remaining' = NowRemaining
    /\ padding' = IF Applies THEN PaddingOf(NowRemaining) ELSE padding
    /\ sparse_list' = NowSparse
    /\ pending' = StillPending(NowPending)
    /\ Gives(IF NowPending = "other" THEN "warn" ELSE Err)
    /\ entry' = [entry EXCEPT !.by = Named]
    /\ UNCHANGED <<pos, dead, faults>>

\* gnu_sparse_10_read: the map is at the front of the data, padded to a record.
MapLength == Padded(Attributes.mapsize)
ReadMap ==
    /\ Leaves
    /\ Worked /\ NowPending = "1.0"
    /\ depth' = Shallower
    /\ pending' = "no"
    /\ entry' = [entry EXCEPT !.by = Named]
    /\ padding' = PaddingOf(NowRemaining)
    /\ LET p == pos + Attributes.mapsize
           rest == MapLength - Attributes.mapsize
       IN  IF NowRemaining < MapLength \/ dead \/ p > Size \/ (~on_disk /\ p + rest > Size)
           THEN /\ Gives("fatal")
                /\ remaining' = NowRemaining
                /\ sparse_list' = <<>>
                /\ UNCHANGED <<pos, dead, faults>>
           ELSE /\ sparse_list' = Attributes.inner
                /\ \/ /\ Passes(p, rest)
                      /\ remaining' = NowRemaining - MapLength
                      /\ Gives(Err)
                   \/ /\ Breaks
                      /\ pos' = pos
                      /\ remaining' = NowRemaining
                      /\ Gives("fatal")

\* Mutant: a header that is missing is as good as the end.
EofAnywhere == Flag(Inner) \in SpecialFlags

\* The end of the tape is the end of the archive behind a volume header or a global one.
EofAllowed == Flag(Inner) \in {"global", "volume"}

\* Neither ok nor a warning: it is fatal, unless it is an end that may come here.  A fatal
\* header leaves the depth as it is, and the end behind a global one.
LevelFails ==
    /\ Leaves
    /\ ~Worked
    /\ Gives(IF res = "eof" /\ EofAllowed THEN "eof" ELSE "fatal")
    /\ depth' = IF res = "fatal" \/ (res = "eof" /\ Flag(Inner) = "global") THEN depth ELSE Shallower
    /\ UNCHANGED <<pos, dead, faults, remaining, padding, sparse_list, pending, entry>>

StateAfter(r) == CASE r \in {"ok", "warn"} -> "data" [] r = "retry" -> "header" [] OTHER -> r

\* archive_read_format_tar_read_header, behind tar_read_header.  A file that is not sparse
\* is sparse with one piece.  A name that ends with a slash is a directory.
HeaderReturns ==
    /\ pc = "return" /\ specials = <<>>
    /\ LET slash == res = "ok" /\ entry.file \in Files /\ Flag(entry.file) = "slash"
       IN  /\ sparse_list' = IF sparse_list = <<>> THEN <<Piece(0, remaining, FALSE)>> ELSE sparse_list
           /\ remaining' = IF slash THEN 0 ELSE remaining
           /\ padding' = IF slash THEN 0 ELSE padding
    /\ entries' = IF Worked THEN Append(entries, entry) ELSE entries
    /\ state' = StateAfter(res)
    /\ Returns("header", res, NoBlock)
    /\ UNCHANGED <<media, pos, dead, pax, depth, specials, unconsumed, pending, res, faults, entry, astray>>
-----------------------------------------------------------------------------
(* archive_read_format_tar_read_data. *)

ReadData ==
    /\ pc = "idle" /\ state = "data"
    /\ pc' = "data"
    /\ UNCHANGED <<media, pos, dead, tar, state, res, reply, faults, entry, entries, astray, clean>>

ReadDataMisused == state # "data" /\ Misused("data")

\* The pieces that are not exhausted, and the place behind the last block.
Unexhausted(pieces) ==
    LET left == {k \in DOMAIN pieces : pieces[k].remaining > 0}
    IN  IF left = {} THEN <<>> ELSE SubSeq(pieces, First(left), Len(pieces))
Pieces == Unexhausted(sparse_list)
Place == pos + unconsumed

InData == pc = "data" /\ UNCHANGED <<media, pax, depth, specials, pending, state, res, entry, entries, astray>>
AtEnd == Pieces = <<>> \/ remaining = 0

DataEnds ==
    /\ InData /\ AtEnd
    /\ Passes(Place, padding)
    /\ padding' = 0
    /\ Returns("data", "eof", NoBlock)
    /\ sparse_list' = Pieces /\ unconsumed' = 0
    /\ UNCHANGED remaining

DataFails ==
    /\ InData
    /\ IF AtEnd THEN CannotPass(Place, padding)
       ELSE /\ pos' = Place
            /\ Breaks \/ (~dead /\ Place >= Size /\ UNCHANGED <<dead, faults>>)
    /\ Returns("data", "fatal", NoBlock)
    /\ sparse_list' = Pieces /\ unconsumed' = 0
    /\ UNCHANGED <<remaining, padding>>

\* Mutant: takes what is there of the entry, whatever the piece.
NotBeyondTheEntry(n) == Least(n, remaining)

\* Mutant: as if a hole were not stored.
HolesAreEmpty(n) == IF Head(Pieces).hole THEN 0 ELSE Least(Least(n, remaining), Head(Pieces).remaining)

\* How much of n bytes belongs to the piece.
OfPiece(n) == Least(Least(n, remaining), Head(Pieces).remaining)

\* A block, or what stands for a hole, which is passed over.
DataBlock ==
    /\ InData /\ ~AtEnd
    /\ ~dead
    /\ \E shown \in 1 .. Size - Place :
        LET n == OfPiece(shown)
            piece == Head(Pieces)
        IN  /\ sparse_list' = <<[piece EXCEPT !.offset = @ + n, !.remaining = @ - n]>> \o Tail(Pieces)
            /\ remaining' = remaining - n
            /\ unconsumed' = n
            /\ IF piece.hole
               THEN UNCHANGED <<pc, reply, clean>>
               ELSE Returns("data", "ok", [at |-> Place, offset |-> piece.offset, size |-> n])
    /\ pos' = Place
    /\ UNCHANGED <<dead, faults, padding>>
-----------------------------------------------------------------------------
Calls == NextHeader \/ NextHeaderCannotSkip \/ NextHeaderMisused \/ DataSkip \/ DataSkipMisused \/ ReadData \/ ReadDataMisused

Step ==
    \/ HeaderBreaks \/ HeaderAtEnd \/ NullRecord \/ Damaged \/ TooManyHeaders
    \/ ReadSpecial \/ SpecialBreaks \/ ReadVolume \/ ReadFile
    \/ LevelReturns \/ ReadMap \/ LevelFails \/ HeaderReturns
    \/ DataEnds \/ DataFails \/ DataBlock

Next == Calls \/ Step

\* A call runs on, and does not wait for a failure to end it.
Spec == Init /\ [][Next]_vars /\ WF_vars(Step /\ faults' = faults)
-----------------------------------------------------------------------------
(* Properties.  What the tape is, without reading it. *)

\* The special headers in front of file i, with which it makes a group.  Behind a record of
\* zeroes the group goes on when there are archives to follow.
Between == SpecialFlags \cup (IF concatenated THEN {"null"} ELSE {})
Specials(i) == {j \in 1 .. i - 1 : Flag(j) \in SpecialFlags /\ \A k \in j .. i - 1 : Flag(k) \in Between}

\* The header that names file i, 0 when the file does.
Namers(i) == {j \in Specials(i) : Names(j)}
Namer(i) == IF Namers(i) = {} THEN 0 ELSE First(Namers(i))

\* File i belongs to a pax archive: an attribute came, and no GNU header since.
InPax(i) == \E j \in 1 .. i - 1 :
    /\ Flag(j) \in {"pax", "global"}
    /\ \A k \in j .. i - 1 : ~(k \in Files /\ Members[k].gnu)

\* The attributes for file i: sizes, maps, and what cannot be read.
Attributed(i) == {j \in Specials(i) : Flag(j) = "pax"}
Resizing(i) == {j \in Attributed(i) : Members[j].resize >= 0}
Mapping(i) == {j \in Attributed(i) : Members[j].version = "1.0" \/ Members[j].map # <<>>}
Malformed(i) == {j \in Attributed(i) : Members[j].malformed}

\* What the headers say of the size of the body of file i.
ToldByFile(i) ==
    IF Flag(i) \in {"reg", "slash"} \/ (Flag(i) = "link" /\ InPax(i) /\ ~Members[i].gnu) THEN Members[i].size ELSE 0
Told(i) == IF Resizing(i) # {} THEN Members[First(Resizing(i))].resize ELSE ToldByFile(i)

\* Where the data of file i begins, and its pieces.
DataOf(i, m) == IF m.version = "1.0"
                THEN [at |-> Start(i) + Record + Padded(m.mapsize), pieces |-> m.inner]
                ELSE [at |-> Start(i) + Record, pieces |-> m.map]
Data(i) == IF Mapping(i) = {}
           THEN [at |-> Start(i) + Record, pieces |-> <<Piece(0, Members[i].body, FALSE)>>]
           ELSE DataOf(i, Members[First(Mapping(i))])
BodyEnd(i) == Start(i) + Record + Members[i].body

\* What is said of file i is true: its size, that a directory has no data, and a map of all of it,
\* of which there is one; when it is in front of the data, no header around it gives a size.
Truthful(i) ==
    /\ Told(i) = Members[i].body
    /\ Flag(i) = "slash" => Members[i].body = 0
    /\ \A j, k \in Mapping(i) : j = k
    /\ \A j \in Mapping(i), k \in Resizing(i) : Members[j].version = "1.0" => j <= k
    /\ Data(i).at + SumOf(Data(i).pieces) >= BodyEnd(i)

\* What the special headers say of their own bodies is true, and a record of zeroes has none.
Orderly == \A i \in DOMAIN Members :
    /\ Flag(i) \in StringFlags => Members[i].body = Members[i].size
    /\ Flag(i) \in {"volume", "null"} => Members[i].body = 0

OnTrack == clean /\ ~astray /\ Orderly /\ \A e \in ToSet(entries) : e.file > 0 /\ Truthful(e.file)
-----------------------------------------------------------------------------
Results == {"ok", "warn", "retry", "eof", "fatal"}

TypeOK ==
    /\ {on_disk, concatenated} \subseteq BOOLEAN
    /\ pos \in Nat /\ dead \in BOOLEAN /\ pax \in BOOLEAN
    /\ depth \in 0 .. MaxDepth + Len(Members) /\ specials \in Seq(DOMAIN Members)
    /\ remaining \in Nat /\ padding \in 0 .. Record - 1 /\ unconsumed \in Nat
    /\ sparse_list \in Map
    /\ pending \in {"no", "other"}
    /\ state \in {"header", "data", "eof", "fatal"} /\ pc \in {"idle", "header", "return", "data"}
    /\ res \in Results /\ reply.ret \in Results /\ faults \in 0 .. MaxFaults
    /\ {entry.file, entry.by} \subseteq 0 .. Len(Members)
    /\ astray \in BOOLEAN /\ clean \in BOOLEAN

\* However much of an entry has been read, and in whatever blocks, the next header is looked
\* for where there is one, or behind the end of the tape.
HeadersAreReadWhereTheyBegin ==
    pc = "header" /\ OnTrack => pos >= Size \/ \E i \in DOMAIN Members : Start(i) = pos

\* Headers are read where they begin, and so the entries are the files of the tape in their
\* order, each with the name that the outermost of its special headers gives it: "Read and
\* parse "real" header, then override name."
EntriesAreTheFiles ==
    /\ TypeOK
    /\ HeadersAreReadWhereTheyBegin
    /\ OnTrack =>
        /\ \A k \in DOMAIN entries :
            /\ entries[k].by = Namer(entries[k].file)
            /\ Cardinality({i \in Files : i < entries[k].file}) = k - 1

\* The end is reported when there is nothing left in front of the record of zeroes, or on a tape
\* of several archives nothing at all, and every special header has found its file: "EOF when
\* recursively reading a header is bad."  Only in a file can the last entry be cut off unnoticed.
EndIsTheEnd ==
    state = "eof" /\ OnTrack =>
        /\ \A i \in Files :
            \/ Start(i) >= Size
            \/ ~concatenated /\ \E j \in 1 .. i - 1 : Flag(j) = "null"
            \/ \E k \in DOMAIN entries : entries[k].file = i
        /\ \A j \in DOMAIN Members :
            Flag(j) \in {"longname", "longlink", "pax"} /\ Start(j) < Size =>
                \/ ~concatenated /\ \E i \in 1 .. j - 1 : Flag(i) = "null"
                \/ \E k \in DOMAIN entries : j \in Specials(entries[k].file)
        /\ \A k \in DOMAIN entries :
            (on_disk /\ k = Len(entries)) \/ Start(entries[k].file + 1) <= Size

\* A block is a part of one piece of the entry's own data, and comes with the offset
\* that the map has for it.
BlocksAreWhereTheMapSays ==
    OnTrack /\ reply.call = "data" /\ reply.ret = "ok" =>
        LET block == reply.block
            file == Last(entries).file
            data == Data(file)
        IN  /\ block.at + block.size <= BodyEnd(file)
            /\ \E k \in DOMAIN data.pieces :
                LET p == data.pieces[k]
                    before == block.offset - p.offset
                IN  /\ ~p.hole /\ before >= 0 /\ before + block.size <= p.remaining
                    /\ block.at = data.at + SumUpTo(Lengths(data.pieces), k - 1) + before

\* Between the calls no header is being read, but for one of every entry that had too many.
DepthIsBalanced ==
    pc = "idle" /\ state \in {"header", "data"} =>
        depth = Cardinality({k \in DOMAIN entries : entries[k].file = 0})

Warned ==
    /\ clean /\ ~astray /\ Orderly
    /\ pc = "idle" /\ reply.call = "header" /\ reply.ret = "warn"
    /\ \A k \in 1 .. Len(entries) - 1 : entries[k].file > 0 /\ Truthful(entries[k].file)

\* The depth of headers is given back on every way out of reading them, so that no later entry
\* has too many: a header comes with a warning only for attributes that are malformed, for a
\* version of sparse files that is not known (here or in front of it) or for more headers
\* than belong together.
WarningsAreDeserved ==
    /\ DepthIsBalanced
    /\ Warned =>
        LET file == Last(entries).file
        IN  IF file > 0
            THEN \/ Malformed(file) # {}
                 \/ \E j \in 1 .. file : Members[j].version = "other"
            ELSE \E i \in DOMAIN Members :
                     /\ Start(i) + Record <= pos /\ Cardinality(Specials(i)) >= MaxDepth
                     /\ Cardinality({j \in Files : j < i}) = Len(entries) - 1

\* Every call comes to an end, on any tape: the loops over headers, pieces and holes.
EveryCallReturns == pc # "idle" ~> pc = "idle"
=============================================================================
