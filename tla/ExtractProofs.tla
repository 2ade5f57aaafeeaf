---------------------------- MODULE ExtractProofs ---------------------------
(***************************************************************************)
(* Theorems about Extract, for any archive, any destination, any disk and  *)
(* any failures of either handle.  What each handle does in a call is      *)
(* known from the proofs about them: R are those about ArchiveRead, for a  *)
(* client that has opened its handle when Extract has, and W those about   *)
(* WriteDisk, whose lemmas on calls are about any client.                  *)
(***************************************************************************)
EXTENDS Extract, SequenceTheorems, TLAPS

\* The handle that reads has been opened.
Opening == pc \notin {"new", "open"} /\ (pc = "done" => ret)

R == INSTANCE ArchiveReadProofs WITH Archives <- Seq(Nat), call <- "new", over <- FALSE, opened <- Opening

W == INSTANCE WriteDiskProofs WITH EntryPaths <- {}, Targets <- {}, Disks <- {}, Sizes <- {}, Offsets <- {},
                                   MaxEntries <- 0, given <- <<>>, closed <- FALSE

\* The blocks that Extract writes.
Blocks == ((1 .. Len(contents)) \X Nat) \cup {Zero}

\* Every file that an entry owns lies where that entry goes, or a hard link.
Placed(d) ==
    \A p \in Paths : d[p].kind = "file" /\ d[p].owner > 0 =>
        \E i \in DOMAIN contents : p = Place(contents[i]) /\ (i = d[p].owner \/ contents[i].type = "link")

\* The handle that reads, and what it reads.
Reading ==
    /\ R!IInv
    /\ blocks = [i \in DOMAIN contents |-> contents[i].blocks]

\* The handle that writes, and what it has written and has still to touch.
Writing ==
    /\ W!HandleOK(Len(contents), Blocks)
    /\ W!OwnData(disk)
    /\ Placed(disk)
    /\ Named(cur.path) \/ (cur.path = <<>> /\ state # "data")
    /\ \A i \in 1 .. Len(fixups) : Named(fixups[i].path)

\* Which states of the handles go with which call that comes next.
Phased ==
    /\ contents \in Archives
    /\ pc \in {"new", "open", "next", "header", "copy", "write",
               "read_close", "read_free", "write_close", "write_free", "done"}
    /\ ret \in BOOLEAN /\ ec \in BOOLEAN /\ failed \in BOOLEAN /\ fresh \in BOOLEAN
    /\ pc \in {"new", "open"} => rstate = "new" /\ ~astray
    /\ pc \notin {"new", "open", "done"} => ret
    /\ rstate = "fatal" => rfaults > 0
    /\ pc = "next" => rstate \in {"header", "data"} /\ ~astray
    /\ pc \in {"header", "copy", "write"} => rstate = "data" /\ ~astray
    /\ pc = "header" => ~contents[entry].harmful
    /\ pc \in {"copy", "write"} => state = "data" /\ cur.id = entry
    /\ pc = "write" => read >= 1
    /\ pc = "read_free" => rstate = "closed"
    /\ pc \in {"write_close", "write_free"} => rstate = "freed"
    /\ pc # "done" => state \in {"header", "data"}
    /\ pc = "done" => IF ret THEN rstate = "freed" /\ state = "freed" ELSE rstate = "new" /\ state \in {"header", "data"}

IInv == Reading /\ Writing /\ Phased
-----------------------------------------------------------------------------
(* The assumptions of the two modules about their constants. *)

LEMMA ReadAssumptions == R!FiltersAssumption /\ R!ArchivesAssumption
BY FiltersAssumption DEF FiltersAssumption, R!FiltersAssumption, R!ArchivesAssumption

LEMMA WriteAssumptions ==
    W!PathsAssumption /\ W!FaultsAssumption /\ W!DisksAssumption /\ W!EntryPathsAssumption /\ W!CallsAssumption
BY PathsAssumption, FaultsAssumption
   DEF PathsAssumption, FaultsAssumption, W!PathsAssumption, W!FaultsAssumption, W!DisksAssumption,
       W!EntryPathsAssumption, W!CallsAssumption
-----------------------------------------------------------------------------
(* The calls are those that the two modules are about. *)

LEMMA OpenIs == Open => R!Open
BY DEF Open, Opened, OpenerFails, FilterFails, TooManyFilters, NoFormat, ReadFails, Pipeline, Made, CloseFilters,
       CloseAll, ClientClosed, stream,
       R!Open, R!Opened, R!OpenerFails, R!FilterFails, R!TooManyFilters, R!NoFormat, R!ReadFails, R!Pipeline,
       R!Made, R!CloseFilters, R!CloseAll, R!ClientClosed, R!stream

LEMMA CardinalityIs ==
    ASSUME NEW S
    PROVE  R!Cardinality(S) = Cardinality(S)
BY DEF Cardinality, R!Cardinality

LEMMA NextHeaderIs == NextHeader => R!NextHeader
<1>1. /\ SkipResults = R!SkipResults
      /\ HeaderResults = R!HeaderResults
      /\ \A r : LosesPlace(r) = R!LosesPlace(r)
      /\ \A r : StateAfter(r) = R!StateAfter(r)
  BY DEF SkipResults, HeaderResults, LosesPlace, StateAfter,
         R!SkipResults, R!HeaderResults, R!LosesPlace, R!StateAfter
<1>2. Ranks = R!Ranks
  BY DEF Ranks, R!Ranks
<1>3. \A r1, r2 : Worst(r1, r2) = R!Worst(r1, r2)
  BY <1>2 DEF Worst, R!Worst
<1>4. (MisusedRead <=> R!MisusedRead) /\ (ReadFails <=> R!ReadFails) /\ source = R!source
  BY DEF MisusedRead, ReadFails, source, stream, R!MisusedRead, R!ReadFails, R!source, R!stream
<1>. DEFINE Failed == ReadFails /\ rstate' = "fatal" /\ rret' = "fatal" /\ astray' = TRUE /\ UNCHANGED <<entry, read>>
            Step(r1, r2) ==
                /\ rfaults' = rfaults + Cardinality({i \in 1 .. 2 : <<r1, r2>>[i] \notin {"ok", "eof"}})
                /\ rfaults' <= MaxReadFaults
                /\ rstate' = StateAfter(r2)
                /\ rret' = Worst(r1, r2)
                /\ entry' = IF r2 \in {"ok", "warn"} THEN entry + 1 ELSE entry
                /\ read' = 0
                /\ astray' \in IF astray THEN {TRUE}
                              ELSE IF r2 \notin {"ok", "eof"} \/ (entry > 0 /\ LosesPlace(r1)) THEN BOOLEAN
                              ELSE {FALSE}
<1>. SUFFICES ASSUME NextHeader PROVE R!NextHeader
  OBVIOUS
<1>5. CASE rstate \notin {"header", "data"}
  BY <1>4, <1>5 DEF NextHeader, R!NextHeader
<1>6. CASE rstate \in {"header", "data"}
  <2>1. PICK r1 \in IF rstate = "data" THEN SkipResults ELSE {"ok"} :
          /\ UNCHANGED <<blocks, source>>
          /\ IF r1 = "fatal" THEN Failed ELSE \E r2 \in HeaderResults : Step(r1, r2)
    BY <1>6, Zenon DEF NextHeader
  <2>2. r1 \in IF rstate = "data" THEN R!SkipResults ELSE {"ok"}
    BY <1>1, <2>1
  <2>3. UNCHANGED <<blocks, R!source>>
    BY <2>1 DEF source, R!source
  <2>4. CASE r1 = "fatal"
    <3>1. R!ReadFails /\ rstate' = "fatal" /\ rret' = "fatal" /\ astray' = TRUE /\ UNCHANGED <<entry, read>>
      BY <1>4, <2>1, <2>4
    <3>. HIDE DEF Failed, Step
    <3>. QED  BY <1>6, <2>2, <2>3, <2>4, <3>1, Zenon DEF R!NextHeader
  <2>5. CASE r1 # "fatal"
    <3>1. PICK r2 \in HeaderResults : Step(r1, r2)
      BY <2>1, <2>5
    <3>2. /\ r2 \in R!HeaderResults
          /\ rstate' = R!StateAfter(r2)
          /\ rret' = R!Worst(r1, r2)
          /\ astray' \in IF astray THEN {TRUE}
                        ELSE IF r2 \notin {"ok", "eof"} \/ (entry > 0 /\ R!LosesPlace(r1)) THEN BOOLEAN
                        ELSE {FALSE}
      BY <1>1, <1>3, <3>1, Zenon
    <3>3. /\ rfaults' = rfaults + R!Cardinality({i \in 1 .. 2 : <<r1, r2>>[i] \notin {"ok", "eof"}})
          /\ rfaults' <= MaxReadFaults
          /\ entry' = IF r2 \in {"ok", "warn"} THEN entry + 1 ELSE entry
          /\ read' = 0
      BY <3>1, CardinalityIs, Zenon
    <3>. HIDE DEF Failed, Step
    <3>. QED  BY <1>6, <2>2, <2>3, <2>5, <3>2, <3>3, Zenon DEF R!NextHeader
  <2>. QED  BY <2>4, <2>5
<1>. QED  BY <1>5, <1>6

LEMMA ReadDataBlockIs == ReadDataBlock => R!ReadDataBlock
BY DEF ReadDataBlock, MisusedRead, source, stream, ReadFails,
       R!ReadDataBlock, R!MisusedRead, R!source, R!stream, R!ReadFails

LEMMA ReadCloseIs == ReadClose => R!ReadClose
BY DEF ReadClose, CloseFilters, CloseAll, ClientClosed, source, stream,
       R!ReadClose, R!CloseFilters, R!CloseAll, R!ClientClosed, R!source, R!stream

LEMMA ReadFreeIs == ReadFree => R!ReadFree
BY DEF ReadFree, CloseFilters, CloseAll, ClientClosed, source, stream,
       R!ReadFree, R!CloseFilters, R!CloseAll, R!ClientClosed, R!source, R!stream

LEMMA FinishOutcomesAre == FinishOutcomes = W!FinishOutcomes /\ \A f : Torn(f) = W!Torn(f)
BY DEF FinishOutcomes, Outcome, Stamped, Sized, SizeIsOff, Resize, Gone, If, Torn,
       W!FinishOutcomes, W!Outcome, W!Stamped, W!Sized, W!SizeIsOff, W!Resize, W!Gone, W!If, W!Torn

LEMMA RestoreOutcomesAre ==
    ASSUME NEW d, NEW e, NEW id
    PROVE  RestoreOutcomes(d, e, id) = W!RestoreOutcomes(d, e, id)
BY DEF RestoreOutcomes, NotRestored, Restored, Empty, Parent, Clear, Put, Nothing, MakeParents, Ancestors, Dir, File, Created,
       HalfMade, W!HalfMade, W!RestoreOutcomes, W!NotRestored, W!Restored, W!Empty, W!Parent, W!Clear, W!Put, W!Nothing, W!MakeParents,
       W!Ancestors, W!Dir, W!File, W!Created

LEMMA HeaderIs ==
    ASSUME NEW e, NEW id, Header(e, id)
    PROVE  W!Header(e, id)
BY FinishOutcomesAre, RestoreOutcomesAre
   DEF Header, Misused, Refuse, Restore, Fails, W!Header, W!Misused, W!Refuse, W!Restore, W!Fails

LEMMA DataBlockIs ==
    ASSUME NEW b, NEW o, DataBlock(b, o)
    PROVE  W!DataBlock(b, o)
BY DEF DataBlock, Misused, WriteAt, Resize, Fails, W!DataBlock, W!Misused, W!WriteAt, W!Resize, W!Fails

LEMMA FixedAre ==
    ASSUME NEW d
    PROVE  Fixed(d) = W!Fixed(d)
BY DEF Fixed, W!Fixed

LEMMA CloseIs == Close => W!Close
BY FinishOutcomesAre, FixedAre DEF Close, Misused, Fails, W!Close, W!Misused, W!Fails

LEMMA FreeIs == Free => W!Free
BY FinishOutcomesAre, FixedAre DEF Free, Fails, W!Free, W!Fails

LEMMA AncestorsAre ==
    ASSUME NEW p
    PROVE  Ancestors(p) = W!Ancestors(p)
BY DEF Ancestors, W!Ancestors
-----------------------------------------------------------------------------
(* Entries and where they go. *)

LEMMA EntriesAre ==
    ASSUME contents \in Archives
    PROVE  /\ contents \in Seq(Entry) /\ Len(contents) \in Nat /\ DOMAIN contents = 1 .. Len(contents)
           /\ \A i \in DOMAIN contents : contents[i] \in Entry
BY ArchivesAssumption DEF ArchivesAssumption

\* The destination is a prefix of every path below it, so that what lies above such a path is
\* inside as well, or above the destination.
LEMMA BelowTheDestination ==
    ASSUME NEW p \in Paths, Dest \o p \in Paths
    PROVE  /\ Dest \o p # <<>> /\ Inside(Dest \o p)
           /\ \A a \in Ancestors(Dest \o p) \cup {Dest \o p} : Inside(a) \/ a \in Ancestors(Dest)
<1>. DEFINE q == Dest \o p
            U == {Dest[k] : k \in DOMAIN Dest} \cup {p[k] : k \in DOMAIN p}
<1>1. Dest \in Seq(U) /\ p \in Seq(U)
  <2>1. Dest \in Seq({Dest[k] : k \in DOMAIN Dest}) /\ p \in Seq({p[k] : k \in DOMAIN p})
    BY PathsAssumption, DestAssumption DEF PathsAssumption, DestAssumption
  <2>2. \A S, T : S \subseteq T => Seq(S) \subseteq Seq(T)
    OBVIOUS
  <2>. QED  BY <2>1, <2>2
<1>. HIDE DEF U
<1>2. Len(Dest) \in Nat \ {0} /\ Len(p) \in Nat /\ q \in Seq(U) /\ Len(q) = Len(Dest) + Len(p)
  BY <1>1, EmptySeq, ConcatProperties, DestAssumption DEF DestAssumption
<1>3. SubSeq(q, 1, Len(Dest)) = Dest
  BY <1>1, <1>2, SubSeqOfConcat1, SubSeqFull
<1>. HIDE DEF q
<1>4. ASSUME NEW k \in 0 .. Len(q)
      PROVE  (Inside(SubSeq(q, 1, k)) \/ SubSeq(q, 1, k) \in Ancestors(Dest)) /\ (k >= Len(Dest) => Inside(SubSeq(q, 1, k)))
  <2>. DEFINE a == SubSeq(q, 1, k)
  <2>1. a \in Paths /\ Len(a) = k
    BY <1>4, W!PathIsSeq, WriteAssumptions DEF q
  <2>2. CASE k < Len(Dest)
    <3>1. a = SubSeq(Dest, 1, k)
      BY <1>2, <1>3, <2>2, W!PrefixOfPrefix, WriteAssumptions DEF q
    <3>2. a \in Ancestors(Dest)
      <4>1. k \in 0 .. Len(Dest) - 1
        BY <1>2, <2>2
      <4>. QED  BY <3>1, <4>1, Zenon DEF Ancestors
    <3>. QED  BY <1>2, <2>2, <3>2
  <2>3. CASE k = Len(Dest)
    BY <1>3, <2>3 DEF Inside
  <2>4. CASE k > Len(Dest)
    <3>1. Dest = SubSeq(a, 1, Len(Dest))
      BY <1>2, <1>3, <2>4, W!PrefixOfPrefix, WriteAssumptions DEF q
    <3>2. Dest \in Ancestors(a)
      <4>1. Len(Dest) \in 0 .. Len(a) - 1
        BY <1>2, <2>1, <2>4
      <4>. HIDE DEF a
      <4>. QED  BY <3>1, <4>1, Zenon DEF Ancestors
    <3>. QED  BY <3>2 DEF Inside
  <2>. QED  BY <1>2, <2>2, <2>3, <2>4
<1>5. SubSeq(q, 1, Len(q)) = q /\ Len(q) \in 0 .. Len(q) /\ Len(q) >= Len(Dest)
  BY <1>2, SubSeqFull
<1>6. q # <<>>
  BY <1>2, EmptySeq
<1>7. ASSUME NEW a \in Ancestors(q)
      PROVE  Inside(a) \/ a \in Ancestors(Dest)
  <2>1. PICK k \in 0 .. Len(q) - 1 : a = SubSeq(q, 1, k)
    BY DEF Ancestors
  <2>. QED  BY <1>2, <1>4, <2>1
<1>. QED  BY <1>4, <1>5, <1>6, <1>7 DEF q

\* An entry goes to a path, which is at the destination or below it, with what is above it, when
\* the path in the archive is relative.
LEMMA PlaceIs ==
    ASSUME NEW e \in Entry
    PROVE  /\ Place(e) \in Paths /\ Place(e) # <<>>
           /\ ~e.rooted => \A a \in Ancestors(Place(e)) \cup {Place(e)} : Inside(a) \/ a \in Ancestors(Dest)
<1>1. CASE e.rooted
  BY <1>1 DEF Place, Entry
<1>2. CASE ~e.rooted
  <2>1. e.path \in Paths /\ Dest \o e.path \in Paths
    BY <1>2 DEF Entry
  <2>. QED  BY <1>2, <2>1, BelowTheDestination DEF Place
<1>. QED  BY <1>1, <1>2

\* What Extract gives to header is an entry.
LEMMA EntryToWriteIs ==
    ASSUME contents \in Archives, NEW i \in DOMAIN contents
    PROVE  LET e == EntryToWrite(contents[i])
           IN  /\ W!IsEntry(e) /\ e.size \in Int
               /\ e.path = Place(contents[i]) /\ e.type = contents[i].type
<1>1. contents[i] \in Entry
  BY EntriesAre
<1>2. /\ contents[i].size \in Int /\ contents[i].target \in Paths /\ contents[i].type \in {"reg", "dir", "link"}
  BY <1>1 DEF Entry
<1>3. Place(contents[i]) \in Paths /\ Place(contents[i]) # <<>>
  BY <1>1, PlaceIs
<1>. QED  BY <1>2, <1>3 DEF EntryToWrite, W!IsEntry

\* What the entries read so far lead to does not become less.
LEMMA NamedStays ==
    ASSUME UNCHANGED contents, contents \in Archives, entry \in Int, entry' = entry \/ entry' = entry + 1,
           NEW p, Named(p)
    PROVE  Named(p)'
<1>1. PICK i \in DOMAIN contents :
        i <= entry /\ ~contents[i].harmful /\ p \in Ancestors(Place(contents[i])) \cup {Place(contents[i])}
  BY DEF Named
<1>2. i <= entry'
  <2>1. i \in Int
    BY EntriesAre
  <2>. QED  BY <1>1, <2>1
<1>. QED  BY <1>1, <1>2 DEF Named
-----------------------------------------------------------------------------
(* Steps of one of the two handles, and what they leave of the other. *)

LEMMA ReadingStays ==
    ASSUME Reading, UNCHANGED <<rvars, contents>>, UNCHANGED Opening
    PROVE  Reading'
<1>1. UNCHANGED R!vars
  BY DEF rvars, source, stream, R!vars, R!rvars, R!source, R!stream
<1>2. R!IInv'
  BY <1>1, R!NextKeepsInv, ReadAssumptions DEF Reading
<1>. QED  BY <1>2 DEF Reading, rvars

LEMMA WritingStays ==
    ASSUME Writing, UNCHANGED <<wdvars, contents>>, contents \in Archives, entry \in Int, entry' = entry \/ entry' = entry + 1
    PROVE  Writing'
<1>1. /\ UNCHANGED <<disk, state, cur, fh, offset, times, fixups, wret, faults, torn>>
      /\ UNCHANGED contents
  BY DEF wdvars
<1>2. W!HandleOK(Len(contents), Blocks)'
  BY <1>1 DEF Writing, W!HandleOK, Blocks
<1>3. \A p : Named(p) => Named(p)'
  BY <1>1, NamedStays
<1>4. /\ Named(cur.path)' \/ (cur.path = <<>> /\ state # "data")'
      /\ \A i \in 1 .. Len(fixups') : Named(fixups[i].path)'
  BY <1>1, <1>3 DEF Writing, Named
<1>. QED  BY <1>1, <1>2, <1>4 DEF Writing, Placed

\* The count of the entries that were read is a number.
LEMMA EntryIsCount ==
    ASSUME IInv
    PROVE  entry \in Int /\ contents \in Archives
BY DEF IInv, Reading, R!IInv, R!TypeOK, Phased

\* The entry that is read is one of the archive.
LEMMA EntryIsRead ==
    ASSUME Reading, contents \in Archives, rstate = "data"
    PROVE  entry \in DOMAIN contents
<1>1. entry \in 1 .. Len(blocks)
  <2>1. blocks \in Seq(Nat)
    BY DEF Reading, R!IInv, R!TypeOK
  <2>. QED  BY <2>1 DEF Reading, R!IInv, R!TypeOK
<1>2. Len(blocks) = Len(contents)
  BY EntriesAre DEF Reading
<1>. QED  BY <1>1, <1>2, EntriesAre

\* Nothing but what the entries lead to changes.
OnlyNamed == \A p \in Paths : ~Named(p) => disk'[p] = disk[p]

LEMMA HeaderWrites ==
    ASSUME IInv, pc = "header", Header(EntryToWrite(contents[entry]), entry), UNCHANGED <<contents, entry>>
    PROVE  /\ Writing' /\ state' \in {"header", "data"} /\ cur'.id = entry
           /\ wret' = "ok" => state' = "data"
           /\ OnlyNamed
<1>. DEFINE e == EntryToWrite(contents[entry])
<1>0. Len(contents) \in Nat
  BY EntriesAre DEF IInv, Phased
<1>1. PICK M \in Nat : M = Len(contents)
  BY <1>0, Zenon
<1>. PICK B : B = Blocks
  OBVIOUS
<1>2. /\ Zero \in B /\ W!HandleOK(M, B) /\ state \in {"header", "data"}
      /\ W!OwnData(disk) /\ Placed(disk) /\ (Named(cur.path) \/ (cur.path = <<>> /\ state # "data"))
      /\ \A i \in 1 .. Len(fixups) : Named(fixups[i].path)
  BY <1>1 DEF IInv, Phased, Writing, Blocks
<1>3. entry \in DOMAIN contents /\ entry \in 1 .. M
  BY <1>1, EntryIsRead, EntriesAre DEF IInv, Phased
<1>4. /\ W!IsEntry(e) /\ e.size \in Int /\ e.path = Place(contents[entry]) /\ e.type = contents[entry].type
      /\ \A a \in W!Ancestors(e.path) \cup {e.path, <<>>} : Named(a)
  <2>1. W!IsEntry(e) /\ e.size \in Int /\ e.path = Place(contents[entry]) /\ e.type = contents[entry].type
    BY <1>3, EntryToWriteIs DEF IInv, Phased
  <2>2. ~contents[entry].harmful /\ entry <= entry
    BY EntryIsCount DEF IInv, Phased
  <2>3. \A a \in W!Ancestors(e.path) \cup {e.path} : Named(a)
    BY <1>3, <2>1, <2>2, AncestorsAre DEF Named
  <2>4. <<>> \in W!Ancestors(e.path)
    <3>1. e.path \in Paths /\ e.path # <<>>
      BY <2>1 DEF W!IsEntry
    <3>2. 0 \in 0 .. Len(e.path) - 1 /\ SubSeq(e.path, 1, 0) = <<>>
      BY <3>1, W!PathIsSeq, WriteAssumptions, SubSeqEmpty
    <3>. QED  BY <3>2, Zenon DEF W!Ancestors
  <2>. QED  BY <2>1, <2>3, <2>4
<1>5. W!Header(e, entry)
  BY HeaderIs
<1>. HIDE DEF e
<1>6. PICK id \in 1 .. M : id = entry
  BY <1>3
<1>7. PICK x : x = e
  OBVIOUS
<1>8. W!Header(x, id) /\ W!IsEntry(x) /\ x.size \in Int
  BY <1>4, <1>5, <1>6, <1>7
<1>9. /\ W!HandleOK(M, B)' /\ state' \in {"header", "data"} /\ W!OwnData(disk')
      /\ \A q \in Paths : q \notin W!Ancestors(x.path) \cup {x.path, cur.path} => disk'[q] = disk[q]
  BY <1>2, <1>8, W!HeaderKeeps, WriteAssumptions
<1>10. /\ cur'.id = id /\ cur'.path = x.path
       /\ wret' = "ok" => state' = "data"
       /\ \A q \in Paths : disk'[q].kind = "file" =>
            \/ disk[q].kind = "file" /\ disk'[q].owner = disk[q].owner
            \/ q = x.path /\ (x.type = "link" \/ disk'[q].owner = id)
       /\ \A i \in 1 .. Len(fixups') : \/ fixups'[i].path = x.path
                                      \/ \E j \in 1 .. Len(fixups) : fixups'[i].path = fixups[j].path
  BY <1>2, <1>8, W!HeaderMakes, WriteAssumptions
<1>11. Placed(disk)'
  <2>. SUFFICES ASSUME NEW p \in Paths, disk'[p].kind = "file", disk'[p].owner > 0
                PROVE  \E i \in DOMAIN contents :
                         p = Place(contents[i]) /\ (i = disk'[p].owner \/ contents[i].type = "link")
    BY DEF Placed
  <2>1. CASE disk[p].kind = "file" /\ disk'[p].owner = disk[p].owner
    BY <1>2, <2>1 DEF Placed
  <2>2. CASE p = x.path /\ (x.type = "link" \/ disk'[p].owner = id)
    BY <1>3, <1>4, <1>6, <1>7, <2>2
  <2>. QED  BY <1>10, <2>1, <2>2
<1>12. /\ Named(cur.path)' \/ (cur.path = <<>> /\ state # "data")'
       /\ \A i \in 1 .. Len(fixups') : Named(fixups[i].path)'
  BY <1>2, <1>4, <1>7, <1>10 DEF Named
<1>13. Len(contents)' = M /\ Blocks' = B
  BY <1>1 DEF Blocks
<1>14. OnlyNamed
  BY <1>2, <1>4, <1>7, <1>9 DEF OnlyNamed
<1>. QED  BY <1>6, <1>9, <1>10, <1>11, <1>12, <1>13, <1>14 DEF Writing

LEMMA BlockWrites ==
    ASSUME IInv, pc = "write", DataBlock(<<entry, read - 1>>, read - 1), UNCHANGED <<contents, entry>>
    PROVE  Writing' /\ state' = "data" /\ cur'.id = entry /\ OnlyNamed
<1>1. Len(contents) \in Nat
  BY EntriesAre DEF IInv, Phased
<1>. PICK M \in Nat : M = Len(contents)
  BY <1>1, Zenon
<1>. PICK B : B = Blocks
  OBVIOUS
<1>2. /\ Zero \in B /\ W!HandleOK(M, B) /\ state = "data" /\ cur.id = entry
      /\ W!OwnData(disk) /\ Placed(disk) /\ (Named(cur.path) \/ (cur.path = <<>> /\ state # "data"))
      /\ \A i \in 1 .. Len(fixups) : Named(fixups[i].path)
  BY DEF IInv, Phased, Writing, Blocks
<1>3. entry \in 1 .. M /\ read - 1 \in Nat
  <2>1. entry \in DOMAIN contents /\ read \in Nat /\ read >= 1
    <3>1. entry \in DOMAIN contents
      BY EntryIsRead DEF IInv, Phased
    <3>2. read \in Int /\ read >= 1
      BY DEF IInv, Phased, Reading, R!IInv, R!TypeOK
    <3>. QED  BY <3>1, <3>2
  <2>. QED  BY <2>1, EntriesAre DEF IInv, Phased
<1>4. PICK o \in Nat : o = read - 1
  BY <1>3, Zenon
<1>5. PICK n \in 1 .. M : n = entry
  BY <1>3, Zenon
<1>6. <<n, o>> \in B
  BY <1>4, <1>5 DEF Blocks
<1>7. W!DataBlock(<<n, o>>, o)
  BY <1>4, <1>5, DataBlockIs
<1>8. <<n, o>> = <<cur.id, o>>
  BY <1>2, <1>5
<1>9. /\ W!HandleOK(M, B)' /\ W!OwnData(disk')
      /\ \A q \in Paths \ {cur.path} : disk'[q] = disk[q]
      /\ \A q \in Paths : disk'[q].kind = disk[q].kind /\ disk'[q].owner = disk[q].owner
  BY <1>2, <1>6, <1>7, <1>8, W!DataBlockKeeps, WriteAssumptions
<1>10. UNCHANGED <<state, cur, fixups>>
  BY <1>2 DEF DataBlock
<1>11. Placed(disk)'
  BY <1>2, <1>9 DEF Placed
<1>12. /\ Named(cur.path)' \/ (cur.path = <<>> /\ state # "data")'
       /\ \A i \in 1 .. Len(fixups') : Named(fixups[i].path)'
  BY <1>2, <1>10 DEF Named
<1>13. Len(contents)' = M /\ Blocks' = B
  BY DEF Blocks
<1>14. OnlyNamed
  BY <1>2, <1>9 DEF OnlyNamed
<1>. QED  BY <1>2, <1>9, <1>10, <1>11, <1>12, <1>13, <1>14 DEF Writing

\* Closing changes the present file and what has a fixup, and leaves no other.
LEMMA CloseWrites ==
    ASSUME IInv, pc # "done", Close \/ Free, UNCHANGED <<contents, entry>>
    PROVE  /\ Writing' /\ OnlyNamed
           /\ Close => state' \in {"header", "data"}
           /\ Free => state' = "freed"
<1>1. Len(contents) \in Nat
  BY EntriesAre DEF IInv, Phased
<1>. PICK M \in Nat : M = Len(contents)
  BY <1>1, Zenon
<1>. PICK B : B = Blocks
  OBVIOUS
<1>2. /\ Zero \in B /\ W!HandleOK(M, B) /\ state \in {"header", "data"}
      /\ W!OwnData(disk) /\ Placed(disk) /\ (Named(cur.path) \/ (cur.path = <<>> /\ state # "data"))
      /\ \A i \in 1 .. Len(fixups) : Named(fixups[i].path)
  BY DEF IInv, Phased, Writing, Blocks
<1>3. /\ W!HandleOK(M, B)' /\ W!OwnData(disk')
      /\ \A q \in Paths \ {cur.path} : (\A i \in 1 .. Len(fixups) : fixups[i].path # q) => disk'[q] = disk[q]
      /\ \A q \in Paths : disk'[q].kind = disk[q].kind /\ disk'[q].owner = disk[q].owner
      /\ Close => state' \in {"header", "data"}
      /\ Free => state' = "freed"
  <2>1. CASE Close
    <3>1. W!Close
      BY <2>1, CloseIs
    <3>2. ~Free
      BY <1>2, <2>1 DEF Close, Free, FinishOutcomes, Outcome, If
    <3>. QED  BY <1>2, <2>1, <3>1, <3>2, W!CloseKeeps, WriteAssumptions
  <2>2. CASE Free
    <3>1. W!Free
      BY <2>2, FreeIs
    <3>2. ~Close
      BY <1>2, <2>2 DEF Close, Free, FinishOutcomes, Outcome, If
    <3>. QED  BY <1>2, <2>2, <3>1, <3>2, W!FreeKeeps, WriteAssumptions
  <2>. QED  BY <2>1, <2>2
<1>4. cur' = cur /\ fixups' = <<>>
  BY <1>2 DEF Close, Free
<1>5. Placed(disk)'
  BY <1>2, <1>3 DEF Placed
<1>6. /\ Named(cur.path)' \/ (cur.path = <<>> /\ state # "data")'
      /\ \A i \in 1 .. Len(fixups') : Named(fixups[i].path)'
  <2>1. Named(cur.path) => Named(cur.path)'
    BY <1>4 DEF Named
  <2>2. state = "header" => state' # "data"
    BY DEF Close, Free, FinishOutcomes, Outcome
  <2>. QED  BY <1>2, <1>4, <2>1, <2>2
<1>7. Len(contents)' = M /\ Blocks' = B
  BY DEF Blocks
<1>8. OnlyNamed
  <2>1. CASE Named(cur.path)
    BY <1>2, <1>3, <2>1 DEF OnlyNamed
  <2>2. CASE state = "header"
    <3>1. disk' = Fixed(disk)
      BY <2>2 DEF Close, Free, FinishOutcomes, Outcome
    <3>2. ASSUME NEW q \in Paths, \A i \in 1 .. Len(fixups) : fixups[i].path # q
          PROVE  Fixed(disk)[q] = disk[q]
      BY <3>2 DEF Fixed
    <3>. QED  BY <1>2, <3>1, <3>2 DEF OnlyNamed
  <2>. QED  BY <1>2, <2>1, <2>2
<1>. QED  BY <1>3, <1>5, <1>6, <1>7, <1>8 DEF Writing
-----------------------------------------------------------------------------
(* The invariant. *)

LEMMA InitInv == Init => IInv
<1>. SUFFICES ASSUME Init PROVE IInv
  OBVIOUS
<1>1. Reading
  <2>. DEFINE b == [i \in DOMAIN contents |-> contents[i].blocks]
  <2>1. b \in Seq(Nat)
    <3>1. \A i \in 1 .. Len(contents) : contents[i].blocks \in Nat
      BY EntriesAre DEF Init, Entry
    <3>. QED  BY <3>1, EntriesAre DEF Init
  <2>2. blocks = b
    BY DEF Init, ReadReady
  <2>3. R!ReadReady(b)
    BY DEF Init, ReadReady, R!ReadReady
  <2>4. Opening = FALSE
    BY DEF Init, Opening
  <2>. HIDE DEF b
  <2>5. R!Init
    BY <2>1, <2>3, <2>4 DEF R!Init
  <2>6. R!IInv
    BY <2>5, R!InitInv, ReadAssumptions
  <2>. QED  BY <2>2, <2>6 DEF Reading, b
<1>2. Writing
  <2>1. Len(contents) \in Nat
    BY EntriesAre DEF Init
  <2>. PICK M \in Nat : M = Len(contents)
    BY <2>1, Zenon
  <2>. PICK B : B = Blocks
    OBVIOUS
  <2>2. PICK d \in Disks : Ready(d)
    BY DEF Init
  <2>3. d \in [Paths -> {Nothing, Dir(0), File(0)}] /\ WellFormed(d)
    BY DisksAssumption DEF DisksAssumption
  <2>4. d \in [Paths -> {W!Nothing, W!Dir(0), W!File(0)}] /\ W!WellFormed(d) /\ W!Ready(d)
    BY <2>2, <2>3 DEF Nothing, Dir, File, WellFormed, Ready, Parent,
                      W!Nothing, W!Dir, W!File, W!WellFormed, W!Ready, W!Parent
  <2>5. W!HandleOK(M, B) /\ W!OwnData(disk)
    BY <2>4, W!ReadyIs, WriteAssumptions
  <2>6. Placed(disk)
    <3>1. disk = d
      BY <2>2 DEF Ready
    <3>2. \A p \in Paths : d[p].owner = 0
      BY <2>3 DEF Nothing, Dir, File
    <3>. QED  BY <3>1, <3>2 DEF Placed
  <2>7. cur.path = <<>> /\ state # "data"
    BY <2>2 DEF Ready
  <2>8. fixups = <<>>
    BY <2>2 DEF Ready
  <2>. QED  BY <2>5, <2>6, <2>7, <2>8 DEF Writing
<1>3. Phased
  <2>1. (fresh \in BOOLEAN) /\ state = "header"
    <3>1. PICK d \in Disks : Ready(d) /\ fresh = (d[Dest].kind = "none")
      BY DEF Init
    <3>2. fresh \in BOOLEAN
      BY <3>1, Zenon
    <3>. QED  BY <3>1, <3>2 DEF Ready
  <2>. QED  BY <2>1 DEF Init, ReadReady, Phased
<1>. QED  BY <1>1, <1>2, <1>3 DEF IInv

LEMMA NewInv ==
    ASSUME IInv, New
    PROVE  IInv'
<1>1. Opening' = Opening
  BY DEF New, Opening
<1>2. Reading' /\ Writing'
  <2>1. entry' = entry
    BY DEF New, rvars, stream
  <2>. QED  BY <1>1, <2>1, EntryIsCount, ReadingStays, WritingStays DEF IInv, New
<1>3. UNCHANGED <<rstate, state, rfaults, entry, astray, read, cur>>
  BY DEF New, rvars, stream, wdvars
<1>4. Phased'
  <2>1. CASE pc' = "open" /\ UNCHANGED <<ret, ec>>
    BY <1>3, <2>1 DEF IInv, New, Phased
  <2>2. CASE pc' = "done" /\ ret' = FALSE /\ ec' = TRUE
    BY <1>3, <2>2 DEF IInv, New, Phased
  <2>. QED  BY <2>1, <2>2, Zenon DEF New
<1>. QED  BY <1>2, <1>4 DEF IInv

\* Where the step that has just been made leads.
LEMMA ReturnsOr ==
    ASSUME NEW ok \in BOOLEAN, NEW next, ReturnUnless(ok, next), failed \in BOOLEAN
    PROVE  /\ ret' = TRUE /\ failed' \in BOOLEAN
           /\ pc' = IF ok THEN next ELSE "read_close"
BY DEF ReturnUnless

LEMMA OpenInv ==
    ASSUME IInv, OpenArchive
    PROVE  IInv'
<1>1. rstate = "new" /\ Opening = FALSE /\ state \in {"header", "data"} /\ failed \in BOOLEAN
  BY DEF IInv, Phased, OpenArchive, Opening
<1>2. /\ ret' = TRUE /\ failed' \in BOOLEAN
      /\ pc' = IF rret' = "ok" THEN "next" ELSE "read_close"
  BY <1>1, ReturnsOr DEF OpenArchive
<1>3. Opening' = TRUE
  BY <1>2 DEF Opening
<1>4. R!Open
  BY OpenIs DEF OpenArchive
<1>5. R!IInv'
  BY <1>1, <1>3, <1>4, R!OpenInv, ReadAssumptions DEF IInv, Reading, R!Calls
<1>6. /\ blocks' = blocks /\ astray' = astray
      /\ rret' = "ok" => rstate' = "header"
      /\ rstate' = "fatal" => rfaults' > 0
  BY <1>1, <1>4, R!OpenMakes, ReadAssumptions DEF IInv, Reading
<1>7. ~astray
  BY DEF IInv, Phased, OpenArchive
<1>8. Writing'
  <2>1. entry' = entry
    BY DEF OpenArchive, Open, stream
  <2>. QED  BY <2>1, EntryIsCount, WritingStays DEF IInv, OpenArchive
<1>9. ec' \in BOOLEAN /\ UNCHANGED <<contents, fresh, state>>
  BY DEF OpenArchive, wdvars
<1>10. Phased'
  BY <1>1, <1>2, <1>6, <1>7, <1>9 DEF IInv, Phased
<1>. QED  BY <1>5, <1>6, <1>8, <1>9, <1>10 DEF IInv, Reading

LEMMA NextEntryInv ==
    ASSUME IInv, NextEntry
    PROVE  IInv'
<1>1. rstate \in {"header", "data"} /\ state \in {"header", "data"} /\ failed \in BOOLEAN /\ ret = TRUE /\ ~astray
  BY DEF IInv, Phased, NextEntry
<1>2. /\ ret' = TRUE /\ failed' \in BOOLEAN
      /\ \/ rret' = "ok" /\ pc' \in {"next", "header"} /\ (pc' = "header" => ~contents[entry'].harmful)
         \/ rret' # "ok" /\ pc' = "read_close"
  <2>1. CASE rret' = "eof"
    BY <1>1, <2>1 DEF NextEntry
  <2>2. CASE rret' # "eof"
    BY <1>1, <2>2 DEF NextEntry, ReturnUnless
  <2>. QED  BY <2>1, <2>2
<1>3. Opening /\ Opening' = TRUE /\ Opening = TRUE
  BY <1>2 DEF Opening, NextEntry
<1>4. R!NextHeader
  BY NextHeaderIs DEF NextEntry
<1>5. R!IInv'
  BY <1>3, <1>4, R!HeaderInv, ReadAssumptions DEF IInv, Reading, R!Calls
<1>6. /\ blocks' = blocks
      /\ rstate' = "fatal" => rfaults' > 0
      /\ rret' = "ok" => rstate' = "data" /\ astray' = astray
  BY <1>1, <1>4, R!HeaderMakes, ReadAssumptions DEF IInv, Reading
<1>7. Writing'
  <2>1. entry' = entry \/ entry' = entry + 1
    BY <1>1 DEF NextEntry, NextHeader
  <2>. QED  BY <2>1, EntryIsCount, WritingStays DEF IInv, NextEntry
<1>8. UNCHANGED <<contents, fresh, ec, state>>
  BY DEF NextEntry, wdvars
<1>9. Phased'
  BY <1>1, <1>2, <1>6, <1>8 DEF IInv, Phased
<1>. QED  BY <1>5, <1>6, <1>7, <1>8, <1>9 DEF IInv, Reading

LEMMA WriteHeaderInv ==
    ASSUME IInv, WriteHeader
    PROVE  IInv' /\ OnlyNamed
<1>1. failed \in BOOLEAN /\ ret = TRUE /\ pc = "header"
  BY DEF IInv, Phased, WriteHeader
<1>2. /\ ret' = TRUE /\ failed' \in BOOLEAN
      /\ pc' = IF wret' = "ok" THEN "copy" ELSE "read_close"
  BY <1>1, ReturnsOr DEF WriteHeader
<1>3. Opening' = Opening
  BY <1>1, <1>2 DEF Opening
<1>4. Reading'
  BY <1>3, ReadingStays DEF IInv, WriteHeader
<1>5. /\ Writing' /\ state' \in {"header", "data"} /\ cur'.id = entry
      /\ wret' = "ok" => state' = "data"
      /\ OnlyNamed
  <2>1. UNCHANGED <<contents, entry>>
    BY DEF WriteHeader, rvars, stream
  <2>. QED  BY <2>1, HeaderWrites DEF WriteHeader
<1>6. UNCHANGED <<contents, fresh, ec, rstate, astray, entry, rfaults>>
  BY DEF WriteHeader, rvars, stream
<1>7. Phased'
  BY <1>1, <1>2, <1>5, <1>6 DEF IInv, Phased
<1>. QED  BY <1>4, <1>5, <1>7 DEF IInv

LEMMA CopyReadInv ==
    ASSUME IInv, CopyRead
    PROVE  IInv'
<1>1. /\ failed \in BOOLEAN /\ ret = TRUE /\ pc = "copy" /\ rstate = "data" /\ state = "data" /\ ~astray
      /\ read \in Nat
  <2>1. rstate = "data"
    BY DEF IInv, Phased, CopyRead
  <2>. QED  BY <2>1 DEF IInv, Phased, CopyRead, Reading, R!IInv, R!TypeOK
<1>2. /\ ret' = TRUE /\ failed' \in BOOLEAN
      /\ \/ rret' = "ok" /\ pc' = "write"
         \/ rret' = "eof" /\ pc' = "next"
         \/ rret' \notin {"ok", "eof"} /\ pc' = "read_close"
  BY <1>1 DEF CopyRead, ReturnUnless
<1>3. Opening' = Opening
  BY <1>1, <1>2 DEF Opening
<1>4. R!ReadDataBlock
  BY ReadDataBlockIs DEF CopyRead
<1>5. R!IInv'
  BY <1>3, <1>4, R!BlockInv, ReadAssumptions DEF IInv, Reading, R!Calls
<1>6. /\ UNCHANGED <<blocks, rstate, entry>>
      /\ rret' \in {"ok", "eof"} => astray' = astray
      /\ rret' = "ok" => read' = read + 1
  BY <1>1 DEF CopyRead, ReadDataBlock
<1>7. Writing'
  BY <1>6, EntryIsCount, WritingStays DEF IInv, CopyRead
<1>8. UNCHANGED <<contents, fresh, ec, state, cur>>
  BY DEF CopyRead, wdvars
<1>9. Phased'
  BY <1>1, <1>2, <1>6, <1>8 DEF IInv, Phased
<1>. QED  BY <1>5, <1>6, <1>7, <1>8, <1>9 DEF IInv, Reading

LEMMA CopyWriteInv ==
    ASSUME IInv, CopyWrite
    PROVE  IInv' /\ OnlyNamed
<1>1. failed \in BOOLEAN /\ ret = TRUE /\ pc = "write"
  BY DEF IInv, Phased, CopyWrite
<1>2. /\ ret' = TRUE /\ failed' \in BOOLEAN
      /\ pc' = IF wret' = "ok" THEN "copy" ELSE "read_close"
  BY <1>1, ReturnsOr DEF CopyWrite
<1>3. Opening' = Opening
  BY <1>1, <1>2 DEF Opening
<1>4. Reading'
  BY <1>3, ReadingStays DEF IInv, CopyWrite
<1>5. Writing' /\ state' = "data" /\ cur'.id = entry /\ OnlyNamed
  <2>1. UNCHANGED <<contents, entry>>
    BY DEF CopyWrite, rvars, stream
  <2>. QED  BY <2>1, BlockWrites DEF CopyWrite
<1>6. UNCHANGED <<contents, fresh, ec, rstate, astray, entry, rfaults>>
  BY DEF CopyWrite, rvars, stream
<1>7. Phased'
  BY <1>1, <1>2, <1>5, <1>6 DEF IInv, Phased
<1>. QED  BY <1>4, <1>5, <1>7 DEF IInv

LEMMA CloseReaderInv ==
    ASSUME IInv, CloseReader
    PROVE  IInv'
<1>1. ret = TRUE /\ pc = "read_close" /\ pc' = "read_free" /\ state \in {"header", "data"}
  BY DEF IInv, Phased, CloseReader
<1>2. Opening' = Opening
  BY <1>1 DEF Opening, CloseReader
<1>3. R!IInv'
  BY <1>2, ReadCloseIs, R!CloseInv, ReadAssumptions DEF IInv, Reading, R!Calls, CloseReader
<1>4. Writing'
  <2>1. entry' = entry
    BY DEF CloseReader, ReadClose, stream
  <2>. QED  BY <2>1, EntryIsCount, WritingStays DEF IInv, CloseReader
<1>5. UNCHANGED <<blocks, contents, fresh, ec, ret, failed, state>> /\ rstate' = "closed"
  <2>1. rstate' = "closed"
    BY Zenon DEF CloseReader, ReadClose
  <2>. QED  BY <2>1 DEF CloseReader, ReadClose, wdvars
<1>6. Phased'
  BY <1>1, <1>5 DEF IInv, Phased
<1>. QED  BY <1>3, <1>4, <1>5, <1>6 DEF IInv, Reading

LEMMA FreeReaderInv ==
    ASSUME IInv, FreeReader
    PROVE  IInv'
<1>1. ret = TRUE /\ pc = "read_free" /\ pc' = "write_close" /\ state \in {"header", "data"}
  BY DEF IInv, Phased, FreeReader
<1>2. Opening' = Opening
  BY <1>1 DEF Opening, FreeReader
<1>3. R!IInv'
  BY <1>2, ReadFreeIs, R!FreeInv, ReadAssumptions DEF IInv, Reading, R!Calls, FreeReader
<1>4. Writing'
  <2>1. entry' = entry
    BY DEF FreeReader, ReadFree, stream
  <2>. QED  BY <2>1, EntryIsCount, WritingStays DEF IInv, FreeReader
<1>5. UNCHANGED <<blocks, contents, fresh, ec, ret, failed, state>> /\ rstate' = "freed"
  BY DEF FreeReader, ReadFree, wdvars
<1>6. Phased'
  BY <1>1, <1>5 DEF IInv, Phased
<1>. QED  BY <1>3, <1>4, <1>5, <1>6 DEF IInv, Reading

LEMMA CloseWriterInv ==
    ASSUME IInv, CloseWriter \/ FreeWriter
    PROVE  IInv' /\ OnlyNamed
<1>1. /\ ret = TRUE /\ pc \in {"write_close", "write_free"} /\ rstate = "freed"
      /\ pc' = IF CloseWriter THEN "write_free" ELSE "done"
  BY DEF IInv, Phased, CloseWriter, FreeWriter
<1>2. UNCHANGED <<contents, fresh, ec, ret, failed, rstate, rvars>>
  BY DEF CloseWriter, FreeWriter, rvars
<1>3. Opening' = Opening
  BY <1>1, <1>2 DEF Opening
<1>4. Reading'
  BY <1>2, <1>3, ReadingStays DEF IInv
<1>5. /\ Writing' /\ OnlyNamed
      /\ Close => state' \in {"header", "data"}
      /\ Free => state' = "freed"
  <2>1. UNCHANGED entry
    BY <1>2 DEF rvars, stream
  <2>. QED  BY <1>1, <1>2, <2>1, CloseWrites DEF CloseWriter, FreeWriter
<1>6. Phased'
  BY <1>1, <1>2, <1>5 DEF IInv, Phased, CloseWriter, FreeWriter
<1>. QED  BY <1>4, <1>5, <1>6 DEF IInv

\* Steps of the handle that reads leave the disk alone.
LEMMA ReadingWritesNothing ==
    New \/ OpenArchive \/ NextEntry \/ CopyRead \/ CloseReader \/ FreeReader \/ UNCHANGED vars => OnlyNamed
BY DEF New, OpenArchive, NextEntry, CopyRead, CloseReader, FreeReader, vars, wdvars, OnlyNamed

LEMMA NextKeepsInv == IInv /\ [Next]_vars => IInv' /\ OnlyNamed
<1>. SUFFICES ASSUME IInv, [Next]_vars PROVE IInv' /\ OnlyNamed
  OBVIOUS
<1>1. CASE UNCHANGED vars
  <2>1. UNCHANGED <<rvars, wdvars, contents, pc, ret, ec, failed, fresh>>
    BY <1>1 DEF vars
  <2>2. Opening' = Opening
    BY <2>1 DEF Opening
  <2>3. Reading' /\ Writing'
    <3>1. entry' = entry
      BY <2>1 DEF rvars, stream
    <3>. QED  BY <2>1, <2>2, <3>1, EntryIsCount, ReadingStays, WritingStays DEF IInv
  <2>4. Phased'
    BY <2>1 DEF IInv, Phased, rvars, stream, wdvars
  <2>. QED  BY <1>1, <2>3, <2>4, ReadingWritesNothing DEF IInv
<1>2. CASE New \/ OpenArchive \/ NextEntry \/ CopyRead \/ CloseReader \/ FreeReader
  BY <1>2, NewInv, OpenInv, NextEntryInv, CopyReadInv, CloseReaderInv, FreeReaderInv, ReadingWritesNothing
<1>3. CASE WriteHeader \/ CopyWrite \/ CloseWriter \/ FreeWriter
  BY <1>3, WriteHeaderInv, CopyWriteInv, CloseWriterInv
<1>. QED  BY <1>1, <1>2, <1>3 DEF Next, Done

\* The invariant from which the properties follow holds after every step.
THEOREM InvHolds == Spec => []IInv
<1>1. IInv /\ [Next]_vars => IInv'
  BY NextKeepsInv
<1>. QED  BY <1>1, InitInv, PTL DEF Spec
-----------------------------------------------------------------------------
(* The properties. *)

LEMMA InvTypeOK == IInv => TypeOK
<1>. SUFFICES ASSUME IInv PROVE TypeOK
  OBVIOUS
<1>1. rret \in RetRead
  BY DEF IInv, Reading, R!IInv, R!TypeOK, R!RetRead, RetRead
<1>2. wret \in Ret
  BY DEF IInv, Writing, W!HandleOK, W!Ret, Ret
<1>3. pc \in {"header", "copy", "write"} => entry \in DOMAIN contents /\ rstate = "data"
  BY EntryIsRead DEF IInv, Phased
<1>. QED  BY <1>1, <1>2, <1>3 DEF IInv, Phased, TypeOK

\* TypeOK: every variable has its type, and an entry is only written or copied when it has
\* been read.
THEOREM TypeCorrect == Spec => []TypeOK
<1>. QED  BY InvTypeOK, InvHolds, PTL

\* ProtocolIsKept: Extractor::Extract calls neither handle in a state that the call is not meant
\* for, so that no handle becomes fatal but by a failing file, and it does not go on in a
\* stream that has lost its place.
THEOREM ProtocolKept == Spec => []ProtocolIsKept
<1>1. IInv => ProtocolIsKept
  BY InvTypeOK DEF IInv, Phased, ProtocolIsKept
<1>. QED  BY <1>1, InvHolds, PTL

\* DataBelongsToItsEntry: what copy_data has written is in the file of the entry whose header
\* came before, in its place, and the file is where that entry says, whatever failed.
THEOREM DataIsInPlace == Spec => []DataBelongsToItsEntry
<1>1. IInv => DataBelongsToItsEntry
  BY DEF IInv, Writing, Placed, W!OwnData, W!Own, DataBelongsToItsEntry
<1>. QED  BY <1>1, InvHolds, PTL

\* OnlyNamedPlacesChange: no call changes what no entry leads to that was read and not refused by
\* is_harmful_path; the files that are cut or filled at the end of an entry and the fixups of
\* directories included.  Where no entry has a rooted path, archive_entry_set_pathname_utf8 has
\* put all of them below the destination, and nothing changes but there and above.
THEOREM RestIsUntouched == Spec => OnlyNamedPlacesChange
<1>. DEFINE A == \A p \in Paths : disk'[p] # disk[p] =>
                    /\ Named(p)
                    /\ Inside(p) \/ p \in Ancestors(Dest) \/ \E i \in DOMAIN contents : contents[i].rooted
<1>1. ASSUME IInv, NEW p \in Paths, Named(p)
      PROVE  Inside(p) \/ p \in Ancestors(Dest) \/ \E i \in DOMAIN contents : contents[i].rooted
  <2>1. PICK i \in DOMAIN contents : p \in Ancestors(Place(contents[i])) \cup {Place(contents[i])}
    BY <1>1 DEF Named
  <2>2. contents[i] \in Entry
    BY <1>1, EntriesAre DEF IInv, Phased
  <2>. QED  BY <2>1, <2>2, PlaceIs
<1>2. IInv /\ [Next]_vars => [A]_vars
  BY <1>1, NextKeepsInv DEF OnlyNamed
<1>. QED  BY <1>2, InvHolds, PTL DEF Spec, OnlyNamedPlacesChange

\* EverythingIsReleased: whichever return of Extract is taken, the closer has closed and freed
\* both handles, the archive file was closed once and no file is left open.
THEOREM AllIsReleased == Spec => []EverythingIsReleased
<1>1. IInv => EverythingIsReleased
  <2>. SUFFICES ASSUME IInv, pc = "done", ret
                PROVE  rstate = "freed" /\ state = "freed" /\ clientCloses = 1 /\ ~fh
    BY DEF EverythingIsReleased
  <2>1. rstate = "freed" /\ state = "freed"
    BY DEF IInv, Phased
  <2>2. Opening
    BY DEF Opening
  <2>3. clientCloses = 1
    BY <2>1, <2>2, R!InvCloses, ReadAssumptions DEF IInv, Reading, R!ClosedExactlyOnce
  <2>4. ~fh
    BY <2>1 DEF IInv, Writing, W!HandleOK
  <2>. QED  BY <2>1, <2>3, <2>4
<1>. QED  BY <1>1, InvHolds, PTL
-----------------------------------------------------------------------------
(* What is extracted when nothing fails. *)

\* Where an entry goes.
At(i) == Dest \o contents[i].path

\* Nothing has failed, and nothing in the archive or on the disk is in the way.
Clean ==
    /\ fresh /\ Extractable /\ \A i \in DOMAIN contents : contents[i].type # "link"
    /\ faults = 0 /\ rfaults = 0

\* The object of the kind k with the blocks s is the entry e, the i-th, extracted.
Whole(k, s, e, i) ==
    /\ k = IF e.type = "dir" THEN "dir" ELSE "file"
    /\ e.type = "reg" => Len(s) = IF e.size >= 0 THEN e.size ELSE e.blocks
    /\ e.type = "reg" => \A n \in 1 .. e.blocks : s[n] = <<i, n - 1>>

\* s is the first n blocks of the i-th entry.
Holds(s, i, n) == Len(s) = n /\ \A k \in 1 .. n : s[k] = <<i, k - 1>>

\* The last entry that was given to header, and how many blocks of the present one were written.
Handled == IF pc = "header" THEN entry - 1 ELSE entry
Passed == CASE pc = "copy" -> read
            [] pc = "write" -> read - 1
            [] OTHER -> contents[cur.id].blocks

\* Every entry that was given to header is there, but for the end of the one that is open.
AllWhole ==
    \A i \in 1 .. Handled : (fh /\ i = cur.id) \/ Whole(disk[At(i)].kind, disk[At(i)].data, contents[i], i)

\* The entry that is open has the blocks that were read.
Growing ==
    fh => /\ cur.id \in 1 .. Handled /\ contents[cur.id].type = "reg"
          /\ cur.path = At(cur.id) /\ cur.size = contents[cur.id].size
          /\ offset = Passed /\ Holds(disk[cur.path].data, cur.id, Passed)

\* No directory is where a file will go.
Unblocked == \A i \in DOMAIN contents : i > Handled /\ contents[i].type = "reg" => disk[At(i)].kind # "dir"

\* The reader is where the next call needs it, and only the end of the archive ends the loop.
Kept ==
    /\ pc = "header" => read = 0
    /\ pc \in {"copy", "write"} /\ contents[entry].type = "reg" => fh
    /\ pc \in {"read_close", "read_free", "write_close", "write_free"} \/ (pc = "done" /\ ret) => entry = Len(contents)

Complete == AllWhole /\ Growing /\ Unblocked /\ Kept

CInv == Clean => Complete

\* Paths below the destination are related as they are in the archive.
LEMMA BelowAsInTheArchive ==
    ASSUME NEW p \in Paths, Dest \o p \in Paths, NEW q \in Paths, Dest \o q \in Paths
    PROVE  /\ Dest \o p = Dest \o q => p = q
           /\ Dest \o p \in Ancestors(Dest \o q) => p \in Ancestors(q)
<1>. DEFINE U == {Dest[k] : k \in DOMAIN Dest} \cup {p[k] : k \in DOMAIN p} \cup {q[k] : k \in DOMAIN q}
<1>1. Dest \in Seq(U) /\ p \in Seq(U) /\ q \in Seq(U)
  <2>1. Dest \in Seq({Dest[k] : k \in DOMAIN Dest}) /\ p \in Seq({p[k] : k \in DOMAIN p}) /\ q \in Seq({q[k] : k \in DOMAIN q})
    BY PathsAssumption, DestAssumption DEF PathsAssumption, DestAssumption
  <2>2. \A S, T : S \subseteq T => Seq(S) \subseteq Seq(T)
    OBVIOUS
  <2>. QED  BY <2>1, <2>2
<1>. HIDE DEF U
<1>2. Dest \o p = Dest \o q => p = q
  BY <1>1, ConcatSimplifications
<1>3. ASSUME Dest \o p \in Ancestors(Dest \o q)
      PROVE  p \in Ancestors(q)
  <2>1. /\ Len(Dest) \in Nat /\ Len(p) \in Nat /\ Len(q) \in Nat
        /\ Len(Dest \o q) = Len(Dest) + Len(q) /\ Len(Dest \o p) = Len(Dest) + Len(p)
    BY <1>1, ConcatProperties
  <2>2. PICK k \in 0 .. Len(Dest \o q) - 1 : Dest \o p = SubSeq(Dest \o q, 1, k)
    BY <1>3 DEF Ancestors
  <2>3. k \in 0 .. Len(Dest \o q)
    BY <2>1, <2>2
  <2>4. k = Len(Dest) + Len(p)
    BY <2>1, <2>2, <2>3, W!PathIsSeq, WriteAssumptions
  <2>5. Len(p) \in 0 .. Len(q) - 1
    BY <2>1, <2>2, <2>4
  <2>6. p = SubSeq(q, 1, Len(p))
    <3>1. CASE Len(p) = 0
      BY <1>1, <3>1, EmptySeq, SubSeqEmpty
    <3>2. CASE Len(p) > 0
      <4>1. Len(Dest) + 1 \in Len(Dest) + 1 .. Len(Dest) + Len(q) /\ k \in Len(Dest) + 1 .. Len(Dest) + Len(q)
        BY <2>1, <2>4, <2>5, <3>2
      <4>2. SubSeq(Dest \o q, Len(Dest) + 1, k) = SubSeq(q, Len(Dest) + 1 - Len(Dest), k - Len(Dest))
        BY <1>1, <4>1, SubSeqOfConcat2
      <4>3. Len(Dest) + 1 \in Len(Dest) + 1 .. Len(Dest) + Len(p) /\ k \in Len(Dest) + 1 .. Len(Dest) + Len(p)
        BY <2>1, <2>4, <3>2
      <4>4. SubSeq(Dest \o p, Len(Dest) + 1, k) = SubSeq(p, Len(Dest) + 1 - Len(Dest), k - Len(Dest))
        BY <1>1, <4>3, SubSeqOfConcat2
      <4>5. Len(Dest) + 1 - Len(Dest) = 1 /\ k - Len(Dest) = Len(p)
        BY <2>1, <2>4
      <4>6. SubSeq(p, 1, Len(p)) = p
        BY <1>1, SubSeqFull
      <4>7. SubSeq(SubSeq(Dest \o q, 1, k), Len(Dest) + 1, k) = SubSeq(Dest \o q, Len(Dest) + 1, k)
        <5>1. Dest \o q \in Seq(U)
          BY <1>1, ConcatProperties
        <5>2. 1 \in 1 .. Len(Dest \o q) /\ k \in 1 .. Len(Dest \o q) /\ Len(Dest) + 1 \in 1 .. k - 1 + 1 /\ k \in 1 .. k - 1 + 1
          BY <2>1, <2>3, <2>4, <3>2
        <5>3. SubSeq(SubSeq(Dest \o q, 1, k), Len(Dest) + 1, k) = SubSeq(Dest \o q, 1 + (Len(Dest) + 1) - 1, 1 + k - 1)
          BY <5>1, <5>2, SubSeqOfSubSeq
        <5>4. 1 + (Len(Dest) + 1) - 1 = Len(Dest) + 1 /\ 1 + k - 1 = k
          BY <2>1, <2>4
        <5>. QED  BY <5>3, <5>4
      <4>. QED  BY <2>2, <4>2, <4>4, <4>5, <4>6, <4>7
    <3>. QED  BY <2>1, <3>1, <3>2
  <2>. QED  BY <2>5, <2>6, Zenon DEF Ancestors
<1>. QED  BY <1>2, <1>3

\* Where there is no destination there is nothing below it.
LEMMA NothingBelow ==
    ASSUME NEW d, WellFormed(d), d[Dest].kind = "none"
    PROVE  \A p \in Paths : Inside(p) => d[p].kind = "none"
<1>. DEFINE Bad(p) == Inside(p) /\ d[p].kind # "none"
            S == {Len(p) : p \in {q \in Paths : Bad(q)}}
<1>1. S \subseteq Nat
  BY W!PathIsSeq, WriteAssumptions
<1>2. ASSUME S # {} PROVE FALSE
  <2>1. \E m \in S : \A k \in S : m <= k
    <3>. HIDE DEF S
    <3>. QED  BY <1>1, <1>2, W!LeastOf, WriteAssumptions
  <2>2. PICK p \in Paths : Bad(p) /\ \A k \in S : Len(p) <= k
    BY <2>1
  <2>3. p # Dest /\ Dest \in Ancestors(p)
    BY <2>2 DEF Inside
  <2>4. PICK n \in 0 .. Len(p) - 1 : Dest = SubSeq(p, 1, n)
    BY <2>3 DEF Ancestors
  <2>5. Len(p) \in Nat /\ p # <<>>
    <3>1. Len(p) \in Nat
      BY W!PathIsSeq, WriteAssumptions
    <3>2. Len(p) >= 1
      BY <2>4, <3>1
    <3>. QED  BY <3>1, <3>2
  <2>6. Parent(p) \in Paths /\ Len(Parent(p)) = Len(p) - 1 /\ d[Parent(p)].kind = "dir"
    <3>1. d[Parent(p)].kind = "dir"
      BY <2>2, <2>5 DEF WellFormed
    <3>2. Len(p) - 1 \in 0 .. Len(p)
      BY <2>4, <2>5
    <3>. QED  BY <3>1, <3>2, W!PathIsSeq, WriteAssumptions DEF Parent
  <2>7. Inside(Parent(p))
    <3>1. CASE n = Len(p) - 1
      BY <2>4, <3>1 DEF Inside, Parent
    <3>2. CASE n # Len(p) - 1
      <4>1. n \in 0 .. Len(Parent(p)) - 1 /\ Len(p) - 1 \in 0 .. Len(p) /\ n \in 0 .. Len(p) - 1
        BY <2>4, <2>5, <2>6, <3>2
      <4>2. Dest = SubSeq(Parent(p), 1, n)
        BY <2>4, <4>1, W!PrefixOfPrefix, WriteAssumptions DEF Parent
      <4>. QED  BY <4>1, <4>2 DEF Inside, Ancestors
    <3>. QED  BY <3>1, <3>2
  <2>8. Len(Parent(p)) \in S
    BY <2>6, <2>7
  <2>9. Len(p) <= Len(Parent(p))
    <3>. HIDE DEF S
    <3>. QED  BY <2>2, <2>8
  <2>. QED  BY <2>5, <2>6, <2>9
<1>. QED  BY <1>2

\* Entries of such an archive go to different places, and files are above none.
LEMMA PlacesDiffer ==
    ASSUME contents \in Archives, Extractable, NEW i \in DOMAIN contents
    PROVE  /\ At(i) \in Paths /\ Inside(At(i))
           /\ \A j \in DOMAIN contents : j # i =>
                At(j) # At(i) /\ (At(j) \in Ancestors(At(i)) => contents[j].type = "dir")
<1>1. \A j \in DOMAIN contents : contents[j].path \in Paths /\ At(j) \in Paths
  BY EntriesAre DEF Entry, At, Extractable
<1>2. At(i) \in Paths /\ Inside(At(i))
  BY <1>1, BelowTheDestination DEF At
<1>3. ASSUME NEW j \in DOMAIN contents, j # i
      PROVE  At(j) # At(i) /\ (At(j) \in Ancestors(At(i)) => contents[j].type = "dir")
  <2>1. /\ At(j) = At(i) => contents[j].path = contents[i].path
        /\ At(j) \in Ancestors(At(i)) => contents[j].path \in Ancestors(contents[i].path)
    BY <1>1, BelowAsInTheArchive DEF At
  <2>2. contents[j].path # contents[i].path /\ (contents[j].path \in Ancestors(contents[i].path) => contents[j].type = "dir")
    BY <1>3 DEF Extractable
  <2>. QED  BY <2>1, <2>2
<1>. QED  BY <1>2, <1>3

\* A file that has all the blocks of its entry is whole when it has been given its size.
LEMMA ResizedIsWhole ==
    ASSUME NEW B, Zero \in B, NEW s \in Seq(B), NEW e \in Entry, e.type = "reg", e.size >= 0, e.blocks <= e.size,
           NEW i, Holds(s, i, e.blocks)
    PROVE  Whole("file", W!Resize(s, e.size), e, i)
<1>1. e.size \in Nat /\ e.blocks \in Nat
  BY DEF Entry
<1>2. PICK n \in Nat : n = e.size
  BY <1>1
<1>3. PICK m \in Nat : m = e.blocks
  BY <1>1
<1>. DEFINE u == W!Resize(s, n)
<1>4. Len(u) = n /\ \A k \in 1 .. n : u[k] = IF k <= Len(s) THEN s[k] ELSE Zero
  BY W!ResizeIs, WriteAssumptions
<1>. HIDE DEF u
<1>5. Len(s) = m /\ m <= n /\ \A k \in 1 .. m : s[k] = <<i, k - 1>>
  BY <1>2, <1>3 DEF Holds
<1>6. \A k \in 1 .. m : u[k] = <<i, k - 1>>
  BY <1>4, <1>5
<1>7. Whole("file", u, e, i)
  BY <1>2, <1>3, <1>4, <1>6 DEF Whole
<1>. QED  BY <1>2, <1>7 DEF u

\* When the present entry has been finished every entry that was given to header is there.
LEMMA FinishedAreWhole ==
    ASSUME IInv, Complete, Clean, pc \notin {"copy", "write"}, NEW i \in 1 .. Handled, i \in DOMAIN contents
    PROVE  Whole(disk[At(i)].kind, W!FinishedData(At(i)), contents[i], i)
<1>. DEFINE e == contents[i]
            s == disk[At(i)].data
<1>1. e \in Entry /\ e.size \in Int /\ e.blocks \in Nat /\ At(i) \in Paths
  BY EntriesAre, PlacesDiffer DEF IInv, Phased, Clean, Entry
<1>2. CASE fh /\ i = cur.id
  <2>1. /\ e.type = "reg" /\ cur.path = At(i) /\ cur.size = e.size
        /\ offset = e.blocks /\ Holds(s, i, e.blocks)
    BY <1>2 DEF Complete, Growing, Passed
  <2>2. disk[At(i)].kind = "file"
    BY <1>2, <2>1 DEF IInv, Writing, W!HandleOK
  <2>3. e.size >= 0 => e.blocks <= e.size
    BY <2>1 DEF Clean, Extractable
  <2>4. CASE e.size >= 0 /\ e.blocks # e.size
    <3>1. W!FinishedData(At(i)) = W!Resize(s, e.size)
      BY <1>2, <2>1, <2>4 DEF W!FinishedData, W!SizeIsOff
    <3>2. s \in Seq(Blocks) /\ Zero \in Blocks /\ e.size \in Nat
      BY <1>1, <2>4 DEF IInv, Writing, W!HandleOK, W!IsDisk, W!Object, Blocks
    <3>3. Whole("file", W!Resize(s, e.size), e, i)
      <4>1. PICK B, ss, ee : B = Blocks /\ ss = s /\ ee = e
        OBVIOUS
      <4>. HIDE DEF e, s
      <4>2. Whole("file", W!Resize(ss, ee.size), ee, i)
        BY <1>1, <2>1, <2>3, <2>4, <3>2, <4>1, ResizedIsWhole
      <4>. QED  BY <4>1, <4>2
    <3>. QED  BY <2>2, <3>1, <3>3
  <2>5. CASE ~(e.size >= 0 /\ e.blocks # e.size)
    <3>1. W!FinishedData(At(i)) = s
      BY <1>1, <2>1, <2>5 DEF W!FinishedData, W!SizeIsOff
    <3>. HIDE DEF e, s
    <3>. QED  BY <1>1, <2>1, <2>2, <2>5, <3>1 DEF Whole, Holds, e
  <2>. QED  BY <2>4, <2>5
<1>3. CASE ~(fh /\ i = cur.id)
  <2>1. Whole(disk[At(i)].kind, s, e, i)
    BY <1>3 DEF Complete, AllWhole
  <2>2. W!FinishedData(At(i)) = s
    <3>1. CASE ~fh
      BY <3>1 DEF W!FinishedData, W!SizeIsOff
    <3>2. CASE fh
      <4>1. cur.path = At(cur.id) /\ cur.id \in 1 .. Handled
        BY <3>2 DEF Complete, Growing
      <4>2. cur.id \in DOMAIN contents
        <5>1. cur.id >= 1 /\ cur.id \in 0 .. Len(contents) /\ Len(contents) \in Nat
          BY <4>1, EntriesAre DEF IInv, Phased, Writing, W!HandleOK
        <5>. QED  BY <5>1, EntriesAre DEF IInv, Phased
      <4>3. At(cur.id) # At(i)
        BY <1>3, <3>2, <4>2, PlacesDiffer DEF IInv, Phased, Clean
      <4>. QED  BY <4>1, <4>3 DEF W!FinishedData
    <3>. QED  BY <3>1, <3>2
  <2>. QED  BY <2>1, <2>2
<1>. QED  BY <1>2, <1>3

\* A step that leaves the disk alone and the count of what was passed on as it is.
LEMMA CompleteStays ==
    ASSUME Complete, UNCHANGED <<wdvars, contents>>, Handled' = Handled, Passed' = Passed, Kept'
    PROVE  Complete'
<1>1. UNCHANGED <<disk, cur, fh, offset, contents>>
  BY DEF wdvars
<1>2. \A i : At(i)' = At(i)
  BY <1>1 DEF At
<1>3. AllWhole'
  BY <1>1, <1>2 DEF Complete, AllWhole
<1>4. Growing'
  BY <1>1, <1>2 DEF Complete, Growing
<1>5. Unblocked'
  BY <1>1, <1>2 DEF Complete, Unblocked
<1>. QED  BY <1>3, <1>4, <1>5 DEF Complete

LEMMA InitComplete == Init => CInv
<1>. SUFFICES ASSUME Init, Clean PROVE Complete
  BY DEF CInv
<1>1. PICK d \in Disks : Ready(d) /\ fresh = (d[Dest].kind = "none")
  BY DEF Init
<1>2. disk = d /\ fh = FALSE /\ entry = 0 /\ pc = "new" /\ contents \in Archives
  BY <1>1 DEF Init, Ready, ReadReady
<1>3. d[Dest].kind = "none" /\ WellFormed(d)
  BY <1>1, DisksAssumption DEF Clean, DisksAssumption
<1>4. \A i \in DOMAIN contents : disk[At(i)].kind = "none"
  BY <1>2, <1>3, NothingBelow, PlacesDiffer DEF Clean
<1>. QED  BY <1>2, <1>4 DEF Complete, AllWhole, Growing, Unblocked, Kept, Handled

\* The archive and what was there before do not change.
LEMMA CleanBefore ==
    ASSUME Clean', UNCHANGED <<contents, fresh>>, faults = 0, rfaults = 0
    PROVE  Clean
BY DEF Clean, Extractable

LEMMA NewComplete ==
    ASSUME IInv, CInv, New
    PROVE  CInv'
<1>1. UNCHANGED <<rvars, wdvars, contents, fresh>> /\ pc = "new" /\ pc' \in {"open", "done"} /\ (pc' = "done" => ret' = FALSE)
  BY DEF New
<1>2. UNCHANGED <<rfaults, faults, entry, read, cur, fh>>
  BY <1>1 DEF rvars, wdvars, stream
<1>. SUFFICES ASSUME Clean' PROVE Complete'
  BY DEF CInv
<1>3. Clean
  BY <1>1, <1>2, CleanBefore DEF Clean
<1>4. Handled' = Handled /\ Passed' = Passed
  BY <1>1, <1>2 DEF Handled, Passed
<1>5. Kept'
  BY <1>1 DEF Kept
<1>. QED  BY <1>1, <1>3, <1>4, <1>5, CompleteStays DEF CInv

LEMMA OpenComplete ==
    ASSUME IInv, CInv, OpenArchive
    PROVE  CInv'
<1>. SUFFICES ASSUME Clean' PROVE Complete'
  BY DEF CInv
<1>1. UNCHANGED <<wdvars, contents, fresh>> /\ pc = "open"
  BY DEF OpenArchive
<1>2. R!Open
  BY OpenIs DEF OpenArchive
<1>3. rfaults = 0 /\ rret' = "ok" /\ UNCHANGED <<entry, read>>
  BY <1>2, R!OpenSucceeds, ReadAssumptions DEF IInv, Reading, Clean
<1>4. UNCHANGED <<faults, cur>>
  BY <1>1 DEF wdvars
<1>5. Clean
  BY <1>1, <1>3, <1>4, CleanBefore DEF Clean
<1>6. pc' = "next"
  BY <1>3 DEF OpenArchive, ReturnUnless
<1>7. Handled' = Handled /\ Passed' = Passed
  BY <1>1, <1>3, <1>4, <1>6 DEF Handled, Passed
<1>8. Kept'
  BY <1>6 DEF Kept
<1>. QED  BY <1>1, <1>5, <1>7, <1>8, CompleteStays DEF CInv

LEMMA NextEntryComplete ==
    ASSUME IInv, CInv, NextEntry
    PROVE  CInv'
<1>. SUFFICES ASSUME Clean' PROVE Complete'
  BY DEF CInv
<1>1. UNCHANGED <<wdvars, contents, fresh>> /\ pc = "next" /\ rstate \in {"header", "data"}
  BY DEF NextEntry, IInv, Phased
<1>2. R!NextHeader
  BY NextHeaderIs DEF NextEntry
<1>3. /\ rfaults = 0
      /\ \/ rret' = "ok" /\ entry < Len(blocks) /\ entry' = entry + 1 /\ read' = 0
         \/ rret' = "eof" /\ entry = Len(blocks) /\ entry' = entry
  BY <1>1, <1>2, R!HeaderSucceeds, ReadAssumptions DEF IInv, Reading, Clean
<1>4. UNCHANGED <<faults, cur>>
  BY <1>1 DEF wdvars
<1>5. Clean
  BY <1>1, <1>3, <1>4, CleanBefore DEF Clean
<1>6. Len(blocks) = Len(contents) /\ Len(contents) \in Nat /\ entry \in Nat
  BY EntriesAre DEF IInv, Phased, Reading, R!IInv, R!TypeOK
<1>7. CASE rret' = "ok"
  <2>1. entry' = entry + 1 /\ read' = 0 /\ entry + 1 \in DOMAIN contents
    BY <1>3, <1>6, <1>7, EntriesAre DEF IInv, Phased
  <2>2. ~contents[entry'].harmful
    BY <1>5, <2>1 DEF Clean, Extractable
  <2>3. pc' = "header"
    BY <1>7, <2>2 DEF NextEntry, ReturnUnless
  <2>4. Handled' = Handled /\ Passed' = Passed
    BY <1>1, <1>4, <1>6, <2>1, <2>3 DEF Handled, Passed
  <2>5. Kept'
    BY <2>1, <2>3 DEF Kept
  <2>. QED  BY <1>1, <1>5, <2>4, <2>5, CompleteStays DEF CInv
<1>8. CASE rret' = "eof"
  <2>1. pc' = "read_close" /\ entry' = entry /\ entry = Len(contents)
    BY <1>3, <1>6, <1>8 DEF NextEntry
  <2>2. Handled' = Handled /\ Passed' = Passed
    BY <1>1, <1>4, <2>1 DEF Handled, Passed
  <2>3. Kept'
    BY <1>1, <2>1 DEF Kept
  <2>. QED  BY <1>1, <1>5, <2>2, <2>3, CompleteStays DEF CInv
<1>. QED  BY <1>3, <1>7, <1>8

\* The entry before is finished, and this one begins.
LEMMA WriteHeaderComplete ==
    ASSUME IInv, CInv, WriteHeader
    PROVE  CInv'
<1>. SUFFICES ASSUME Clean' PROVE Complete'
  BY DEF CInv
<1>1. UNCHANGED <<rvars, contents, fresh>> /\ pc = "header" /\ Header(EntryToWrite(contents[entry]), entry)
  BY DEF WriteHeader
<1>2. UNCHANGED <<rfaults, entry, read>>
  BY <1>1 DEF rvars, stream
<1>3. Len(contents) \in Nat /\ entry \in DOMAIN contents /\ DOMAIN contents = 1 .. Len(contents) /\ contents \in Archives
  BY EntryIsRead, EntriesAre, <1>1 DEF IInv, Phased
<1>4. Extractable /\ contents[entry].type \in {"reg", "dir"}
  <2>1. Extractable /\ contents[entry].type # "link"
    BY <1>1, <1>3 DEF Clean, Extractable
  <2>2. contents[entry].type \in {"reg", "dir", "link"}
    BY <1>3, EntriesAre DEF Entry
  <2>. QED  BY <2>1, <2>2
<1>. PICK M \in Nat : M = Len(contents)
  BY <1>3, Zenon
<1>. PICK B : B = Blocks
  OBVIOUS
<1>. PICK id \in 1 .. M : id = entry
  BY <1>3
<1>. PICK x : x = EntryToWrite(contents[entry])
  OBVIOUS
<1>5. /\ W!IsEntry(x) /\ x.path = At(id) /\ x.type = contents[id].type /\ x.type \in {"reg", "dir"}
      /\ ~x.dots /\ x.size = contents[id].size
  <2>1. W!IsEntry(x) /\ x.path = At(id) /\ x.type = contents[id].type
    BY <1>3, <1>4, EntryToWriteIs DEF At, Place, Extractable
  <2>2. ~x.dots /\ x.size = contents[id].size
    BY <1>3, <1>4 DEF EntryToWrite, Extractable
  <2>. QED  BY <1>4, <2>1, <2>2
<1>6. W!Header(x, id)
  BY <1>1, HeaderIs
<1>7. W!HandleOK(M, B) /\ Zero \in B /\ state \in {"header", "data"}
  BY <1>1 DEF IInv, Phased, Writing, Blocks
<1>8. faults' = 0 /\ faults = 0
  <2>1. faults' = 0
    BY DEF Clean
  <2>. QED  BY <1>5, <1>6, <1>7, <2>1, W!HeaderFailures, WriteAssumptions
<1>9. Clean
  BY <1>1, <1>2, <1>8, CleanBefore DEF Clean
<1>10. Complete
  BY <1>9 DEF CInv
<1>11. x.type = "reg" => disk[x.path].kind # "dir"
  <2>1. id \in DOMAIN contents /\ id > Handled
    BY <1>1, <1>3 DEF Handled
  <2>. QED  BY <1>5, <1>10, <2>1 DEF Complete, Unblocked
<1>12. W!Begun(x, id)
  BY <1>5, <1>6, <1>7, <1>8, <1>11, W!HeaderSucceeds, WriteAssumptions
<1>13. cur'.id = id /\ cur'.path = x.path
  BY <1>5, <1>6, <1>7, W!HeaderMakes, WriteAssumptions
<1>14. pc' = "copy" /\ Handled' = id /\ Handled = id - 1 /\ Passed' = 0
  <2>1. pc' = "copy" /\ read = 0
    BY <1>1, <1>10, <1>12 DEF WriteHeader, ReturnUnless, Complete, Kept, W!Begun
  <2>. QED  BY <1>1, <1>2, <2>1 DEF Handled, Passed
<1>15. \A i : At(i)' = At(i)
  BY <1>1 DEF At
<1>16. ASSUME NEW i \in DOMAIN contents, i # id
       PROVE  /\ At(i) \in Paths /\ At(i) # x.path
              /\ At(i) \in W!Ancestors(x.path) => contents[i].type = "dir"
  BY <1>3, <1>4, <1>5, <1>16, PlacesDiffer, AncestorsAre
<1>17. ASSUME NEW i \in 1 .. id - 1
       PROVE  Whole(disk'[At(i)].kind, disk'[At(i)].data, contents[i], i)
  <2>1. i \in DOMAIN contents /\ i # id /\ i \in 1 .. Handled
    BY <1>3, <1>14
  <2>2. Whole(disk[At(i)].kind, W!FinishedData(At(i)), contents[i], i)
    BY <1>1, <1>9, <1>10, <2>1, FinishedAreWhole
  <2>3. CASE At(i) \in W!Ancestors(x.path)
    <3>1. contents[i].type = "dir"
      BY <1>16, <2>1, <2>3
    <3>2. disk[At(i)].kind = "dir"
      BY <2>2, <3>1 DEF Whole
    <3>3. disk'[At(i)].kind = "dir"
      BY <1>12, <1>16, <2>1, <3>2 DEF W!Begun
    <3>. QED  BY <3>1, <3>3 DEF Whole
  <2>4. CASE At(i) \notin W!Ancestors(x.path)
    <3>1. disk'[At(i)].kind = disk[At(i)].kind /\ disk'[At(i)].data = W!FinishedData(At(i))
      BY <1>12, <1>16, <2>1, <2>4 DEF W!Begun
    <3>. QED  BY <2>2, <3>1
  <2>. QED  BY <2>3, <2>4
<1>18. AllWhole'
  <2>. SUFFICES ASSUME NEW i \in 1 .. id
                PROVE  (fh' /\ i = cur'.id) \/ Whole(disk'[At(i)].kind, disk'[At(i)].data, contents[i], i)
    BY <1>1, <1>14, <1>15 DEF AllWhole
  <2>1. CASE i = id /\ x.type = "reg"
    BY <1>12, <1>13, <2>1 DEF W!Begun
  <2>2. CASE i = id /\ x.type = "dir"
    <3>1. disk'[At(i)].kind = "dir" /\ contents[i].type = "dir"
      BY <1>5, <1>12, <2>2 DEF W!Begun
    <3>. QED  BY <3>1 DEF Whole
  <2>3. CASE i # id
    BY <1>17, <2>3
  <2>. QED  BY <1>5, <2>1, <2>2, <2>3
<1>19. Growing'
  <2>. SUFFICES ASSUME fh'
                PROVE  /\ cur'.id \in 1 .. id /\ contents[cur'.id].type = "reg"
                       /\ cur'.path = At(cur'.id) /\ cur'.size = contents[cur'.id].size
                       /\ offset' = 0 /\ Holds(disk'[cur'.path].data, cur'.id, 0)
    BY <1>1, <1>14, <1>15 DEF Growing
  <2>1. x.type = "reg"
    BY <1>12 DEF W!Begun
  <2>2. Holds(disk'[x.path].data, id, 0)
    <3>1. disk'[x.path].data = <<>>
      BY <1>12, <2>1 DEF W!Begun
    <3>. QED  BY <3>1 DEF Holds
  <2>. QED  BY <1>5, <1>12, <1>13, <2>1, <2>2 DEF W!Begun
<1>20. Unblocked'
  <2>. SUFFICES ASSUME NEW i \in DOMAIN contents, i > id, contents[i].type = "reg"
                PROVE  disk'[At(i)].kind # "dir"
    BY <1>1, <1>14, <1>15 DEF Unblocked
  <2>1. i # id /\ i > Handled
    BY <1>3, <1>14
  <2>2. disk[At(i)].kind # "dir"
    BY <1>10, <2>1 DEF Complete, Unblocked
  <2>3. At(i) \notin W!Ancestors(x.path) \cup {x.path} /\ At(i) \in Paths
    BY <1>16, <2>1
  <2>. QED  BY <1>12, <2>2, <2>3 DEF W!Begun
<1>21. Kept'
  BY <1>1, <1>2, <1>5, <1>12, <1>14 DEF Kept, W!Begun
<1>. QED  BY <1>18, <1>19, <1>20, <1>21 DEF Complete

LEMMA CopyReadComplete ==
    ASSUME IInv, CInv, CopyRead
    PROVE  CInv'
<1>. SUFFICES ASSUME Clean' PROVE Complete'
  BY DEF CInv
<1>1. UNCHANGED <<wdvars, contents, fresh>> /\ pc = "copy" /\ ReadDataBlock /\ rstate = "data" /\ cur.id = entry
  BY DEF CopyRead, IInv, Phased
<1>2. UNCHANGED <<faults, cur>>
  BY <1>1 DEF wdvars
<1>3. entry \in DOMAIN contents /\ blocks[entry] = contents[entry].blocks /\ rfaults \in Nat /\ read \in Int
  <2>1. entry \in DOMAIN contents
    BY <1>1, EntryIsRead DEF IInv, Phased
  <2>2. rfaults \in Nat /\ read \in Int
    BY <1>1 DEF IInv, Reading, R!IInv, R!TypeOK
  <2>. QED  BY <2>1, <2>2 DEF IInv, Reading
<1>4. ~ReadFails
  BY <1>3 DEF ReadFails, Clean
<1>5. /\ UNCHANGED <<entry, rfaults>>
      /\ \/ read' = read + 1 /\ rret' = "ok"
         \/ read = blocks[entry] /\ read' = read /\ rret' = "eof"
  BY <1>1, <1>4 DEF ReadDataBlock
<1>6. Clean
  BY <1>1, <1>2, <1>5, CleanBefore DEF Clean
<1>7. Handled' = Handled /\ Passed' = Passed /\ pc' \in {"write", "next"}
  <2>1. CASE rret' = "ok"
    <3>1. pc' = "write"
      BY <2>1 DEF CopyRead, ReturnUnless
    <3>. QED  BY <1>1, <1>3, <1>5, <2>1, <3>1 DEF Handled, Passed
  <2>2. CASE rret' = "eof"
    <3>1. pc' = "next"
      BY <2>2 DEF CopyRead
    <3>. QED  BY <1>1, <1>2, <1>3, <1>5, <2>2, <3>1 DEF Handled, Passed
  <2>. QED  BY <1>5, <2>1, <2>2
<1>8. UNCHANGED fh
  BY <1>1 DEF wdvars
<1>9. Kept'
  BY <1>1, <1>5, <1>6, <1>7, <1>8 DEF Kept, CInv, Complete
<1>. QED  BY <1>1, <1>6, <1>7, <1>9, CompleteStays DEF CInv

\* A block more at the end of s.
LEMMA OneMore ==
    ASSUME NEW B, Zero \in B, NEW s \in Seq(B), NEW i, NEW n \in Nat, Holds(s, i, n), <<i, n>> \in B
    PROVE  Holds(W!WriteAt(s, n, <<i, n>>), i, n + 1)
<1>. PICK b \in B : b = <<i, n>>
  OBVIOUS
<1>. DEFINE u == W!WriteAt(s, n, b)
<1>1. W!IsWritten(u, s, n, b)
  BY W!WriteAtIs, WriteAssumptions
<1>. HIDE DEF u
<1>2. Len(s) = n /\ \A k \in 1 .. n : s[k] = <<i, k - 1>>
  BY DEF Holds
<1>3. Len(u) = n + 1 /\ u[n + 1] = b /\ \A k \in 1 .. n : u[k] = s[k]
  <2>1. Len(u) = n + 1
    BY <1>1, <1>2 DEF W!IsWritten
  <2>2. \A k \in 1 .. n + 1 : u[k] = IF k = n + 1 THEN b ELSE IF k <= n THEN s[k] ELSE Zero
    BY <1>1, <1>2, <2>1 DEF W!IsWritten
  <2>. QED  BY <2>1, <2>2
<1>4. ASSUME NEW k \in 1 .. n + 1 PROVE u[k] = <<i, k - 1>>
  <2>1. CASE k = n + 1
    BY <1>3, <2>1
  <2>2. CASE k # n + 1
    BY <1>2, <1>3, <2>2
  <2>. QED  BY <2>1, <2>2
<1>5. Holds(u, i, n + 1)
  BY <1>3, <1>4 DEF Holds
<1>. QED  BY <1>5 DEF u

LEMMA CopyWriteComplete ==
    ASSUME IInv, CInv, CopyWrite
    PROVE  CInv'
<1>. SUFFICES ASSUME Clean' PROVE Complete'
  BY DEF CInv
<1>1. /\ UNCHANGED <<rvars, contents, fresh>> /\ pc = "write" /\ rstate = "data" /\ state = "data" /\ cur.id = entry
      /\ DataBlock(<<entry, read - 1>>, read - 1) /\ read >= 1
  BY DEF CopyWrite, IInv, Phased
<1>2. UNCHANGED <<rfaults, entry, read>>
  BY <1>1 DEF rvars, stream
<1>3. /\ entry \in DOMAIN contents /\ entry \in 1 .. Len(contents) /\ contents \in Archives
      /\ read \in Nat /\ read <= contents[entry].blocks
  <2>1. entry \in DOMAIN contents /\ entry \in 1 .. Len(contents)
    BY <1>1, EntryIsRead, EntriesAre DEF IInv, Phased
  <2>2. read \in 0 .. blocks[entry] /\ blocks[entry] = contents[entry].blocks
    BY <1>1, <2>1 DEF IInv, Reading, R!IInv, R!TypeOK
  <2>3. contents[entry].blocks \in Nat
    BY <2>1, EntriesAre DEF IInv, Phased, Entry
  <2>. QED  BY <2>1, <2>2, <2>3 DEF IInv, Phased
<1>4. faults = 0 /\ (faults' = 0 => UNCHANGED faults)
  <2>1. faults \in Nat
    BY DEF IInv, Writing, W!HandleOK
  <2>. QED  BY <1>1, <2>1 DEF DataBlock, Fails, Clean
<1>5. Clean
  BY <1>1, <1>2, <1>4, CleanBefore DEF Clean
<1>6. Complete /\ Extractable
  BY <1>5 DEF CInv, Clean
<1>7. contents[entry].type = "reg" /\ fh
  <2>1. contents[entry].type \in {"reg", "dir", "link"} /\ contents[entry].type # "link"
    BY <1>3, <1>5, EntriesAre DEF Entry, Clean
  <2>2. contents[entry].type # "dir"
    BY <1>1, <1>3, <1>6 DEF Extractable
  <2>. QED  BY <1>1, <1>6, <2>1, <2>2 DEF Complete, Kept
<1>8. /\ cur.path = At(entry) /\ cur.size = contents[entry].size /\ Handled = entry
      /\ Holds(disk[At(entry)].data, entry, read - 1)
  BY <1>1, <1>6, <1>7 DEF Complete, Growing, Handled, Passed
<1>9. contents[entry].size \in Int /\ contents[entry].blocks \in Nat /\ (contents[entry].size >= 0 => contents[entry].blocks <= contents[entry].size)
  BY <1>3, <1>6, <1>7, EntriesAre DEF Entry, Extractable
<1>10. fh /\ (cur.size < 0 \/ read - 1 < cur.size)
  BY <1>1, <1>3, <1>7, <1>8, <1>9
<1>11. /\ disk' = [disk EXCEPT ![cur.path].data = W!WriteAt(@, read - 1, <<entry, read - 1>>)]
       /\ offset' = read - 1 + 1 /\ wret' = "ok" /\ UNCHANGED <<cur, fh>>
  <2>1. W!DataBlock(<<entry, read - 1>>, read - 1)
    BY <1>1, DataBlockIs
  <2>2. faults' = 0 /\ faults = 0
    BY <1>4 DEF Clean
  <2>. QED  BY <1>1, <1>10, <2>1, <2>2 DEF W!DataBlock, W!Fails
<1>12. offset' = read /\ read - 1 \in Nat
  BY <1>1, <1>3, <1>11
<1>13. pc' = "copy" /\ Handled' = entry /\ Passed' = read
  <2>1. pc' = "copy"
    BY <1>11 DEF CopyWrite, ReturnUnless
  <2>. QED  BY <1>2, <2>1 DEF Handled, Passed
<1>14. /\ \A q \in Paths : disk'[q].kind = disk[q].kind
       /\ \A q \in Paths \ {At(entry)} : disk'[q] = disk[q]
       /\ Holds(disk'[At(entry)].data, entry, read)
  <2>1. At(entry) \in Paths
    BY <1>3, <1>6, PlacesDiffer
  <2>2. W!IsDisk(disk, Len(contents), Blocks)
    BY DEF IInv, Writing, W!HandleOK
  <2>3. PICK p \in Paths : p = At(entry)
    BY <2>1
  <2>4. PICK s \in Seq(Blocks) : s = disk[p].data
    BY <2>2 DEF W!IsDisk, W!Object
  <2>5. PICK n \in Nat : n = read - 1
    BY <1>12
  <2>6. PICK i \in 1 .. Len(contents) : i = entry
    BY <1>3
  <2>7. Holds(W!WriteAt(s, n, <<i, n>>), i, n + 1)
    <3>1. <<i, n>> \in Blocks /\ Zero \in Blocks
      BY DEF Blocks
    <3>2. Holds(s, i, n)
      BY <1>8, <2>3, <2>4, <2>5, <2>6
    <3>3. PICK B : B = Blocks
      OBVIOUS
    <3>. QED  BY <3>1, <3>2, <3>3, OneMore
  <2>8. disk' = [disk EXCEPT ![p].data = W!WriteAt(s, n, <<i, n>>)]
    BY <1>8, <1>11, <2>3, <2>4, <2>5, <2>6
  <2>9. n + 1 = read
    BY <1>3, <2>5
  <2>. DEFINE u == W!WriteAt(s, n, <<i, n>>)
  <2>10. Holds(u, i, read) /\ disk' = [disk EXCEPT ![p].data = u]
    BY <2>7, <2>8, <2>9
  <2>. HIDE DEF u
  <2>11. disk[p] \in W!Object(Len(contents), Blocks) /\ disk \in [Paths -> W!Object(Len(contents), Blocks)]
    BY <2>2 DEF W!IsDisk
  <2>12. disk'[p] = [disk[p] EXCEPT !.data = u] /\ \A q \in Paths \ {p} : disk'[q] = disk[q]
    BY <2>10, <2>11
  <2>13. disk'[p].data = u /\ disk'[p].kind = disk[p].kind
    BY <2>11, <2>12 DEF W!Object
  <2>. QED  BY <2>3, <2>6, <2>10, <2>12, <2>13
<1>15. \A i : At(i)' = At(i)
  BY <1>1 DEF At
<1>16. \A i \in DOMAIN contents : At(i) \in Paths /\ (i # entry => At(i) # At(entry))
  BY <1>3, <1>6, PlacesDiffer
<1>17. AllWhole'
  <2>. SUFFICES ASSUME NEW i \in 1 .. entry
                PROVE  (fh' /\ i = cur'.id) \/ Whole(disk'[At(i)].kind, disk'[At(i)].data, contents[i], i)
    BY <1>1, <1>13, <1>15 DEF AllWhole
  <2>1. CASE i = entry
    BY <1>1, <1>7, <1>11, <2>1
  <2>2. CASE i # entry
    <3>1. Whole(disk[At(i)].kind, disk[At(i)].data, contents[i], i)
      BY <1>1, <1>6, <1>8, <2>2 DEF Complete, AllWhole
    <3>2. i \in DOMAIN contents
      BY <1>3, EntriesAre
    <3>3. disk'[At(i)] = disk[At(i)]
      BY <1>14, <1>16, <2>2, <3>2
    <3>. QED  BY <3>1, <3>3
  <2>. QED  BY <2>1, <2>2
<1>18. Growing'
  <2>1. cur'.id = entry /\ cur' = cur /\ entry \in 1 .. entry
    BY <1>1, <1>3, <1>11
  <2>. QED  BY <1>1, <1>7, <1>8, <1>12, <1>13, <1>14, <1>15, <2>1 DEF Growing
<1>19. Unblocked'
  BY <1>1, <1>6, <1>8, <1>13, <1>14, <1>15, <1>16 DEF Complete, Unblocked
<1>20. Kept'
  BY <1>1, <1>2, <1>7, <1>11, <1>13 DEF Kept
<1>. QED  BY <1>17, <1>18, <1>19, <1>20 DEF Complete

LEMMA CloseReaderComplete ==
    ASSUME IInv, CInv, CloseReader \/ FreeReader
    PROVE  CInv'
<1>. SUFFICES ASSUME Clean' PROVE Complete'
  BY DEF CInv
<1>1. /\ UNCHANGED <<wdvars, contents, fresh>> /\ pc \in {"read_close", "read_free"} /\ pc' \in {"read_free", "write_close"}
      /\ UNCHANGED <<entry, read, rfaults>>
  <2>1. CASE CloseReader
    BY <2>1 DEF CloseReader, ReadClose, stream
  <2>2. CASE FreeReader
    BY <2>2 DEF FreeReader, ReadFree, stream
  <2>. QED  BY <2>1, <2>2
<1>2. UNCHANGED <<faults, cur>>
  BY <1>1 DEF wdvars
<1>3. Clean
  BY <1>1, <1>2, CleanBefore DEF Clean
<1>4. Handled' = Handled /\ Passed' = Passed
  BY <1>1, <1>2 DEF Handled, Passed
<1>5. Kept'
  BY <1>1, <1>3 DEF Kept, CInv, Complete
<1>. QED  BY <1>1, <1>3, <1>4, <1>5, CompleteStays DEF CInv

LEMMA CloseWriterComplete ==
    ASSUME IInv, CInv, CloseWriter \/ FreeWriter
    PROVE  CInv'
<1>. SUFFICES ASSUME Clean' PROVE Complete'
  BY DEF CInv
<1>1. /\ UNCHANGED <<rvars, contents, fresh>> /\ pc \in {"write_close", "write_free"} /\ pc' \in {"write_free", "done"}
      /\ Close \/ Free
  BY DEF CloseWriter, FreeWriter
<1>2. UNCHANGED <<rfaults, entry, read>>
  BY <1>1 DEF rvars, stream
<1>3. Len(contents) \in Nat /\ contents \in Archives /\ DOMAIN contents = 1 .. Len(contents)
  BY EntriesAre DEF IInv, Phased
<1>. PICK M \in Nat : M = Len(contents)
  BY <1>3, Zenon
<1>. PICK B : B = Blocks
  OBVIOUS
<1>4. W!HandleOK(M, B) /\ Zero \in B /\ state \in {"header", "data"}
  BY <1>1 DEF IInv, Phased, Writing, Blocks
<1>5. W!Close \/ W!Free
  BY <1>1, CloseIs, FreeIs
<1>6. /\ faults = 0 /\ ~fh'
      /\ \A q \in Paths : disk'[q].kind = disk[q].kind /\ disk'[q].data = W!FinishedData(q)
  <2>1. faults' = 0
    BY DEF Clean
  <2>. QED  BY <1>4, <1>5, <2>1, W!CloseSucceeds, WriteAssumptions
<1>7. Clean
  BY <1>1, <1>2, <1>6, CleanBefore DEF Clean
<1>8. Complete /\ Extractable
  BY <1>7 DEF CInv, Clean
<1>9. Handled' = entry /\ Handled = entry /\ entry = Len(contents)
  BY <1>1, <1>2, <1>8 DEF Handled, Complete, Kept
<1>10. \A i : At(i)' = At(i)
  BY <1>1 DEF At
<1>11. AllWhole'
  <2>. SUFFICES ASSUME NEW i \in 1 .. entry
                PROVE  Whole(disk'[At(i)].kind, disk'[At(i)].data, contents[i], i)
    BY <1>1, <1>9, <1>10 DEF AllWhole
  <2>1. i \in DOMAIN contents /\ i \in 1 .. Handled
    BY <1>3, <1>9
  <2>2. Whole(disk[At(i)].kind, W!FinishedData(At(i)), contents[i], i)
    BY <1>1, <1>7, <1>8, <2>1, FinishedAreWhole
  <2>3. disk'[At(i)].kind = disk[At(i)].kind /\ disk'[At(i)].data = W!FinishedData(At(i))
    BY <1>3, <1>6, <1>8, <2>1, PlacesDiffer
  <2>. QED  BY <2>2, <2>3
<1>12. Growing'
  BY <1>6 DEF Growing
<1>13. Unblocked'
  BY <1>1, <1>3, <1>6, <1>8, <1>9, <1>10, PlacesDiffer DEF Complete, Unblocked
<1>14. Kept'
  BY <1>1, <1>2, <1>9 DEF Kept
<1>. QED  BY <1>11, <1>12, <1>13, <1>14 DEF Complete

LEMMA NextKeepsComplete == IInv /\ CInv /\ [Next]_vars => CInv'
<1>. SUFFICES ASSUME IInv, CInv, [Next]_vars PROVE CInv'
  OBVIOUS
<1>1. CASE UNCHANGED vars
  <2>. SUFFICES ASSUME Clean' PROVE Complete'
    BY DEF CInv
  <2>1. UNCHANGED <<rvars, wdvars, contents, pc, ret, fresh>>
    BY <1>1 DEF vars
  <2>2. UNCHANGED <<entry, read, rfaults, faults, cur, fh>>
    BY <2>1 DEF rvars, stream, wdvars
  <2>3. Clean
    BY <2>1, <2>2, CleanBefore DEF Clean
  <2>4. Handled' = Handled /\ Passed' = Passed
    BY <2>1, <2>2 DEF Handled, Passed
  <2>5. Kept'
    BY <2>1, <2>2, <2>3 DEF Kept, CInv, Complete
  <2>. QED  BY <2>1, <2>3, <2>4, <2>5, CompleteStays DEF CInv
<1>2. CASE New \/ OpenArchive \/ NextEntry \/ WriteHeader \/ CopyRead \/ CopyWrite
  BY <1>2, NewComplete, OpenComplete, NextEntryComplete, WriteHeaderComplete, CopyReadComplete, CopyWriteComplete
<1>3. CASE CloseReader \/ FreeReader \/ CloseWriter \/ FreeWriter
  BY <1>3, CloseReaderComplete, CloseWriterComplete
<1>. QED  BY <1>1, <1>2, <1>3 DEF Next, Done

\* CompleteWhenNothingFails: when no call fails Extractor::Extract puts every entry of an archive
\* without hard links below a destination that was not there, with all its blocks and the size
\* of its header, provided that no two entries are in each other's way.
THEOREM AllIsExtracted == Spec => []CompleteWhenNothingFails
<1>1. Init => CInv
  BY InitComplete
<1>2. IInv /\ IInv' /\ CInv /\ [Next]_vars => CInv'
  BY NextKeepsComplete
<1>3. IInv /\ CInv => CompleteWhenNothingFails
  <2>. SUFFICES ASSUME IInv, CInv, pc = "done", ret, Clean, NEW i \in DOMAIN contents
                PROVE  Extracted(i)
    BY DEF CompleteWhenNothingFails, Clean
  <2>1. Complete /\ ~fh
    BY DEF CInv, IInv, Phased, Writing, W!HandleOK
  <2>2. i \in 1 .. Handled
    BY <2>1, EntriesAre DEF IInv, Phased, Complete, Kept, Handled
  <2>3. Whole(disk[At(i)].kind, disk[At(i)].data, contents[i], i)
    BY <2>1, <2>2 DEF Complete, AllWhole
  <2>. QED  BY <2>3 DEF Whole, Extracted, At
<1>. QED  BY <1>1, <1>2, <1>3, InvHolds, PTL DEF Spec
=============================================================================
