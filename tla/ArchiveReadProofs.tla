------------------------- MODULE ArchiveReadProofs -------------------------
(***************************************************************************)
(* Theorems about ArchiveReadCalls, for any archive, any number of filters *)
(* and of failures, and any sequence of calls.                             *)
(***************************************************************************)
EXTENDS ArchiveReadCalls, FiniteSetTheorems, TLAPS

\* The filters there may be.
Filter == [ready : BOOLEAN, closes : {0, 1}]

\* What the filters of fs are when they have been closed.
Closed(fs) == \A i \in DOMAIN fs : fs[i].ready => fs[i].closes = 1

\* The client's filter, the first, tells whether the client's file was closed; without it only
\* a failing open has closed the file.  Filters that a->filter does not lead to are closed.
Counted ==
    /\ filters \in Seq(Filter)
    /\ clientCloses \in {0, 1}
    /\ filters # <<>> => filters[1].ready /\ clientCloses = filters[1].closes /\ opened
    /\ filters = <<>> => ~linked /\ (opened <=> clientCloses = 1)
    /\ ~linked => Closed(filters)

\* Which pipelines go with which state of the handle.
Piped ==
    /\ rstate = "freed" => ~linked
    /\ rstate \in {"header", "data", "eof"} =>
        /\ linked /\ Len(filters) <= MaxFilters
        /\ \A i \in DOMAIN filters : filters[i].ready /\ filters[i].closes = 0

\* After the end, or a failure that cannot be recovered from, no state is one to read in.
Ended == over => rstate \in {"eof", "fatal", "closed", "freed"}

IInv == TypeOK /\ Counted /\ Piped /\ Ended

Calls == {"new", "open", "header", "block", "skip", "close", "free"}
-----------------------------------------------------------------------------
(* Pipelines. *)

\* The filters that open makes are all set up and none is closed.
LEMMA PipelineIsOpen ==
    ASSUME NEW n \in Nat \ {0}
    PROVE  /\ Pipeline(n) \in Seq(Filter) /\ Len(Pipeline(n)) = n /\ DOMAIN Pipeline(n) = 1 .. n
           /\ \A i \in 1 .. n : Pipeline(n)[i].ready /\ Pipeline(n)[i].closes = 0
           /\ Pipeline(n) # <<>>
<1>1. Made(TRUE) \in Filter /\ Made(TRUE).ready /\ Made(TRUE).closes = 0
  BY DEF Made, Filter
<1>2. Pipeline(n) \in [1 .. n -> Filter] /\ \A i \in 1 .. n : Pipeline(n)[i] = Made(TRUE)
  BY <1>1 DEF Pipeline
<1>3. Pipeline(n) \in Seq(Filter) /\ Len(Pipeline(n)) = n
  BY <1>2
<1>. QED  BY <1>1, <1>2, <1>3

\* Closing closes each filter that is set up once, and no filter twice.
LEMMA CloseAllCloses ==
    ASSUME NEW fs \in Seq(Filter)
    PROVE  /\ CloseAll(fs) \in Seq(Filter) /\ Len(CloseAll(fs)) = Len(fs)
           /\ DOMAIN CloseAll(fs) = DOMAIN fs
           /\ Closed(CloseAll(fs))
           /\ \A i \in DOMAIN fs : CloseAll(fs)[i].ready = fs[i].ready
           /\ CloseAll(fs) = <<>> <=> fs = <<>>
<1>1. \A i \in DOMAIN fs : fs[i] \in Filter
  OBVIOUS
<1>2. \A f \in Filter :
        /\ [f EXCEPT !.closes = 1] \in Filter
        /\ [f EXCEPT !.closes = 1].ready = f.ready /\ [f EXCEPT !.closes = 1].closes = 1
        /\ f.closes = 0 \/ f.closes = 1
  BY DEF Filter
<1>3. ASSUME NEW i \in DOMAIN fs
      PROVE  /\ CloseAll(fs)[i] \in Filter
             /\ CloseAll(fs)[i].ready = fs[i].ready
             /\ CloseAll(fs)[i].ready => CloseAll(fs)[i].closes = 1
  <2>1. CloseAll(fs)[i] = IF fs[i].ready /\ fs[i].closes = 0 THEN [fs[i] EXCEPT !.closes = 1] ELSE fs[i]
    BY DEF CloseAll
  <2>. QED  BY <1>1, <1>2, <2>1
<1>4. DOMAIN CloseAll(fs) = 1 .. Len(fs) /\ DOMAIN fs = 1 .. Len(fs) /\ Len(fs) \in Nat
  BY DEF CloseAll
<1>5. CloseAll(fs) \in [1 .. Len(fs) -> Filter]
  <2>1. CloseAll(fs) = [i \in 1 .. Len(fs) |-> CloseAll(fs)[i]]
    BY <1>4 DEF CloseAll
  <2>. QED  BY <1>3, <1>4, <2>1
<1>6. CloseAll(fs) \in Seq(Filter) /\ Len(CloseAll(fs)) = Len(fs)
  BY <1>4, <1>5
<1>. QED  BY <1>3, <1>4, <1>6 DEF Closed

\* CloseFilters on a pipeline whose first filter, the client's, is set up: the client's file
\* is closed with it, unless it was closed before.
LEMMA CloseFiltersCloses ==
    ASSUME NEW fs \in Seq(Filter), fs # <<>> => fs[1].ready, clientCloses = (IF fs = <<>> THEN clientCloses ELSE fs[1].closes),
           clientCloses \in {0, 1}, NEW stays \in BOOLEAN, CloseFilters(fs, stays)
    PROVE  /\ filters' \in Seq(Filter) /\ Len(filters') = Len(fs) /\ linked' = stays
           /\ filters' = <<>> <=> fs = <<>>
           /\ Closed(filters')
           /\ fs # <<>> => filters'[1].ready /\ filters'[1].closes = 1 /\ clientCloses' = 1
           /\ fs = <<>> => clientCloses' = clientCloses
<1>1. filters' = CloseAll(fs) /\ clientCloses' = ClientClosed(fs, CloseAll(fs)) /\ linked' = stays
  BY DEF CloseFilters
<1>2. CASE fs = <<>>
  BY <1>1, <1>2, CloseAllCloses DEF ClientClosed
<1>3. CASE fs # <<>>
  <2>1. 1 \in DOMAIN fs
    BY <1>3
  <2>2. CloseAll(fs)[1].ready /\ CloseAll(fs)[1].closes = 1
    BY <1>3, <2>1, CloseAllCloses DEF Closed
  <2>3. clientCloses' = clientCloses + 1 - fs[1].closes
    BY <1>1, <1>3, <2>2 DEF ClientClosed
  <2>. QED  BY <1>1, <1>3, <2>2, <2>3, CloseAllCloses
<1>. QED  BY <1>2, <1>3

\* What Worst returns, and what state the header leaves.
LEMMA WorstResults ==
    ASSUME NEW r1 \in SkipResults, NEW r2 \in {"ok", "retry", "warn", "failed", "fatal", "eof"}
    PROVE  /\ Worst(r1, r2) \in {r1, r2}
           /\ Worst(r1, r2) = "ok" => r1 = "ok" /\ r2 = "ok"
           /\ Worst(r1, r2) = "eof" => r2 = "eof"
           /\ r1 # "fatal" /\ Worst(r1, r2) = "fatal" => r2 = "fatal"
           /\ StateAfter(r2) \in {"header", "data", "eof", "fatal"}
           /\ r2 \in {"ok", "warn"} <=> StateAfter(r2) = "data"
           /\ r2 = "eof" <=> StateAfter(r2) = "eof"
           /\ r2 = "fatal" <=> StateAfter(r2) = "fatal"
<1>1. /\ Ranks["ok"] = 0 /\ Ranks["retry"] = -10 /\ Ranks["warn"] = -20 /\ Ranks["failed"] = -25
      /\ Ranks["fatal"] = -30
  BY DEF Ranks
<1>2. /\ Worst(r1, r2) \in {r1, r2}
      /\ Worst(r1, r2) = "ok" => r1 = "ok" /\ r2 = "ok"
      /\ Worst(r1, r2) = "eof" => r2 = "eof"
      /\ r1 # "fatal" /\ Worst(r1, r2) = "fatal" => r2 = "fatal"
  BY <1>1 DEF Worst, SkipResults
<1>3. /\ StateAfter(r2) \in {"header", "data", "eof", "fatal"}
      /\ r2 \in {"ok", "warn"} <=> StateAfter(r2) = "data"
      /\ r2 = "eof" <=> StateAfter(r2) = "eof"
      /\ r2 = "fatal" <=> StateAfter(r2) = "fatal"
  BY DEF StateAfter
<1>. QED  BY <1>2, <1>3
-----------------------------------------------------------------------------
(* The invariant. *)

LEMMA InitInv == Init => IInv
<1>. SUFFICES ASSUME Init PROVE IInv
  OBVIOUS
<1>. PICK b \in Archives : ReadReady(b)
  BY DEF Init
<1>1. blocks \in Seq(Nat) /\ Len(blocks) \in Nat
  BY ArchivesAssumption DEF ReadReady
<1>2. filters = <<>> /\ DOMAIN filters = {} /\ Len(filters) = 0 /\ entry = 0 /\ 0 \in 0 .. Len(blocks)
  BY <1>1 DEF ReadReady
<1>3. 0 <= MaxFilters + 1 /\ 0 \in 0 .. MaxReadFaults
  BY FiltersAssumption
<1>4. TypeOK
  BY <1>2, <1>3 DEF Init, TypeOK, ReadReady, RetRead
<1>5. Counted /\ Piped /\ Ended
  BY DEF Init, ReadReady, Counted, Piped, Ended, Closed
<1>. QED  BY <1>4, <1>5 DEF IInv

\* The parts of the invariant that an action which leaves the pipeline alone does not disturb.
LEMMA SourceStays ==
    ASSUME IInv, UNCHANGED source, UNCHANGED opened
    PROVE  /\ Counted'
           /\ Len(filters') <= MaxFilters + 1 /\ linked' \in BOOLEAN /\ clientCloses' \in Nat
           /\ \A i \in DOMAIN filters' : filters'[i] \in [ready : BOOLEAN, closes : Nat]
<1>1. Counted'
  BY DEF IInv, Counted, Closed, source
<1>. QED  BY <1>1 DEF IInv, TypeOK, source

\* A call in a state that it is not meant for changes nothing but the state.
LEMMA MisusedInv ==
    ASSUME IInv, MisusedRead, UNCHANGED opened, over' \in BOOLEAN, call' \in Calls
    PROVE  IInv'
<1>1. rstate' = "fatal" /\ UNCHANGED <<blocks, source, entry, read, astray, rfaults>> /\ rret' = "fatal"
  BY DEF MisusedRead, stream
<1>2. TypeOK'
  BY <1>1, SourceStays DEF IInv, TypeOK, RetRead, Calls
<1>3. Piped' /\ Ended'
  BY <1>1 DEF Piped, Ended
<1>. QED  BY <1>1, <1>2, <1>3, SourceStays DEF IInv

\* A failure counts, and there are no more than MaxReadFaults.
LEMMA FaultsInBounds == IInv /\ ReadFails => rfaults' \in 0 .. MaxReadFaults
BY FiltersAssumption DEF IInv, TypeOK, ReadFails

LEMMA OpenInv ==
    ASSUME IInv, ~opened, rstate = "new", Open, opened' = TRUE, over' = over, call' \in Calls
    PROVE  IInv'
<1>. USE FiltersAssumption
<1>1. UNCHANGED <<blocks, entry, read, astray>>
  BY DEF Open, stream
<1>2. filters = <<>> /\ ~linked /\ clientCloses = 0 /\ ~over
  BY DEF IInv, Counted, Ended
<1>3. rret' \in {"ok", "fatal"}
  BY DEF Open
<1>4. /\ rstate' \in {"new", "header", "fatal"}
      /\ rfaults' \in 0 .. MaxReadFaults
      /\ linked' \in BOOLEAN /\ Counted' /\ Len(filters') <= MaxFilters + 1
      /\ rstate' = "header" => linked' /\ Len(filters') <= MaxFilters
                                 /\ \A i \in DOMAIN filters' : filters'[i].ready /\ filters'[i].closes = 0
  <2>1. CASE OpenerFails
    <3>1. /\ rfaults' \in 0 .. MaxReadFaults /\ rstate' = "new" /\ filters' = <<>> /\ ~linked' /\ linked' \in BOOLEAN
          /\ clientCloses' = 1
      BY <1>1, <1>2, <2>1 DEF OpenerFails, ReadFails, IInv, TypeOK
    <3>2. Len(filters') = 0 /\ filters' \in Seq(Filter) /\ DOMAIN filters' = {}
      BY <3>1
    <3>. QED  BY <1>1, <3>1, <3>2 DEF Counted, Closed
  <2>2. CASE FilterFails
    <3>1. rfaults' \in 0 .. MaxReadFaults /\ rstate' = "fatal"
      BY <2>2 DEF FilterFails, ReadFails, IInv, TypeOK
    <3>2. ASSUME NEW fs \in Seq(Filter), fs # <<>>, fs[1].ready, fs[1].closes = 0, Len(fs) <= MaxFilters + 1,
                 CloseFilters(fs, FALSE)
          PROVE  /\ filters' \in Seq(Filter) /\ Len(filters') <= MaxFilters + 1 /\ ~linked' /\ linked' \in BOOLEAN
                 /\ filters' # <<>> /\ filters'[1].ready /\ filters'[1].closes = 1 /\ clientCloses' = 1
                 /\ Closed(filters')
      BY <1>2, <3>2, CloseFiltersCloses
    <3>3. /\ filters' \in Seq(Filter) /\ Len(filters') <= MaxFilters + 1 /\ ~linked' /\ linked' \in BOOLEAN
          /\ filters' # <<>> /\ filters'[1].ready /\ filters'[1].closes = 1 /\ clientCloses' = 1
          /\ Closed(filters')
      <4>1. ASSUME NEW n \in 1 .. MaxFilters, NEW ready \in BOOLEAN,
                   CloseFilters(Append(Pipeline(n), Made(ready)), FALSE)
            PROVE  /\ filters' \in Seq(Filter) /\ Len(filters') <= MaxFilters + 1 /\ ~linked' /\ linked' \in BOOLEAN
                   /\ filters' # <<>> /\ filters'[1].ready /\ filters'[1].closes = 1 /\ clientCloses' = 1
                   /\ Closed(filters')
        <5>2. Made(ready) \in Filter
          BY DEF Made, Filter
        <5>3. /\ Pipeline(n) \in Seq(Filter) /\ Len(Pipeline(n)) = n /\ Pipeline(n)[1].ready
              /\ Pipeline(n)[1].closes = 0
          BY PipelineIsOpen
        <5>4. /\ Append(Pipeline(n), Made(ready)) \in Seq(Filter) /\ Append(Pipeline(n), Made(ready)) # <<>>
              /\ Append(Pipeline(n), Made(ready))[1] = Pipeline(n)[1]
              /\ Len(Append(Pipeline(n), Made(ready))) = n + 1 /\ n + 1 <= MaxFilters + 1
          BY <5>2, <5>3
        <5>. QED  BY <3>2, <4>1, <5>3, <5>4
      <4>2. ASSUME NEW n \in 1 .. MaxFilters, CloseFilters(Pipeline(n), FALSE)
            PROVE  /\ filters' \in Seq(Filter) /\ Len(filters') <= MaxFilters + 1 /\ ~linked' /\ linked' \in BOOLEAN
                   /\ filters' # <<>> /\ filters'[1].ready /\ filters'[1].closes = 1 /\ clientCloses' = 1
                   /\ Closed(filters')
        <5>1. /\ Pipeline(n) \in Seq(Filter) /\ Len(Pipeline(n)) <= MaxFilters + 1 /\ Pipeline(n) # <<>>
              /\ Pipeline(n)[1].ready /\ Pipeline(n)[1].closes = 0
          BY PipelineIsOpen
        <5>. QED  BY <3>2, <4>2, <5>1
      <4>. QED  BY <2>2, <4>1, <4>2 DEF FilterFails
    <3>. QED  BY <1>1, <3>1, <3>3 DEF Counted
  <2>3. CASE TooManyFilters
    <3>1. /\ rfaults' \in 0 .. MaxReadFaults /\ rstate' = "fatal" /\ linked' = TRUE
          /\ filters' = Pipeline(MaxFilters + 1) /\ clientCloses' = 0
      BY <1>2, <2>3 DEF TooManyFilters, ReadFails, IInv, TypeOK
    <3>. QED  BY <1>1, <3>1, PipelineIsOpen DEF Counted
  <2>4. CASE NoFormat
    <3>1. rfaults' \in 0 .. MaxReadFaults /\ rstate' = "fatal"
      BY <2>4 DEF NoFormat, ReadFails, IInv, TypeOK
    <3>2. PICK n \in 1 .. MaxFilters : CloseFilters(Pipeline(n), TRUE)
      BY <2>4 DEF NoFormat
    <3>3. /\ Pipeline(n) \in Seq(Filter) /\ Len(Pipeline(n)) = n /\ Pipeline(n) # <<>>
          /\ Pipeline(n)[1].ready /\ Pipeline(n)[1].closes = 0
      BY PipelineIsOpen
    <3>4. /\ filters' \in Seq(Filter) /\ Len(filters') = n /\ linked' = TRUE
          /\ filters' # <<>> /\ filters'[1].ready /\ filters'[1].closes = 1 /\ clientCloses' = 1
      BY <1>2, <3>2, <3>3, CloseFiltersCloses
    <3>. QED  BY <1>1, <3>1, <3>4 DEF Counted
  <2>5. CASE Opened
    <3>1. PICK n \in 1 .. MaxFilters : filters' = Pipeline(n)
      BY <2>5 DEF Opened
    <3>2. rstate' = "header" /\ linked' = TRUE /\ clientCloses' = 0 /\ rfaults' = rfaults
      BY <1>2, <2>5 DEF Opened
    <3>3. /\ filters' \in Seq(Filter) /\ Len(filters') = n /\ filters' # <<>>
          /\ filters'[1].ready /\ filters'[1].closes = 0
          /\ \A i \in DOMAIN filters' : filters'[i].ready /\ filters'[i].closes = 0
      BY <3>1, PipelineIsOpen
    <3>4. rfaults' \in 0 .. MaxReadFaults
      BY <3>2 DEF IInv, TypeOK
    <3>. QED  BY <1>1, <3>2, <3>3, <3>4 DEF Counted
  <2>. QED  BY <2>1, <2>2, <2>3, <2>4, <2>5 DEF Open
<1>5. \A i \in DOMAIN filters' : filters'[i] \in [ready : BOOLEAN, closes : Nat]
  <2>1. Filter \subseteq [ready : BOOLEAN, closes : Nat]
    BY DEF Filter
  <2>. QED  BY <1>4, <2>1 DEF Counted
<1>6. TypeOK'
  BY <1>1, <1>3, <1>4, <1>5 DEF IInv, TypeOK, RetRead, Counted, Calls
<1>7. Piped' /\ Ended'
  BY <1>1, <1>2, <1>4 DEF Piped, Ended
<1>. QED  BY <1>4, <1>6, <1>7 DEF IInv

LEMMA HeaderInv ==
    ASSUME IInv, NextHeader, over' \in BOOLEAN, over' => over \/ rret' \in {"eof", "fatal"},
           UNCHANGED opened, call' \in Calls
    PROVE  IInv'
<1>1. CASE rstate \notin {"header", "data"}
  BY <1>1, MisusedInv DEF NextHeader
<1>2. CASE rstate \in {"header", "data"}
  <2>1. PICK r1 \in IF rstate = "data" THEN SkipResults ELSE {"ok"} :
           /\ UNCHANGED <<blocks, source>>
           /\ IF r1 = "fatal"
              THEN /\ ReadFails
                   /\ rstate' = "fatal"
                   /\ rret' = "fatal"
                   /\ astray' = TRUE
                   /\ UNCHANGED <<entry, read>>
              ELSE \E r2 \in HeaderResults :
                   /\ rfaults' = rfaults + Cardinality({i \in 1 .. 2 : <<r1, r2>>[i] \notin {"ok", "eof"}})
                   /\ rfaults' <= MaxReadFaults
                   /\ rstate' = StateAfter(r2)
                   /\ rret' = Worst(r1, r2)
                   /\ entry' = IF r2 \in {"ok", "warn"} THEN entry + 1 ELSE entry
                   /\ read' = 0
                   /\ astray' \in IF astray THEN {TRUE}
                                 ELSE IF r2 \notin {"ok", "eof"} \/ (entry > 0 /\ LosesPlace(r1)) THEN BOOLEAN
                                 ELSE {FALSE}
    BY <1>2 DEF NextHeader
  <2>2. r1 \in SkipResults /\ UNCHANGED <<blocks, source>>
    BY <2>1 DEF SkipResults
  <2>3. ~over
    BY <1>2 DEF IInv, Ended
  <2>4. blocks \in Seq(Nat) /\ Len(blocks) \in Nat /\ entry \in 0 .. Len(blocks) /\ rfaults \in 0 .. MaxReadFaults
    BY ArchivesAssumption DEF IInv, TypeOK
  <2>5. CASE r1 = "fatal"
    <3>1. /\ rfaults' \in 0 .. MaxReadFaults /\ rstate' = "fatal" /\ rret' = "fatal" /\ astray' \in BOOLEAN
          /\ UNCHANGED <<entry, read>>
      BY <2>1, <2>5, FaultsInBounds
    <3>2. TypeOK'
      BY <2>2, <3>1, SourceStays DEF IInv, TypeOK, RetRead, Calls
    <3>3. Piped' /\ Ended'
      BY <3>1 DEF Piped, Ended
    <3>. QED  BY <2>2, <3>2, <3>3, SourceStays DEF IInv
  <2>6. CASE r1 # "fatal"
    <3>1. PICK r2 \in HeaderResults :
                   /\ rfaults' = rfaults + Cardinality({i \in 1 .. 2 : <<r1, r2>>[i] \notin {"ok", "eof"}})
                   /\ rfaults' <= MaxReadFaults
                   /\ rstate' = StateAfter(r2)
                   /\ rret' = Worst(r1, r2)
                   /\ entry' = IF r2 \in {"ok", "warn"} THEN entry + 1 ELSE entry
                   /\ read' = 0
                   /\ astray' \in IF astray THEN {TRUE}
                                 ELSE IF r2 \notin {"ok", "eof"} \/ (entry > 0 /\ LosesPlace(r1)) THEN BOOLEAN
                                 ELSE {FALSE}
      BY <2>1, <2>6
    <3>2. /\ r2 \in {"ok", "retry", "warn", "failed", "fatal", "eof"}
          /\ r2 \in {"ok", "warn"} => entry < Len(blocks)
      BY DEF HeaderResults
    <3>3. rfaults' \in 0 .. MaxReadFaults
      <4>. DEFINE S == {i \in 1 .. 2 : <<r1, r2>>[i] \notin {"ok", "eof"}}
      <4>1. IsFiniteSet(S)
        <5>1. S \subseteq Nat /\ \A x \in S : x <= 2
          OBVIOUS
        <5>. HIDE DEF S
        <5>. QED  BY <5>1, FS_BoundedSetOfNaturals
      <4>2. Cardinality(S) \in Nat
        BY <4>1, FS_CardinalityType
      <4>. QED  BY <2>4, <3>1, <4>2
    <3>4. rret' \in RetRead /\ astray' \in BOOLEAN
      <4>1. rret' \in RetRead
        BY <2>2, <3>1, <3>2, WorstResults DEF RetRead, SkipResults
      <4>2. astray' \in BOOLEAN
        BY <3>1, Zenon DEF IInv, TypeOK
      <4>. QED  BY <4>1, <4>2
    <3>5. entry' \in 0 .. Len(blocks') /\ (rstate' = "data" => entry' > 0 /\ read' \in 0 .. blocks'[entry'])
      <4>1. blocks' = blocks /\ read' = 0 /\ entry \in Nat
        BY <2>2, <2>4, <3>1
      <4>2. CASE r2 \in {"ok", "warn"}
        <5>1. entry' = entry + 1 /\ entry + 1 \in 1 .. Len(blocks)
          BY <2>4, <3>1, <3>2, <4>2
        <5>2. blocks[entry + 1] \in Nat
          BY <2>4, <5>1
        <5>. QED  BY <4>1, <5>1, <5>2
      <4>3. CASE r2 \notin {"ok", "warn"}
        <5>1. rstate' # "data" /\ entry' = entry
          BY <2>2, <3>1, <3>2, <4>3, WorstResults
        <5>. QED  BY <2>4, <4>1, <5>1
      <4>. QED  BY <4>2, <4>3
    <3>6. rstate' \in {"header", "data", "eof", "fatal"} /\ (rret' \in {"eof", "fatal"} => rstate' \in {"eof", "fatal"})
      BY <2>2, <2>6, <3>1, <3>2, WorstResults
    <3>7. TypeOK'
      BY <2>2, <3>3, <3>4, <3>5, <3>6, SourceStays DEF IInv, TypeOK, Calls
    <3>8. Piped'
      BY <1>2, <2>2, <3>6 DEF IInv, Piped, source
    <3>9. Ended'
      BY <2>3, <3>6 DEF Ended
    <3>. QED  BY <2>2, <3>7, <3>8, <3>9, SourceStays DEF IInv
  <2>. QED  BY <2>5, <2>6
<1>. QED  BY <1>1, <1>2

LEMMA BlockInv ==
    ASSUME IInv, ReadDataBlock, UNCHANGED <<opened, over>>, call' \in Calls
    PROVE  IInv'
<1>1. CASE rstate # "data"
  <2>1. over' \in BOOLEAN
    BY DEF IInv, TypeOK
  <2>2. MisusedRead
    BY <1>1 DEF ReadDataBlock
  <2>. QED  BY <2>1, <2>2, MisusedInv
<1>2. CASE rstate = "data"
  <2>1. UNCHANGED <<blocks, rstate, source, entry>>
    BY <1>2 DEF ReadDataBlock
  <2>2. blocks \in Seq(Nat) /\ entry \in 1 .. Len(blocks) /\ read \in 0 .. blocks[entry] /\ blocks[entry] \in Nat
    BY <1>2, ArchivesAssumption DEF IInv, TypeOK, Calls
  <2>3. read' \in 0 .. blocks[entry] /\ rfaults' \in 0 .. MaxReadFaults /\ rret' \in RetRead /\ astray' \in BOOLEAN
    <3>1. rfaults \in 0 .. MaxReadFaults /\ astray \in BOOLEAN
      BY DEF IInv, TypeOK, Calls
    <3>2. CASE read < blocks[entry] /\ read' = read + 1 /\ rret' = "ok" /\ UNCHANGED <<astray, rfaults>>
      BY <2>2, <3>1, <3>2 DEF RetRead
    <3>3. CASE read = blocks[entry] /\ rret' = "eof" /\ UNCHANGED <<read, astray, rfaults>>
      BY <2>2, <3>1, <3>3 DEF RetRead
    <3>4. CASE /\ ReadFails
               /\ rret' \in {"retry", "warn", "failed", "fatal"}
               /\ astray' \in {astray, TRUE}
               /\ UNCHANGED read
      <4>1. astray' \in BOOLEAN
        BY <3>1, <3>4, Zenon
      <4>. QED  BY <2>2, <3>4, <4>1, FaultsInBounds DEF RetRead
    <3>. QED  BY <1>2, <3>2, <3>3, <3>4 DEF ReadDataBlock
  <2>4. TypeOK'
    BY <2>1, <2>3, SourceStays DEF IInv, TypeOK, Calls
  <2>5. Piped' /\ Ended'
    BY <2>1 DEF IInv, Piped, Ended, source
  <2>. QED  BY <2>1, <2>4, <2>5, SourceStays DEF IInv
<1>. QED  BY <1>1, <1>2

LEMMA SkipInv ==
    ASSUME IInv, DataSkip, UNCHANGED <<opened, over>>, call' \in Calls
    PROVE  IInv'
<1>1. CASE rstate # "data"
  <2>1. over' \in BOOLEAN
    BY DEF IInv, TypeOK
  <2>2. MisusedRead
    BY <1>1 DEF DataSkip
  <2>. QED  BY <2>1, <2>2, MisusedInv
<1>2. CASE rstate = "data"
  <2>1. PICK r \in SkipResults :
           /\ IF r = "ok" THEN UNCHANGED rfaults ELSE ReadFails
           /\ rstate' = "header"
           /\ rret' = r
           /\ astray' \in IF LosesPlace(r) THEN {astray, TRUE} ELSE {astray}
           /\ UNCHANGED <<blocks, source, entry, read>>
    BY <1>2 DEF DataSkip
  <2>2. rfaults' \in 0 .. MaxReadFaults /\ rret' \in RetRead /\ astray' \in BOOLEAN
    <3>1. rfaults' \in 0 .. MaxReadFaults
      BY <2>1, FaultsInBounds DEF IInv, TypeOK, Calls
    <3>2. rret' \in RetRead
      BY <2>1 DEF SkipResults, RetRead
    <3>3. astray' \in BOOLEAN
      BY <2>1, Zenon DEF IInv, TypeOK, Calls
    <3>. QED  BY <3>1, <3>2, <3>3
  <2>3. TypeOK'
    BY <2>1, <2>2, SourceStays DEF IInv, TypeOK, Calls
  <2>4. Piped' /\ Ended'
    BY <1>2, <2>1 DEF IInv, Piped, Ended, source
  <2>. QED  BY <2>1, <2>3, <2>4, SourceStays DEF IInv
<1>. QED  BY <1>1, <1>2

\* Closing the pipeline of the handle, which stays or is freed.
LEMMA PipelineCloses ==
    ASSUME IInv, linked, NEW stays \in BOOLEAN, CloseFilters(filters, stays), UNCHANGED opened
    PROVE  /\ Counted' /\ linked' = stays
           /\ Len(filters') <= MaxFilters + 1 /\ linked' \in BOOLEAN /\ clientCloses' \in Nat
           /\ \A i \in DOMAIN filters' : filters'[i] \in [ready : BOOLEAN, closes : Nat]
<1>1. filters \in Seq(Filter) /\ filters # <<>> /\ filters[1].ready /\ clientCloses = filters[1].closes /\ opened
  BY DEF IInv, Counted
<1>2. /\ filters' \in Seq(Filter) /\ Len(filters') = Len(filters) /\ linked' = stays
      /\ filters' # <<>> /\ Closed(filters') /\ filters'[1].ready /\ filters'[1].closes = 1 /\ clientCloses' = 1
  BY <1>1, CloseFiltersCloses DEF IInv, Counted
<1>3. Filter \subseteq [ready : BOOLEAN, closes : Nat]
  BY DEF Filter
<1>. QED  BY <1>1, <1>2, <1>3 DEF Counted, IInv, TypeOK

LEMMA CloseInv ==
    ASSUME IInv, ReadClose, UNCHANGED <<opened, over>>, call' \in Calls
    PROVE  IInv'
<1>1. rret' = "ok" /\ UNCHANGED <<blocks, entry, read, astray, rfaults>>
  BY DEF ReadClose, stream
<1>2. CASE UNCHANGED <<rstate, source>>
  <2>1. TypeOK'
    BY <1>1, <1>2, SourceStays DEF IInv, TypeOK, RetRead, Calls
  <2>. QED  BY <1>1, <1>2, <2>1, SourceStays DEF IInv, Piped, Ended, source
<1>3. CASE rstate' = "closed" /\ IF linked THEN CloseFilters(filters, TRUE) ELSE UNCHANGED source
  <2>1. /\ Counted' /\ Len(filters') <= MaxFilters + 1 /\ linked' \in BOOLEAN /\ clientCloses' \in Nat
        /\ \A i \in DOMAIN filters' : filters'[i] \in [ready : BOOLEAN, closes : Nat]
    BY <1>1, <1>3, PipelineCloses, SourceStays
  <2>2. TypeOK'
    BY <1>1, <1>3, <2>1 DEF IInv, TypeOK, RetRead, Calls
  <2>. QED  BY <1>1, <1>3, <2>1, <2>2 DEF IInv, Piped, Ended
<1>. QED  BY <1>2, <1>3, Zenon DEF ReadClose

LEMMA FreeInv ==
    ASSUME IInv, ReadFree, UNCHANGED <<opened, over>>, call' \in Calls
    PROVE  IInv'
<1>1. /\ rret' = "ok" /\ rstate' = "freed"
      /\ UNCHANGED <<blocks, entry, read, astray, rfaults>>
      /\ IF linked THEN CloseFilters(filters, FALSE) ELSE UNCHANGED source
  BY Zenon DEF ReadFree, stream
<1>2. /\ Counted' /\ Len(filters') <= MaxFilters + 1 /\ linked' \in BOOLEAN /\ clientCloses' \in Nat
      /\ \A i \in DOMAIN filters' : filters'[i] \in [ready : BOOLEAN, closes : Nat]
      /\ ~linked'
  <2>1. CASE linked
    BY <1>1, <2>1, PipelineCloses
  <2>2. CASE ~linked
    BY <1>1, <2>2, SourceStays DEF source
  <2>. QED  BY <2>1, <2>2
<1>3. TypeOK'
  BY <1>1, <1>2 DEF IInv, TypeOK, RetRead, Calls
<1>. QED  BY <1>1, <1>2, <1>3 DEF IInv, Piped, Ended

LEMMA NextKeepsInv == IInv /\ [Next]_vars => IInv'
<1>1. ASSUME IInv, UNCHANGED vars
      PROVE  IInv'
  <2>1. UNCHANGED <<blocks, rstate, source, entry, read, astray, rret, rfaults, call, opened, over>>
    BY <1>1 DEF vars, rvars, stream
  <2>2. TypeOK'
    BY <1>1, <2>1, SourceStays DEF IInv, TypeOK
  <2>. QED  BY <1>1, <2>1, <2>2, SourceStays DEF IInv, Piped, Ended, source
<1>2. ASSUME IInv, CallOpen PROVE IInv'
  BY <1>2, OpenInv DEF CallOpen, Calls
<1>3. ASSUME IInv, CallHeader PROVE IInv'
  <2>1. NextHeader /\ UNCHANGED opened /\ call' \in Calls
    BY <1>3 DEF CallHeader, Calls
  <2>2. over' = (over \/ rret' \in {"eof", "fatal"})
    BY <1>3 DEF CallHeader
  <2>3. over' \in BOOLEAN /\ (over' => over \/ rret' \in {"eof", "fatal"})
    BY <2>2, Zenon
  <2>. QED  BY <1>3, <2>1, <2>3, HeaderInv
<1>4. ASSUME IInv, CallBlock PROVE IInv'
  BY <1>4, BlockInv DEF CallBlock, Calls
<1>5. ASSUME IInv, CallSkip PROVE IInv'
  BY <1>5, SkipInv DEF CallSkip, Calls
<1>6. ASSUME IInv, CallClose PROVE IInv'
  BY <1>6, CloseInv DEF CallClose, Calls
<1>7. ASSUME IInv, CallFree PROVE IInv'
  BY <1>7, FreeInv DEF CallFree, Calls
<1>. QED  BY <1>1, <1>2, <1>3, <1>4, <1>5, <1>6, <1>7 DEF Next

\* The invariant from which the properties follow holds after every call.
THEOREM InvHolds == Spec => []IInv
<1>. QED  BY InitInv, NextKeepsInv, PTL DEF Spec

-----------------------------------------------------------------------------
(* The properties. *)

\* Every state of the handle is of the right type.
THEOREM TypeCorrect == Spec => []TypeOK
<1>1. IInv => TypeOK
  BY DEF IInv
<1>. QED  BY <1>1, InvHolds, PTL

LEMMA InvCloses == IInv => ClosedExactlyOnce
<1>. SUFFICES ASSUME IInv PROVE ClosedExactlyOnce
  OBVIOUS
<1>1. \A i \in DOMAIN filters : filters[i] \in Filter
  BY DEF IInv, Counted
<1>2. \A i \in DOMAIN filters : filters[i].closes <= 1
  BY <1>1 DEF Filter
<1>3. ASSUME rstate = "freed"
      PROVE  /\ opened => clientCloses = 1
             /\ \A i \in DOMAIN filters : filters[i].ready => filters[i].closes = 1
  <2>1. Closed(filters)
    BY <1>3 DEF IInv, Counted, Piped
  <2>2. filters # <<>> => 1 \in DOMAIN filters
    BY DEF IInv, Counted
  <2>. QED  BY <2>1, <2>2 DEF IInv, Counted, Closed
<1>. QED  BY <1>2, <1>3 DEF ClosedExactlyOnce, IInv, Counted

\* Whatever is called and whatever fails, no filter is closed twice, nor the client's file,
\* and free leaves none open: archive_read_close, archive_read_free and every failure path
\* of archive_read_open1 together close each of them once.
THEOREM EachIsClosedOnce == Spec => []ClosedExactlyOnce
<1>. QED  BY InvCloses, InvHolds, PTL

\* Headers and data are only read through a pipeline that is there and open throughout.
THEOREM PipelineIsThere == Spec => []OpenWhileReadable
<1>1. IInv => OpenWhileReadable
  <2>. SUFFICES ASSUME IInv, rstate \in {"header", "data", "eof"}
                PROVE  /\ linked /\ filters # <<>> /\ Len(filters) <= MaxFilters
                       /\ clientCloses = 0
                       /\ \A i \in DOMAIN filters : filters[i].ready /\ filters[i].closes = 0
    BY DEF IInv, OpenWhileReadable
  <2>1. linked /\ filters # <<>> /\ Len(filters) <= MaxFilters /\ \A i \in DOMAIN filters : filters[i].ready /\ filters[i].closes = 0
    BY DEF IInv, Piped, Counted
  <2>2. 1 \in DOMAIN filters
    BY <2>1 DEF IInv, Counted
  <2>. QED  BY <2>1, <2>2 DEF IInv, Counted
<1>. QED  BY <1>1, InvHolds, PTL

\* After the end of the archive or a fatal error every call that reads fails: no call,
\* closing included, leads back into a state in which headers or data can be read.
THEOREM TheEndIsForGood == Spec => EndIsForGood
<1>. DEFINE A == over /\ call' \in {"header", "block", "skip"} => rret' = "fatal"
<1>1. IInv /\ [Next]_vars => [A]_vars
  <2>. SUFFICES ASSUME IInv, Next, over, call' \in {"header", "block", "skip"}
                PROVE  rret' = "fatal"
    OBVIOUS
  <2>1. rstate \notin {"header", "data"}
    BY DEF IInv, Ended
  <2>2. CallHeader \/ CallBlock \/ CallSkip
    <3>1. (CallOpen => call' = "open") /\ (CallClose => call' = "close") /\ (CallFree => call' = "free")
      BY Zenon DEF CallOpen, CallClose, CallFree
    <3>. QED  BY <3>1 DEF Next
  <2>3. MisusedRead
    BY <2>1, <2>2 DEF CallHeader, CallBlock, CallSkip, NextHeader, ReadDataBlock, DataSkip
  <2>. QED  BY <2>3 DEF MisusedRead
<1>. QED  BY <1>1, InvHolds, PTL DEF Spec, EndIsForGood

\* What opening leaves behind.
LEMMA OpenMakes ==
    ASSUME IInv, Open, rstate = "new"
    PROVE  /\ blocks' = blocks /\ astray' = astray
           /\ rret' = "ok" => rstate' = "header"
           /\ rstate' = "fatal" => rfaults' > 0
           /\ rstate' \in {"new", "header", "fatal"}
<1>1. blocks' = blocks /\ astray' = astray
  BY DEF Open, stream
<1>2. rfaults \in Nat
  BY DEF IInv, TypeOK
<1>3. CASE Opened /\ rret' = "ok"
  BY <1>1, <1>3 DEF Opened
<1>4. CASE (OpenerFails \/ FilterFails \/ TooManyFilters \/ NoFormat) /\ rret' = "fatal"
  <2>1. ReadFails /\ rstate' \in {rstate, "fatal"}
    BY <1>4 DEF OpenerFails, FilterFails, TooManyFilters, NoFormat
  <2>. QED  BY <1>1, <1>2, <1>4, <2>1 DEF ReadFails
<1>. QED  BY <1>3, <1>4 DEF Open

\* What a header, read in a state that is one to read it in, leaves behind: a failure that
\* ends the reading is counted, and ok is the next entry, with the stream no further astray.
LEMMA HeaderMakes ==
    ASSUME IInv, NextHeader, rstate \in {"header", "data"}
    PROVE  /\ blocks' = blocks
           /\ rstate' \in {"header", "data", "eof", "fatal"}
           /\ rstate' = "fatal" => rfaults' > 0
           /\ rret' = "ok" => /\ rstate' = "data" /\ astray' = astray
                             /\ entry' \in 1 .. Len(blocks) /\ read' = 0
<1>1. PICK r1 \in IF rstate = "data" THEN SkipResults ELSE {"ok"} :
         /\ UNCHANGED <<blocks, source>>
         /\ IF r1 = "fatal"
            THEN /\ ReadFails
                 /\ rstate' = "fatal"
                 /\ rret' = "fatal"
                 /\ astray' = TRUE
                 /\ UNCHANGED <<entry, read>>
            ELSE \E r2 \in HeaderResults :
                 /\ rfaults' = rfaults + Cardinality({i \in 1 .. 2 : <<r1, r2>>[i] \notin {"ok", "eof"}})
                 /\ rfaults' <= MaxReadFaults
                 /\ rstate' = StateAfter(r2)
                 /\ rret' = Worst(r1, r2)
                 /\ entry' = IF r2 \in {"ok", "warn"} THEN entry + 1 ELSE entry
                 /\ read' = 0
                 /\ astray' \in IF astray THEN {TRUE}
                               ELSE IF r2 \notin {"ok", "eof"} \/ (entry > 0 /\ LosesPlace(r1)) THEN BOOLEAN
                               ELSE {FALSE}
  BY DEF NextHeader
<1>2. r1 \in SkipResults /\ blocks' = blocks
  BY <1>1 DEF SkipResults
<1>3. rfaults \in Nat /\ Len(blocks) \in Nat /\ entry \in 0 .. Len(blocks)
  BY ArchivesAssumption DEF IInv, TypeOK
<1>4. CASE r1 = "fatal"
  BY <1>1, <1>2, <1>3, <1>4 DEF ReadFails
<1>5. CASE r1 # "fatal"
  <2>1. PICK r2 \in HeaderResults :
                 /\ rfaults' = rfaults + Cardinality({i \in 1 .. 2 : <<r1, r2>>[i] \notin {"ok", "eof"}})
                 /\ rstate' = StateAfter(r2)
                 /\ rret' = Worst(r1, r2)
                 /\ entry' = IF r2 \in {"ok", "warn"} THEN entry + 1 ELSE entry
                 /\ read' = 0
                 /\ astray' \in IF astray THEN {TRUE}
                               ELSE IF r2 \notin {"ok", "eof"} \/ (entry > 0 /\ LosesPlace(r1)) THEN BOOLEAN
                               ELSE {FALSE}
    BY <1>1, <1>5
  <2>2. /\ r2 \in {"ok", "retry", "warn", "failed", "fatal", "eof"}
        /\ r2 \in {"ok", "warn"} => entry < Len(blocks)
    BY DEF HeaderResults
  <2>3. rstate' = "fatal" => rfaults' > 0
    <3>. DEFINE S == {i \in 1 .. 2 : <<r1, r2>>[i] \notin {"ok", "eof"}}
    <3>. SUFFICES ASSUME rstate' = "fatal" PROVE rfaults' > 0
      OBVIOUS
    <3>1. r2 = "fatal"
      BY <1>2, <2>1, <2>2, WorstResults
    <3>2. S \subseteq 1 .. 2 /\ 2 \in S
      BY <3>1
    <3>. HIDE DEF S
    <3>3. IsFiniteSet(S)
      <4>1. S \subseteq Nat /\ \A x \in S : x <= 2
        BY <3>2
      <4>. QED  BY <4>1, FS_BoundedSetOfNaturals
    <3>4. Cardinality(S) \in Nat /\ Cardinality(S) # 0
      BY <3>2, <3>3, FS_CardinalityType, FS_EmptySet
    <3>5. rfaults' = rfaults + Cardinality(S)
      BY <2>1 DEF S
    <3>. QED  BY <1>3, <3>4, <3>5
  <2>4. ASSUME rret' = "ok"
        PROVE  rstate' = "data" /\ astray' = astray /\ entry' \in 1 .. Len(blocks) /\ read' = 0
    <3>1. r1 = "ok" /\ r2 = "ok"
      <4>1. Worst(r1, r2) = "ok"
        BY <2>1, <2>4
      <4>. QED  BY <1>2, <2>2, <4>1, WorstResults
    <3>2. ~LosesPlace(r1)
      BY <3>1 DEF LosesPlace
    <3>3. rstate' = "data"
      BY <2>1, <3>1 DEF StateAfter
    <3>4. astray' = astray
      BY <2>1, <3>1, <3>2, Zenon DEF IInv, TypeOK
    <3>5. entry' \in 1 .. Len(blocks) /\ read' = 0
      BY <1>3, <2>1, <2>2, <3>1
    <3>. QED  BY <3>3, <3>4, <3>5
  <2>5. rstate' \in {"header", "data", "eof", "fatal"}
    BY <1>2, <2>1, <2>2, WorstResults
  <2>. QED  BY <1>2, <2>3, <2>4, <2>5
<1>. QED  BY <1>4, <1>5

\* When nothing fails opening succeeds, and a header is that of the next entry or the end.
LEMMA OpenSucceeds ==
    ASSUME IInv, Open, rfaults' = 0
    PROVE  rfaults = 0 /\ rret' = "ok" /\ UNCHANGED <<entry, read>>
<1>1. rfaults \in Nat
  BY DEF IInv, TypeOK
<1>2. ~ReadFails
  BY <1>1 DEF ReadFails
<1>3. Opened /\ rret' = "ok"
  BY <1>2 DEF Open, OpenerFails, FilterFails, TooManyFilters, NoFormat
<1>. QED  BY <1>3 DEF Open, Opened, stream

LEMMA HeaderSucceeds ==
    ASSUME IInv, NextHeader, rstate \in {"header", "data"}, rfaults' = 0
    PROVE  /\ rfaults = 0
           /\ \/ rret' = "ok" /\ entry < Len(blocks) /\ entry' = entry + 1 /\ read' = 0
              \/ rret' = "eof" /\ entry = Len(blocks) /\ entry' = entry
<1>1. rfaults \in Nat /\ Len(blocks) \in Nat /\ entry \in 0 .. Len(blocks)
  BY ArchivesAssumption DEF IInv, TypeOK
<1>2. ~ReadFails
  BY <1>1 DEF ReadFails
<1>3. PICK r1 \in IF rstate = "data" THEN SkipResults ELSE {"ok"} :
         /\ r1 # "fatal"
         /\ \E r2 \in HeaderResults :
                 /\ rfaults' = rfaults + Cardinality({i \in 1 .. 2 : <<r1, r2>>[i] \notin {"ok", "eof"}})
                 /\ rret' = Worst(r1, r2)
                 /\ entry' = IF r2 \in {"ok", "warn"} THEN entry + 1 ELSE entry
                 /\ read' = 0
  BY <1>2 DEF NextHeader
<1>4. PICK r2 \in HeaderResults :
                 /\ rfaults' = rfaults + Cardinality({i \in 1 .. 2 : <<r1, r2>>[i] \notin {"ok", "eof"}})
                 /\ rret' = Worst(r1, r2)
                 /\ entry' = IF r2 \in {"ok", "warn"} THEN entry + 1 ELSE entry
                 /\ read' = 0
  BY <1>3
<1>5. r1 \in SkipResults
  BY DEF SkipResults
<1>6. /\ r2 \in {"ok", "retry", "warn", "failed", "fatal", "eof"}
      /\ r2 = "ok" => entry < Len(blocks)
      /\ r2 = "eof" => ~(entry < Len(blocks))
  BY DEF HeaderResults
<1>. DEFINE S == {i \in 1 .. 2 : <<r1, r2>>[i] \notin {"ok", "eof"}}
<1>7. S \subseteq 1 .. 2 /\ (1 \notin S => r1 \in {"ok", "eof"}) /\ (2 \notin S => r2 \in {"ok", "eof"})
  OBVIOUS
<1>8. rfaults' = rfaults + Cardinality(S)
  BY <1>4
<1>. HIDE DEF S
<1>9. IsFiniteSet(S)
  <2>1. S \subseteq Nat /\ \A x \in S : x <= 2
    BY <1>7
  <2>. QED  BY <2>1, FS_BoundedSetOfNaturals
<1>10. rfaults = 0 /\ S = {}
  <2>1. Cardinality(S) \in Nat /\ (Cardinality(S) = 0 => S = {})
    BY <1>9, FS_CardinalityType, FS_EmptySet
  <2>. QED  BY <1>1, <1>8, <2>1
<1>11. r1 = "ok" /\ r2 \in {"ok", "eof"}
  BY <1>5, <1>7, <1>10 DEF SkipResults
<1>12. rret' = r2
  BY <1>4, <1>11 DEF Worst, Ranks
<1>. QED  BY <1>1, <1>4, <1>6, <1>10, <1>11, <1>12

\* A header reported as ok never hides that the place was lost on the way to it, since the
\* worse of what skipping and reading returned is what the call returns.
THEOREM OkIsInPlace == Spec => OkNeverHidesALostPlace
<1>. DEFINE A == call' = "header" /\ rret' = "ok" => astray' = astray
<1>1. IInv /\ [Next]_vars => [A]_vars
  <2>. SUFFICES ASSUME IInv, Next, call' = "header", rret' = "ok"
                PROVE  astray' = astray
    OBVIOUS
  <2>1. CallHeader
    BY DEF Next, CallOpen, CallBlock, CallSkip, CallClose, CallFree
  <2>2. rstate \in {"header", "data"}
    BY <2>1 DEF CallHeader, NextHeader, MisusedRead
  <2>. QED  BY <2>1, <2>2, HeaderMakes DEF CallHeader
<1>. QED  BY <1>1, InvHolds, PTL DEF Spec, OkNeverHidesALostPlace
=============================================================================
