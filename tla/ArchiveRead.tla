---------------------------- MODULE ArchiveRead ----------------------------
(***************************************************************************)
(* lib/libarchive/archive_read.c: the archive_read handle, which opens a   *)
(* client's file, builds the pipeline of filters that decode it, lets the  *)
(* formats bid for it and then hands out one header and the blocks of data *)
(* behind it after the other.  One action per function of its table; rret  *)
(* is what the last call returned.                                         *)
(*                                                                         *)
(* The archive is the number of blocks of each entry.  What a filter or a  *)
(* format makes of the bytes is left out, except for what it may return:   *)
(* at most MaxReadFaults times something else than ok or eof.  Failing     *)
(* allocations, passphrases and multi-volume sets are left out.            *)
(***************************************************************************)
EXTENDS Integers, Sequences, FiniteSets

CONSTANTS
    MaxFilters,     \* MAX_NUMBER_FILTERS, 25 in the code
    MaxReadFaults   \* how often filters and formats fail in one behaviour

ASSUME FiltersAssumption == MaxFilters \in Nat \ {0} /\ MaxReadFaults \in Nat

VARIABLES
    blocks,         \* the archive: how many blocks of data each entry has
    rstate,         \* archive.state
    filters,        \* the filters made, the client's own first
    linked,         \* a->filter leads to them: they have not been freed
    clientCloses,   \* how often the client's closer was called, which also frees its data
    entry,          \* the entry whose header was read last
    read,           \* how many blocks of it have been handed out
    astray,         \* the stream is not where a header or a block begins
    rret,           \* what the last call returned
    rfaults         \* failures so far

source == <<filters, linked, clientCloses>>
stream == <<entry, read, astray>>
rvars == <<blocks, rstate, source, stream, rret, rfaults>>

RetRead == {"ok", "eof", "retry", "warn", "failed", "fatal"}
Ranks == [eof |-> 1, ok |-> 0, retry |-> -10, warn |-> -20, failed |-> -25, fatal |-> -30]

\* A filter: its vtable is set, and how often it has been closed.
Made(ready) == [ready |-> ready, closes |-> 0]
-----------------------------------------------------------------------------
\* archive_read_new, for an archive whose entries have the blocks b.
ReadReady(b) ==
    /\ blocks = b
    /\ rstate = "new"
    /\ filters = <<>>
    /\ linked = FALSE
    /\ clientCloses = 0
    /\ entry = 0
    /\ read = 0
    /\ astray = FALSE
    /\ rret = "ok"
    /\ rfaults = 0

ReadFails == rfaults < MaxReadFaults /\ rfaults' = rfaults + 1

\* __archive_check_magic in a state that the call is not meant for.
MisusedRead == rstate' = "fatal" /\ rret' = "fatal" /\ UNCHANGED <<blocks, source, stream, rfaults>>

\* Mutant: forgets which filters it has closed.
CloseAllAgain(fs) == [i \in DOMAIN fs |-> IF fs[i].ready THEN [fs[i] EXCEPT !.closes = @ + 1] ELSE fs[i]]

\* close_filters closes the filters of fs that are not closed; closing the first
\* of them is closing the client's file.
CloseAll(fs) == [i \in DOMAIN fs |-> IF fs[i].ready /\ fs[i].closes = 0 THEN [fs[i] EXCEPT !.closes = 1] ELSE fs[i]]

ClientClosed(fs, after) == IF fs = <<>> THEN clientCloses ELSE clientCloses + after[1].closes - fs[1].closes

\* The pipeline fs is closed, and freed unless it stays.
CloseFilters(fs, stays) ==
    /\ filters' = CloseAll(fs)
    /\ clientCloses' = ClientClosed(fs, CloseAll(fs))
    /\ linked' = stays
-----------------------------------------------------------------------------
(* archive_read_open1, which a client calls once. *)

\* A pipeline of n filters, all of them initialised.
Pipeline(n) == [i \in 1 .. n |-> Made(TRUE)]

\* The client's opener fails; its closer is called to clean up.
OpenerFails ==
    /\ ReadFails
    /\ clientCloses' = clientCloses + 1
    /\ UNCHANGED <<rstate, filters, linked>>

\* choose_filters gives up on init of the filter after n others, or on data that cannot
\* be read through n filters.
FilterFails ==
    /\ ReadFails
    /\ rstate' = "fatal"
    /\ \/ \E n \in 1 .. MaxFilters, ready \in BOOLEAN : CloseFilters(Append(Pipeline(n), Made(ready)), FALSE)
       \/ \E n \in 1 .. MaxFilters : CloseFilters(Pipeline(n), FALSE)

\* Mutant: choose_filters goes on.
TooManyFiltersUnnoticed ==
    /\ ReadFails
    /\ rstate' = "header"
    /\ linked' = TRUE
    /\ filters' = CloseAll(Pipeline(MaxFilters + 1))
    /\ clientCloses' = 1

\* Every round found one more filter; they stay as they are until the handle is closed.
TooManyFilters ==
    /\ ReadFails
    /\ rstate' = "fatal"
    /\ linked' = TRUE
    /\ filters' = Pipeline(MaxFilters + 1)
    /\ UNCHANGED clientCloses

\* No format wants the stream.
NoFormat ==
    /\ ReadFails
    /\ rstate' = "fatal"
    /\ \E n \in 1 .. MaxFilters : CloseFilters(Pipeline(n), TRUE)

Opened ==
    /\ rstate' = "header"
    /\ linked' = TRUE
    /\ \E n \in 1 .. MaxFilters : filters' = Pipeline(n)
    /\ UNCHANGED <<clientCloses, rfaults>>

Open ==
    /\ UNCHANGED <<blocks, stream>>
    /\ \/ Opened /\ rret' = "ok"
       \/ (OpenerFails \/ FilterFails \/ TooManyFilters \/ NoFormat) /\ rret' = "fatal"
-----------------------------------------------------------------------------
(* Headers and data. *)

\* What read_data_skip of the format returns, or the loop over read_data; eof is ok.
SkipResults == {"ok", "retry", "warn", "failed", "fatal"}

\* Skipping what is left of the entry fails, or leaves the stream somewhere in it.
LosesPlace(r) == r # "ok" /\ read < blocks[entry]

\* Mutant: a header hides what went wrong on the way to it.
WorstIsLatest(r1, r2) == r2

\* "EOF always wins; otherwise return the worst error."
Worst(r1, r2) == IF r2 = "eof" \/ Ranks[r2] < Ranks[r1] THEN r2 ELSE r1

\* read_header of the format: the next entry, with a warning perhaps, or the end; or it
\* fails, and whether the stream is behind the header then is open.
HeaderResults == IF entry < Len(blocks) THEN {"ok", "retry", "warn", "failed", "fatal"}
                 ELSE {"eof", "retry", "failed", "fatal"}

\* Mutant: leaves the state as it is at the end.
StateAfterEnd(r2) ==
    CASE r2 = "eof" -> "header"
      [] r2 \in {"ok", "warn"} -> "data"
      [] r2 \in {"retry", "failed"} -> "header"
      [] r2 = "fatal" -> "fatal"

StateAfter(r2) ==
    CASE r2 = "eof" -> "eof"
      [] r2 \in {"ok", "warn"} -> "data"
      [] r2 \in {"retry", "failed"} -> "header"
      [] r2 = "fatal" -> "fatal"

NextHeader ==
    IF rstate \notin {"header", "data"} THEN MisusedRead
    ELSE \E r1 \in IF rstate = "data" THEN SkipResults ELSE {"ok"} :
           /\ UNCHANGED <<blocks, source>>
           /\ IF r1 = "fatal"
              THEN /\ ReadFails
                   /\ rstate' = "fatal"
                   /\ rret' = "fatal"
                   /\ astray' = TRUE
                   /\ UNCHANGED <<entry, read>>
              ELSE \E r2 \in HeaderResults :
                   /\ rfaults' = rfaults + Cardinality({i \in 1 .. 2 : <<r1, r2>>[i] \notin {"ok", "eof"}})
                   /\ rfaults' <= MaxReadFaults
                   /\ rstate' = StateAfter(r2)
                   /\ rret' = Worst(r1, r2)
                   /\ entry' = IF r2 \in {"ok", "warn"} THEN entry + 1 ELSE entry
                   /\ read' = 0
                   /\ astray' \in IF astray THEN {TRUE}
                                 ELSE IF r2 \notin {"ok", "eof"} \/ (entry > 0 /\ LosesPlace(r1)) THEN BOOLEAN
                                 ELSE {FALSE}

\* archive_read_data_block
ReadDataBlock ==
    IF rstate # "data" THEN MisusedRead
    ELSE /\ UNCHANGED <<blocks, rstate, source, entry>>
         /\ \/ /\ read < blocks[entry]
               /\ read' = read + 1
               /\ rret' = "ok"
               /\ UNCHANGED <<astray, rfaults>>
            \/ /\ read = blocks[entry]
               /\ rret' = "eof"
               /\ UNCHANGED <<read, astray, rfaults>>
            \/ /\ ReadFails
               /\ rret' \in {"retry", "warn", "failed", "fatal"}
               /\ astray' \in {astray, TRUE}
               /\ UNCHANGED read

\* archive_read_data_skip, as a call of its own: even fatal leaves the state header.
DataSkip ==
    IF rstate # "data" THEN MisusedRead
    ELSE \E r \in SkipResults :
           /\ IF r = "ok" THEN UNCHANGED rfaults ELSE ReadFails
           /\ rstate' = "header"
           /\ rret' = r
           /\ astray' \in IF LosesPlace(r) THEN {astray, TRUE} ELSE {astray}
           /\ UNCHANGED <<blocks, source, entry, read>>
-----------------------------------------------------------------------------
(* Closing. *)

ReadClose ==
    /\ rret' = "ok"
    /\ UNCHANGED <<blocks, stream, rfaults>>
    /\ IF rstate = "closed" THEN UNCHANGED <<rstate, source>>
       ELSE /\ rstate' = "closed"
            /\ IF linked THEN CloseFilters(filters, TRUE) ELSE UNCHANGED source

\* Mutant: frees the filters of an archive that failed as they are.
FreeFatal ==
    /\ rstate # "freed"
    /\ rstate' = "freed"
    /\ rret' = "ok"
    /\ IF linked /\ rstate # "fatal" THEN CloseFilters(filters, FALSE) ELSE UNCHANGED source
    /\ UNCHANGED <<blocks, stream, rfaults>>

\* archive_read_free: __archive_read_free_filters closes what is still open.
ReadFree ==
    /\ rstate # "freed"
    /\ rstate' = "freed"
    /\ rret' = "ok"
    /\ IF linked THEN CloseFilters(filters, FALSE) ELSE UNCHANGED source
    /\ UNCHANGED <<blocks, stream, rfaults>>
=============================================================================
