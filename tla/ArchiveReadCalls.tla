-------------------------- MODULE ArchiveReadCalls -------------------------
(***************************************************************************)
(* A client that opens a handle of ArchiveRead once and otherwise makes any *)
(* sequence of calls: what the handle guarantees whoever drives it.        *)
(***************************************************************************)
EXTENDS ArchiveRead

CONSTANT Archives   \* the archives there are, each the blocks of its entries

ASSUME ArchivesAssumption == Archives \subseteq Seq(Nat)

VARIABLES
    call,       \* the last call
    opened,     \* open has been called
    over        \* history: a header call has returned eof or fatal

vars == <<rvars, call, opened, over>>

TypeOK ==
    /\ blocks \in Archives
    /\ rstate \in {"new", "header", "data", "eof", "closed", "fatal", "freed"}
    /\ \A i \in DOMAIN filters : filters[i] \in [ready : BOOLEAN, closes : Nat]
    /\ Len(filters) <= MaxFilters + 1
    /\ linked \in BOOLEAN
    /\ clientCloses \in Nat
    /\ entry \in 0 .. Len(blocks)
    /\ rstate = "data" => entry > 0 /\ read \in 0 .. blocks[entry]
    /\ astray \in BOOLEAN
    /\ rret \in RetRead
    /\ rfaults \in 0 .. MaxReadFaults
    /\ call \in {"new", "open", "header", "block", "skip", "close", "free"}
    /\ opened \in BOOLEAN
    /\ over \in BOOLEAN

Init ==
    /\ \E b \in Archives : ReadReady(b)
    /\ call = "new"
    /\ opened = FALSE
    /\ over = FALSE

CallOpen == ~opened /\ rstate = "new" /\ Open /\ opened' = TRUE /\ call' = "open" /\ UNCHANGED over
CallHeader == NextHeader /\ call' = "header" /\ over' = (over \/ rret' \in {"eof", "fatal"}) /\ UNCHANGED opened
CallBlock == ReadDataBlock /\ call' = "block" /\ UNCHANGED <<opened, over>>
CallSkip == DataSkip /\ call' = "skip" /\ UNCHANGED <<opened, over>>
CallClose == ReadClose /\ call' = "close" /\ UNCHANGED <<opened, over>>
CallFree == ReadFree /\ call' = "free" /\ UNCHANGED <<opened, over>>

\* No call may follow free.
Next == rstate # "freed" /\ (CallOpen \/ CallHeader \/ CallBlock \/ CallSkip \/ CallClose \/ CallFree)

Spec == Init /\ [][Next]_vars
-----------------------------------------------------------------------------
(* Properties. *)

\* Whatever the calls and whatever fails, no filter and not the client's file is closed
\* twice, which would free the client's data twice; and after free all are closed.
ClosedExactlyOnce ==
    /\ clientCloses <= 1
    /\ \A i \in DOMAIN filters : filters[i].closes <= 1
    /\ rstate = "freed" =>
        /\ opened => clientCloses = 1
        /\ \A i \in DOMAIN filters : filters[i].ready => filters[i].closes = 1

\* In a state in which headers or data can be read the pipeline is there, open from end
\* to end, and no longer than MAX_NUMBER_FILTERS.
OpenWhileReadable ==
    /\ TypeOK
    /\ rstate \in {"header", "data", "eof"} =>
        /\ linked /\ filters # <<>> /\ Len(filters) <= MaxFilters
        /\ clientCloses = 0
        /\ \A i \in DOMAIN filters : filters[i].ready /\ filters[i].closes = 0

\* "EOF and FATAL are persistent at this layer.  By modifying the state, we guarantee
\* that future calls to read a header or read data will fail" (archive_read.c:653).
EndIsForGood == [][over /\ call' \in {"header", "block", "skip"} => rret' = "fatal"]_vars

\* A header that is reported as ok was read where a header begins, unless an earlier
\* call has already reported a failure: skipping the rest of an entry is not
\* forgotten because the next header can be read.
OkNeverHidesALostPlace == [][call' = "header" /\ rret' = "ok" => astray' = astray]_vars
=============================================================================
