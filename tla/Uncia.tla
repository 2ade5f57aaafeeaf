------------------------------- MODULE Uncia -------------------------------
(***************************************************************************)
(* tools/uncia/uncia.cc: Executor::Execute and wmain, which extract the    *)
(* archives of the command line one after the other, each into a folder of *)
(* its own beside it, or the only one into the destination of -d, flatten  *)
(* each folder and turn the result into the exit code.                     *)
(*                                                                         *)
(* The archives lie in one directory.  Extract is the call of the module   *)
(* Extract as its caller sees it: it may have made the folder or not, and  *)
(* put something there or left it empty, and is true except when no memory *)
(* was left; MakeFlattened is the call of Flatten: it is false when there  *)
(* is no folder or too much to walk through.  Other processes create       *)
(* folders, and so do entries that lie elsewhere because their path is     *)
(* rooted: MaxOthers of them.                                              *)
(***************************************************************************)
EXTENDS Naturals, Sequences, FiniteSets

CONSTANTS
    Stems,          \* the names of archives without their extension
    Folders,        \* the names of folders
    Folder,         \* Folder[s, i]: s for i = 0, else s followed by -(i)
    MaxTries,       \* how many candidates there are, 100 in the code
    Lines,          \* the archives on the command line
    None,           \* no -d
    MaxOthers

ASSUME TriesAssumption == MaxTries \in Nat \ {0} /\ MaxOthers \in Nat
ASSUME FoldersAssumption == Folder \in [Stems \X (0 .. MaxTries - 1) -> Folders] /\ None \notin Folders
ASSUME LinesAssumption == Lines \subseteq Seq(Stems)

VARIABLES
    archive_files,  \* the archives on the command line
    given,          \* the argument of -d, or None
    exists,         \* the folders there are
    made,           \* the archives that were to go into a folder and made it or put something there
    pc,
    n,              \* the archive at hand
    i,              \* the candidate to try next
    destination,    \* where it goes
    code,           \* the exit code
    skipped,        \* history: archives for which no candidate was free
    others,         \* folders created by others so far
    overtaken       \* history: one of them is the destination that was found free

disk == <<exists, made>>
args == <<archive_files, given>>
vars == <<args, disk, pc, n, i, destination, code, skipped, others, overtaken>>

TypeOK ==
    /\ archive_files \in Lines
    /\ given \in Folders \cup {None}
    /\ exists \subseteq Folders
    /\ made \in [Folders -> SUBSET DOMAIN archive_files]
    /\ \A f \in Folders : made[f] # {} => f \in exists
    /\ pc \in {"next", "probe", "extract", "flatten", "done"}
    /\ n \in 0 .. Len(archive_files) + 1
    /\ pc # "done" => n <= Len(archive_files)
    /\ pc \in {"probe", "extract", "flatten"} => n \in DOMAIN archive_files
    /\ i \in 0 .. MaxTries
    /\ pc = "probe" => i < MaxTries
    /\ destination \in Folders \cup {None}
    /\ pc \in {"extract", "flatten"} => destination # None
    /\ code \in {0, 1}
    /\ skipped \subseteq DOMAIN archive_files
    /\ others \in 0 .. MaxOthers
    /\ overtaken \in BOOLEAN

Init ==
    /\ archive_files \in Lines
    /\ given \in Folders \cup {None}
    /\ exists \in SUBSET Folders
    /\ made = [f \in Folders |-> {}]
    /\ pc = "next"
    /\ n = 0
    /\ i = 0
    /\ destination = None
    /\ code = 0
    /\ skipped = {}
    /\ others = 0
    /\ overtaken = FALSE

Single == Len(archive_files) = 1

Exit(c) == pc' = "done" /\ code' = c

\* Mutant: -d is not ignored for several archives.
StepNextUsesGiven ==
    /\ pc = "next"
    /\ n' = n + 1
    /\ i' = 0
    /\ IF n < Len(archive_files)
       THEN /\ UNCHANGED code
            /\ IF given # None THEN pc' = "extract" /\ destination' = given
               ELSE pc' = "probe" /\ UNCHANGED destination
       ELSE Exit(0) /\ UNCHANGED destination
    /\ overtaken' = FALSE
    /\ UNCHANGED <<args, disk, skipped, others>>

\* The next archive, if there is one; -d counts for a single one.
StepNext ==
    /\ pc = "next"
    /\ n' = n + 1
    /\ i' = 0
    /\ IF n < Len(archive_files)
       THEN /\ UNCHANGED code
            /\ IF Single /\ given # None THEN pc' = "extract" /\ destination' = given
               ELSE pc' = "probe" /\ UNCHANGED destination
       ELSE Exit(0) /\ UNCHANGED destination
    /\ overtaken' = FALSE
    /\ UNCHANGED <<args, disk, skipped, others>>

Candidate == Folder[archive_files[n], i]

Choose ==
    /\ pc = "probe"
    /\ Candidate \notin exists
    /\ destination' = Candidate
    /\ pc' = "extract"
    /\ UNCHANGED <<args, disk, n, i, code, skipped, others, overtaken>>

TryNext ==
    /\ pc = "probe"
    /\ Candidate \in exists
    /\ i + 1 < MaxTries
    /\ i' = i + 1
    /\ UNCHANGED <<args, disk, pc, n, destination, code, skipped, others, overtaken>>

\* Mutant: takes the last candidate although it exists.
GiveUpTakesLast ==
    /\ pc = "probe"
    /\ Candidate \in exists
    /\ i + 1 = MaxTries
    /\ destination' = Candidate
    /\ pc' = "extract"
    /\ UNCHANGED <<args, disk, n, i, code, skipped, others, overtaken>>

\* Mutant: the last candidate is not tried.
GiveUpEarly ==
    /\ pc = "probe"
    /\ Candidate \in exists
    /\ i + 2 >= MaxTries
    /\ skipped' = skipped \cup {n}
    /\ IF Single THEN Exit(1) ELSE pc' = "next" /\ UNCHANGED code
    /\ UNCHANGED <<args, disk, n, i, destination, others, overtaken>>

\* Every candidate exists: an error for a single archive, and continue otherwise.
GiveUp ==
    /\ pc = "probe"
    /\ Candidate \in exists
    /\ i + 1 = MaxTries
    /\ skipped' = skipped \cup {n}
    /\ IF Single THEN Exit(1) ELSE pc' = "next" /\ UNCHANGED code
    /\ UNCHANGED <<args, disk, n, i, destination, others, overtaken>>

\* Extractor::Extract returns true, whatever it has done: it has made the folder or put
\* something there, or neither.  A folder it made may be empty, when all that was written is the
\* parent of an entry that then failed.
Extract ==
    /\ pc = "extract"
    /\ pc' = "flatten"
    /\ \/ /\ exists' = exists \cup {destination}
          /\ made' = [made EXCEPT ![destination] = @ \cup {n}]
       \/ UNCHANGED disk
    /\ UNCHANGED <<args, n, i, destination, code, skipped, others, overtaken>>

ExtractFails ==
    /\ pc = "extract"
    /\ Exit(1)
    /\ UNCHANGED <<args, disk, n, i, destination, skipped, others, overtaken>>

\* Mutant: the result of make_flat is dropped for a single archive as well.
FlattenIgnored(flat) ==
    /\ pc = "flatten"
    /\ flat => destination \in exists
    /\ IF Single THEN Exit(0) ELSE pc' = "next" /\ UNCHANGED code
    /\ UNCHANGED <<args, disk, n, i, destination, skipped, others, overtaken>>

\* Mutant: goes back to the archive it has just extracted.
FlattenAgain(flat) ==
    /\ pc = "flatten"
    /\ flat => destination \in exists
    /\ n' = n - 1
    /\ pc' = "next"
    /\ UNCHANGED <<args, disk, i, destination, code, skipped, others, overtaken>>

\* make_flat, whose result counts for a single archive.
Flatten(flat) ==
    /\ pc = "flatten"
    /\ flat => destination \in exists
    /\ IF Single THEN Exit(IF flat THEN 0 ELSE 1) ELSE pc' = "next" /\ UNCHANGED code
    /\ UNCHANGED <<args, disk, n, i, destination, skipped, others, overtaken>>

\* Another process creates a folder, or an entry does that does not lie below destination.
Other(f) ==
    /\ pc # "done"
    /\ others < MaxOthers
    /\ others' = others + 1
    /\ f \notin exists
    /\ exists' = exists \cup {f}
    /\ overtaken' = (overtaken \/ (pc \in {"extract", "flatten"} /\ f = destination))
    /\ UNCHANGED <<args, made, pc, n, i, destination, code, skipped>>

Step ==
    \/ StepNext
    \/ Choose \/ TryNext \/ GiveUp
    \/ Extract \/ ExtractFails
    \/ \E flat \in BOOLEAN : Flatten(flat)

Terminated == pc = "done" /\ UNCHANGED vars

Next == Step \/ (\E f \in Folders : Other(f)) \/ Terminated

\* uncia goes on until it exits; nothing makes other processes create folders.
Spec == Init /\ [][Next]_vars /\ WF_vars(Step)
-----------------------------------------------------------------------------
(* Properties. *)

\* "extracting multiple archives will be ignored" (uncia.cc:90, of -d): with several
\* archives every one gets a folder of its own, whatever -d says and even when the name of
\* one archive is a candidate of another or the folder of an archive was left empty.
FoldersAreNotShared == \A f \in Folders : Cardinality(made[f]) <= 1

\* Without -d the folder an archive is extracted into was not there before, unless it was
\* created by another process since it was found free.
OnlyNewFoldersAreFilled ==
    [][\A f \in Folders :
        made'[f] # made[f] /\ ~(Single /\ given # None) /\ ~overtaken => f \notin exists]_vars

\* An archive is given up only when every candidate exists.
GivesUpWhenAllExist ==
    \A k \in skipped : \A j \in 0 .. MaxTries - 1 : Folder[archive_files[k], j] \in exists

\* The exit code of a single archive without -d is only 0 when the extraction got as far as
\* making the folder: Extract does not say so, but MakeFlattened fails when there is no folder
\* (and no other process has created one).  It is not more than that: an empty folder is enough.
ZeroMeansFolderMade ==
    pc = "done" /\ code = 0 /\ Single /\ given = None /\ ~overtaken => made[destination] # {}

\* uncia exits.
Termination == <>(pc = "done")
=============================================================================
