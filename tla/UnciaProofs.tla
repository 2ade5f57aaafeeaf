---------------------------- MODULE UnciaProofs ----------------------------
(***************************************************************************)
(* Theorems about Uncia, for any archives on the command line, any names   *)
(* of folders and any number of candidates and of other processes: where   *)
(* an archive goes.  And about Sanitize: where the entries of an archive   *)
(* go below that, which is what is_harmful_path decides about every path,  *)
(* of any length.                                                          *)
(***************************************************************************)
EXTENDS Uncia, Sanitize, FiniteSetTheorems, SequenceTheorems, TLAPS

\* The folder is the one of -d, which counts for a single archive.
Given == Single /\ given # None

\* Before an archive is extracted no archive of the command line has made or filled its folder,
\* and it does not exist unless another process has created it.
Fresh ==
    pc = "extract" /\ ~Given => made[destination] = {} /\ (~overtaken => destination \notin exists)

\* A folder was made, or filled, by one archive.
OneArchive == \A f \in Folders : \E k : made[f] \subseteq {k}

IInv == TypeOK /\ Fresh /\ OneArchive

-----------------------------------------------------------------------------
(* Types. *)

\* What is probed for the current archive (uncia.cc's folder by number) is a folder.
LEMMA CandidateIsFolder ==
    ASSUME TypeOK, pc = "probe"
    PROVE  Candidate \in Folders
<1>1. archive_files \in Seq(Stems) /\ n \in DOMAIN archive_files /\ i \in 0 .. MaxTries - 1
  BY TriesAssumption, LinesAssumption DEF TypeOK
<1>2. archive_files[n] \in Stems
  BY <1>1
<1>3. <<archive_files[n], i>> \in Stems \X (0 .. MaxTries - 1)
  BY <1>1, <1>2, Zenon
<1>4. Folder[<<archive_files[n], i>>] \in Folders
  BY <1>3, FoldersAssumption, Zenon
<1>. QED  BY <1>4, Zenon DEF Candidate

\* The command line as given is of the right type.
LEMMA InitTypeOK == Init => TypeOK
<1>. SUFFICES ASSUME Init PROVE TypeOK
  OBVIOUS
<1>1. 0 \in 0 .. Len(archive_files) + 1 /\ 0 <= Len(archive_files) /\ 0 \in 0 .. MaxTries /\ 0 \in 0 .. MaxOthers
  <2>1. archive_files \in Seq(Stems)
    BY LinesAssumption DEF Init
  <2>. QED  BY <2>1, TriesAssumption
<1>2. made \in [Folders -> SUBSET DOMAIN archive_files] /\ \A f \in Folders : made[f] = {}
  BY DEF Init
<1>. QED  BY <1>1, <1>2 DEF Init, TypeOK

\* Every step of Execute, and of another process, keeps the types.
LEMMA NextTypeOK == TypeOK /\ [Next]_vars => TypeOK'
<1>. SUFFICES ASSUME TypeOK, [Next]_vars PROVE TypeOK'
  OBVIOUS
<1>. USE TriesAssumption, LinesAssumption, FoldersAssumption
<1>0. archive_files \in Seq(Stems) /\ Len(archive_files) \in Nat /\ DOMAIN archive_files = 1 .. Len(archive_files)
  BY DEF TypeOK
<1>1. CASE StepNext
  <2>1. n \in Nat /\ n <= Len(archive_files) /\ n' = n + 1 /\ i' = 0 /\ 0 \in 0 .. MaxTries
    BY <1>0, <1>1 DEF TypeOK, StepNext
  <2>2. CASE n < Len(archive_files)
    <3>1. n + 1 \in DOMAIN archive_files /\ n + 1 \in 0 .. Len(archive_files) + 1
      BY <1>0, <2>1, <2>2
    <3>2. 0 < MaxTries /\ code' = code /\ UNCHANGED <<archive_files, given, exists, made, skipped, others>> /\ overtaken' = FALSE
      BY <1>1, <2>2 DEF StepNext, args, disk
    <3>3. n' \in 0 .. Len(archive_files') + 1 /\ n' <= Len(archive_files') /\ n' \in DOMAIN archive_files'
      BY <1>0, <2>1, <2>2, <3>1, <3>2
    <3>4. /\ archive_files' \in Lines /\ given' \in Folders \cup {None} /\ exists' \subseteq Folders
          /\ made' \in [Folders -> SUBSET DOMAIN archive_files'] /\ \A f \in Folders : made'[f] # {} => f \in exists'
          /\ code' \in {0, 1} /\ skipped' \subseteq DOMAIN archive_files' /\ others' \in 0 .. MaxOthers
          /\ overtaken' \in BOOLEAN
      BY <3>2 DEF TypeOK
    <3>5. i' \in 0 .. MaxTries /\ i' < MaxTries
      BY <2>1, <3>2
    <3>6. CASE Single /\ given # None
      <4>1. pc' = "extract" /\ destination' = given
        BY <1>1, <2>2, <3>6 DEF StepNext
      <4>. QED  BY <3>3, <3>4, <3>5, <3>6, <4>1 DEF TypeOK
    <3>7. CASE ~(Single /\ given # None)
      <4>1. pc' = "probe" /\ destination' = destination
        BY <1>1, <2>2, <3>7 DEF StepNext
      <4>. QED  BY <3>3, <3>4, <3>5, <4>1 DEF TypeOK
    <3>. QED  BY <3>6, <3>7
  <2>3. CASE ~(n < Len(archive_files))
    <3>1. n + 1 \in 0 .. Len(archive_files) + 1
      BY <1>0, <2>1
    <3>. QED  BY <1>0, <1>1, <2>1, <2>3, <3>1 DEF TypeOK, StepNext, Exit, args, disk
  <2>. QED  BY <2>2, <2>3
<1>2. CASE Choose
  BY <1>0, <1>2, CandidateIsFolder DEF TypeOK, Choose, args, disk
<1>3. CASE TryNext
  BY <1>0, <1>3 DEF TypeOK, TryNext, args, disk
<1>4. CASE GiveUp
  <2>1. skipped' \subseteq DOMAIN archive_files
    BY <1>4 DEF TypeOK, GiveUp
  <2>. QED  BY <1>0, <1>4, <2>1 DEF TypeOK, GiveUp, Exit, args, disk
<1>5. CASE Extract
  <2>1. made' \in [Folders -> SUBSET DOMAIN archive_files] /\ exists' \subseteq Folders /\ UNCHANGED archive_files
    <3>1. n \in DOMAIN archive_files /\ destination \in Folders
      BY <1>5 DEF TypeOK, Extract
    <3>2. CASE UNCHANGED disk
      BY <1>5, <3>2 DEF TypeOK, Extract, disk, args
    <3>3. CASE /\ exists' = exists \cup {destination}
               /\ made' = [made EXCEPT ![destination] = @ \cup {n}]
      BY <1>5, <3>1, <3>3 DEF TypeOK, Extract, args
    <3>. QED  BY <1>5, <3>2, <3>3 DEF Extract
  <2>2. \A f \in Folders : made'[f] # {} => f \in exists'
    BY <1>5 DEF TypeOK, Extract, args, disk
  <2>. QED  BY <1>0, <1>5, <2>1, <2>2 DEF TypeOK, Extract, args
<1>6. CASE ExtractFails
  BY <1>0, <1>6 DEF TypeOK, ExtractFails, Exit, args, disk
<1>7. ASSUME NEW flat \in BOOLEAN, Flatten(flat)
      PROVE  TypeOK'
  BY <1>0, <1>7 DEF TypeOK, Flatten, Exit, args, disk
<1>8. ASSUME NEW f \in Folders, Other(f)
      PROVE  TypeOK'
  BY <1>0, <1>8 DEF TypeOK, Other, args
<1>9. CASE UNCHANGED vars
  BY <1>9 DEF TypeOK, vars, args, disk
<1>. QED  BY <1>1, <1>2, <1>3, <1>4, <1>5, <1>6, <1>7, <1>8, <1>9 DEF Next, Step, Terminated

-----------------------------------------------------------------------------
(* The invariant. *)

\* Every step keeps what the probing established and one archive to a folder.
LEMMA NextKeepsInv == IInv /\ [Next]_vars => IInv'
<1>. SUFFICES ASSUME IInv, [Next]_vars PROVE IInv'
  OBVIOUS
<1>0. TypeOK /\ TypeOK'
  BY NextTypeOK DEF IInv
<1>1. CASE StepNext
  <2>1. Fresh'
    BY <1>1 DEF StepNext, Fresh, Given, Single, Exit, args
  <2>. QED  BY <1>0, <1>1, <2>1 DEF IInv, StepNext, OneArchive, disk
<1>2. CASE Choose
  <2>1. made[Candidate] = {}
    BY <1>2, CandidateIsFolder, <1>0 DEF Choose, TypeOK
  <2>2. Fresh'
    BY <1>2, <2>1 DEF Choose, Fresh, disk
  <2>. QED  BY <1>0, <1>2, <2>2 DEF IInv, Choose, OneArchive, disk
<1>3. CASE TryNext
  BY <1>0, <1>3 DEF IInv, TryNext, Fresh, OneArchive, disk
<1>4. CASE GiveUp
  BY <1>0, <1>4 DEF IInv, GiveUp, Exit, Fresh, OneArchive, disk
<1>5. CASE Extract
  <2>1. Fresh'
    BY <1>5 DEF Extract, Fresh
  <2>2. ASSUME NEW f \in Folders
        PROVE  \E k : made'[f] \subseteq {k}
    <3>1. CASE made' = made \/ f # destination
      BY <1>0, <1>5, <3>1 DEF Extract, IInv, OneArchive, disk, TypeOK
    <3>2. CASE f = destination /\ made' = [made EXCEPT ![destination] = @ \cup {n}]
      <4>1. made'[f] = made[f] \cup {n}
        BY <1>0, <3>2 DEF TypeOK
      <4>2. CASE Given
        <5>1. DOMAIN archive_files = {1}
          BY <1>0, <4>2, LinesAssumption DEF Given, Single, TypeOK
        <5>2. made'[f] \subseteq {1}
          BY <1>0, <1>5, <4>1, <5>1 DEF Extract, TypeOK
        <5>. QED  BY <5>2
      <4>3. CASE ~Given
        <5>1. made'[f] = {n}
          BY <1>5, <3>2, <4>1, <4>3 DEF IInv, Fresh, Extract
        <5>. QED  BY <5>1
      <4>. QED  BY <4>2, <4>3
    <3>. QED  BY <1>5, <3>1, <3>2 DEF Extract, disk
  <2>. QED  BY <1>0, <2>1, <2>2 DEF IInv, OneArchive
<1>6. CASE ExtractFails
  BY <1>0, <1>6 DEF IInv, ExtractFails, Exit, Fresh, OneArchive, disk
<1>7. ASSUME NEW flat \in BOOLEAN, Flatten(flat)
      PROVE  IInv'
  BY <1>0, <1>7 DEF IInv, Flatten, Exit, Fresh, OneArchive, disk
<1>8. ASSUME NEW f \in Folders, Other(f)
      PROVE  IInv'
  <2>1. Fresh'
    BY <1>8 DEF IInv, Other, Fresh, Given, Single, args
  <2>. QED  BY <1>0, <1>8, <2>1 DEF IInv, Other, OneArchive
<1>9. CASE UNCHANGED vars
  BY <1>0, <1>9 DEF IInv, Fresh, Given, Single, OneArchive, vars, args, disk
<1>. QED  BY <1>1, <1>2, <1>3, <1>4, <1>5, <1>6, <1>7, <1>8, <1>9 DEF Next, Step, Terminated

\* Nothing is extracted yet, so nothing is shared.
LEMMA InitInv == Init => IInv
<1>. SUFFICES ASSUME Init PROVE IInv
  OBVIOUS
<1>1. Fresh /\ OneArchive
  BY DEF Init, Fresh, OneArchive
<1>. QED  BY <1>1, InitTypeOK DEF IInv

\* The inductive invariant of Execute holds in every state.
THEOREM InvHolds == Spec => []IInv
<1>. QED  BY InitInv, NextKeepsInv, PTL DEF Spec

\* Every state of Execute is of the right type.
THEOREM TypeCorrect == Spec => []TypeOK
<1>1. IInv => TypeOK
  BY DEF IInv
<1>. QED  BY <1>1, InvHolds, PTL

\* Two archives of one command line never share a folder: the next archive's folder is
\* chosen when what was extracted before is there.
THEOREM NothingIsShared == Spec => []FoldersAreNotShared
<1>1. IInv => FoldersAreNotShared
  <2>. SUFFICES ASSUME IInv, NEW f \in Folders PROVE Cardinality(made[f]) <= 1
    BY DEF FoldersAreNotShared
  <2>1. PICK k : made[f] \subseteq {k}
    BY DEF IInv, OneArchive
  <2>2. CASE made[f] = {}
    <3>1. Cardinality({}) = 0
      BY ONLY FS_EmptySet
    <3>. QED  BY <2>2, <3>1
  <2>3. CASE made[f] = {k}
    <3>1. Cardinality({k}) = 1
      BY ONLY FS_Singleton
    <3>. QED  BY <2>3, <3>1
  <2>. QED  BY <2>1, <2>2, <2>3
<1>. QED  BY <1>1, InvHolds, PTL

\* Without -d no folder that was there before is filled, unless another process has
\* created it after it was found free.
THEOREM NewFoldersOnly == Spec => OnlyNewFoldersAreFilled
<1>. DEFINE A == \A f \in Folders : made'[f] # made[f] /\ ~(Single /\ given # None) /\ ~overtaken => f \notin exists
<1>1. IInv /\ [Next]_vars => [A]_vars
  <2>. SUFFICES ASSUME IInv, Next, NEW f \in Folders, made'[f] # made[f], ~(Single /\ given # None), ~overtaken
                PROVE  f \notin exists
    OBVIOUS
  <2>1. Extract
    BY DEF Next, Step, StepNext, Choose, TryNext, GiveUp, ExtractFails, Flatten, Other, Terminated, vars, disk
  <2>2. f = destination
    BY <2>1 DEF Extract, disk, IInv, TypeOK
  <2>. QED  BY <2>1, <2>2 DEF Extract, IInv, Fresh, Given
<1>. QED  BY <1>1, InvHolds, PTL DEF Spec, OnlyNewFoldersAreFilled
-----------------------------------------------------------------------------
(* Giving up, and the exit code. *)

\* The j-th candidate for the archive k exists.
Taken(k, j) == Folder[archive_files[k], j] \in exists

\* The candidates before the one at hand have been seen to exist, and all of them when the
\* archive was given up.  Folders stay.
Probed ==
    /\ \A k \in skipped : \A j \in 0 .. MaxTries - 1 : Taken(k, j)
    /\ pc = "probe" => \A j \in 0 .. i - 1 : Taken(n, j)

\* For a single archive without -d: there is one turn, and a folder that uncia found free and
\* that no other process has created since is there only when the archive was extracted into it.
Filled ==
    Single /\ given = None =>
        /\ pc = "next" => n = 0
        /\ ~overtaken /\ pc = "flatten" /\ destination \in exists => made[destination] # {}
        /\ ~overtaken /\ pc = "done" /\ code = 0 => made[destination] # {}

\* What every step leaves as it is, and what it only adds to.
LEMMA NothingGoes ==
    ASSUME [Next]_vars
    PROVE  UNCHANGED args /\ exists \subseteq exists' /\ (GiveUp \/ skipped' = skipped)
BY DEF Next, Step, StepNext, Choose, TryNext, GiveUp, Extract, ExtractFails, Flatten, Other, Terminated, vars, args, disk

LEMMA StaysTaken ==
    ASSUME NEW k, NEW j, archive_files' = archive_files, exists \subseteq exists', Taken(k, j)
    PROVE  Taken(k, j)'
BY Zenon DEF Taken

LEMMA NextKeepsProbed == IInv /\ Probed /\ [Next]_vars => Probed'
<1>. SUFFICES ASSUME IInv, Probed, [Next]_vars PROVE Probed'
  OBVIOUS
<1>1. UNCHANGED args /\ exists \subseteq exists' /\ (GiveUp \/ skipped' = skipped)
  BY NothingGoes
<1>2. archive_files' = archive_files /\ i \in Nat /\ MaxTries \in Nat
  BY <1>1, TriesAssumption DEF args, IInv, TypeOK
<1>3. ASSUME NEW k \in skipped', NEW j \in 0 .. MaxTries - 1
      PROVE  Taken(k, j)'
  <2>1. CASE k \in skipped
    <3>1. Taken(k, j)
      BY <2>1 DEF Probed
    <3>. QED  BY <1>1, <1>2, <3>1, StaysTaken
  <2>2. CASE GiveUp /\ k = n
    <3>1. \A l \in 0 .. i - 1 : Taken(n, l)
      BY <2>2 DEF GiveUp, Probed
    <3>2. Taken(n, i)
      BY <2>2, Zenon DEF GiveUp, Candidate, Taken
    <3>3. i + 1 = MaxTries
      BY <2>2 DEF GiveUp
    <3>4. j \in 0 .. i - 1 \/ j = i
      BY <1>2, <3>3
    <3>5. Taken(k, j)
      BY <2>2, <3>1, <3>2, <3>4
    <3>. QED  BY <1>1, <1>2, <3>5, StaysTaken
  <2>. QED  BY <1>1, <2>1, <2>2 DEF GiveUp
<1>4. ASSUME pc' = "probe", NEW j \in 0 .. i' - 1
      PROVE  Taken(n, j)'
  <2>. PICK m : m = n
    OBVIOUS
  <2>1. CASE StepNext
    <3>1. i' = 0
      BY <2>1 DEF StepNext
    <3>. QED  BY <1>4, <3>1
  <2>2. CASE TryNext
    <3>1. i' = i + 1 /\ n' = n /\ pc = "probe"
      BY <2>2 DEF TryNext
    <3>2. Taken(n, i)
      BY <2>2, Zenon DEF TryNext, Candidate, Taken
    <3>3. j \in 0 .. i - 1 \/ j = i
      BY <1>2, <1>4, <3>1
    <3>4. Taken(m, j)
      BY <3>1, <3>2, <3>3 DEF Probed
    <3>5. Taken(m, j)' /\ n' = m
      BY <1>1, <1>2, <3>1, <3>4, StaysTaken
    <3>. QED  BY <3>5, Zenon DEF Taken
  <2>3. CASE UNCHANGED <<pc, n, i>>
    <3>1. Taken(m, j)
      BY <1>4, <2>3 DEF Probed
    <3>2. Taken(m, j)' /\ n' = m
      BY <1>1, <1>2, <2>3, <3>1, StaysTaken
    <3>. QED  BY <3>2, Zenon DEF Taken
  <2>. QED  BY <1>4, <2>1, <2>2, <2>3
            DEF Next, Step, Choose, GiveUp, Exit, Extract, ExtractFails, Flatten, Other, Terminated, vars
<1>. QED  BY <1>3, <1>4 DEF Probed

LEMMA NextKeepsFilled == IInv /\ Filled /\ [Next]_vars => Filled'
<1>. SUFFICES ASSUME IInv, Filled, [Next]_vars PROVE Filled'
  OBVIOUS
<1>0. UNCHANGED args
  BY NothingGoes
<1>. SUFFICES ASSUME Single, given = None PROVE Filled'
  BY <1>0 DEF Filled, Single, args
<1>. USE DEF Filled
<1>1. Len(archive_files) = 1 /\ n \in Nat /\ destination \in Folders \cup {None}
  BY LinesAssumption DEF IInv, TypeOK, Single
<1>2. CASE StepNext
  BY <1>1, <1>2 DEF StepNext
<1>3. CASE Choose \/ TryNext
  BY <1>3 DEF Choose, TryNext
<1>4. CASE GiveUp
  BY <1>4 DEF GiveUp, Exit
<1>5. CASE Extract
  <2>1. pc' = "flatten" /\ overtaken' = overtaken /\ destination' = destination
    BY <1>5 DEF Extract
  <2>2. CASE exists' = exists \cup {destination} /\ made' = [made EXCEPT ![destination] = @ \cup {n}]
    <3>1. destination \in Folders /\ made \in [Folders -> SUBSET DOMAIN archive_files]
      BY <1>5 DEF IInv, TypeOK, Extract
    <3>2. made'[destination] # {}
      BY <2>2, <3>1
    <3>. QED  BY <2>1, <3>2
  <2>3. CASE UNCHANGED disk
    BY <1>5, <2>1, <2>3 DEF IInv, Fresh, Given, Extract, disk
  <2>. QED  BY <1>5, <2>2, <2>3 DEF Extract
<1>6. CASE ExtractFails
  BY <1>6 DEF ExtractFails, Exit
<1>7. ASSUME NEW flat \in BOOLEAN, Flatten(flat)
      PROVE  Filled'
  <2>1. pc' = "done" /\ code' = (IF flat THEN 0 ELSE 1) /\ UNCHANGED <<disk, destination, overtaken>>
    BY <1>7 DEF Flatten, Exit
  <2>2. flat => destination \in exists
    BY <1>7 DEF Flatten
  <2>. QED  BY <1>7, <2>1, <2>2 DEF Flatten, disk
<1>8. ASSUME NEW f \in Folders, Other(f)
      PROVE  Filled'
  <2>1. pc # "done" /\ UNCHANGED <<made, pc, n, destination, code>> /\ exists' = exists \cup {f}
    BY <1>8 DEF Other
  <2>2. ~overtaken' => ~overtaken /\ ~(pc = "flatten" /\ f = destination)
    BY <1>8 DEF Other
  <2>. QED  BY <2>1, <2>2
<1>9. CASE UNCHANGED vars
  BY <1>9 DEF vars, args, disk, Single
<1>. QED  BY <1>2, <1>3, <1>4, <1>5, <1>6, <1>7, <1>8, <1>9 DEF Next, Step, Terminated

\* GivesUpWhenAllExist: uncia gives an archive up only when it has seen each of the candidates
\* exist, though other processes create folders while it looks.
THEOREM GivingUpIsDeserved == Spec => []GivesUpWhenAllExist
<1>1. Init => Probed
  BY DEF Init, Probed
<1>2. Probed => GivesUpWhenAllExist
  BY Zenon DEF Probed, Taken, GivesUpWhenAllExist
<1>. QED  BY <1>1, <1>2, NextKeepsProbed, InvHolds, PTL DEF Spec

\* ZeroMeansFolderMade: a single archive whose extraction made no folder has none,
\* so that make_flat fails and with it uncia, unless another process created the folder.
THEOREM ZeroIsDeserved == Spec => []ZeroMeansFolderMade
<1>1. Init => Filled
  BY DEF Init, Filled
<1>2. Filled => ZeroMeansFolderMade
  BY DEF Filled, ZeroMeansFolderMade
<1>. QED  BY <1>1, <1>2, NextKeepsFilled, InvHolds, PTL DEF Spec
-----------------------------------------------------------------------------
(* Paths.  The invariant is the type of the state and the three properties *)
(* together; EntriesIsDepth is what makes it inductive.                    *)

PathInv == PathTypeOK /\ EntriesIsDepth /\ FitLeadsInside /\ HarmfulLeadsElsewhere

\* Where the join starts is a drive with folders, or nothing.
LEMMA BaseIsAPath ==
    ASSUME PathTypeOK
    PROVE  /\ Base \in Seq(Names)
           /\ form # "drive" => Len(Base) >= 1
           /\ form = "drive" => Base = <<>> /\ Len(Base) = 0
<1>. USE DestinationAssumption DEF PathTypeOK, Base
<1>1. CASE form = "relative"
  BY <1>1
<1>2. CASE form = "rooted"
  BY <1>2
<1>3. CASE form = "drive"
  BY <1>3
<1>. QED  BY <1>1, <1>2, <1>3

\* A path that leads to Base or below it, and is no longer, is Base.
LEMMA InsideAtBase ==
    ASSUME PathTypeOK, Inside(Base)
    PROVE  where = Base <=> Len(where) = Len(Base)
<1>. USE DEF PathTypeOK
<1>1. Base \in Seq(Names)
  BY BaseIsAPath
<1>2. ASSUME Len(where) = Len(Base) PROVE where = Base
  <2>1. DOMAIN where = 1 .. Len(where) /\ DOMAIN Base = 1 .. Len(Base)
    BY <1>1
  <2>2. \A j \in 1 .. Len(Base) : where[j] = Base[j]
    BY DEF Inside
  <2>. QED  BY <1>1, <1>2, <2>1, <2>2
<1>. QED  BY <1>2

LEMMA PathInitEstablishesInv == PathInit => PathInv
<1>. SUFFICES ASSUME PathInit PROVE PathInv
  OBVIOUS
<1>1. paths \in Seq(Components) /\ form \in {"relative", "rooted", "drive"}
  BY PathsAssumption DEF PathInit
<1>2. where = Base /\ Base \in Seq(Names)
  BY DestinationAssumption DEF PathInit, Base
<1>3. entries = 0 /\ verdict = "none" /\ left = FALSE
  BY DEF PathInit
<1>4. PathTypeOK
  <2>1. where \in Seq(Names)
    BY <1>2
  <2>2. entries \in Int /\ verdict \in {"none", "harmful", "fit"}
    BY <1>3
  <2>3. left \in BOOLEAN
    BY <1>3, Zenon
  <2>. QED  BY <1>1, <2>1, <2>2, <2>3 DEF PathTypeOK
<1>5. Inside(Base)
  BY <1>2 DEF Inside
<1>6. form = "drive" => paths # <<>> /\ Head(paths) \in Names
  BY DEF PathInit
<1>7. EntriesIsDepth
  BY <1>2, <1>3, <1>4, <1>5, <1>6, BaseIsAPath DEF EntriesIsDepth
<1>. QED  BY <1>3, <1>4, <1>7 DEF PathInv, FitLeadsInside, HarmfulLeadsElsewhere

\* A component that is neither "." nor ".." is a name.
LEMMA OtherComponentsAreNames ==
    ASSUME NEW c \in Components, c \notin {Dot, DotDot} PROVE c \in Names
BY DEF Components

LEMMA SkipKeepsInv == ASSUME PathInv, SkipDot PROVE PathInv'
<1>1. paths' = Tail(paths) /\ UNCHANGED <<form, entries, verdict, where, left>> /\ verdict = "none"
      /\ paths # <<>> /\ Head(paths) = Dot
  BY DEF SkipDot, Running
<1>2. PathTypeOK'
  BY <1>1 DEF PathInv, PathTypeOK
<1>3. Base' = Base
  BY <1>1 DEF Base
<1>4. Inside(Base)' /\ ~left'
  BY <1>1, <1>3 DEF PathInv, EntriesIsDepth, Inside
<1>5. ~(form = "drive" /\ where = <<>>)
  BY <1>1, ComponentsAssumption DEF PathInv, EntriesIsDepth
<1>6. EntriesIsDepth'
  BY <1>1, <1>3, <1>4, <1>5 DEF PathInv, EntriesIsDepth
<1>. QED  BY <1>1, <1>2, <1>6 DEF PathInv, FitLeadsInside, HarmfulLeadsElsewhere

LEMMA DescendKeepsInv == ASSUME PathInv, Descend PROVE PathInv'
<1>1. /\ paths' = Tail(paths) /\ UNCHANGED <<form, verdict, left>> /\ verdict = "none" /\ paths # <<>>
      /\ entries' = entries + 1 /\ where' = Append(where, Head(paths)) /\ Head(paths) \in Components
      /\ Head(paths) \notin {Dot, DotDot}
  BY DEF Descend, Running, PathInv, PathTypeOK
<1>2. Head(paths) \in Names
  BY <1>1, OtherComponentsAreNames
<1>3. PathTypeOK /\ PathTypeOK'
  BY <1>1, <1>2 DEF PathInv, PathTypeOK
<1>4. /\ Len(where) \in Nat /\ Len(where') = Len(where) + 1 /\ where' # <<>>
      /\ \A j \in 1 .. Len(where) : where'[j] = where[j]
  BY <1>1, <1>2, <1>3 DEF PathTypeOK
<1>5. Base' = Base /\ Len(Base) \in Nat
  BY <1>1, <1>3, BaseIsAPath DEF Base
<1>6. Inside(Base)' /\ ~left'
  BY <1>1, <1>4, <1>5 DEF PathInv, EntriesIsDepth, Inside
<1>7. IF form' = "drive" THEN entries' \in {Len(where'), Len(where') - 1}
      ELSE entries' = Len(where') - Len(Base')
  <2>1. IF form = "drive" THEN entries \in {Len(where), Len(where) - 1}
        ELSE entries = Len(where) - Len(Base)
    BY <1>1 DEF PathInv, EntriesIsDepth
  <2>. QED  BY <1>1, <1>3, <1>4, <1>5, <2>1 DEF PathTypeOK
<1>8. EntriesIsDepth'
  BY <1>4, <1>6, <1>7 DEF EntriesIsDepth
<1>. QED  BY <1>1, <1>3, <1>8 DEF PathInv, FitLeadsInside, HarmfulLeadsElsewhere

\* The parent of a path that leads below a folder still leads there.
LEMMA UpStaysInside ==
    ASSUME PathTypeOK, Len(where) > 1
    PROVE  /\ Up \in Seq(Names) /\ Len(Up) = Len(where) - 1
           /\ \A j \in 1 .. Len(where) - 1 : Up[j] = where[j]
<1>. USE DEF PathTypeOK
<1>1. Up = SubSeq(where, 1, Len(where) - 1)
  BY DEF Up
<1>2. \A j \in 1 .. Len(where) - 1 : where[j] \in Names
  OBVIOUS
<1>3. SubSeq(where, 1, Len(where) - 1) \in Seq(Names)
  BY <1>2, SubSeqProperties
<1>4. Len(SubSeq(where, 1, Len(where) - 1)) = Len(where) - 1
  BY <1>2, SubSeqProperties
<1>5. \A j \in 1 .. Len(where) - 1 : SubSeq(where, 1, Len(where) - 1)[j] = where[j]
  BY <1>2, SubSeqProperties
<1>. QED  BY <1>1, <1>3, <1>4, <1>5

\* When the count falls below zero, or to it for the name of a drive that was taken back
\* already, the components so far lead no deeper than where the join starts, so that this one
\* leads above.
LEMMA AscendKeepsInv == ASSUME PathInv, Ascend PROVE PathInv'
<1>1. /\ paths' = Tail(paths) /\ form' = form /\ verdict = "none" /\ paths # <<>>
      /\ Head(paths) = DotDot /\ entries' = entries - 1 /\ where' = Up /\ entries \in Int
      /\ verdict' = (IF entries' < 0 THEN "harmful" ELSE verdict)
  BY DEF Ascend, Running, PathInv, PathTypeOK
<1>2. PathTypeOK /\ Len(where) \in Nat /\ where \in Seq(Names)
  BY DEF PathInv, PathTypeOK
<1>3. /\ ~left /\ Inside(Base) /\ Len(where) >= Len(Base)
      /\ IF form = "drive" THEN entries \in {Len(where), Len(where) - 1}
         ELSE entries = Len(where) - Len(Base)
  BY <1>1 DEF PathInv, EntriesIsDepth, Inside
<1>4. where # <<>> /\ Len(where) >= 1
  <2>1. CASE form = "drive"
    BY <1>1, <1>2, <2>1, ComponentsAssumption DEF PathInv, EntriesIsDepth
  <2>2. CASE form # "drive"
    BY <1>2, <1>3, <2>2, BaseIsAPath
  <2>. QED  BY <2>1, <2>2
<1>11. Len(where) = 1 \/ Len(where) > 1
  <2>1. \A k \in Nat : k >= 1 => k = 1 \/ k > 1
    OBVIOUS
  <2>. QED  BY <1>2, <1>4, <2>1, Zenon
<1>5. left' \in BOOLEAN /\ (left' <=> where = Base)
  BY <1>3, Zenon DEF Ascend
<1>6. Base' = Base /\ Len(Base) \in Nat
  BY <1>1, <1>2, BaseIsAPath DEF Base
<1>7. where' \in Seq(Names) /\ Len(where') = (IF Len(where) > 1 THEN Len(where) - 1 ELSE Len(where))
      /\ where' # <<>>
  <2>1. CASE Len(where) = 1
    BY <1>1, <1>2, <1>4, <2>1 DEF Up
  <2>2. CASE Len(where) > 1
    <3>1. where' \in Seq(Names) /\ Len(where') = Len(where) - 1
      BY <1>1, <1>2, <2>2, UpStaysInside
    <3>. QED  BY <1>2, <2>2, <3>1
  <2>. QED  BY <1>11, <2>1, <2>2, Zenon
<1>8. PathTypeOK'
  <2>1. left' \in BOOLEAN
    BY <1>5
  <2>. QED  BY <1>1, <1>2, <1>7, <2>1 DEF PathTypeOK
<1>9. CASE entries' < 0
  <2>1. form # "drive" => where = Base
    BY <1>1, <1>2, <1>3, <1>6, <1>9, InsideAtBase
  <2>2. ASSUME form = "drive" PROVE Len(where') = 1
    <3>1. entries = Len(where) \/ entries = Len(where) - 1
      BY <1>3, <2>2
    <3>2. \A k \in Nat, e \in Int : (e = k \/ e = k - 1) /\ k >= 1 /\ e - 1 < 0 => k = 1
      OBVIOUS
    <3>3. entries - 1 < 0 /\ entries \in Int /\ Len(where) \in Nat /\ Len(where) >= 1
      BY <1>1, <1>2, <1>4, <1>9, Zenon
    <3>4. Len(where) = 1
      BY <3>1, <3>2, <3>3, Zenon
    <3>. QED  BY <1>7, <3>4
  <2>3. left' \/ (form' = "drive" /\ Len(where') = 1)
    BY <1>1, <1>5, <2>1, <2>2
  <2>. QED  BY <1>1, <1>8, <1>9, <2>3 DEF PathInv, EntriesIsDepth, FitLeadsInside, HarmfulLeadsElsewhere
<1>10. CASE entries' >= 0
  <2>1. verdict' = "none"
    BY <1>1, <1>10
  <2>2. where # Base
    <3>1. CASE form = "drive"
      BY <1>2, <1>4, <3>1, BaseIsAPath
    <3>2. CASE form # "drive"
      BY <1>1, <1>2, <1>3, <1>6, <1>10, <3>2
    <3>. QED  BY <3>1, <3>2
  <2>3. ~left'
    BY <1>5, <2>2, Zenon
  <2>4. Len(where') >= Len(Base) /\ \A j \in 1 .. Len(Base) : where'[j] = where[j]
    <3>1. CASE Len(where) = 1
      <4>1. where' = where
        BY <1>1, <3>1 DEF Up
      <4>. QED  BY <1>3, <4>1
    <3>2. CASE Len(where) > 1
      <4>1. Len(Base) < Len(where)
        BY <1>2, <1>3, <1>6, <2>2, InsideAtBase
      <4>2. \A j \in 1 .. Len(where) - 1 : where'[j] = where[j]
        BY <1>1, <1>2, <3>2, UpStaysInside
      <4>3. Len(where') = Len(where) - 1
        BY <1>7, <3>2
      <4>. QED  BY <1>2, <1>6, <4>1, <4>2, <4>3
    <3>. QED  BY <1>11, <3>1, <3>2, Zenon
  <2>5. Inside(Base)'
    BY <1>3, <1>6, <2>4 DEF Inside
  <2>6. IF form' = "drive" THEN entries' \in {Len(where'), Len(where') - 1}
        ELSE entries' = Len(where') - Len(Base')
    <3>1. CASE form = "drive"
      BY <1>1, <1>2, <1>3, <1>4, <1>7, <1>10, <3>1
    <3>2. CASE form # "drive"
      <4>1. Len(Base) >= 1 /\ Len(where) > Len(Base)
        BY <1>2, <1>3, <1>6, <2>2, <3>2, InsideAtBase, BaseIsAPath
      <4>. QED  BY <1>1, <1>2, <1>3, <1>6, <1>7, <3>2, <4>1
    <3>. QED  BY <3>1, <3>2
  <2>7. EntriesIsDepth'
    BY <1>7, <2>3, <2>5, <2>6 DEF EntriesIsDepth
  <2>. QED  BY <1>8, <2>1, <2>7 DEF PathInv, FitLeadsInside, HarmfulLeadsElsewhere
<1>. QED  BY <1>1, <1>9, <1>10

LEMMA ReturnKeepsInv == ASSUME PathInv, Return PROVE PathInv'
<1>1. /\ verdict = "none" /\ paths = <<>> /\ UNCHANGED <<form, paths, entries, where, left>>
      /\ verdict' = IF entries <= 0 THEN "harmful" ELSE "fit"
  BY DEF Return
<1>2. PathTypeOK /\ PathTypeOK' /\ Len(where) \in Nat /\ entries \in Int
  BY <1>1 DEF PathInv, PathTypeOK
<1>3. /\ ~left /\ Inside(Base)
      /\ IF form = "drive" THEN entries \in {Len(where), Len(where) - 1}
         ELSE entries = Len(where) - Len(Base)
      /\ form = "drive" => where # <<>>
  BY <1>1 DEF PathInv, EntriesIsDepth
<1>4. Base' = Base /\ Len(Base) \in Nat
  BY <1>1, <1>2, BaseIsAPath DEF Base
<1>5. Len(where) >= Len(Base) /\ (form = "drive" => Len(where) >= 1)
  BY <1>2, <1>3 DEF Inside, PathTypeOK
<1>6. CASE entries <= 0
  <2>1. form # "drive" => where = Base
    BY <1>2, <1>3, <1>4, <1>5, <1>6, InsideAtBase
  <2>2. ASSUME form = "drive" PROVE Len(where) = 1
    <3>1. (entries = Len(where) \/ entries = Len(where) - 1) /\ Len(where) >= 1
      BY <1>3, <1>5, <2>2
    <3>2. \A k \in Nat, e \in Int : (e = k \/ e = k - 1) /\ k >= 1 /\ e <= 0 => k = 1
      OBVIOUS
    <3>. QED  BY <1>2, <1>6, <3>1, <3>2, Zenon
  <2>. QED  BY <1>1, <1>2, <1>4, <1>6, <2>1, <2>2
            DEF PathInv, EntriesIsDepth, FitLeadsInside, HarmfulLeadsElsewhere
<1>7. CASE entries > 0
  <2>1. where # Base
    BY <1>2, <1>3, <1>4, <1>7, BaseIsAPath
  <2>2. Inside(Base)'
    BY <1>1, <1>3, <1>4 DEF Inside
  <2>. QED  BY <1>1, <1>2, <1>3, <1>4, <1>7, <2>1, <2>2
            DEF PathInv, EntriesIsDepth, FitLeadsInside, HarmfulLeadsElsewhere
<1>. QED  BY <1>2, <1>6, <1>7

LEMMA PathNextKeepsInv == PathInv /\ [PathNext]_pathvars => PathInv'
<1>. SUFFICES ASSUME PathInv, [PathNext]_pathvars PROVE PathInv'
  OBVIOUS
<1>1. CASE SkipDot
  BY <1>1, SkipKeepsInv
<1>2. CASE Descend
  BY <1>2, DescendKeepsInv
<1>3. CASE Ascend
  BY <1>3, AscendKeepsInv
<1>4. CASE Return
  BY <1>4, ReturnKeepsInv
<1>5. CASE UNCHANGED pathvars
  BY <1>5 DEF pathvars, PathInv, PathTypeOK, EntriesIsDepth, FitLeadsInside, HarmfulLeadsElsewhere, Inside, Base
<1>. QED  BY <1>1, <1>2, <1>3, <1>4, <1>5 DEF PathNext

\* is_harmful_path counts the depth of every path, however long.
THEOREM PathInvHolds == PathSpec => []PathInv
<1>. QED  BY PathInitEstablishesInv, PathNextKeepsInv, PTL DEF PathSpec

\* Every path that is accepted leads to something below where the join starts, which for a
\* relative one is the destination.
THEOREM FitIsInside == PathSpec => []FitLeadsInside
<1>1. PathInv => FitLeadsInside
  BY DEF PathInv
<1>. QED  BY <1>1, PathInvHolds, PTL

\* Every path that is refused leads above where the join starts or names that, or a drive.
THEOREM HarmfulIsElsewhere == PathSpec => []HarmfulLeadsElsewhere
<1>1. PathInv => HarmfulLeadsElsewhere
  BY DEF PathInv
<1>. QED  BY <1>1, PathInvHolds, PTL
=============================================================================
