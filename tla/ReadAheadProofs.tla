-------------------------- MODULE ReadAheadProofs --------------------------
(***************************************************************************)
(* Theorems about ReadAhead, for any volumes, sizes of blocks, requests,   *)
(* seeks and number of failures.                                           *)
(***************************************************************************)
EXTENDS ReadAhead, SequenceTheorems, TLAPS

\* What the call in progress has been asked.
Arguments ==
    /\ before \in [position : Nat, lost : BOOLEAN]
    /\ pc = "ahead" =>
        call \in [call : {"ahead"}, whence : {""}, ask : Asks, ret : {0}, data : {<<>>}]
    /\ pc \in {"skip", "discard"} =>
        call \in [call : {"consume"}, whence : {""}, ask : Asks, ret : {0}, data : {<<>>}]
    /\ pc \in {"known", "size", "set"} =>
        call \in [call : {"seek"}, whence : {"set", "cur", "end"}, ask : Offsets, ret : {0}, data : {<<>>}]

\* Both windows fit into their buffers; what is in the copy was in front of the client's
\* window, which ends with the block.
Counters ==
    /\ next + avail <= buffer_size
    /\ client_avail + avail > 0 => client_next + client_avail = client_total
    /\ buffer_size = 0 \/ \E k \in Asks : k <= buffer_size /\ buffer_size < 2 * k

\* A consume reaches for the file only when both windows are empty.
Consuming ==
    /\ pc \in {"skip", "discard"} => copy = <<>> /\ client_avail = 0 /\ left > 0
    /\ pc = "skip" => skipped < left /\ (skipped = -1 => ~use_lseek[cursor])
    /\ pc # "skip" => skipped = 0

Known(v) == begin_position[v] = Begin(v) /\ total_size[v] = SizeOf(v)

\* A seek knows all volumes in front of the one it is at.
Seeking ==
    /\ begin_position[1] = 0
    /\ \A v \in Volumes : begin_position[v] \in {-1, Begin(v)} /\ total_size[v] \in {-1, SizeOf(v)}
    /\ pc \in {"known", "size", "set"} =>
        /\ left \in Volumes
        /\ begin_position[left] = Begin(left)
        /\ \A v \in 1 .. left - 1 : Known(v)
        /\ call.whence # "end" /\ left > 1 => Goal >= Begin(left) - 1
    /\ pc = "set" =>
        /\ Known(left)
        /\ left = Len(ends) \/ (call.whence # "end" /\ Goal < ends[left] - 1)

Shape == TypeOK /\ Arguments /\ Counters /\ Consuming /\ Seeking
-----------------------------------------------------------------------------
(* Volumes and pieces of the stream. *)

\* The volumes follow one another, and the last one ends where the stream does.
LEMMA VolumesFollow ==
    ASSUME ends \in Layouts
    PROVE  /\ ends \in Seq(Nat) /\ Len(ends) \in Nat /\ Len(ends) > 0 /\ Total \in Nat
           /\ \A v \in Volumes :
                /\ Begin(v) \in Nat /\ SizeOf(v) \in Nat /\ ends[v] \in Nat
                /\ Begin(v) + SizeOf(v) = ends[v] /\ ends[v] <= Total
                /\ v + 1 \in Volumes => Begin(v + 1) = ends[v]
                /\ v = 1 => Begin(v) = 0
                /\ v = Len(ends) => ends[v] = Total
<1>1. ends \in Seq(Nat) /\ ends # <<>> /\ \A v, w \in DOMAIN ends : v <= w => ends[v] <= ends[w]
  BY LayoutsAssumption
<1>2. Len(ends) \in Nat /\ Len(ends) > 0 /\ DOMAIN ends = 1 .. Len(ends)
  BY <1>1
<1>3. \A v \in Volumes : ends[v] \in Nat /\ ends[v] <= ends[Len(ends)]
  BY <1>1, <1>2 DEF Volumes
<1>4. \A v \in Volumes : v # 1 => v - 1 \in Volumes /\ ends[v - 1] <= ends[v]
  BY <1>1, <1>2 DEF Volumes
<1>5. Total \in Nat
  BY <1>2, <1>3 DEF Volumes, Total
<1>6. ASSUME NEW v \in Volumes
      PROVE  /\ Begin(v) \in Nat /\ SizeOf(v) \in Nat /\ ends[v] \in Nat
             /\ Begin(v) + SizeOf(v) = ends[v] /\ ends[v] <= Total
             /\ v + 1 \in Volumes => Begin(v + 1) = ends[v]
             /\ v = 1 => Begin(v) = 0
             /\ v = Len(ends) => ends[v] = Total
  <2>1. v \in Nat /\ v + 1 # 1 /\ (v + 1) - 1 = v
    BY <1>2 DEF Volumes
  <2>2. CASE v = 1
    BY <1>2, <1>3, <2>1, <2>2 DEF Begin, SizeOf, Total
  <2>3. CASE v # 1
    <3>1. v - 1 \in Volumes /\ ends[v - 1] <= ends[v] /\ ends[v - 1] \in Nat /\ ends[v] \in Nat
      BY <1>3, <1>4, <2>3
    <3>2. Begin(v) = ends[v - 1] /\ SizeOf(v) = ends[v] - ends[v - 1]
      BY <2>3 DEF Begin, SizeOf
    <3>3. Begin(v + 1) = ends[v]
      BY <2>1 DEF Begin
    <3>. QED  BY <1>3, <2>3, <3>1, <3>2, <3>3 DEF Total
  <2>. QED  BY <2>2, <2>3
<1>. QED
  BY <1>1, <1>2, <1>5, <1>6

LEMMA BytesType ==
    ASSUME NEW from \in Nat, NEW n \in Nat
    PROVE  Bytes(from, n) \in Seq(Nat) /\ Len(Bytes(from, n)) = n
<1>1. \A k \in 1 .. n : from + k - 1 \in Nat
  OBVIOUS
<1>2. Bytes(from, n) \in [1 .. n -> Nat]
  BY <1>1 DEF Bytes
<1>. QED
  BY <1>2

LEMMA NoBytes ==
    ASSUME NEW from \in Nat
    PROVE  Bytes(from, 0) = <<>>
BY DEF Bytes

LEMMA BytesJoin ==
    ASSUME NEW from \in Nat, NEW m \in Nat, NEW n \in Nat
    PROVE  Bytes(from, m) \o Bytes(from + m, n) = Bytes(from, m + n)
<1>1. from + m \in Nat /\ m + n \in Nat
  OBVIOUS
<1>2. /\ Bytes(from, m) \in Seq(Nat) /\ Len(Bytes(from, m)) = m
      /\ Bytes(from + m, n) \in Seq(Nat) /\ Len(Bytes(from + m, n)) = n
      /\ Bytes(from, m + n) \in Seq(Nat) /\ Len(Bytes(from, m + n)) = m + n
  BY <1>1, BytesType
<1>. DEFINE a == Bytes(from, m)
            b == Bytes(from + m, n)
            c == Bytes(from, m + n)
<1>3. /\ a \o b \in Seq(Nat) /\ Len(a \o b) = m + n
      /\ \A k \in 1 .. m + n : (a \o b)[k] = IF k <= m THEN a[k] ELSE b[k - m]
  <2>. HIDE DEF a, b
  <2>1. a \in Seq(Nat) /\ b \in Seq(Nat) /\ Len(a) = m /\ Len(b) = n
    BY <1>2 DEF a, b
  <2>. QED  BY <2>1, ConcatProperties
<1>4. \A k \in 1 .. m + n : (a \o b)[k] = c[k]
  <2>1. \A k \in 1 .. m : a[k] = from + k - 1
    BY DEF Bytes
  <2>2. \A k \in 1 .. n : b[k] = from + m + k - 1
    BY DEF Bytes
  <2>3. \A k \in 1 .. m + n : c[k] = from + k - 1
    BY DEF Bytes
  <2>. HIDE DEF a, b, c
  <2>. SUFFICES ASSUME NEW k \in 1 .. m + n PROVE (a \o b)[k] = c[k]
    OBVIOUS
  <2>4. CASE k <= m
    BY <1>3, <2>1, <2>3, <2>4
  <2>5. CASE k > m
    <3>1. k - m \in 1 .. n /\ from + m + (k - m) - 1 = from + k - 1
      BY <2>5
    <3>2. b[k - m] = from + k - 1
      BY <2>2, <3>1
    <3>3. ~(k <= m)
      BY <2>5
    <3>4. (a \o b)[k] = (IF k <= m THEN a[k] ELSE b[k - m]) /\ c[k] = from + k - 1
      BY <1>3, <2>3, Zenon
    <3>. QED  BY <3>2, <3>3, <3>4, Zenon
  <2>6. k <= m \/ k > m
    OBVIOUS
  <2>. QED  BY <2>4, <2>5, <2>6, Zenon
<1>. QED  BY <1>2, <1>3, <1>4, SeqEqual

LEMMA BytesRest ==
    ASSUME NEW from \in Nat, NEW n \in Nat, NEW k \in 0 .. n
    PROVE  SubSeq(Bytes(from, n), k + 1, n) = Bytes(from + k, n - k)
<1>1. from + k \in Nat /\ n - k \in Nat
  OBVIOUS
<1>2. SubSeq(Bytes(from, n), k + 1, n) = [j \in 1 .. n - k |-> Bytes(from, n)[k + j]]
  BY DEF SubSeq
<1>. QED  BY <1>2 DEF Bytes

\* What is left of a sequence.
LEMMA RestType ==
    ASSUME NEW s \in Seq(Nat), NEW k \in 0 .. Len(s)
    PROVE  /\ SubSeq(s, k + 1, Len(s)) \in Seq(Nat)
           /\ Len(SubSeq(s, k + 1, Len(s))) = Len(s) - k
BY SubSeqProperties
-----------------------------------------------------------------------------
(* What the parts of the steps keep. *)

Idle == {"idle", "ahead"}
Seeks == {"known", "size", "set"}

\* What a step leaves alone stays as it is.
LEMMA Frame ==
    ASSUME Shape, UNCHANGED ends
    PROVE  /\ UNCHANGED disk_like /\ lost' \in BOOLEAN => StreamType'
           /\ UNCHANGED <<file, faults>> => FileType'
           /\ UNCHANGED <<client, buffer, position, end_of_file>> /\ fatal' \in BOOLEAN => WindowsType'
           /\ UNCHANGED <<client, buffer>> => Counters'
           /\ UNCHANGED dataset => DatasetType'
           /\ UNCHANGED dataset /\ pc' \notin Seeks => Seeking'
           /\ pc' \in Idle /\ skipped' = 0 => Consuming'
<1>. USE DEF Shape, TypeOK
<1>1. Volumes' = Volumes /\ \A v : Begin(v)' = Begin(v) /\ SizeOf(v)' = SizeOf(v)
  BY DEF Volumes, Begin, SizeOf
<1>2. UNCHANGED <<file, faults>> => FileType'
  BY <1>1 DEF FileType, file
<1>3. UNCHANGED <<client, buffer, position, end_of_file>> /\ fatal' \in BOOLEAN => WindowsType'
  BY DEF WindowsType, client, buffer
<1>4. UNCHANGED <<client, buffer>> => Counters'
  BY DEF Counters, client, buffer, avail
<1>5. UNCHANGED dataset => DatasetType'
  BY <1>1 DEF DatasetType, dataset
<1>6. UNCHANGED dataset /\ pc' \notin Seeks => Seeking'
  BY <1>1 DEF Seeking, dataset, Seeks
<1>7. pc' \in Idle /\ skipped' = 0 => Consuming'
  BY DEF Consuming, Idle
<1>8. UNCHANGED disk_like /\ lost' \in BOOLEAN => StreamType'
  BY DEF StreamType
<1>. QED  BY <1>2, <1>3, <1>4, <1>5, <1>6, <1>7, <1>8

\* A call that is over asks for nothing.
LEMMA ReturnsArguments ==
    ASSUME NEW r, NEW d, Returns(r, d)
    PROVE  pc' = "idle" /\ Arguments'
BY DEF Returns, Arguments, AtStart

\* The call goes on with the same arguments.
LEMMA GoesOnArguments ==
    ASSUME Arguments, GoesOn,
           \/ pc' = pc
           \/ pc \in {"skip", "discard"} /\ pc' \in {"skip", "discard"}
           \/ pc \in Seeks /\ pc' \in Seeks
    PROVE  Arguments'
BY DEF GoesOn, Arguments, args, Seeks

LEMMA BeginsArguments ==
    ASSUME Shape, NEW c, NEW step, Begins(c, step),
           \/ /\ step = "ahead"
              /\ c \in [call : {"ahead"}, whence : {""}, ask : Asks, ret : {0}, data : {<<>>}]
           \/ /\ step = "skip"
              /\ c \in [call : {"consume"}, whence : {""}, ask : Asks, ret : {0}, data : {<<>>}]
           \/ /\ step = "known"
              /\ c \in [call : {"seek"}, whence : {"set", "cur", "end"}, ask : Offsets, ret : {0}, data : {<<>>}]
    PROVE  pc = "idle" /\ pc' = step /\ Arguments'
<1>1. before' \in [position : Nat, lost : BOOLEAN]
  BY DEF Shape, TypeOK, WindowsType, StreamType, Begins
<1>. QED  BY <1>1 DEF Begins, Arguments

LEMMA ReturnsAtOnceArguments ==
    ASSUME Shape, NEW c, NEW r, NEW d, ReturnsAtOnce(c, r, d)
    PROVE  pc = "idle" /\ pc' = "idle" /\ Arguments'
BY DEF Shape, ReturnsAtOnce, Arguments, args

\* What a look ahead or a consume asks for.
LEMMA AskIsPositive ==
    ASSUME Arguments, pc \in {"ahead", "skip", "discard"}
    PROVE  call.ask \in Asks /\ call.ask \in Nat \ {0}
BY SizesAssumption DEF Arguments

\* The operations on the file.
LEMMA FileKeepsType ==
    ASSUME TypeOK, UNCHANGED <<ends, disk_like>>,
           \/ \E n \in Nat : FileRead(n)
           \/ FileReadFails
           \/ \E v \in Volumes, o \in Nat : Switched(v, o)
           \/ \E v \in Volumes : SwitchFails(v)
           \/ \E v \in Volumes, o \in Int : MovesTo(v, o)
           \/ \E v \in Volumes, o \in Int : MoveFails(v, o)
    PROVE  FileType'
<1>. USE SizesAssumption DEF TypeOK, FileType, StreamType, Fault, NoFault, file
<1>1. Volumes' = Volumes
  BY DEF Volumes
<1>2. ASSUME NEW v \in Volumes, NEW o \in Nat, Switched(v, o)
      PROVE  FileType'
  BY <1>1, <1>2 DEF Switched
<1>3. ASSUME NEW v \in Volumes, SwitchFails(v)
      PROVE  FileType'
  <2>1. faults' \in 0 .. MaxFaults
    BY <1>3 DEF SwitchFails
  <2>2. cursor' = v /\ fd' = FALSE /\ offset' = 0 /\ use_lseek' = use_lseek
    BY <1>3 DEF SwitchFails
  <2>. QED  BY <1>1, <2>1, <2>2
<1>4. ASSUME NEW n \in Nat, FileRead(n)
      PROVE  FileType'
  BY <1>1, <1>4 DEF FileRead
<1>5. ASSUME FileReadFails
      PROVE  FileType'
  BY <1>1, <1>5 DEF FileReadFails
<1>6. ASSUME NEW v \in Volumes, NEW o \in Int, MovesTo(v, o)
      PROVE  FileType'
  <2>1. o \in Nat
    BY <1>6 DEF MovesTo
  <2>2. CASE cursor = v
    BY <1>1, <1>6, <2>1, <2>2 DEF MovesTo
  <2>3. CASE cursor # v
    BY <1>2, <1>6, <2>1, <2>3 DEF MovesTo
  <2>. QED  BY <2>2, <2>3
<1>7. ASSUME NEW v \in Volumes, NEW o \in Int, MoveFails(v, o), ~SwitchFails(v)
      PROVE  FileType'
  <2>1. faults' \in 0 .. MaxFaults
    <3>1. Fault \/ NoFault
      BY <1>7 DEF MoveFails
    <3>. QED  BY <3>1
  <2>2. CASE cursor = v
    BY <1>1, <1>7, <2>1, <2>2 DEF MoveFails
  <2>3. CASE cursor # v
    <3>1. cursor' = v /\ fd' = TRUE /\ offset' = 0 /\ use_lseek' = [use_lseek EXCEPT ![v] = @ \/ disk_like]
      BY <1>7, <2>3 DEF MoveFails
    <3>. QED  BY <1>1, <2>1, <3>1
  <2>. QED  BY <2>2, <2>3
<1>8. ASSUME NEW v \in Volumes, NEW o \in Int, MoveFails(v, o)
      PROVE  FileType'
  <2>. HIDE DEF TypeOK, FileType, StreamType, Fault, NoFault, file
  <2>. QED  BY <1>3, <1>7, <1>8, Zenon
<1>. QED
  <2>. HIDE DEF TypeOK, FileType, StreamType, Fault, NoFault, file
  <2>. QED  BY <1>2, <1>3, <1>4, <1>5, <1>6, <1>8
-----------------------------------------------------------------------------
(* Looking ahead. *)

LEMMA AheadShape ==
    ASSUME Shape, UNCHANGED <<ends, disk_like>>, lost' \in BOOLEAN, NEW k \in Asks, Ahead(k)
    PROVE  Shape'
<1>1. pc = "idle" /\ pc' \in Idle /\ Arguments'
  <2>. DEFINE c == [Nothing EXCEPT !.call = "ahead", !.ask = k]
  <2>1. CASE fatal
    <3>1. ReturnsAtOnce(c, FATAL, <<>>)
      BY <2>1 DEF Ahead
    <3>. QED  BY <3>1, ReturnsAtOnceArguments DEF Idle
  <2>2. CASE ~fatal
    <3>1. Begins(c, "ahead")
      BY <2>2 DEF Ahead
    <3>2. c \in [call : {"ahead"}, whence : {""}, ask : Asks, ret : {0}, data : {<<>>}]
      BY DEF Nothing
    <3>. QED  BY <3>1, <3>2, BeginsArguments DEF Idle
  <2>. QED  BY <2>1, <2>2
<1>2. UNCHANGED <<file, client, buffer, dataset, position, end_of_file, fatal, left, skipped, faults>>
  BY DEF Ahead
<1>3. CallType' /\ skipped' = 0 /\ fatal' \in BOOLEAN /\ pc' \notin Seeks
  BY <1>1, <1>2 DEF Shape, TypeOK, CallType, Consuming, WindowsType, Idle, Seeks
<1>. QED  BY <1>1, <1>2, <1>3, Frame DEF Shape, TypeOK

\* The copy may be moved to the front.
LEMMA MovedFits ==
    ASSUME Shape, pc = "ahead"
    PROVE  Moved \in Nat /\ Moved + avail <= buffer_size
BY AskIsPositive DEF Shape, TypeOK, WindowsType, Counters, Moved, avail

\* A step that does no more than move the copy.
LEMMA OnlyMoved ==
    ASSUME Shape, pc = "ahead", next' \in {next, Moved}, UNCHANGED <<ends, client, buffer_size, copy, position>>,
           end_of_file' \in BOOLEAN, fatal' \in BOOLEAN
    PROVE  WindowsType' /\ Counters'
BY MovedFits DEF Shape, TypeOK, WindowsType, Counters, avail, client

\* A step that does so and empties the client's window.
LEMMA OnlyMovedAndEmptied ==
    ASSUME Shape, pc = "ahead", next' \in {next, Moved}, EmptyClient, UNCHANGED <<ends, buffer_size, copy, position>>,
           end_of_file' \in BOOLEAN, fatal' \in BOOLEAN
    PROVE  WindowsType' /\ Counters'
BY MovedFits DEF Shape, TypeOK, WindowsType, Counters, avail, EmptyClient

\* A step of a look ahead that leaves the data set alone, and which the windows survive.
LEMMA AheadStep ==
    ASSUME Shape, UNCHANGED <<ends, disk_like, dataset, left, skipped>>, lost' \in BOOLEAN,
           pc = "ahead", pc' \in Idle, Arguments', FileType', WindowsType', Counters'
    PROVE  Shape'
<1>1. CallType' /\ skipped' = 0 /\ pc' \notin Seeks
  BY DEF Shape, TypeOK, CallType, Consuming, Idle, Seeks
<1>. QED  BY <1>1, Frame DEF Shape, TypeOK

LEMMA AheadFromCopyShape ==
    ASSUME Shape, UNCHANGED <<ends, disk_like>>, lost' \in BOOLEAN, AheadFromCopy
    PROVE  Shape'
<1>1. pc = "ahead" /\ pc' \in Idle /\ Arguments'
  BY ReturnsArguments DEF AheadFromCopy, Idle
<1>2. UNCHANGED <<file, client, buffer, dataset, position, end_of_file, fatal, left, skipped, faults>>
  BY DEF AheadFromCopy
<1>3. FileType' /\ WindowsType' /\ Counters'
  BY <1>2, Frame DEF Shape, TypeOK, WindowsType
<1>. QED  BY <1>1, <1>2, <1>3, AheadStep

LEMMA RollBackShape ==
    ASSUME Shape, UNCHANGED <<ends, disk_like>>, lost' \in BOOLEAN, RollBack
    PROVE  Shape'
<1>1. pc = "ahead" /\ pc' \in Idle /\ Arguments'
  BY ReturnsArguments DEF RollBack, Idle
<1>2. UNCHANGED <<file, dataset, left, skipped, faults>>
  BY DEF RollBack
<1>3. avail \in Nat /\ avail <= client_next
  BY DEF Shape, TypeOK, WindowsType, Counters, RollBack, CanRollBack, avail
<1>4. /\ client_avail' = client_avail + avail /\ client_next' = client_next - avail
      /\ copy' = <<>> /\ next' = 0 /\ avail' = 0
      /\ UNCHANGED <<client_buff, client_total, buffer_size, position, end_of_file, fatal>>
  BY DEF RollBack, avail
<1>5. WindowsType'
  BY <1>3, <1>4 DEF Shape, TypeOK, WindowsType
<1>6. Counters'
  BY <1>3, <1>4 DEF Shape, TypeOK, WindowsType, Counters
<1>7. FileType'
  BY <1>2, Frame
<1>. QED  BY <1>1, <1>2, <1>5, <1>6, <1>7, AheadStep

LEMMA AheadAfterEndShape ==
    ASSUME Shape, UNCHANGED <<ends, disk_like>>, lost' \in BOOLEAN, AheadAfterEnd
    PROVE  Shape'
<1>1. pc = "ahead" /\ pc' \in Idle /\ Arguments'
  BY ReturnsArguments DEF AheadAfterEnd, NeedsBlock, NeedsMore, Idle
<1>2. UNCHANGED <<file, client, buffer_size, copy, dataset, position, end_of_file, fatal, left, skipped, faults>>
  BY DEF AheadAfterEnd
<1>3. WindowsType' /\ Counters'
  BY <1>1, <1>2, OnlyMoved DEF Shape, TypeOK, WindowsType, AheadAfterEnd, NeedsBlock
<1>. QED  BY <1>1, <1>2, <1>3, AheadStep, Frame

LEMMA ReadBlockShape ==
    ASSUME Shape, UNCHANGED <<ends, disk_like>>, lost' \in BOOLEAN, ReadBlock
    PROVE  Shape'
<1>1. pc = "ahead" /\ pc' = pc /\ pc' \in Idle /\ Arguments'
  BY GoesOnArguments DEF ReadBlock, NeedsBlock, NeedsMore, Idle, Shape
<1>2. UNCHANGED <<buffer_size, copy, dataset, position, end_of_file, fatal, left, skipped>>
  BY DEF ReadBlock
<1>3. PICK n \in 1 .. BlockSize : FileRead(n) /\ client_total' = n /\ client_avail' = n
  BY DEF ReadBlock
<1>4. n \in Nat
  BY <1>3, SizesAssumption
<1>5. FileType'
  BY <1>3, <1>4, FileKeepsType DEF Shape
<1>6. client_buff' \in Nat /\ client_next' = 0
  <2>1. client_buff' = Begin(cursor) + offset
    BY <1>3 DEF FileRead
  <2>2. Begin(cursor) \in Nat /\ offset \in Nat
    BY VolumesFollow DEF Shape, TypeOK, StreamType, FileType
  <2>. QED  BY <2>1, <2>2 DEF ReadBlock
<1>7. next' = Moved /\ avail' = avail
  BY <1>2 DEF ReadBlock, NeedsBlock, avail
<1>8. WindowsType'
  BY <1>1, <1>2, <1>3, <1>4, <1>6, <1>7, MovedFits DEF Shape, TypeOK, WindowsType
<1>9. Counters'
  BY <1>1, <1>2, <1>3, <1>4, <1>6, <1>7, MovedFits DEF Shape, TypeOK, WindowsType, Counters
<1>. QED  BY <1>1, <1>2, <1>5, <1>8, <1>9, AheadStep

LEMMA ReadBlockFailsShape ==
    ASSUME Shape, UNCHANGED <<ends, disk_like>>, lost' \in BOOLEAN, ReadBlockFails
    PROVE  Shape'
<1>1. pc = "ahead" /\ pc' \in Idle /\ Arguments'
  BY ReturnsArguments DEF ReadBlockFails, NeedsBlock, NeedsMore, Idle
<1>2. UNCHANGED <<buffer_size, copy, dataset, position, end_of_file, left, skipped>>
  BY DEF ReadBlockFails
<1>3. WindowsType' /\ Counters'
  BY <1>1, <1>2, OnlyMovedAndEmptied DEF Shape, TypeOK, WindowsType, ReadBlockFails, NeedsBlock
<1>4. FileType'
  BY FileKeepsType DEF Shape, ReadBlockFails
<1>. QED  BY <1>1, <1>2, <1>3, <1>4, AheadStep

\* There is a next volume.
LEMMA NextIsVolume ==
    ASSUME TypeOK, HasNextVolume
    PROVE  cursor + 1 \in Volumes
BY VolumesFollow DEF TypeOK, StreamType, FileType, HasNextVolume, Volumes

LEMMA NextVolumeShape ==
    ASSUME Shape, UNCHANGED <<ends, disk_like>>, lost' \in BOOLEAN, NextVolume
    PROVE  Shape'
<1>1. pc = "ahead" /\ pc' = pc /\ pc' \in Idle /\ Arguments'
  BY GoesOnArguments DEF NextVolume, NeedsBlock, NeedsMore, Idle, Shape
<1>2. UNCHANGED <<client, buffer_size, copy, dataset, position, end_of_file, fatal, left, skipped>>
  BY DEF NextVolume
<1>3. WindowsType' /\ Counters'
  BY <1>1, <1>2, OnlyMoved DEF Shape, TypeOK, WindowsType, NextVolume, NeedsBlock
<1>4. FileType'
  BY FileKeepsType, NextIsVolume DEF Shape, NextVolume
<1>. QED  BY <1>1, <1>2, <1>3, <1>4, AheadStep

\* The end of the stream, or a volume that cannot be opened.
LEMMA EndKeepsFileType ==
    ASSUME TypeOK, UNCHANGED <<ends, disk_like>>,
           IF HasNextVolume THEN SwitchFails(cursor + 1) ELSE NoFault /\ UNCHANGED file
    PROVE  FileType'
<1>1. CASE HasNextVolume
  BY <1>1, FileKeepsType, NextIsVolume
<1>2. CASE ~HasNextVolume
  BY <1>2 DEF TypeOK, FileType, NoFault, file, Volumes
<1>. QED  BY <1>1, <1>2

LEMMA AheadMeetsEndShape ==
    ASSUME Shape, UNCHANGED <<ends, disk_like>>, lost' \in BOOLEAN, AheadMeetsEnd
    PROVE  Shape'
<1>1. pc = "ahead" /\ pc' \in Idle /\ Arguments'
  BY ReturnsArguments DEF AheadMeetsEnd, NeedsBlock, NeedsMore, Idle
<1>2. UNCHANGED <<buffer_size, copy, dataset, position, fatal, left, skipped>>
  BY DEF AheadMeetsEnd
<1>3. WindowsType' /\ Counters'
  BY <1>1, <1>2, OnlyMovedAndEmptied DEF Shape, TypeOK, WindowsType, AheadMeetsEnd, NeedsBlock
<1>4. FileType'
  BY EndKeepsFileType DEF Shape, AheadMeetsEnd
<1>. QED  BY <1>1, <1>2, <1>3, <1>4, AheadStep

\* How much is copied: something, and no more than there is and fits.
LEMMA CopyFits ==
    ASSUME Shape, CopyMore
    PROVE  /\ Room(buffer_size', next') \in 1 .. client_avail
           /\ next' \in Nat /\ buffer_size' \in Nat
           /\ next' + avail + Room(buffer_size', next') <= buffer_size'
           /\ \E k \in Asks : k <= buffer_size' /\ buffer_size' < 2 * k
<1>1. pc = "ahead" /\ client_avail \in Nat \ {0} /\ avail \in Nat /\ buffer_size \in Nat /\ next \in Nat
  BY DEF Shape, TypeOK, WindowsType, CopyMore, NeedsMore, avail
<1>2. call.ask \in Asks /\ call.ask \in Nat \ {0}
  BY <1>1, AskIsPositive DEF Shape
<1>3. avail < call.ask
  BY <1>1, <1>2 DEF CopyMore, NeedsMore, HasCopy
<1>4. Moved \in Nat /\ Moved + avail <= buffer_size /\ (call.ask <= buffer_size => Moved + call.ask <= buffer_size)
  BY <1>1, <1>2, MovedFits DEF Moved
<1>5. /\ buffer_size' \in Nat /\ call.ask <= buffer_size' /\ buffer_size <= buffer_size'
      /\ \E k \in Asks : k <= buffer_size' /\ buffer_size' < 2 * k
  <2>1. CASE buffer_size >= call.ask
    <3>1. buffer_size' = buffer_size /\ buffer_size # 0
      BY <1>1, <1>2, <2>1 DEF CopyMore, Grown
    <3>. QED  BY <1>1, <2>1, <3>1 DEF Shape, Counters
  <2>2. CASE buffer_size < call.ask
    <3>1. buffer_size' = call.ask \/ buffer_size' \in call.ask .. 2 * call.ask - 1
      BY <1>1, <1>2, <2>2 DEF CopyMore, Grown
    <3>2. buffer_size' \in Nat /\ call.ask <= buffer_size' /\ buffer_size' < 2 * call.ask
      BY <1>2, <3>1
    <3>. QED  BY <1>1, <1>2, <2>2, <3>2
  <2>. QED  BY <1>1, <1>2, <2>1, <2>2
<1>6. next' \in Nat /\ next' + call.ask <= buffer_size'
  <2>1. CASE call.ask > buffer_size
    BY <1>2, <1>5, <2>1 DEF CopyMore
  <2>2. CASE call.ask <= buffer_size
    BY <1>1, <1>2, <1>4, <1>5, <2>2 DEF CopyMore
  <2>. QED  BY <1>1, <1>2, <2>1, <2>2
<1>7. Room(buffer_size', next') \in 1 .. client_avail /\ next' + avail + Room(buffer_size', next') <= buffer_size'
  <2>. DEFINE s == buffer_size'
              at == next'
  <2>1. s \in Nat /\ at \in Nat /\ s - (at + avail) \in Nat \ {0} /\ call.ask - avail \in Nat \ {0}
    <3>1. s \in Nat /\ at \in Nat /\ at + call.ask <= s
      BY <1>5, <1>6
    <3>. HIDE DEF s, at
    <3>. QED  BY <1>1, <1>2, <1>3, <3>1
  <2>. HIDE DEF s, at
  <2>2. /\ Room(s, at) \in Nat \ {0}
        /\ Room(s, at) <= client_avail /\ Room(s, at) <= s - (at + avail)
    BY <1>1, <2>1 DEF Room, Least
  <2>3. Room(s, at) \in 1 .. client_avail /\ at + avail + Room(s, at) <= s
    BY <1>1, <2>1, <2>2
  <2>. QED  BY <2>3 DEF s, at
<1>. QED  BY <1>5, <1>6, <1>7

LEMMA CopyMoreShape ==
    ASSUME Shape, UNCHANGED <<ends, disk_like>>, lost' \in BOOLEAN, CopyMore
    PROVE  Shape'
<1>1. pc = "ahead" /\ pc' = pc /\ pc' \in Idle /\ Arguments'
  BY GoesOnArguments DEF CopyMore, NeedsMore, Idle, Shape
<1>2. UNCHANGED <<file, client_buff, client_total, dataset, position, end_of_file, fatal, left, skipped, faults>>
  BY DEF CopyMore, NoFault
<1>. DEFINE n == Room(buffer_size', next')
<1>3. /\ copy' = copy \o Bytes(client_buff + client_next, n)
      /\ client_next' = client_next + n /\ client_avail' = client_avail - n
  BY DEF CopyMore
<1>4. /\ n \in 1 .. client_avail /\ next' \in Nat /\ buffer_size' \in Nat /\ next' + avail + n <= buffer_size'
      /\ \E k \in Asks : k <= buffer_size' /\ buffer_size' < 2 * k
  BY CopyFits
<1>. HIDE DEF n
<1>5. client_avail \in Nat /\ client_next \in Nat /\ client_total \in Nat /\ n \in Nat /\ copy \in Seq(Nat) /\ avail \in Nat
  BY <1>4 DEF Shape, TypeOK, WindowsType, avail
<1>6. copy' \in Seq(Nat) /\ avail' = avail + n
  <2>1. client_buff + client_next \in Nat
    BY DEF Shape, TypeOK, WindowsType
  <2>. DEFINE b == Bytes(client_buff + client_next, n)
  <2>2. b \in Seq(Nat) /\ Len(b) = n
    BY <1>5, <2>1, BytesType
  <2>. HIDE DEF b
  <2>3. copy \o b \in Seq(Nat) /\ Len(copy \o b) = Len(copy) + Len(b)
    BY <1>5, <2>2, ConcatProperties
  <2>. QED  BY <1>3, <2>2, <2>3 DEF avail, b
<1>7. WindowsType'
  BY <1>2, <1>3, <1>4, <1>5, <1>6 DEF Shape, TypeOK, WindowsType
<1>8. Counters'
  <2>1. client_next + client_avail = client_total
    BY <1>4, <1>5 DEF Shape, Counters
  <2>2. client_next' + client_avail' = client_total'
    BY <1>2, <1>3, <1>4, <1>5, <2>1
  <2>3. next' + avail' <= buffer_size'
    <3>1. next' \in Nat /\ buffer_size' \in Nat /\ next' + avail + n <= buffer_size'
      BY <1>4
    <3>2. avail' = avail + n /\ avail \in Nat /\ n \in Nat
      BY <1>5, <1>6
    <3>3. \A a, b, c, d \in Nat : a + b + c <= d => a + (b + c) <= d
      OBVIOUS
    <3>4. next' + (avail + n) <= buffer_size'
      BY <3>1, <3>2, <3>3, Zenon
    <3>. QED  BY <3>2, <3>4, Zenon
  <2>. QED  BY <1>4, <2>2, <2>3 DEF Counters
<1>9. FileType'
  BY <1>2, Frame
<1>. QED  BY <1>1, <1>2, <1>7, <1>8, <1>9, AheadStep

LEMMA NoMemoryShape ==
    ASSUME Shape, UNCHANGED <<ends, disk_like>>, lost' \in BOOLEAN, NoMemory
    PROVE  Shape'
<1>1. pc = "ahead" /\ pc' \in Idle /\ Arguments'
  BY ReturnsArguments DEF NoMemory, NeedsMore, Idle
<1>2. UNCHANGED <<file, client, buffer_size, copy, dataset, position, end_of_file, left, skipped>>
  BY DEF NoMemory
<1>3. WindowsType' /\ Counters'
  BY <1>1, <1>2, OnlyMoved DEF Shape, TypeOK, WindowsType, NoMemory
<1>4. FileType'
  BY <1>2, SizesAssumption DEF Shape, TypeOK, FileType, NoMemory, Fault, file, Volumes
<1>. QED  BY <1>1, <1>2, <1>3, <1>4, AheadStep
-----------------------------------------------------------------------------
(* Consuming. *)

\* What is taken out of the windows, and what is left to skip when both are empty.
LEMMA ConsumeNumbers ==
    ASSUME WindowsType, NEW k \in Nat
    PROVE  /\ Least(k, avail) \in 0 .. avail /\ Taken(k) \in 0 .. client_avail
           /\ k - Least(k, avail) - Taken(k) \in Nat
           /\ k - Least(k, avail) - Taken(k) > 0 => Least(k, avail) = avail /\ Taken(k) = client_avail
<1>1. avail \in Nat /\ client_avail \in Nat
  BY DEF WindowsType, avail
<1>. QED  BY <1>1 DEF Least, Taken

LEMMA ConsumeShape ==
    ASSUME Shape, UNCHANGED <<ends, disk_like>>, lost' \in BOOLEAN, NEW k \in Asks, Consume(k)
    PROVE  Shape'
<1>. DEFINE c == [Nothing EXCEPT !.call = "consume", !.ask = k]
            f == Least(k, avail)
            t == Taken(k)
            rest == k - f - t
<1>1. UNCHANGED <<skipped, file, dataset, end_of_file, fatal, faults>>
  BY DEF Consume
<1>2. FileType' /\ DatasetType' /\ StreamType'
  BY <1>1, Frame
<1>3. CASE fatal
  <2>1. ReturnsAtOnce(c, FATAL, <<>>) /\ UNCHANGED <<buffer, client, position, left>>
    BY <1>3 DEF Consume
  <2>2. pc = "idle" /\ pc' = "idle" /\ Arguments'
    BY <2>1, ReturnsAtOnceArguments
  <2>3. CallType' /\ skipped' = 0 /\ fatal' \in BOOLEAN /\ pc' \notin Seeks /\ pc' \in Idle
    BY <1>1, <2>1, <2>2 DEF Shape, TypeOK, CallType, Consuming, WindowsType, Idle, Seeks
  <2>. QED  BY <1>1, <1>2, <2>1, <2>2, <2>3, Frame DEF Shape, TypeOK
<1>4. CASE ~fatal
  <2>1. /\ next' = next + f /\ copy' = SubSeq(copy, f + 1, avail)
        /\ client_next' = client_next + t /\ client_avail' = client_avail - t
        /\ position' = position + f + t /\ left' = rest
        /\ IF rest = 0 THEN ReturnsAtOnce(c, k, <<>>) ELSE Begins(c, "skip")
        /\ UNCHANGED <<buffer_size, client_buff, client_total>>
    BY <1>4 DEF Consume
  <2>2. k \in Nat \ {0}
    BY SizesAssumption
  <2>3. f \in 0 .. avail /\ t \in 0 .. client_avail /\ rest \in Nat /\ (rest > 0 => f = avail /\ t = client_avail)
    BY <2>2, ConsumeNumbers DEF Shape, TypeOK
  <2>4. pc = "idle" /\ pc' = (IF rest = 0 THEN "idle" ELSE "skip") /\ Arguments'
    <3>1. CASE rest = 0
      BY <2>1, <3>1, ReturnsAtOnceArguments
    <3>2. CASE rest # 0
      <4>1. c \in [call : {"consume"}, whence : {""}, ask : Asks, ret : {0}, data : {<<>>}]
        BY DEF Nothing
      <4>. HIDE DEF c, rest
      <4>. QED  BY <2>1, <3>2, <4>1, BeginsArguments
    <3>. QED  BY <3>1, <3>2
  <2>. HIDE DEF c, f, t, rest
  <2>5. avail \in Nat /\ copy \in Seq(Nat) /\ avail = Len(copy)
    BY DEF Shape, TypeOK, WindowsType, avail
  <2>6. copy' \in Seq(Nat) /\ avail' = avail - f
    BY <2>1, <2>3, <2>5, RestType DEF avail
  <2>7. WindowsType'
    BY <1>1, <2>1, <2>3, <2>5, <2>6 DEF Shape, TypeOK, WindowsType
  <2>8. Counters'
    <3>1. client_avail \in Nat /\ client_next \in Nat /\ client_total \in Nat /\ next \in Nat /\ buffer_size \in Nat
      BY DEF Shape, TypeOK, WindowsType
    <3>2. next' + avail' <= buffer_size'
      BY <2>1, <2>3, <2>5, <2>6, <3>1 DEF Shape, Counters
    <3>3. client_avail' + avail' > 0 => client_next' + client_avail' = client_total'
      BY <2>1, <2>3, <2>5, <2>6, <3>1 DEF Shape, Counters
    <3>. QED  BY <2>1, <3>2, <3>3 DEF Shape, Counters
  <2>9. CallType' /\ skipped' = 0 /\ pc' \notin Seeks
    BY <1>1, <2>1, <2>3, <2>4 DEF Shape, TypeOK, CallType, Consuming, Seeks
  <2>10. Consuming'
    <3>1. CASE rest = 0
      BY <2>4, <2>9, <3>1, Frame DEF Idle
    <3>2. CASE rest # 0
      <4>1. client_avail' = 0 /\ avail' = 0 /\ left' > 0
        BY <2>1, <2>3, <2>5, <2>6, <3>2 DEF Shape, TypeOK, WindowsType
      <4>2. copy' = <<>>
        BY <2>6, <4>1 DEF avail
      <4>. QED  BY <2>3, <2>4, <2>9, <3>2, <4>1, <4>2 DEF Consuming
    <3>. QED  BY <3>1, <3>2
  <2>. QED  BY <1>1, <1>2, <2>4, <2>7, <2>8, <2>9, <2>10, Frame DEF Shape, TypeOK
<1>. QED  BY <1>3, <1>4

\* While a consume reaches for the file both windows are empty.
LEMMA Empty ==
    ASSUME Shape, pc \in {"skip", "discard"}
    PROVE  copy = <<>> /\ avail = 0 /\ client_avail = 0 /\ left \in Nat \ {0}
BY DEF Shape, Consuming, TypeOK, CallType, avail

\* client_skip_proxy is done: with an error, with all that is left, or with less.
LEMMA SkipReturnsShape ==
    ASSUME Shape, UNCHANGED <<ends, disk_like, client, buffer, dataset, end_of_file>>, lost' \in BOOLEAN,
           pc = "skip", NEW n \in Nat \cup {-1}, n <= left, SkipReturns(n), FileType'
    PROVE  Shape'
<1>0. left \in Nat \ {0} /\ copy = <<>> /\ client_avail = 0 /\ position \in Nat
  BY Empty DEF Shape, TypeOK, WindowsType
<1>1. skipped' = 0
  BY DEF SkipReturns
<1>2. CASE n < 0
  <2>1. fatal' = TRUE /\ Returns(FATAL, <<>>) /\ left' = 0 /\ position' = position
    BY <1>2 DEF SkipReturns
  <2>2. pc' = "idle" /\ Arguments'
    BY <2>1, ReturnsArguments
  <2>3. CallType' /\ pc' \in Idle /\ pc' \notin Seeks /\ fatal' \in BOOLEAN
    BY <1>1, <2>1, <2>2 DEF CallType, Idle, Seeks
  <2>. QED  BY <1>1, <2>1, <2>2, <2>3, Frame DEF Shape, TypeOK
<1>3. CASE n >= 0
  <2>1. position' = position + n /\ left' = left - n /\ fatal' = fatal
    BY <1>3 DEF SkipReturns
  <2>2. WindowsType'
    BY <1>0, <1>3, <2>1 DEF Shape, TypeOK, WindowsType, client, buffer
  <2>3. left' \in Nat
    BY <1>0, <1>3, <2>1
  <2>4. CASE left = n
    <3>1. pc' = "idle" /\ Arguments'
      BY <1>3, <2>4, ReturnsArguments DEF SkipReturns
    <3>2. CallType' /\ pc' \in Idle /\ pc' \notin Seeks
      BY <1>1, <2>3, <3>1 DEF CallType, Idle, Seeks
    <3>. QED  BY <1>1, <2>2, <3>1, <3>2, Frame DEF Shape, TypeOK
  <2>5. CASE left # n
    <3>1. pc' = "discard" /\ GoesOn
      BY <1>3, <2>5 DEF SkipReturns
    <3>2. Arguments'
      BY <3>1, GoesOnArguments DEF Shape
    <3>3. CallType' /\ pc' \notin Seeks
      BY <1>1, <2>3, <3>1 DEF CallType, Seeks
    <3>4. Consuming'
      BY <1>0, <1>1, <1>3, <2>1, <2>3, <2>5, <3>1 DEF Consuming, client, buffer
    <3>. QED  BY <2>2, <3>2, <3>3, <3>4, Frame DEF Shape, TypeOK
  <2>. QED  BY <2>4, <2>5
<1>. QED  BY <1>2, <1>3

LEMMA SkipChunkShape ==
    ASSUME Shape, UNCHANGED <<ends, disk_like>>, lost' \in BOOLEAN, SkipChunk
    PROVE  Shape'
<1>. DEFINE ask == Least(left - skipped, SkipLimit)
<1>1. pc = "skip" /\ use_lseek[cursor] /\ offset' = offset + ask /\ NoFault
      /\ UNCHANGED <<use_lseek, cursor, fd, client, buffer, dataset, end_of_file>>
  BY DEF SkipChunk
<1>2. left \in Nat /\ skipped \in Nat /\ skipped < left
  BY <1>1 DEF Shape, TypeOK, CallType, Consuming
<1>3. ask \in Nat \ {0} /\ ask <= left - skipped
  BY <1>2, SizesAssumption DEF Least
<1>. HIDE DEF ask
<1>4. FileType'
  BY <1>1, <1>3 DEF Shape, TypeOK, FileType, NoFault, Volumes
<1>5. CASE ask = left - skipped
  <2>1. SkipReturns(left)
    BY <1>5 DEF SkipChunk, ask
  <2>. QED  BY <1>1, <1>2, <1>4, <2>1, SkipReturnsShape
<1>6. CASE ask # left - skipped
  <2>1. skipped' = skipped + ask /\ GoesOn /\ UNCHANGED <<pc, position, left, fatal>>
    BY <1>6 DEF SkipChunk, ask
  <2>2. Arguments'
    BY <2>1, GoesOnArguments DEF Shape
  <2>3. skipped' \in Nat /\ skipped' < left
    BY <1>2, <1>3, <1>6, <2>1
  <2>4. CallType' /\ pc' \notin Seeks
    BY <1>1, <1>2, <2>1, <2>3 DEF CallType, Seeks
  <2>5. Consuming'
    BY <1>1, <2>1, <2>3 DEF Shape, Consuming, client, buffer
  <2>6. fatal' \in BOOLEAN
    BY <2>1 DEF Shape, TypeOK, WindowsType
  <2>. QED  BY <1>1, <1>4, <2>1, <2>2, <2>4, <2>5, <2>6, Frame DEF Shape, TypeOK
<1>. QED  BY <1>5, <1>6

LEMMA SkipFailsShape ==
    ASSUME Shape, UNCHANGED <<ends, disk_like>>, lost' \in BOOLEAN, SkipFails
    PROVE  Shape'
<1>1. /\ pc = "skip" /\ use_lseek[cursor] /\ (Fault \/ NoFault)
      /\ use_lseek' = [use_lseek EXCEPT ![cursor] = FALSE]
      /\ skipped' = skipped - 1 /\ GoesOn
      /\ UNCHANGED <<pc, cursor, fd, offset, client, buffer, dataset, position, end_of_file, fatal, left>>
  BY DEF SkipFails
<1>2. left \in Nat /\ skipped \in Nat /\ skipped < left
  BY <1>1 DEF Shape, TypeOK, CallType, Consuming
<1>3. faults' \in 0 .. MaxFaults
  BY <1>1, SizesAssumption DEF Shape, TypeOK, FileType, Fault, NoFault
<1>4. FileType' /\ ~use_lseek'[cursor']
  BY <1>1, <1>3 DEF Shape, TypeOK, FileType, Volumes
<1>5. Arguments'
  BY <1>1, GoesOnArguments DEF Shape
<1>6. CallType' /\ pc' \notin Seeks
  BY <1>1, <1>2 DEF CallType, Seeks
<1>7. Consuming'
  BY <1>1, <1>2, <1>4 DEF Shape, Consuming, client, buffer
<1>8. fatal' \in BOOLEAN
  BY <1>1 DEF Shape, TypeOK, WindowsType
<1>. QED  BY <1>1, <1>4, <1>5, <1>6, <1>7, <1>8, Frame DEF Shape, TypeOK

LEMMA CannotSkipShape ==
    ASSUME Shape, UNCHANGED <<ends, disk_like>>, lost' \in BOOLEAN, CannotSkip
    PROVE  Shape'
<1>1. pc = "skip" /\ SkipReturns(skipped) /\ UNCHANGED <<file, faults, client, buffer, dataset, end_of_file>>
  BY DEF CannotSkip, NoFault
<1>2. skipped \in Nat \cup {-1} /\ skipped <= left
  BY <1>1 DEF Shape, TypeOK, CallType, Consuming
<1>3. FileType'
  BY <1>1, Frame
<1>. QED  BY <1>1, <1>2, <1>3, SkipReturnsShape

LEMMA DiscardShape ==
    ASSUME Shape, UNCHANGED <<ends, disk_like>>, lost' \in BOOLEAN, Discard
    PROVE  Shape'
<1>1. pc = "discard" /\ UNCHANGED <<buffer, dataset, end_of_file, fatal, skipped>>
  BY DEF Discard
<1>2. PICK n \in 1 .. BlockSize :
        /\ FileRead(n)
        /\ \/ /\ Suffices(n)
              /\ client_next' = left /\ client_avail' = n - left /\ client_total' = n
              /\ position' = position + left /\ left' = 0 /\ Returns(call.ask, <<>>)
           \/ /\ ~Suffices(n)
              /\ position' = position + n /\ left' = left - n /\ GoesOn
              /\ UNCHANGED <<pc, client_total, client_next, client_avail>>
  BY DEF Discard
<1>3. n \in Nat \ {0} /\ left \in Nat \ {0} /\ avail = 0 /\ copy = <<>> /\ client_avail = 0 /\ position \in Nat
  BY <1>1, <1>2, SizesAssumption, Empty DEF Shape, TypeOK, WindowsType
<1>4. FileType'
  BY <1>2, <1>3, FileKeepsType DEF Shape
<1>5. client_buff' \in Nat
  <2>1. client_buff' = Begin(cursor) + offset
    BY <1>2 DEF FileRead
  <2>2. Begin(cursor) \in Nat /\ offset \in Nat
    BY VolumesFollow DEF Shape, TypeOK, StreamType, FileType
  <2>. QED  BY <2>1, <2>2
<1>6. avail' = 0 /\ copy' = <<>> /\ skipped' = 0
  BY <1>1, <1>3 DEF avail, buffer, Shape, Consuming
<1>7. CASE Suffices(n)
  <2>1. /\ client_next' = left /\ client_avail' = n - left /\ client_total' = n
        /\ position' = position + left /\ left' = 0 /\ Returns(call.ask, <<>>)
    BY <1>2, <1>7
  <2>2. n - left \in Nat
    BY <1>3, <1>7 DEF Suffices
  <2>3. WindowsType'
    BY <1>1, <1>3, <1>5, <2>1, <2>2 DEF Shape, TypeOK, WindowsType, buffer
  <2>4. Counters'
    BY <1>1, <1>3, <1>6, <2>1, <2>2 DEF Shape, Counters, buffer
  <2>5. pc' = "idle" /\ Arguments'
    BY <2>1, ReturnsArguments
  <2>6. CallType' /\ pc' \in Idle /\ pc' \notin Seeks
    BY <1>6, <2>1, <2>5 DEF CallType, Idle, Seeks
  <2>. QED  BY <1>1, <1>4, <1>6, <2>3, <2>4, <2>5, <2>6, Frame DEF Shape, TypeOK
<1>8. CASE ~Suffices(n)
  <2>1. position' = position + n /\ left' = left - n /\ GoesOn /\ UNCHANGED <<pc, client_total, client_next, client_avail>>
    BY <1>2, <1>8
  <2>2. left' \in Nat \ {0}
    BY <1>3, <1>8, <2>1 DEF Suffices
  <2>3. WindowsType'
    BY <1>1, <1>3, <1>5, <2>1 DEF Shape, TypeOK, WindowsType, buffer
  <2>4. Counters'
    BY <1>1, <1>3, <1>6, <2>1 DEF Shape, Counters, buffer
  <2>5. Arguments'
    BY <2>1, GoesOnArguments DEF Shape
  <2>6. CallType' /\ pc' \notin Seeks
    BY <1>1, <1>6, <2>1, <2>2 DEF CallType, Seeks
  <2>7. Consuming'
    BY <1>1, <1>3, <1>6, <2>1, <2>2 DEF Consuming
  <2>. QED  BY <1>1, <1>4, <2>3, <2>4, <2>5, <2>6, <2>7, Frame DEF Shape, TypeOK
<1>. QED  BY <1>7, <1>8

\* A consume that fails while it discards.
LEMMA DiscardEnds ==
    ASSUME Shape, UNCHANGED <<ends, disk_like, client, buffer, dataset, position, skipped>>, lost' \in BOOLEAN,
           pc = "discard", fatal' \in BOOLEAN, end_of_file' \in BOOLEAN, left' = 0, Returns(FATAL, <<>>), FileType'
    PROVE  Shape'
<1>1. pc' = "idle" /\ Arguments' /\ skipped' = 0
  BY ReturnsArguments DEF Shape, Consuming
<1>2. CallType' /\ pc' \in Idle /\ pc' \notin Seeks
  BY <1>1 DEF CallType, Idle, Seeks
<1>3. WindowsType'
  BY DEF Shape, TypeOK, WindowsType, client, buffer
<1>. QED  BY <1>1, <1>2, <1>3, Frame DEF Shape, TypeOK

LEMMA DiscardFailsShape ==
    ASSUME Shape, UNCHANGED <<ends, disk_like>>, lost' \in BOOLEAN, DiscardFails
    PROVE  Shape'
<1>1. FileType'
  BY FileKeepsType DEF Shape, DiscardFails
<1>. QED  BY <1>1, DiscardEnds DEF DiscardFails, Shape, TypeOK, WindowsType

LEMMA DiscardMeetsEndShape ==
    ASSUME Shape, UNCHANGED <<ends, disk_like>>, lost' \in BOOLEAN, DiscardMeetsEnd
    PROVE  Shape'
<1>1. FileType'
  BY EndKeepsFileType DEF Shape, DiscardMeetsEnd
<1>. QED  BY <1>1, DiscardEnds DEF DiscardMeetsEnd, Shape, TypeOK, WindowsType

LEMMA DiscardNextVolumeShape ==
    ASSUME Shape, UNCHANGED <<ends, disk_like>>, lost' \in BOOLEAN, DiscardNextVolume
    PROVE  Shape'
<1>1. pc = "discard" /\ GoesOn /\ UNCHANGED <<pc, client, buffer, dataset, position, end_of_file, fatal, left, skipped>>
  BY DEF DiscardNextVolume
<1>2. FileType'
  BY FileKeepsType, NextIsVolume DEF Shape, DiscardNextVolume
<1>3. Arguments'
  BY <1>1, GoesOnArguments DEF Shape
<1>4. CallType' /\ pc' \notin Seeks /\ fatal' \in BOOLEAN
  BY <1>1 DEF Shape, TypeOK, CallType, WindowsType, Seeks
<1>5. Consuming'
  BY <1>1 DEF Shape, Consuming, client, buffer
<1>. QED  BY <1>1, <1>2, <1>3, <1>4, <1>5, Frame DEF Shape, TypeOK
-----------------------------------------------------------------------------
(* Seeking. *)

\* What a seek knows of the volume it is at, and where it is going.
LEMMA SeekKnows ==
    ASSUME Shape, pc \in Seeks
    PROVE  /\ left \in Volumes /\ left \in Nat \ {0} /\ begin_position[left] = Begin(left)
           /\ call.ask \in Int /\ Goal \in Int /\ call.whence \in {"set", "cur", "end"}
           /\ pc = "known" /\ total_size[left] >= 0 => total_size[left] = SizeOf(left)
<1>1. left \in Volumes /\ begin_position[left] = Begin(left) /\ total_size[left] \in {-1, SizeOf(left)}
  BY DEF Shape, Seeking, Seeks
<1>2. left \in Nat \ {0}
  BY <1>1, VolumesFollow DEF Volumes, Shape, TypeOK, StreamType
<1>3. call.ask \in Int /\ call.whence \in {"set", "cur", "end"}
  <2>1. call \in [call : {"seek"}, whence : {"set", "cur", "end"}, ask : Offsets, ret : {0}, data : {<<>>}]
    <3>1. Arguments /\ pc \in {"known", "size", "set"}
      BY DEF Shape, Seeks
    <3>. QED  BY <3>1, Zenon DEF Arguments
  <2>2. call.ask \in Offsets /\ call.whence \in {"set", "cur", "end"}
    BY <2>1
  <2>. QED  BY <2>2, SizesAssumption
<1>4. Goal \in Int
  BY <1>3 DEF Goal, Shape, TypeOK, WindowsType
<1>. QED  BY <1>1, <1>2, <1>3, <1>4

\* A step of a seek that goes on.
LEMMA SeekGoesOn ==
    ASSUME Shape, UNCHANGED <<ends, disk_like, client, buffer, position, end_of_file, fatal, skipped>>,
           lost' \in BOOLEAN, pc \in Seeks, pc' \in Seeks, left' \in Nat, GoesOn,
           FileType', DatasetType', Seeking'
    PROVE  Shape'
<1>1. Arguments'
  BY GoesOnArguments DEF Shape
<1>2. skipped' = 0 /\ CallType' /\ fatal' \in BOOLEAN
  BY DEF Shape, TypeOK, WindowsType, CallType, Consuming, Seeks
<1>3. Consuming'
  BY <1>2 DEF Consuming, Seeks
<1>. QED  BY <1>1, <1>2, <1>3, Frame DEF Shape, TypeOK

\* A seek that returns without having moved the place.
LEMMA SeekEnds ==
    ASSUME Shape, UNCHANGED <<ends, disk_like, client, buffer, dataset, position, end_of_file, fatal, skipped>>,
           lost' \in BOOLEAN, pc \in Seeks, left' = 0, Returns(FATAL, <<>>), FileType'
    PROVE  Shape'
<1>1. pc' = "idle" /\ Arguments' /\ skipped' = 0 /\ fatal' \in BOOLEAN
  BY ReturnsArguments DEF Shape, Consuming, TypeOK, WindowsType, Seeks
<1>2. CallType' /\ pc' \in Idle /\ pc' \notin Seeks
  BY <1>1 DEF CallType, Idle, Seeks
<1>. QED  BY <1>1, <1>2, Frame DEF Shape, TypeOK

LEMMA SeekCallShape ==
    ASSUME Shape, UNCHANGED <<ends, disk_like>>, lost' \in BOOLEAN,
           NEW whence \in {"set", "cur", "end"}, NEW off \in Offsets, SeekCall(whence, off)
    PROVE  Shape'
<1>. DEFINE c == [Nothing EXCEPT !.call = "seek", !.whence = whence, !.ask = off]
<1>1. UNCHANGED <<file, client, buffer, dataset, position, end_of_file, fatal, skipped, faults>>
  BY DEF SeekCall
<1>2. CASE fatal
  <2>1. ReturnsAtOnce(c, FATAL, <<>>) /\ left' = left
    BY <1>2 DEF SeekCall
  <2>2. pc = "idle" /\ pc' = "idle" /\ Arguments'
    BY <2>1, ReturnsAtOnceArguments
  <2>3. CallType' /\ skipped' = 0 /\ fatal' \in BOOLEAN /\ pc' \notin Seeks /\ pc' \in Idle
    BY <1>1, <2>1, <2>2 DEF Shape, TypeOK, CallType, Consuming, WindowsType, Idle, Seeks
  <2>. QED  BY <1>1, <2>2, <2>3, Frame DEF Shape, TypeOK
<1>3. CASE ~fatal
  <2>1. Begins(c, "known") /\ left' = 1
    BY <1>3 DEF SeekCall
  <2>2. c \in [call : {"seek"}, whence : {"set", "cur", "end"}, ask : Offsets, ret : {0}, data : {<<>>}]
    BY DEF Nothing
  <2>3. pc = "idle" /\ pc' = "known" /\ Arguments'
    <3>. HIDE DEF c
    <3>. QED  BY <2>1, <2>2, BeginsArguments, Zenon
  <2>4. CallType' /\ skipped' = 0 /\ fatal' \in BOOLEAN
    BY <1>1, <2>1, <2>3 DEF Shape, TypeOK, CallType, Consuming, WindowsType
  <2>5. Consuming'
    BY <2>3, <2>4 DEF Consuming
  <2>6. Seeking'
    <3>1. Volumes' = Volumes /\ \A v : Begin(v)' = Begin(v) /\ SizeOf(v)' = SizeOf(v)
      BY DEF Volumes, Begin, SizeOf
    <3>2. 1 \in Volumes /\ Begin(1) = 0
      BY VolumesFollow DEF Volumes, Shape, TypeOK, StreamType
    <3>. QED  BY <1>1, <2>1, <2>3, <3>1, <3>2 DEF Shape, Seeking, dataset
  <2>. QED  BY <1>1, <2>3, <2>4, <2>5, <2>6, Frame DEF Shape, TypeOK
<1>. QED  BY <1>2, <1>3

\* The volume that the seek is at is known and does not reach the goal: on to the next.
LEMMA OneMoreKnown ==
    ASSUME Shape, UNCHANGED <<ends, position>>, GoesOn, pc \in Seeks, pc' \in {"known", "size"},
           left < Len(ends), left' = left + 1,
           begin_position' = [begin_position EXCEPT ![left + 1] = Begin(left) + SizeOf(left)],
           total_size' = [total_size EXCEPT ![left] = SizeOf(left)],
           call.whence # "end" => Goal >= ends[left] - 1
    PROVE  left' \in Nat /\ DatasetType' /\ Seeking'
<1>1. Volumes' = Volumes /\ (\A v : Begin(v)' = Begin(v) /\ SizeOf(v)' = SizeOf(v))
      /\ Goal' = Goal /\ call' = call
  BY DEF Volumes, Begin, SizeOf, Goal, GoesOn, args
<1>2. left \in Volumes /\ left \in Nat \ {0} /\ begin_position[left] = Begin(left)
  BY SeekKnows
<1>3. /\ left + 1 \in Volumes /\ Begin(left) + SizeOf(left) = ends[left]
      /\ Begin(left + 1) = ends[left] /\ SizeOf(left) \in Nat /\ ends[left] \in Nat
  <2>1. left + 1 \in Volumes
    BY <1>2, VolumesFollow DEF Volumes, Shape, TypeOK, StreamType
  <2>. QED  BY <1>2, <2>1, VolumesFollow DEF Shape, TypeOK, StreamType
<1>4. begin_position \in [Volumes -> Nat \cup {-1}] /\ total_size \in [Volumes -> Nat \cup {-1}]
  BY DEF Shape, TypeOK, DatasetType
<1>5. DatasetType'
  BY <1>1, <1>2, <1>3, <1>4 DEF DatasetType
<1>6. /\ \A v \in Volumes : begin_position'[v] = IF v = left + 1 THEN Begin(v) ELSE begin_position[v]
      /\ \A v \in Volumes : total_size'[v] = IF v = left THEN SizeOf(v) ELSE total_size[v]
  BY <1>2, <1>3, <1>4
<1>7. 1 \in Volumes /\ 1 # left + 1
  BY <1>2, VolumesFollow DEF Volumes, Shape, TypeOK, StreamType
<1>8. begin_position'[1] = 0
  BY <1>6, <1>7 DEF Shape, Seeking
<1>9. \A v \in Volumes : begin_position'[v] \in {-1, Begin(v)} /\ total_size'[v] \in {-1, SizeOf(v)}
  BY <1>6 DEF Shape, Seeking
<1>10. \A v \in 1 .. left : begin_position'[v] = Begin(v) /\ total_size'[v] = SizeOf(v)
  <2>. SUFFICES ASSUME NEW v \in 1 .. left
                PROVE  begin_position'[v] = Begin(v) /\ total_size'[v] = SizeOf(v)
    OBVIOUS
  <2>1. v \in Volumes /\ v # left + 1
    BY <1>2, VolumesFollow DEF Volumes, Shape, TypeOK, StreamType
  <2>2. CASE v = left
    BY <1>2, <1>6, <2>1, <2>2
  <2>3. CASE v # left
    <3>1. v \in 1 .. left - 1
      BY <1>2, <2>3
    <3>2. Known(v)
      BY <3>1 DEF Shape, Seeking, Seeks
    <3>. QED  BY <1>6, <2>1, <2>3, <3>2 DEF Known
  <2>. QED  BY <2>2, <2>3
<1>11. left' - 1 = left
  BY <1>2
<1>12. Seeking'
  <2>1. \A v \in 1 .. left' - 1 : Known(v)'
    BY <1>1, <1>10, <1>11 DEF Known
  <2>6. Begin(left)' = ends[left]
    BY <1>2 DEF Begin
  <2>2. left' \in Volumes' /\ begin_position'[left'] = Begin(left)'
    BY <1>1, <1>3, <1>6, <2>6
  <2>3. call'.whence # "end" => Goal' >= Begin(left)' - 1
    BY <1>1, <1>3, <2>6
  <2>4. \A v \in Volumes' : begin_position'[v] \in {-1, Begin(v)'} /\ total_size'[v] \in {-1, SizeOf(v)'}
    BY <1>1, <1>9
  <2>5. pc' # "set"
    OBVIOUS
  <2>. QED  BY <1>8, <2>1, <2>2, <2>3, <2>4, <2>5 DEF Seeking
<1>. QED  BY <1>2, <1>5, <1>12

LEMMA PassKnownShape ==
    ASSUME Shape, UNCHANGED <<ends, disk_like>>, lost' \in BOOLEAN, PassKnown
    PROVE  Shape'
<1>1. /\ pc = "known" /\ Passed(left) /\ left' = left + 1 /\ GoesOn /\ pc' = pc
      /\ begin_position' = [begin_position EXCEPT ![left + 1] = begin_position[left] + total_size[left]]
      /\ UNCHANGED <<file, faults, client, buffer, total_size, position, end_of_file, fatal, skipped>>
  BY DEF PassKnown, NoFault
<1>2. pc \in Seeks /\ pc' \in Seeks
  BY <1>1 DEF Seeks
<1>3. /\ left \in Volumes /\ begin_position[left] = Begin(left) /\ total_size[left] = SizeOf(left)
      /\ Goal \in Int /\ left < Len(ends) /\ ~Reaches(Begin(left), SizeOf(left))
  BY <1>1, <1>2, SeekKnows DEF Passed
<1>4. call.whence # "end" => Goal >= ends[left] - 1
  <2>1. Begin(left) \in Nat /\ SizeOf(left) \in Nat /\ Begin(left) + SizeOf(left) = ends[left]
    BY <1>3, VolumesFollow DEF Shape, TypeOK, StreamType
  <2>. QED  BY <1>3, <2>1 DEF Reaches
<1>5. total_size' = [total_size EXCEPT ![left] = SizeOf(left)]
  BY <1>1, <1>3 DEF Shape, TypeOK, DatasetType
<1>6. left' \in Nat /\ DatasetType' /\ Seeking'
  BY <1>1, <1>2, <1>3, <1>4, <1>5, OneMoreKnown
<1>7. FileType'
  BY <1>1, Frame
<1>. QED  BY <1>1, <1>2, <1>6, <1>7, SeekGoesOn

\* The volume whose size the seek asks for is the one it is at.
LEMMA SizesInSeek ==
    ASSUME Sizes(left)
    PROVE  pc \in Seeks
BY DEF Sizes, Seeks

LEMMA SizeVolumeShape ==
    ASSUME Shape, UNCHANGED <<ends, disk_like>>, lost' \in BOOLEAN, SizeVolume
    PROVE  Shape'
<1>1. /\ pc \in Seeks /\ MovesTo(left, SizeOf(left)) /\ GoesOn
      /\ total_size' = [total_size EXCEPT ![left] = SizeOf(left)]
      /\ UNCHANGED <<client, buffer, position, end_of_file, fatal, skipped>>
  BY SizesInSeek DEF SizeVolume
<1>2. left \in Volumes /\ left \in Nat \ {0} /\ begin_position[left] = Begin(left) /\ Goal \in Int
  BY <1>1, SeekKnows
<1>3. Begin(left) \in Nat /\ SizeOf(left) \in Nat /\ Begin(left) + SizeOf(left) = ends[left] /\ ends[left] \in Nat
  BY <1>2, VolumesFollow DEF Shape, TypeOK, StreamType
<1>4. FileType'
  BY <1>1, <1>2, <1>3, FileKeepsType DEF Shape
<1>5. CASE Reaches(begin_position[left], SizeOf(left)) \/ left = Len(ends)
  <2>1. pc' = "set" /\ UNCHANGED <<left, begin_position>>
    BY <1>5 DEF SizeVolume
  <2>2. Volumes' = Volumes /\ (\A v : Begin(v)' = Begin(v) /\ SizeOf(v)' = SizeOf(v))
        /\ Goal' = Goal /\ call' = call
    BY <1>1 DEF Volumes, Begin, SizeOf, Goal, GoesOn, args
  <2>3. total_size \in [Volumes -> Nat \cup {-1}]
    BY DEF Shape, TypeOK, DatasetType
  <2>4. DatasetType'
    BY <1>1, <1>2, <1>3, <2>1, <2>2, <2>3 DEF Shape, TypeOK, DatasetType
  <2>5. \A v \in Volumes : total_size'[v] = IF v = left THEN SizeOf(v) ELSE total_size[v]
    BY <1>1, <2>3
  <2>6. \A v \in 1 .. left - 1 : Known(v)'
    <3>. SUFFICES ASSUME NEW v \in 1 .. left - 1 PROVE Known(v)'
      OBVIOUS
    <3>1. v \in Volumes /\ v # left
      BY <1>2, VolumesFollow DEF Volumes, Shape, TypeOK, StreamType
    <3>2. Known(v)
      BY <1>1 DEF Shape, Seeking, Seeks
    <3>. QED  BY <2>1, <2>2, <2>5, <3>1, <3>2 DEF Known
  <2>7. Known(left)'
    BY <1>2, <2>1, <2>5 DEF Known, Begin, SizeOf
  <2>8. left = Len(ends) \/ (call.whence # "end" /\ Goal < ends[left] - 1)
    BY <1>2, <1>3, <1>5 DEF Reaches
  <2>9. \A v \in Volumes' : begin_position'[v] \in {-1, Begin(v)'} /\ total_size'[v] \in {-1, SizeOf(v)'}
    BY <2>1, <2>2, <2>5 DEF Shape, Seeking
  <2>10. Seeking'
    <3>1. begin_position'[1] = 0
      BY <2>1 DEF Shape, Seeking
    <3>6. Begin(left)' = Begin(left)
      BY <2>1 DEF Begin
    <3>2. left' \in Volumes' /\ begin_position'[left'] = Begin(left)'
      BY <1>2, <2>1, <2>2, <3>6
    <3>3. call'.whence # "end" /\ left' > 1 => Goal' >= Begin(left)' - 1
      BY <1>1, <2>1, <2>2, <3>6 DEF Shape, Seeking, Seeks
    <3>4. left' = Len(ends)' \/ (call'.whence # "end" /\ Goal' < ends'[left'] - 1)
      BY <2>1, <2>2, <2>8
    <3>5. Known(left)' /\ \A v \in 1 .. left' - 1 : Known(v)'
      BY <2>1, <2>6, <2>7
    <3>. QED  BY <2>9, <3>1, <3>2, <3>3, <3>4, <3>5 DEF Seeking
  <2>11. pc' \in Seeks /\ left' \in Nat
    BY <1>2, <2>1 DEF Seeks
  <2>. QED  BY <1>1, <1>4, <2>4, <2>10, <2>11, SeekGoesOn
<1>6. CASE ~(Reaches(begin_position[left], SizeOf(left)) \/ left = Len(ends))
  <2>1. /\ pc' = "size" /\ left' = left + 1
        /\ begin_position' = [begin_position EXCEPT ![left + 1] = begin_position[left] + SizeOf(left)]
    BY <1>6 DEF SizeVolume
  <2>2. left < Len(ends)
    BY <1>2, <1>6, VolumesFollow DEF Volumes, Shape, TypeOK, StreamType
  <2>3. call.whence # "end" => Goal >= ends[left] - 1
    BY <1>2, <1>3, <1>6 DEF Reaches
  <2>4. left' \in Nat /\ DatasetType' /\ Seeking'
    BY <1>1, <1>2, <2>1, <2>2, <2>3, OneMoreKnown
  <2>5. pc' \in Seeks
    BY <2>1 DEF Seeks
  <2>. QED  BY <1>1, <1>4, <2>4, <2>5, SeekGoesOn
<1>. QED  BY <1>5, <1>6

LEMMA SizeFailsShape ==
    ASSUME Shape, UNCHANGED <<ends, disk_like>>, lost' \in BOOLEAN, SizeFails
    PROVE  Shape'
<1>1. pc \in Seeks /\ SeekFails(left, SizeOf(left))
  BY SizesInSeek DEF SizeFails
<1>2. left \in Volumes /\ SizeOf(left) \in Int
  <2>1. left \in Volumes
    BY <1>1, SeekKnows
  <2>. QED  BY <2>1, VolumesFollow DEF Shape, TypeOK, StreamType
<1>3. FileType'
  BY <1>1, <1>2, FileKeepsType DEF Shape, SeekFails
<1>. QED  BY <1>1, <1>3, SeekEnds DEF SeekFails

\* Where a seek may arrive: in a volume that it knows, and in no volume but the last can
\* it arrive behind the end.
LEMMA Arrivals ==
    ASSUME Shape, pc = "set", NEW v \in VolumeSet
    PROVE  /\ v \in Volumes /\ begin_position[v] = Begin(v) /\ total_size[v] = SizeOf(v)
           /\ OffsetSet(v) \in Int
           /\ InRange(v) => OffsetSet(v) <= SizeOf(v) \/ v = Len(ends)
<1>1. /\ left \in Volumes /\ left \in Nat \ {0} /\ call.ask \in Int /\ Goal \in Int
      /\ call.whence \in {"set", "cur", "end"}
  BY SeekKnows DEF Seeks
<1>2. Known(left) /\ (\A w \in 1 .. left - 1 : Known(w)) /\ (call.whence = "end" => left = Len(ends))
  BY DEF Shape, Seeking
<1>3. Len(ends) \in Nat /\ Len(ends) > 0 /\ \A w \in Volumes : Begin(w) \in Nat /\ SizeOf(w) \in Nat
  BY VolumesFollow DEF Shape, TypeOK, StreamType
<1>4. CASE call.whence # "end"
  <2>1. v = left
    BY <1>4 DEF VolumeSet
  <2>2. OffsetSet(v) = Goal - begin_position[v]
    BY <1>4 DEF OffsetSet
  <2>3. InRange(v) => OffsetSet(v) \in 0 .. total_size[v]
    BY <1>4 DEF InRange
  <2>. QED  BY <1>1, <1>2, <1>3, <2>1, <2>2, <2>3 DEF Known
<1>5. CASE call.whence = "end"
  <2>1. /\ v \in Volumes /\ (v = 1 \/ begin_position[v] <= FromEnd)
        /\ \A w \in v + 1 .. Len(ends) : ~(begin_position[w] <= FromEnd)
    BY <1>5 DEF VolumeSet, VolumeFromEnd
  <2>2. \A w \in Volumes : begin_position[w] = Begin(w) /\ total_size[w] = SizeOf(w)
    <3>. SUFFICES ASSUME NEW w \in Volumes PROVE Known(w)
      BY DEF Known
    <3>1. CASE w = left
      BY <1>2, <3>1
    <3>2. CASE w # left
      <4>1. w \in 1 .. left - 1
        BY <1>2, <1>3, <1>5, <3>2 DEF Volumes
      <4>. QED  BY <1>2, <4>1
    <3>. QED  BY <3>1, <3>2
  <2>3. FromEnd \in Int
    BY <1>1, <1>3, <2>2 DEF FromEnd
  <2>4. OffsetSet(v) = FromEnd - Begin(v) + (IF FromEnd < 0 THEN SizeOf(v) ELSE 0)
    BY <1>5, <2>1, <2>2 DEF OffsetSet
  <2>5. Begin(v) \in Nat /\ SizeOf(v) \in Nat /\ v \in Nat
    BY <1>3, <2>1 DEF Volumes
  <2>6. OffsetSet(v) \in Int
    BY <2>3, <2>4, <2>5
  <2>7. ASSUME v # Len(ends)
        PROVE  OffsetSet(v) <= SizeOf(v)
    <3>1. v + 1 \in Volumes /\ v + 1 \in v + 1 .. Len(ends)
      BY <1>3, <2>1, <2>7 DEF Volumes
    <3>2. Begin(v + 1) = Begin(v) + SizeOf(v) /\ (v = 1 => Begin(v) = 0)
      BY <2>1, <3>1, VolumesFollow DEF Shape, TypeOK, StreamType
    <3>3. ~(Begin(v + 1) <= FromEnd)
      BY <2>1, <2>2, <3>1
    <3>4. v = 1 \/ Begin(v) <= FromEnd
      BY <2>1, <2>2
    <3>. QED  BY <2>3, <2>4, <2>5, <3>2, <3>3, <3>4
  <2>. QED  BY <2>1, <2>2, <2>6, <2>7
<1>. QED  BY <1>4, <1>5

LEMMA ArriveFailsShape ==
    ASSUME Shape, UNCHANGED <<ends, disk_like>>, lost' \in BOOLEAN, ArriveFails
    PROVE  Shape'
<1>1. PICK v \in VolumeSet : SeekFails(v, OffsetSet(v))
  BY DEF ArriveFails
<1>2. pc = "set" /\ pc \in Seeks
  BY DEF ArriveFails, Seeks
<1>3. v \in Volumes /\ OffsetSet(v) \in Int
  BY <1>2, Arrivals
<1>4. FileType'
  BY <1>1, <1>3, FileKeepsType DEF Shape, SeekFails
<1>. QED  BY <1>1, <1>2, <1>4, SeekEnds DEF SeekFails

LEMMA OutOfRangeShape ==
    ASSUME Shape, UNCHANGED <<ends, disk_like>>, lost' \in BOOLEAN, OutOfRange
    PROVE  Shape'
<1>1. pc \in Seeks /\ left' = 0 /\ Returns(FATAL, <<>>)
      /\ UNCHANGED <<file, faults, client, buffer, dataset, position, end_of_file, fatal, skipped>>
  BY DEF OutOfRange, Seeks
<1>2. FileType'
  BY <1>1, Frame
<1>. QED  BY <1>1, <1>2, SeekEnds

\* What a seek that arrives does.
LEMMA ArriveShape ==
    ASSUME Shape, UNCHANGED <<ends, disk_like>>, lost' \in BOOLEAN, Arrive
    PROVE  Shape'
<1>1. PICK v \in VolumeSet : ArriveAt(v)
  BY DEF Arrive
<1>2. pc = "set" /\ pc \in Seeks
  BY DEF Arrive, Seeks
<1>3. v \in Volumes /\ begin_position[v] = Begin(v) /\ OffsetSet(v) \in Int
  BY <1>2, Arrivals
<1>4. /\ MovesTo(v, OffsetSet(v)) /\ Cleared /\ position' = begin_position[v] + OffsetSet(v)
      /\ end_of_file' = FALSE /\ left' = 0 /\ Returns(position', <<>>)
      /\ UNCHANGED <<client_buff, client_total, client_next, buffer_size, dataset, fatal, skipped>>
  BY <1>1 DEF ArriveAt
<1>5. FileType'
  BY <1>3, <1>4, FileKeepsType DEF Shape
<1>6. position' \in Nat
  <2>1. OffsetSet(v) \in Nat
    BY <1>3, <1>4 DEF MovesTo
  <2>2. Begin(v) \in Nat
    BY <1>3, VolumesFollow DEF Shape, TypeOK, StreamType
  <2>. QED  BY <1>3, <1>4, <2>1, <2>2
<1>7. client_avail' = 0 /\ copy' = <<>> /\ next' = 0 /\ avail' = 0
  BY <1>4 DEF Cleared, avail
<1>8. WindowsType'
  <2>1. WindowsType
    BY DEF Shape, TypeOK
  <2>2. /\ client_avail' = 0 /\ copy' = <<>> /\ next' = 0 /\ end_of_file' = FALSE
        /\ UNCHANGED <<client_buff, client_total, client_next, buffer_size, fatal>>
    BY <1>4, <1>7
  <2>. QED  BY <1>6, <2>1, <2>2, Zenon, EmptySeq DEF WindowsType
<1>9. Counters'
  BY <1>4, <1>7 DEF Shape, TypeOK, WindowsType, Counters
<1>10. pc' = "idle" /\ Arguments'
  BY <1>4, ReturnsArguments
<1>11. CallType' /\ skipped' = 0 /\ pc' \in Idle /\ pc' \notin Seeks
  BY <1>2, <1>4, <1>10 DEF Shape, TypeOK, CallType, Consuming, Idle, Seeks
<1>. QED  BY <1>4, <1>5, <1>8, <1>9, <1>10, <1>11, Frame DEF Shape, TypeOK
-----------------------------------------------------------------------------
(* The whole specification. *)

LEMMA InitShape == Init => Shape
<1>. SUFFICES ASSUME Init PROVE Shape
  OBVIOUS
<1>1. ends \in Layouts /\ Len(ends) \in Nat /\ Len(ends) > 0
  BY VolumesFollow DEF Init
<1>2. 1 \in Volumes /\ Begin(1) = 0 /\ avail = 0
  BY <1>1 DEF Volumes, Begin, avail, Init
<1>3. StreamType /\ FileType
  <2>1. disk_like \in BOOLEAN /\ lost = FALSE /\ use_lseek = [v \in Volumes |-> v = 1 /\ disk_like]
    BY DEF Init
  <2>2. \A v \in Volumes : (v = 1 /\ disk_like) \in BOOLEAN
    OBVIOUS
  <2>3. use_lseek \in [Volumes -> BOOLEAN]
    BY <2>1, <2>2, Zenon
  <2>4. cursor \in Volumes /\ fd \in BOOLEAN /\ offset \in Nat /\ faults \in 0 .. MaxFaults
    BY <1>2, SizesAssumption DEF Init
  <2>. QED  BY <1>1, <2>1, <2>3, <2>4 DEF StreamType, FileType
<1>4. WindowsType /\ DatasetType /\ CallType
  <2>1. WindowsType
    BY EmptySeq DEF Init, WindowsType
  <2>2. DatasetType
    BY <1>1 DEF Init, DatasetType
  <2>3. CallType
    BY DEF Init, CallType
  <2>. QED  BY <2>1, <2>2, <2>3
<1>5. Arguments
  BY DEF Init, Arguments, AtStart
<1>6. Counters
  BY <1>2 DEF Init, Counters
<1>7. Consuming
  BY DEF Init, Consuming
<1>8. Seeking
  BY <1>2 DEF Init, Seeking
<1>. QED  BY <1>3, <1>4, <1>5, <1>6, <1>7, <1>8 DEF Shape, TypeOK

LEMMA StutterShape == Shape /\ UNCHANGED vars => Shape'
<1>. SUFFICES ASSUME Shape, UNCHANGED vars PROVE Shape'
  OBVIOUS
<1>1. UNCHANGED <<ends, disk_like, lost, file, faults, client, buffer, dataset, position, end_of_file, fatal, pc,
                  args, left, skipped>>
  BY DEF vars
<1>2. StreamType' /\ FileType' /\ WindowsType' /\ Counters' /\ DatasetType'
  BY <1>1, Frame DEF Shape, TypeOK, StreamType, WindowsType
<1>3. CallType' /\ Arguments'
  <2>1. CallType' = CallType /\ Arguments' = Arguments
    BY <1>1 DEF CallType, Arguments, args
  <2>. QED  BY <2>1 DEF Shape, TypeOK
<1>4. Consuming'
  BY <1>1 DEF Shape, Consuming, file, client, buffer
<1>5. Seeking'
  <2>1. Volumes' = Volumes /\ (\A v : Begin(v)' = Begin(v) /\ SizeOf(v)' = SizeOf(v) /\ Known(v)' = Known(v))
        /\ Goal' = Goal /\ Begin(left)' = Begin(left) /\ Known(left)' = Known(left)
    BY <1>1 DEF Volumes, Begin, SizeOf, Known, dataset, Goal, args
  <2>. QED  BY <1>1, <2>1 DEF Shape, Seeking, dataset, args
<1>. QED  BY <1>2, <1>3, <1>4, <1>5 DEF Shape, TypeOK

LEMMA NextKeepsShape == Shape /\ [Next]_vars => Shape'
<1>. SUFFICES ASSUME Shape, Next PROVE Shape'
  BY StutterShape
<1>1. UNCHANGED <<ends, disk_like>> /\ lost' \in BOOLEAN
  BY DEF Next, Shape, TypeOK, StreamType
<1>2. CASE Calls
  BY <1>1, <1>2, AheadShape, ConsumeShape, SeekCallShape DEF Calls
<1>3. CASE Step
  <2>1. CASE AheadFromCopy \/ RollBack \/ AheadAfterEnd \/ ReadBlock \/ ReadBlockFails \/ NextVolume
             \/ AheadMeetsEnd \/ CopyMore \/ NoMemory
    BY <1>1, <2>1, AheadFromCopyShape, RollBackShape, AheadAfterEndShape, ReadBlockShape, ReadBlockFailsShape,
       NextVolumeShape, AheadMeetsEndShape, CopyMoreShape, NoMemoryShape
  <2>2. CASE SkipChunk \/ SkipFails \/ CannotSkip \/ Discard \/ DiscardFails \/ DiscardNextVolume \/ DiscardMeetsEnd
    BY <1>1, <2>2, SkipChunkShape, SkipFailsShape, CannotSkipShape, DiscardShape, DiscardFailsShape,
       DiscardNextVolumeShape, DiscardMeetsEndShape
  <2>3. CASE PassKnown \/ SizeVolume \/ SizeFails \/ ArriveFails \/ OutOfRange
    BY <1>1, <2>3, PassKnownShape, SizeVolumeShape, SizeFailsShape, ArriveFailsShape, OutOfRangeShape
  <2>. QED  BY <1>3, <2>1, <2>2, <2>3 DEF Step
<1>4. CASE Arrive
  BY <1>1, <1>4, ArriveShape
<1>. QED  BY <1>2, <1>3, <1>4 DEF Next

\* The counters, the arguments of the call in progress and what a seek knows of the volumes
\* are within their limits in every state: the part of the invariant that does not depend
\* on the place being right, and so holds after any failure.
THEOREM ShapeIsKept == Spec => []Shape
<1>. QED  BY InitShape, NextKeepsShape, PTL DEF Spec

LEMMA ShapeFits == Shape => WindowsStayInTheirBuffers
<1>. SUFFICES ASSUME Shape PROVE WindowsStayInTheirBuffers
  OBVIOUS
<1>1. /\ client_avail \in Nat /\ client_next \in Nat /\ client_total \in Nat /\ avail \in Nat
  BY DEF Shape, TypeOK, WindowsType, avail
<1>2. client_avail > 0 => client_next + client_avail <= client_total
  BY <1>1 DEF Shape, Counters
<1>3. ASSUME pc = "ahead", ~HasCopy, CanRollBack
      PROVE  avail <= client_next
  <2>1. call.ask \in Nat \ {0}
    BY <1>3, AskIsPositive DEF Shape
  <2>. QED  BY <1>1, <1>3, <2>1 DEF CanRollBack, Shape, Counters
<1>. QED  BY <1>2, <1>3 DEF WindowsStayInTheirBuffers, Shape, Counters

\* Neither window leaves its buffer, whatever the blocks, the requests and the failures:
\* the counters of __archive_read_filter_ahead are kept within each other by every path
\* through it, and by __archive_read_filter_consume and __archive_read_filter_seek.
THEOREM WindowsStay == Spec => []WindowsStayInTheirBuffers
BY ShapeIsKept, ShapeFits, PTL
-----------------------------------------------------------------------------
(* The windows and the stream. *)

\* The two windows are one piece of the stream that begins at position.  A window that
\* could be rolled back has not met the end.
Pieces ==
    /\ copy = Bytes(position, avail)
    /\ client_avail + avail > 0 => position + avail + client_avail <= Total
    /\ client_avail + avail > 0 /\ client_total > 0 => client_buff + client_next = position + avail
    /\ end_of_file =>
        /\ client_avail = 0 /\ position + avail >= Total
        /\ avail > 0 => client_total = 0

Windows == ~lost => InPlace /\ Pieces

LEMMA SamePieces ==
    ASSUME Pieces, UNCHANGED <<ends, client, copy, position, end_of_file>>
    PROVE  Pieces'
BY DEF Pieces, client, avail, Total, Bytes

\* Where the file pointer is, and what that says of the next block.
LEMMA PointerInPlace ==
    ASSUME Shape, InPlace
    PROVE  /\ Begin(cursor) \in Nat /\ SizeOf(cursor) \in Nat /\ Begin(cursor) + SizeOf(cursor) = ends[cursor]
           /\ ends[cursor] <= Total /\ ends[cursor] \in Nat /\ Total \in Nat
           /\ offset \in Nat /\ position \in Nat /\ avail \in Nat /\ client_avail \in Nat
           /\ client_next \in Nat /\ client_total \in Nat
           /\ pc # "skip" => Begin(cursor) + offset = position + avail + client_avail
           /\ \A n : n \in 1 .. Least(BlockSize, Rest) => Begin(cursor) + offset + n <= Total /\ n \in Nat \ {0}
           /\ Rest = 0 /\ cursor = Len(ends) => Begin(cursor) + offset >= Total
<1>1. cursor \in Volumes /\ offset \in Nat /\ position \in Nat /\ client_avail \in Nat /\ avail \in Nat
      /\ client_next \in Nat /\ client_total \in Nat
  BY DEF Shape, TypeOK, FileType, WindowsType, avail
<1>2. /\ Begin(cursor) \in Nat /\ SizeOf(cursor) \in Nat /\ Begin(cursor) + SizeOf(cursor) = ends[cursor]
      /\ ends[cursor] <= Total /\ ends[cursor] \in Nat /\ Total \in Nat
      /\ cursor = Len(ends) => ends[cursor] = Total
  BY <1>1, VolumesFollow DEF Shape, TypeOK, StreamType
<1>3. pc # "skip" => Begin(cursor) + offset = position + avail + client_avail
  BY <1>1, <1>2 DEF InPlace
<1>4. ASSUME NEW n \in 1 .. Least(BlockSize, Rest)
      PROVE  Begin(cursor) + offset + n <= Total /\ n \in Nat \ {0}
  <2>1. Rest \in Nat /\ (Rest > 0 => offset + Rest = SizeOf(cursor))
    BY <1>1, <1>2 DEF Rest
  <2>2. n \in Nat \ {0} /\ n <= Rest
    BY <2>1, SizesAssumption DEF Least
  <2>3. offset + n <= SizeOf(cursor)
    BY <1>1, <1>2, <2>1, <2>2
  <2>4. \A b, o, k, z, e, t \in Nat : o + k <= z /\ b + z = e /\ e <= t => b + o + k <= t
    OBVIOUS
  <2>. QED  BY <1>1, <1>2, <2>2, <2>3, <2>4
<1>5. ASSUME Rest = 0, cursor = Len(ends)
      PROVE  Begin(cursor) + offset >= Total
  BY <1>1, <1>2, <1>5 DEF Rest
<1>. QED  BY <1>1, <1>2, <1>3, <1>4, <1>5

LEMMA RollBackPieces ==
    ASSUME Shape, InPlace, Pieces, UNCHANGED ends, RollBack
    PROVE  Pieces'
<1>1. /\ pc = "ahead" /\ CanRollBack /\ client_avail' = client_avail + avail
      /\ client_next' = client_next - avail /\ copy' = <<>>
      /\ UNCHANGED <<client_buff, client_total, position, end_of_file>>
  BY DEF RollBack
<1>2. /\ client_avail \in Nat /\ client_next \in Nat /\ client_total \in Nat /\ client_buff \in Nat
      /\ avail \in Nat /\ position \in Nat /\ Total' = Total
  BY DEF Shape, TypeOK, WindowsType, avail, Total
<1>3. avail' = 0 /\ copy' = Bytes(position', 0)
  BY <1>1, <1>2, NoBytes DEF avail
<1>4. client_avail + avail > 0 /\ client_total > 0
  BY <1>1, <1>2, AskIsPositive DEF CanRollBack, Shape
<1>5. ~end_of_file
  BY <1>2, <1>4 DEF Pieces
<1>. QED  BY <1>1, <1>2, <1>3, <1>4, <1>5 DEF Pieces

LEMMA ReadBlockPieces ==
    ASSUME Shape, InPlace, Pieces, UNCHANGED ends, ReadBlock
    PROVE  Pieces'
<1>1. pc = "ahead" /\ client_avail = 0 /\ ~end_of_file /\ client_next' = 0 /\ UNCHANGED <<copy, position, end_of_file>>
  BY DEF ReadBlock, NeedsBlock, NeedsMore
<1>2. PICK n \in 1 .. BlockSize : FileRead(n) /\ client_total' = n /\ client_avail' = n
  BY DEF ReadBlock
<1>3. client_buff' = Begin(cursor) + offset /\ n \in 1 .. Least(BlockSize, Rest)
  BY <1>2 DEF FileRead
<1>4. avail' = avail /\ avail \in Nat /\ Total' = Total /\ Bytes(position, avail)' = Bytes(position, avail)
  BY <1>1 DEF Shape, TypeOK, WindowsType, avail, Total, Bytes
<1>5. Begin(cursor) + offset = position + avail /\ Begin(cursor) + offset + n <= Total /\ n \in Nat \ {0}
      /\ position \in Nat
  <2>1. Begin(cursor) + offset = position + avail + client_avail /\ position \in Nat
    BY <1>1, PointerInPlace
  <2>2. Begin(cursor) + offset + n <= Total /\ n \in Nat \ {0}
    BY <1>3, PointerInPlace, Zenon
  <2>. QED  BY <1>1, <1>4, <2>1, <2>2
<1>6. position' + avail' + client_avail' <= Total'
  BY <1>1, <1>2, <1>4, <1>5
<1>7. client_buff' + client_next' = position' + avail'
  BY <1>1, <1>3, <1>4, <1>5
<1>. QED  BY <1>1, <1>4, <1>6, <1>7 DEF Pieces

LEMMA ReadBlockFailsPieces ==
    ASSUME Shape, InPlace, Pieces, UNCHANGED ends, ReadBlockFails
    PROVE  Pieces'
<1>1. /\ client_avail = 0 /\ ~end_of_file /\ client_avail' = 0 /\ client_total' = 0
      /\ UNCHANGED <<copy, position, end_of_file>>
  BY DEF ReadBlockFails, NeedsBlock, NeedsMore, EmptyClient
<1>2. avail' = avail /\ avail \in Nat /\ Total' = Total /\ Bytes(position, avail)' = Bytes(position, avail)
  BY <1>1 DEF Shape, TypeOK, WindowsType, avail, Total, Bytes
<1>. QED  BY <1>1, <1>2 DEF Pieces

LEMMA AheadMeetsEndPieces ==
    ASSUME Shape, InPlace, Pieces, UNCHANGED ends, AheadMeetsEnd, InPlace'
    PROVE  Pieces'
<1>1. /\ pc = "ahead" /\ client_avail = 0 /\ client_avail' = 0 /\ client_total' = 0 /\ Rest = 0
      /\ UNCHANGED <<copy, position>>
  BY DEF AheadMeetsEnd, NeedsBlock, NeedsMore, EmptyClient, ReadsNothing
<1>2. avail' = avail /\ avail \in Nat /\ Total' = Total /\ Bytes(position, avail)' = Bytes(position, avail)
  BY <1>1 DEF Shape, TypeOK, WindowsType, avail, Total, Bytes
<1>3. cursor = Len(ends)
  <2>1. ~HasNextVolume
    BY DEF AheadMeetsEnd, SwitchFails, InPlace
  <2>. QED  BY <2>1, VolumesFollow DEF HasNextVolume, Shape, TypeOK, FileType, StreamType, Volumes
<1>4. position + avail >= Total
  <2>1. Begin(cursor) + offset >= Total
    BY <1>1, <1>3, PointerInPlace, Zenon
  <2>2. Begin(cursor) + offset = position + avail + client_avail /\ position \in Nat
    BY <1>1, PointerInPlace
  <2>. QED  BY <1>1, <1>2, <2>1, <2>2
<1>. QED  BY <1>1, <1>2, <1>4 DEF Pieces

LEMMA CopyMorePieces ==
    ASSUME Shape, InPlace, Pieces, UNCHANGED ends, CopyMore
    PROVE  Pieces'
<1>. DEFINE n == Room(buffer_size', next')
            b == Bytes(client_buff + client_next, n)
<1>1. /\ client_avail > 0 /\ copy' = copy \o b /\ client_next' = client_next + n
      /\ client_avail' = client_avail - n /\ UNCHANGED <<client_buff, client_total, position, end_of_file>>
  BY DEF CopyMore
<1>2. n \in 1 .. client_avail
  BY CopyFits
<1>. HIDE DEF n
<1>3. /\ client_avail \in Nat /\ client_next \in Nat /\ client_total \in Nat /\ client_buff \in Nat
      /\ avail \in Nat /\ position \in Nat /\ Total' = Total /\ n \in Nat /\ copy \in Seq(Nat)
  BY <1>2 DEF Shape, TypeOK, WindowsType, avail, Total
<1>4. client_total > 0 /\ client_avail + avail > 0
  BY <1>1, <1>3 DEF Shape, Counters
<1>5. client_buff + client_next = position + avail /\ ~end_of_file /\ position + avail + client_avail <= Total
  BY <1>1, <1>3, <1>4 DEF Pieces
<1>6. copy' = Bytes(position, avail + n)
  <2>1. copy = Bytes(position, avail) /\ b = Bytes(position + avail, n)
    BY <1>5 DEF Pieces
  <2>. HIDE DEF b
  <2>2. Bytes(position, avail) \o Bytes(position + avail, n) = Bytes(position, avail + n)
    BY <1>3, BytesJoin
  <2>. QED  BY <1>1, <2>1, <2>2
<1>7. avail' = avail + n
  <2>1. Len(Bytes(position, avail + n)) = avail + n
    BY <1>3, BytesType
  <2>. QED  BY <1>6, <2>1 DEF avail
<1>8. copy' = Bytes(position', avail')
  BY <1>1, <1>6, <1>7
<1>9. position' + avail' + client_avail' <= Total' /\ client_buff' + client_next' = position' + avail'
  BY <1>1, <1>2, <1>3, <1>5, <1>7
<1>. QED  BY <1>1, <1>5, <1>8, <1>9 DEF Pieces

LEMMA ConsumePieces ==
    ASSUME Shape, InPlace, Pieces, UNCHANGED ends, NEW k \in Asks, Consume(k)
    PROVE  Pieces'
<1>. DEFINE f == Least(k, avail)
            t == Taken(k)
<1>1. CASE fatal
  BY <1>1, SamePieces DEF Consume, buffer
<1>2. CASE ~fatal
  <2>1. /\ copy' = SubSeq(copy, f + 1, avail) /\ client_next' = client_next + t
        /\ client_avail' = client_avail - t /\ position' = position + f + t
        /\ UNCHANGED <<client_buff, client_total, end_of_file>>
    BY <1>2 DEF Consume
  <2>2. /\ client_avail \in Nat /\ client_next \in Nat /\ client_total \in Nat /\ client_buff \in Nat
        /\ avail \in Nat /\ position \in Nat /\ Total' = Total /\ Total \in Nat /\ k \in Nat /\ copy \in Seq(Nat)
    BY SizesAssumption, VolumesFollow DEF Shape, TypeOK, WindowsType, StreamType, avail, Total
  <2>3. f \in 0 .. avail /\ t \in 0 .. client_avail /\ (t = 0 \/ f = avail)
    BY <2>2 DEF Least, Taken
  <2>. HIDE DEF f, t
  <2>4. avail' = avail - f
    BY <2>1, <2>2, <2>3, RestType DEF avail
  <2>5. copy' = Bytes(position', avail')
    <3>1. copy' = Bytes(position + f, avail - f)
      <4>1. SubSeq(Bytes(position, avail), f + 1, avail) = Bytes(position + f, avail - f)
        BY <2>2, <2>3, BytesRest
      <4>. QED  BY <2>1, <4>1 DEF Pieces
    <3>2. CASE t = 0
      BY <2>1, <2>2, <2>3, <2>4, <3>1, <3>2
    <3>3. CASE f = avail
      <4>1. avail' = 0 /\ avail - f = 0 /\ position + f \in Nat /\ position' \in Nat
        BY <2>1, <2>2, <2>3, <2>4, <3>3
      <4>2. Bytes(position + f, 0) = <<>> /\ Bytes(position', 0) = <<>>
        BY <4>1, NoBytes
      <4>. QED  BY <3>1, <4>1, <4>2
    <3>. QED  BY <2>3, <3>2, <3>3
  <2>6. client_avail' + avail' > 0 => client_avail + avail > 0
    BY <2>1, <2>2, <2>3, <2>4
  <2>7. client_avail + avail > 0 => position' + avail' + client_avail' <= Total'
    BY <2>1, <2>2, <2>3, <2>4 DEF Pieces
  <2>8. client_avail + avail > 0 /\ client_total > 0 => client_buff' + client_next' = position' + avail'
    BY <2>1, <2>2, <2>3, <2>4 DEF Pieces
  <2>9. ASSUME end_of_file
        PROVE  /\ client_avail' = 0 /\ position' + avail' >= Total'
               /\ avail' > 0 => client_total' = 0
    BY <2>1, <2>2, <2>3, <2>4, <2>9 DEF Pieces
  <2>. QED  BY <2>1, <2>5, <2>6, <2>7, <2>8, <2>9 DEF Pieces
<1>. QED  BY <1>1, <1>2

\* Both windows stay empty while the place moves on.
LEMMA EmptyPieces ==
    ASSUME Shape, Pieces, UNCHANGED <<ends, copy, end_of_file>>, copy = <<>>, client_avail' = 0,
           position' \in Nat, position' >= position
    PROVE  Pieces'
<1>1. avail = 0 /\ avail' = 0 /\ Total' = Total /\ Total \in Nat /\ position \in Nat
  BY VolumesFollow DEF avail, Total, Shape, TypeOK, StreamType, WindowsType
<1>2. copy' = Bytes(position', avail')
  BY <1>1, NoBytes
<1>3. end_of_file => position' >= Total
  BY <1>1 DEF Pieces
<1>4. ~(client_avail' + avail' > 0) /\ (end_of_file' => position' + avail' >= Total')
  <2>1. \A a, b \in Nat : a = 0 /\ b = 0 => ~(a + b > 0)
    OBVIOUS
  <2>2. \A p, a, t \in Nat : a = 0 /\ p >= t => p + a >= t
    OBVIOUS
  <2>3. client_avail' \in Nat /\ avail' \in Nat /\ (end_of_file' = end_of_file)
    BY <1>1
  <2>4. ~(client_avail' + avail' > 0)
    BY <1>1, <2>1, <2>3, Zenon
  <2>5. end_of_file' => position' + avail' >= Total
    <3>1. end_of_file' => position' >= Total
      BY <1>3
    <3>2. position' \in Nat /\ avail' = 0 /\ Total \in Nat
      BY <1>1
    <3>3. position' >= Total => position' + avail' >= Total
      BY <2>2, <2>3, <3>2, Zenon
    <3>. QED  BY <3>1, <3>3, Zenon
  <2>. QED  BY <1>1, <2>4, <2>5, Zenon
<1>5. ~(avail' > 0)
  BY <1>1
<1>. QED  BY <1>2, <1>4, <1>5, Zenon DEF Pieces

LEMMA SkipReturnsPieces ==
    ASSUME Shape, Pieces, UNCHANGED <<ends, client, buffer, end_of_file>>, pc = "skip",
           NEW n \in Nat \cup {-1}, SkipReturns(n)
    PROVE  Pieces'
<1>1. copy = <<>> /\ client_avail = 0 /\ position \in Nat
  BY Empty DEF Shape, TypeOK, WindowsType
<1>2. position' \in Nat /\ position' >= position
  <2>1. position' = IF n < 0 THEN position ELSE position + n
    BY DEF SkipReturns
  <2>. QED  BY <1>1, <2>1
<1>. QED  BY <1>1, <1>2, EmptyPieces DEF client, buffer

LEMMA SkipPieces ==
    ASSUME Shape, Pieces, UNCHANGED ends, SkipChunk \/ SkipFails \/ CannotSkip
    PROVE  Pieces'
<1>1. left \in Nat /\ skipped \in Nat \cup {-1}
  BY DEF Shape, TypeOK, CallType
<1>2. CASE SkipChunk
  <2>1. CASE SkipReturns(left)
    BY <1>1, <1>2, <2>1, SkipReturnsPieces DEF SkipChunk
  <2>2. CASE ~SkipReturns(left)
    BY <1>2, <2>2, SamePieces DEF SkipChunk, buffer
  <2>. QED  BY <2>1, <2>2
<1>3. CASE SkipFails
  BY <1>3, SamePieces DEF SkipFails, buffer
<1>4. CASE CannotSkip
  BY <1>1, <1>4, SkipReturnsPieces DEF CannotSkip
<1>. QED  BY <1>2, <1>3, <1>4

LEMMA DiscardPieces ==
    ASSUME Shape, InPlace, Pieces, UNCHANGED ends, Discard
    PROVE  Pieces'
<1>1. pc = "discard" /\ UNCHANGED <<copy, end_of_file>>
  BY DEF Discard, buffer
<1>2. PICK n \in 1 .. BlockSize :
        /\ FileRead(n)
        /\ \/ /\ Suffices(n)
              /\ client_next' = left /\ client_avail' = n - left /\ client_total' = n
              /\ position' = position + left
           \/ /\ ~Suffices(n)
              /\ position' = position + n
              /\ client_avail' = client_avail
  BY DEF Discard
<1>3. copy = <<>> /\ avail = 0 /\ client_avail = 0 /\ left \in Nat \ {0}
  BY <1>1, Empty
<1>4. n \in 1 .. Least(BlockSize, Rest) /\ client_buff' = Begin(cursor) + offset
  BY <1>2 DEF FileRead
<1>5. Begin(cursor) + offset = position /\ Begin(cursor) + offset + n <= Total /\ n \in Nat \ {0}
      /\ position \in Nat /\ Total \in Nat
  <2>1. Begin(cursor) + offset = position + avail + client_avail /\ position \in Nat /\ Total \in Nat
    BY <1>1, PointerInPlace
  <2>2. Begin(cursor) + offset + n <= Total /\ n \in Nat \ {0}
    BY <1>4, PointerInPlace, Zenon
  <2>. QED  BY <1>3, <2>1, <2>2
<1>6. avail' = 0 /\ Total' = Total
  BY <1>1, <1>3 DEF avail, Total
<1>7. CASE Suffices(n)
  <2>1. client_next' = left /\ client_avail' = n - left /\ position' = position + left
    BY <1>2, <1>7
  <2>2. position' + avail' + client_avail' <= Total' /\ client_buff' + client_next' = position' + avail'
    BY <1>3, <1>4, <1>5, <1>6, <2>1
  <2>3. ~end_of_file
    BY <1>3, <1>5 DEF Pieces
  <2>4. copy' = Bytes(position', avail')
    BY <1>1, <1>3, <1>5, <1>6, <2>1, NoBytes
  <2>. QED  BY <1>1, <2>2, <2>3, <2>4 DEF Pieces
<1>8. CASE ~Suffices(n)
  BY <1>1, <1>2, <1>3, <1>5, <1>8, EmptyPieces
<1>. QED  BY <1>7, <1>8

LEMMA DiscardMeetsEndPieces ==
    ASSUME Shape, InPlace, Pieces, UNCHANGED ends, DiscardMeetsEnd, InPlace'
    PROVE  Pieces'
<1>1. pc = "discard" /\ Rest = 0 /\ UNCHANGED <<client_avail, copy, position>>
  BY DEF DiscardMeetsEnd, ReadsNothing, client, buffer
<1>2. copy = <<>> /\ avail = 0 /\ client_avail = 0
  BY <1>1, Empty
<1>3. avail' = 0 /\ Total' = Total /\ position \in Nat
  BY <1>1, <1>2 DEF avail, Total, Shape, TypeOK, WindowsType
<1>4. cursor = Len(ends)
  <2>1. ~HasNextVolume
    BY DEF DiscardMeetsEnd, SwitchFails, InPlace
  <2>. QED  BY <2>1, VolumesFollow DEF HasNextVolume, Shape, TypeOK, FileType, StreamType, Volumes
<1>5. position >= Total
  <2>1. Begin(cursor) + offset >= Total
    BY <1>1, <1>4, PointerInPlace, Zenon
  <2>2. Begin(cursor) + offset = position + avail + client_avail
    BY <1>1, PointerInPlace
  <2>. QED  BY <1>2, <1>3, <2>1, <2>2
<1>6. copy' = Bytes(position', avail')
  BY <1>1, <1>2, <1>3, NoBytes
<1>. QED  BY <1>1, <1>2, <1>3, <1>5, <1>6 DEF Pieces

\* A seek arrives in place, with no windows.
LEMMA ArrivePieces ==
    ASSUME Shape, UNCHANGED ends, Arrive
    PROVE  InPlace' /\ Pieces'
<1>1. PICK v \in VolumeSet : ArriveAt(v)
  BY DEF Arrive
<1>2. pc = "set"
  BY DEF Arrive
<1>3. /\ v \in Volumes /\ begin_position[v] = Begin(v) /\ OffsetSet(v) \in Int
      /\ OffsetSet(v) <= SizeOf(v) \/ v = Len(ends)
  BY <1>1, <1>2, Arrivals DEF ArriveAt
<1>4. /\ MovesTo(v, OffsetSet(v)) /\ Cleared /\ position' = begin_position[v] + OffsetSet(v)
      /\ end_of_file' = FALSE /\ Returns(position', <<>>)
  BY <1>1 DEF ArriveAt
<1>5. cursor' = v /\ fd' /\ offset' = OffsetSet(v) /\ offset' \in Nat
  <2>1. CASE cursor = v
    BY <1>3, <1>4, <2>1 DEF MovesTo
  <2>2. CASE cursor # v
    BY <1>3, <1>4, <2>2 DEF MovesTo, Switched
  <2>. QED  BY <2>1, <2>2
<1>6. avail' = 0 /\ client_avail' = 0 /\ copy' = <<>> /\ pc' = "idle"
  BY <1>4 DEF Cleared, avail, Returns
<1>7. Begin(cursor)' = Begin(v) /\ SizeOf(cursor)' = SizeOf(v) /\ Begin(v) \in Nat /\ Len(ends)' = Len(ends)
  <2>1. Begin(cursor)' = Begin(v) /\ SizeOf(cursor)' = SizeOf(v)
    BY <1>5 DEF Begin, SizeOf
  <2>. QED  BY <1>3, <2>1, VolumesFollow DEF Shape, TypeOK, StreamType
<1>8. InPlace'
  BY <1>3, <1>4, <1>5, <1>6, <1>7 DEF InPlace
<1>9. Pieces'
  <2>1. position' \in Nat
    BY <1>3, <1>4, <1>5, <1>7
  <2>2. copy' = Bytes(position', avail')
    BY <1>6, <2>1, NoBytes
  <2>. QED  BY <1>4, <1>6, <2>2 DEF Pieces
<1>. QED  BY <1>8, <1>9

LEMMA StepKeepsPieces ==
    ASSUME Shape, InPlace, Pieces, UNCHANGED ends, Calls \/ Step, InPlace'
    PROVE  Pieces'
<1>1. CASE Calls
  <2>1. ASSUME NEW k \in Asks, Ahead(k)
        PROVE  Pieces'
    BY <2>1, SamePieces DEF Ahead, buffer
  <2>2. ASSUME NEW w \in {"set", "cur", "end"}, NEW o \in Offsets, SeekCall(w, o)
        PROVE  Pieces'
    BY <2>2, SamePieces DEF SeekCall, buffer
  <2>. QED  BY <1>1, <2>1, <2>2, ConsumePieces DEF Calls
<1>2. CASE AheadFromCopy
  BY <1>2, SamePieces DEF AheadFromCopy, buffer
<1>3. CASE AheadAfterEnd
  BY <1>3, SamePieces DEF AheadAfterEnd
<1>4. CASE NextVolume
  BY <1>4, SamePieces DEF NextVolume
<1>5. CASE NoMemory
  BY <1>5, SamePieces DEF NoMemory
<1>6. CASE DiscardFails
  BY <1>6, SamePieces DEF DiscardFails, buffer
<1>7. CASE DiscardNextVolume
  BY <1>7, SamePieces DEF DiscardNextVolume, buffer
<1>8. CASE PassKnown
  BY <1>8, SamePieces DEF PassKnown, buffer
<1>9. CASE SizeVolume
  BY <1>9, SamePieces DEF SizeVolume, buffer
<1>10. CASE SizeFails \/ ArriveFails
  BY <1>10, SamePieces DEF SizeFails, ArriveFails, SeekFails, buffer
<1>11. CASE OutOfRange
  BY <1>11, SamePieces DEF OutOfRange, buffer
<1>. QED
  BY <1>1, <1>2, <1>3, <1>4, <1>5, <1>6, <1>7, <1>8, <1>9, <1>10, <1>11, RollBackPieces, ReadBlockPieces,
     ReadBlockFailsPieces, AheadMeetsEndPieces, CopyMorePieces, SkipPieces, DiscardPieces, DiscardMeetsEndPieces
  DEF Step

LEMMA InitWindows == Init => Windows
<1>. SUFFICES ASSUME Init PROVE InPlace /\ Pieces
  BY DEF Windows
<1>1. Begin(1) = 0 /\ SizeOf(1) \in Nat /\ avail = 0
  <2>1. 1 \in Volumes
    BY VolumesFollow DEF Init, Volumes
  <2>. QED  BY <2>1, VolumesFollow DEF Init, avail
<1>2. copy = Bytes(position, avail)
  BY <1>1, NoBytes DEF Init
<1>. QED  BY <1>1, <1>2 DEF Init, InPlace, Pieces

LEMMA NextKeepsWindows == Shape /\ Windows /\ [Next]_vars => Windows'
<1>. SUFFICES ASSUME Shape, Windows, [Next]_vars, ~lost' PROVE InPlace' /\ Pieces'
  BY DEF Windows
<1>1. CASE UNCHANGED vars
  <2>1. InPlace /\ Pieces
    BY <1>1 DEF Windows, vars
  <2>2. Pieces'
    BY <1>1, <2>1, SamePieces DEF vars, client, buffer
  <2>3. InPlace' = InPlace
    BY <1>1 DEF InPlace, vars, file, client, buffer, avail, Begin, SizeOf
  <2>. QED  BY <2>1, <2>2, <2>3
<1>2. CASE Next
  <2>1. CASE Calls \/ Step
    <3>1. CASE lost' = (lost \/ ~InPlace')
      <4>1. ~lost /\ InPlace'
        BY <3>1, Zenon
      <4>2. InPlace /\ Pieces
        BY <4>1 DEF Windows
      <4>3. UNCHANGED ends
        BY <1>2 DEF Next
      <4>. QED  BY <2>1, <4>1, <4>2, <4>3, StepKeepsPieces, Zenon
    <3>2. CASE Arrive
      BY <1>2, <3>2, ArrivePieces DEF Next
    <3>. QED  BY <1>2, <3>1, <3>2 DEF Next
  <2>2. CASE Arrive
    BY <1>2, <2>2, ArrivePieces DEF Next
  <2>. QED  BY <1>2, <2>1, <2>2 DEF Next
<1>. QED  BY <1>1, <1>2

LEMMA WindowsFit == Shape /\ Windows => WindowsAreTheStream
<1>. SUFFICES ASSUME Shape, Windows PROVE WindowsAreTheStream
  OBVIOUS
<1>1. \A v \in Volumes : begin_position[v] \in {-1, Begin(v)} /\ total_size[v] \in {-1, SizeOf(v)}
  BY DEF Shape, Seeking
<1>2. client_avail \in Nat /\ client_next \in Nat /\ client_total \in Nat /\ avail \in Nat
  BY DEF Shape, TypeOK, WindowsType, avail
<1>3. client_avail > 0 => client_total > 0 /\ client_avail + avail > 0
  BY <1>2 DEF Shape, Counters
<1>. QED  BY <1>1, <1>3 DEF Windows, Pieces, WindowsAreTheStream

\* As long as the place is known, the copy and the rest of the block are the bytes that
\* follow it, whichever way the calls before have filled, emptied and moved them, and in
\* whichever volume the file pointer is; end_of_file is set at the end and nowhere else.
THEOREM WindowsAreRight == Spec => []WindowsAreTheStream
<1>1. Init => Shape /\ Windows
  BY InitShape, InitWindows
<1>2. Shape /\ Windows /\ [Next]_vars => Shape' /\ Windows'
  BY NextKeepsShape, NextKeepsWindows
<1>3. Shape /\ Windows => WindowsAreTheStream
  BY WindowsFit
<1>. QED  BY <1>1, <1>2, <1>3, PTL DEF Spec
-----------------------------------------------------------------------------
(* What a call has done so far. *)

\* The consume in progress leads over the end of a volume that is not the last one.
Crossed == \E v \in 1 .. Len(ends) - 1 : before.position <= ends[v] /\ ends[v] < before.position + call.ask

\* A call of the system has failed where that is needed as a reason.
FaultHistory == ~fd \/ skipped = -1 => faults > 0

CallHistory == pc # "idle" => ~fatal /\ (before.lost => lost)

AheadHistory == pc = "ahead" => position = before.position /\ (lost => before.lost \/ faults > 0)

SeekHistory == pc \in Seeks => position = before.position

\* What has been consumed and what is left make up what was asked for.  Beyond the end a
\* consume does not move the place itself.
ConsumeHistory ==
    pc \in {"skip", "discard"} =>
        /\ position + left = before.position + call.ask /\ left <= call.ask
        /\ lost => before.lost \/ faults > 0 \/ Crossed
        /\ ~lost => position = before.position \/ position <= Total
        /\ pc = "skip" /\ ~lost /\ skipped # 0 => use_lseek[cursor]

History == FaultHistory /\ CallHistory /\ AheadHistory /\ SeekHistory /\ ConsumeHistory

\* What is known of a step, besides which one it is.
Moves ==
    /\ Shape /\ Windows /\ History
    /\ Shape' /\ Windows'
    /\ UNCHANGED <<ends, disk_like>>

\* A step after which the place is lost if it was, or if the file pointer is elsewhere.
Tracks ==
    /\ lost => lost'
    /\ lost' => lost \/ ~InPlace'

StreamStep == [Stream!Next]_(Stream!vars)

\* What a call is about.
LEMMA RecordsKeep ==
    ASSUME NEW C, NEW W, NEW A, NEW R, NEW D, NEW c \in [call : C, whence : W, ask : A, ret : R, data : D],
           NEW r, NEW d
    PROVE  /\ c.call \in C /\ c.whence \in W /\ c.ask \in A
           /\ [c EXCEPT !.ret = r, !.data = d].call = c.call
           /\ [c EXCEPT !.ret = r, !.data = d].whence = c.whence
           /\ [c EXCEPT !.ret = r, !.data = d].ask = c.ask
           /\ [c EXCEPT !.ret = r, !.data = d].ret = r
           /\ [c EXCEPT !.ret = r, !.data = d].data = d
OBVIOUS

LEMMA CallsKeep ==
    ASSUME Arguments, NEW r, NEW d,
           pc \in {"ahead", "skip", "discard"} \cup Seeks
    PROVE  /\ pc = "ahead" => call.call = "ahead" /\ call.ask \in Asks
           /\ pc \in {"skip", "discard"} => call.call = "consume" /\ call.ask \in Asks
           /\ pc \in Seeks => /\ call.call = "seek" /\ call.whence \in {"set", "cur", "end"}
                             /\ call.ask \in Offsets
           /\ [call EXCEPT !.ret = r, !.data = d].call = call.call
           /\ [call EXCEPT !.ret = r, !.data = d].whence = call.whence
           /\ [call EXCEPT !.ret = r, !.data = d].ask = call.ask
           /\ [call EXCEPT !.ret = r, !.data = d].ret = r
           /\ [call EXCEPT !.ret = r, !.data = d].data = d
<1>1. CASE pc = "ahead"
  <2>1. call \in [call : {"ahead"}, whence : {""}, ask : Asks, ret : {0}, data : {<<>>}]
    BY <1>1, Zenon DEF Arguments
  <2>2. call.call \in {"ahead"} /\ call.ask \in Asks
    BY <2>1, RecordsKeep, Zenon
  <2>. QED  BY <1>1, <2>1, <2>2, RecordsKeep, Zenon DEF Seeks
<1>2. CASE pc \in {"skip", "discard"}
  <2>1. call \in [call : {"consume"}, whence : {""}, ask : Asks, ret : {0}, data : {<<>>}]
    BY <1>2, Zenon DEF Arguments
  <2>2. call.call \in {"consume"} /\ call.ask \in Asks
    BY <2>1, RecordsKeep, Zenon
  <2>. QED  BY <1>2, <2>1, <2>2, RecordsKeep, Zenon DEF Seeks
<1>3. CASE pc \in Seeks
  <2>1. call \in [call : {"seek"}, whence : {"set", "cur", "end"}, ask : Offsets, ret : {0}, data : {<<>>}]
    BY <1>3, Zenon DEF Arguments, Seeks
  <2>2. call.call \in {"seek"} /\ call.whence \in {"set", "cur", "end"} /\ call.ask \in Offsets
    BY <2>1, RecordsKeep, Zenon
  <2>. QED  BY <1>3, <2>1, <2>2, RecordsKeep, Zenon DEF Seeks
<1>. QED  BY <1>1, <1>2, <1>3

LEMMA Numbers ==
    ASSUME Shape
    PROVE  /\ position \in Nat /\ avail \in Nat /\ client_avail \in Nat /\ client_next \in Nat
           /\ client_total \in Nat /\ client_buff \in Nat /\ offset \in Nat /\ faults \in Nat
           /\ left \in Nat /\ skipped \in Nat \cup {-1} /\ skipped \in Int /\ Total \in Nat
           /\ Begin(cursor) \in Nat /\ SizeOf(cursor) \in Nat /\ Begin(cursor) + SizeOf(cursor) = ends[cursor]
           /\ ends[cursor] \in Nat /\ cursor \in Volumes /\ copy \in Seq(Nat)
           /\ lost \in BOOLEAN /\ fatal \in BOOLEAN /\ fd \in BOOLEAN
           /\ before.position \in Nat /\ before.lost \in BOOLEAN
<1>1. /\ position \in Nat /\ avail \in Nat /\ client_avail \in Nat /\ client_next \in Nat
      /\ client_total \in Nat /\ client_buff \in Nat /\ copy \in Seq(Nat) /\ fatal \in BOOLEAN
  BY DEF Shape, TypeOK, WindowsType, avail
<1>2. offset \in Nat /\ faults \in Nat /\ cursor \in Volumes /\ fd \in BOOLEAN /\ lost \in BOOLEAN
  BY SizesAssumption DEF Shape, TypeOK, FileType, StreamType
<1>3. left \in Nat /\ skipped \in Nat \cup {-1} /\ skipped \in Int
  BY DEF Shape, TypeOK, CallType
<1>4. /\ Begin(cursor) \in Nat /\ SizeOf(cursor) \in Nat /\ Begin(cursor) + SizeOf(cursor) = ends[cursor]
      /\ ends[cursor] \in Nat /\ Total \in Nat
  BY <1>2, VolumesFollow DEF Shape, TypeOK, StreamType
<1>5. before.position \in Nat /\ before.lost \in BOOLEAN
  <2>1. before \in [position : Nat, lost : BOOLEAN]
    BY Zenon DEF Shape, Arguments
  <2>. QED  BY <2>1
<1>. QED  BY <1>1, <1>2, <1>3, <1>4, <1>5

\* Faults are never taken back.
LEMMA FaultsAdd ==
    ASSUME Shape, Fault \/ NoFault
    PROVE  faults' \in Nat /\ faults' >= faults /\ (Fault => faults' > 0) /\ (faults > 0 => faults' > 0)
<1>1. faults \in Nat
  BY Numbers
<1>. QED  BY <1>1 DEF Fault, NoFault

\* A call that returns leaves no history but that of the failures.
LEMMA HistoryIsOver ==
    ASSUME Moves, pc' = "idle", ~fd' => faults' > 0
    PROVE  History'
<1>1. skipped' = 0
  BY DEF Moves, Shape, Consuming
<1>2. FaultHistory'
  BY <1>1 DEF FaultHistory
<1>. QED  BY <1>2 DEF History, CallHistory, AheadHistory, SeekHistory, ConsumeHistory, Seeks
-----------------------------------------------------------------------------
(* How steps look as steps of the stream. *)

\* Nothing is seen of a step within a call, but a failure.
LEMMA WithinCall ==
    ASSUME Shape, UNCHANGED <<ends, disk_like, fatal>>, pc # "idle", pc' # "idle", GoesOn, Fault \/ NoFault
    PROVE  StreamStep
<1>1. before' = before /\ reply' = reply
  BY DEF GoesOn, args
<1>2. CASE NoFault
  <2>1. faults' = faults
    BY <1>2 DEF NoFault
  <2>. QED  BY <1>1, <2>1 DEF StreamStep, Stream!vars
<1>3. CASE Fault
  <2>1. faults' > 0
    BY <1>3, FaultsAdd
  <2>2. Stream!IoFails
    BY <1>1, <2>1 DEF Stream!IoFails
  <2>. QED  BY <2>2 DEF StreamStep, Stream!Next
<1>. QED  BY <1>2, <1>3

LEMMA CallBegins ==
    ASSUME Shape, UNCHANGED <<ends, disk_like, fatal, faults>>, NEW c, NEW step, step # "idle", Begins(c, step)
    PROVE  StreamStep
<1>1. pc = "idle" /\ pc' # "idle" /\ before' = [position |-> position, lost |-> lost] /\ reply' = Nothing
  BY DEF Begins
<1>2. before'.position = position /\ before'.lost = lost
  BY <1>1
<1>3. reply' = Stream!Nothing
  <2>1. Nothing = Stream!Nothing
    BY DEF Nothing, Stream!Nothing
  <2>. QED  BY <1>1, <2>1, Zenon
<1>4. Stream!Asked
  BY <1>1, <1>2, <1>3 DEF Stream!Asked
<1>. QED  BY <1>4 DEF StreamStep, Stream!Next

LEMMA Asking ==
    ASSUME NEW k \in Asks
    PROVE  /\ [Nothing EXCEPT !.call = "ahead", !.ask = k] \in
                [call : {"ahead"}, whence : {""}, ask : Asks, ret : {0}, data : {<<>>}]
           /\ [Nothing EXCEPT !.call = "consume", !.ask = k] \in
                [call : {"consume"}, whence : {""}, ask : Asks, ret : {0}, data : {<<>>}]
<1>1. [Nothing EXCEPT !.call = "ahead", !.ask = k] \in
          [call : {"ahead"}, whence : {""}, ask : Asks, ret : {0}, data : {<<>>}]
  BY Zenon DEF Nothing
<1>2. [Nothing EXCEPT !.call = "consume", !.ask = k] \in
          [call : {"consume"}, whence : {""}, ask : Asks, ret : {0}, data : {<<>>}]
  BY Zenon DEF Nothing
<1>. QED  BY <1>1, <1>2, Zenon

LEMMA AskingToSeek ==
    ASSUME NEW w \in {"set", "cur", "end"}, NEW k \in Offsets
    PROVE  [Nothing EXCEPT !.call = "seek", !.whence = w, !.ask = k] \in
               [call : {"seek"}, whence : {"set", "cur", "end"}, ask : Offsets, ret : {0}, data : {<<>>}]
BY Zenon DEF Nothing

\* After a call has failed for good nothing happens any more.
LEMMA CallIsRefused ==
    ASSUME Moves, Tracks, NEW C, NEW W, NEW A, NEW c \in [call : C, whence : W, ask : A, ret : {0}, data : {<<>>}],
           fatal, ReturnsAtOnce(c, FATAL, <<>>),
           UNCHANGED <<file, client, buffer, position, fatal, skipped, faults>>
    PROVE  StreamStep
<1>1. pc = "idle" /\ pc' = "idle" /\ reply' = [c EXCEPT !.ret = FATAL, !.data = <<>>]
  BY DEF ReturnsAtOnce
<1>2. reply'.ret = FATAL /\ reply'.data = <<>>
  BY <1>1, RecordsKeep, Zenon
<1>3. lost' = lost
  <2>1. ~lost => InPlace
    BY DEF Moves, Windows
  <2>2. InPlace => InPlace'
    BY <1>1 DEF InPlace, Moves, file, client, buffer, avail, Begin, SizeOf
  <2>3. lost \in BOOLEAN /\ lost' \in BOOLEAN
    BY DEF Moves, Shape, TypeOK, StreamType
  <2>4. lost' => lost
    BY <2>1, <2>2, Zenon DEF Tracks
  <2>. QED  BY <2>3, <2>4 DEF Tracks
<1>4. Stream!Call
  BY <1>1, <1>2, <1>3 DEF Stream!Call, Stream!FATAL, FATAL, Moves
<1>. QED  BY <1>4 DEF StreamStep, Stream!Next

\* The answer to a call that has been in progress.
LEMMA Answer ==
    ASSUME Moves, pc # "idle", NEW r, NEW d, Returns(r, d)
    PROVE  /\ pc' = "idle" /\ ~fatal
           /\ reply'.call = call.call /\ reply'.whence = call.whence /\ reply'.ask = call.ask
           /\ reply'.ret = r /\ reply'.data = d
<1>1. pc' = "idle" /\ reply' = [call EXCEPT !.ret = r, !.data = d]
  BY DEF Returns
<1>2. pc \in {"ahead", "skip", "discard"} \cup Seeks
  BY DEF Moves, Shape, TypeOK, CallType, Seeks
<1>3. Arguments
  BY DEF Moves, Shape
<1>5. /\ reply'.call = call.call /\ reply'.whence = call.whence /\ reply'.ask = call.ask
      /\ reply'.ret = r /\ reply'.data = d
  <2>1. /\ [call EXCEPT !.ret = r, !.data = d].call = call.call
        /\ [call EXCEPT !.ret = r, !.data = d].whence = call.whence
        /\ [call EXCEPT !.ret = r, !.data = d].ask = call.ask
        /\ [call EXCEPT !.ret = r, !.data = d].ret = r
        /\ [call EXCEPT !.ret = r, !.data = d].data = d
    BY <1>2, <1>3, CallsKeep
  <2>. QED  BY <1>1, <2>1, Zenon
<1>6. ~fatal
  BY DEF Moves, History, CallHistory
<1>. QED  BY <1>1, <1>5, <1>6, Zenon

LEMMA StaysLost ==
    ASSUME Moves, Tracks, pc # "idle", before.lost
    PROVE  lost'
BY DEF Moves, Tracks, History, CallHistory

LEMMA LooksAhead ==
    ASSUME Moves, Tracks, pc = "ahead", NEW r, NEW d, Returns(r, d), UNCHANGED <<fatal, position>>,
           Fault \/ NoFault, lost' => lost \/ faults' > 0,
           \/ lost'
           \/ d = <<>> /\ position + call.ask > Total /\ r \in {0, Stream!Beyond(position) - position}
           \/ d # <<>> /\ r >= call.ask /\ d = Bytes(position, r) /\ position + r <= Total
    PROVE  StreamStep
<1>1. /\ pc' = "idle" /\ ~fatal /\ reply'.ask = call.ask /\ reply'.ret = r /\ reply'.data = d
      /\ reply'.call = call.call
      /\ before.lost => lost'
  BY Answer, StaysLost
<1>2. call.call = "ahead"
  BY CallsKeep DEF Moves, Shape
<1>3. faults > 0 => faults' > 0
  BY FaultsAdd DEF Moves
<1>4. position = before.position /\ (lost' => before.lost \/ faults' > 0)
  BY <1>3 DEF Moves, History, AheadHistory
<1>5. Stream!Size = Total /\ \A from, n : Stream!Bytes(from, n) = Bytes(from, n)
  BY DEF Stream!Size, Total, Stream!Bytes, Bytes
<1>6. Stream!LookAhead
  <2>1. \/ lost'
        \/ IF reply'.data = <<>>
           THEN before.position + reply'.ask > Stream!Size
                /\ reply'.ret \in {0, Stream!Beyond(before.position) - before.position}
           ELSE /\ reply'.ret >= reply'.ask
                /\ reply'.data = Stream!Bytes(before.position, reply'.ret)
                /\ before.position + reply'.ret <= Stream!Size
    BY <1>1, <1>4, <1>5, Zenon
  <2>. DEFINE place == IF pc = "idle" THEN position ELSE before.position
              known == IF pc = "idle" THEN lost ELSE before.lost
  <2>2. place = before.position /\ place' = place /\ known = before.lost /\ known' = lost'
    BY <1>1, <1>4
  <2>3. UNCHANGED <<place, fatal>>
    BY <2>2
  <2>4. (known => known') /\ (known' => known \/ faults' > 0)
    BY <1>1, <1>4, <2>2
  <2>5. \/ known'
        \/ IF reply'.data = <<>>
           THEN place + reply'.ask > Stream!Size /\ reply'.ret \in {0, Stream!Beyond(place) - place}
           ELSE /\ reply'.ret >= reply'.ask
                /\ reply'.data = Stream!Bytes(place, reply'.ret)
                /\ place + reply'.ret <= Stream!Size
    <3>. HIDE DEF place, known
    <3>1. lost' => known'
      BY <2>2
    <3>. QED  BY <2>1, <2>2, <3>1, Zenon
  <2>6. reply'.call = "ahead"
    BY <1>1, <1>2
  <2>. QED  BY <2>3, <2>4, <2>5, <2>6 DEF Stream!LookAhead
<1>7. Stream!Call
  BY <1>1, <1>3, <1>6 DEF Stream!Call, Moves
<1>. QED  BY <1>7 DEF StreamStep, Stream!Next

LEMMA FailsForGood ==
    ASSUME Moves, pc \in {"ahead", "skip", "discard"}, Returns(FATAL, <<>>), fatal', faults' > 0,
           position' = position
    PROVE  StreamStep
<1>1. pc # "idle"
  OBVIOUS
<1>2. pc' = "idle" /\ ~fatal /\ reply'.ret = FATAL /\ reply'.data = <<>> /\ reply'.call = call.call
  BY <1>1, Answer
<1>3. call.call \in {"ahead", "consume"}
  BY CallsKeep DEF Moves, Shape
<1>4. position >= before.position
  <2>1. CASE pc = "ahead"
    <3>1. position = before.position
      BY <2>1 DEF Moves, History, AheadHistory
    <3>2. position \in Nat
      BY Numbers DEF Moves
    <3>. QED  BY <3>1, <3>2
  <2>2. CASE pc \in {"skip", "discard"}
    <3>1. position + left = before.position + call.ask /\ left <= call.ask /\ call.ask \in Nat
      BY <2>2, AskIsPositive DEF Moves, History, ConsumeHistory, Shape
    <3>2. position \in Nat /\ left \in Nat /\ before.position \in Nat
      BY Numbers DEF Moves
    <3>. QED  BY <3>1, <3>2
  <2>. QED  BY <2>1, <2>2
<1>5. Stream!Die
  BY <1>1, <1>2, <1>3, <1>4 DEF Stream!Die, Stream!FATAL, FATAL
<1>6. Stream!Call
  BY <1>2, <1>5 DEF Stream!Call, Moves
<1>. QED  BY <1>6 DEF StreamStep, Stream!Next

LEMMA ConsumesRest ==
    ASSUME Moves, Tracks, pc \in {"skip", "discard"}, NEW r, Returns(r, <<>>), UNCHANGED fatal, Fault \/ NoFault,
           lost' => lost \/ faults' > 0 \/ Crossed,
           \/ r = call.ask /\ position' = position + left
           \/ r = FATAL /\ position' = position /\ (lost' \/ position = Stream!Beyond(before.position))
    PROVE  StreamStep
<1>1. pc # "idle"
  OBVIOUS
<1>2. /\ pc' = "idle" /\ ~fatal /\ reply'.ask = call.ask /\ reply'.ret = r /\ reply'.call = call.call
      /\ before.lost => lost'
  BY <1>1, Answer, StaysLost
<1>3. call.call = "consume"
  BY CallsKeep DEF Moves, Shape
<1>4. faults > 0 => faults' > 0
  BY FaultsAdd DEF Moves
<1>5. /\ position + left = before.position + call.ask /\ left <= call.ask
      /\ lost => before.lost \/ faults > 0 \/ Crossed
  BY DEF Moves, History, ConsumeHistory
<1>6. lost' => before.lost \/ faults' > 0 \/ Crossed
  BY <1>4, <1>5
<1>7. position \in before.position .. before.position + call.ask - 1
  <2>1. left \in Nat \ {0} /\ call.ask \in Nat /\ position \in Nat /\ before.position \in Nat
    BY Empty, AskIsPositive, Numbers DEF Moves, Shape
  <2>. QED  BY <1>5, <2>1
<1>8. Stream!Consume
  <2>1. lost' => \/ before.lost \/ faults' > 0
                 \/ \E v \in 1 .. Len(ends) - 1 :
                        before.position <= ends[v] /\ ends[v] < before.position + reply'.ask
    BY <1>2, <1>6 DEF Crossed
  <2>2. \/ reply'.ret = reply'.ask /\ position' = before.position + reply'.ask
        \/ /\ reply'.ret = Stream!FATAL
           /\ position' \in before.position .. before.position + reply'.ask - 1
           /\ lost' \/ position' = Stream!Beyond(before.position)
    BY <1>2, <1>5, <1>7 DEF Stream!FATAL, FATAL
  <2>. QED  BY <1>1, <1>2, <1>3, <2>1, <2>2 DEF Stream!Consume
<1>9. Stream!Call
  BY <1>2, <1>4, <1>8 DEF Stream!Call, Moves
<1>. QED  BY <1>9 DEF StreamStep, Stream!Next

\* Where a seek is to lead, counted from the start.
SeekGoal == IF call.whence = "end" THEN Total + call.ask ELSE Goal

LEMMA TargetIsGoal ==
    ASSUME Moves, pc \in Seeks, reply'.whence = call.whence, reply'.ask = call.ask
    PROVE  Stream!Target = SeekGoal
<1>1. call.whence \in {"set", "cur", "end"} /\ call.ask \in Int
  BY SeekKnows DEF Moves
<1>2. position = before.position /\ pc # "idle"
  BY DEF Moves, History, SeekHistory, Seeks
<1>3. position \in Nat
  BY Numbers DEF Moves
<1>4. CASE call.whence = "set"
  BY <1>4 DEF Stream!Target, SeekGoal, Goal
<1>5. CASE call.whence = "cur"
  BY <1>1, <1>2, <1>3, <1>5 DEF Stream!Target, SeekGoal, Goal
<1>6. CASE call.whence = "end"
  BY <1>6 DEF Stream!Target, SeekGoal, Stream!Size, Total
<1>. QED  BY <1>1, <1>4, <1>5, <1>6

LEMMA SeeksInVain ==
    ASSUME Moves, Tracks, pc \in Seeks, Returns(FATAL, <<>>), UNCHANGED <<fatal, position>>, Fault \/ NoFault,
           \/ ~disk_like \/ faults' > 0 \/ SeekGoal \notin 0 .. Total
           \/ \E v \in 1 .. Len(ends) - 1 : SeekGoal = ends[v] - 1
    PROVE  StreamStep
<1>1. pc # "idle"
  BY DEF Seeks
<1>2. /\ pc' = "idle" /\ ~fatal /\ reply'.ask = call.ask /\ reply'.whence = call.whence
      /\ reply'.ret = FATAL /\ reply'.call = call.call
      /\ before.lost => lost'
  BY <1>1, Answer, StaysLost
<1>3. call.call = "seek"
  BY CallsKeep DEF Moves, Shape
<1>4. faults > 0 => faults' > 0
  BY FaultsAdd DEF Moves
<1>5. position' = before.position
  BY DEF Moves, History, SeekHistory
<1>6. Stream!Target = SeekGoal /\ Stream!Size = Total
  BY <1>2, TargetIsGoal DEF Stream!Size, Total
<1>7. Stream!Seek
  <2>1. \/ ~disk_like \/ faults' > 0 \/ Stream!Target \notin 0 .. Stream!Size
        \/ \E v \in 1 .. Len(ends) - 1 : Stream!Target = ends[v] - 1
    BY <1>6
  <2>. QED  BY <1>1, <1>2, <1>3, <1>5, <2>1 DEF Stream!Seek, Stream!FATAL, FATAL
<1>8. Stream!Call
  BY <1>2, <1>4, <1>7 DEF Stream!Call, Moves
<1>. QED  BY <1>8 DEF StreamStep, Stream!Next

LEMMA SeekArrives ==
    ASSUME Moves, pc \in Seeks, Returns(position', <<>>), UNCHANGED fatal, Fault \/ NoFault, ~lost',
           position' = SeekGoal \/ (SeekGoal < 0 /\ call.whence = "end")
    PROVE  StreamStep
<1>1. pc # "idle"
  BY DEF Seeks
<1>2. /\ pc' = "idle" /\ ~fatal /\ reply'.ask = call.ask /\ reply'.whence = call.whence
      /\ reply'.ret = position' /\ reply'.call = call.call
  BY <1>1, Answer
<1>3. call.call = "seek"
  BY CallsKeep DEF Moves, Shape
<1>4. faults > 0 => faults' > 0
  BY FaultsAdd DEF Moves
<1>5. Stream!Target = SeekGoal
  BY <1>2, TargetIsGoal
<1>6. Stream!Seek
  BY <1>2, <1>3, <1>5 DEF Stream!Seek
<1>7. Stream!Call
  BY <1>2, <1>4, <1>6 DEF Stream!Call, Moves
<1>. QED  BY <1>7 DEF StreamStep, Stream!Next
-----------------------------------------------------------------------------
(* Where the file pointer is kept in place. *)

\* The byte that the windows, and what is being skipped, end before.
WindowsEnd == position + avail + client_avail + (IF pc = "skip" THEN skipped ELSE 0)

\* The file pointer moves as far as the end of the windows.
LEMMA PlaceIsKept ==
    ASSUME Moves, Tracks, ~lost, fd', UNCHANGED cursor, NEW d \in Int, offset' = offset + d,
           offset' <= SizeOf(cursor) \/ cursor = Len(ends), WindowsEnd' = WindowsEnd + d
    PROVE  ~lost'
<1>1. InPlace
  BY DEF Moves, Windows
<1>2. Begin(cursor)' = Begin(cursor) /\ SizeOf(cursor)' = SizeOf(cursor) /\ Len(ends)' = Len(ends)
  BY DEF Moves, Begin, SizeOf
<1>3. offset \in Nat /\ Begin(cursor) \in Nat
  BY Numbers DEF Moves
<1>4. Begin(cursor) + offset = WindowsEnd
  BY <1>1 DEF InPlace, WindowsEnd
<1>5. (Begin(cursor) + offset)' = WindowsEnd'
  BY <1>2, <1>3, <1>4
<1>6. InPlace'
  BY <1>2, <1>5 DEF InPlace, WindowsEnd
<1>. QED  BY <1>6 DEF Tracks

\* Neither moves.
LEMMA NothingMoves ==
    ASSUME Moves, Tracks, UNCHANGED file, WindowsEnd' = WindowsEnd
    PROVE  lost' => lost
<1>. SUFFICES ASSUME ~lost PROVE ~lost'
  BY DEF Moves, Shape, TypeOK, StreamType
<1>1. InPlace
  BY DEF Moves, Windows
<1>2. offset \in Nat /\ WindowsEnd \in Int
  <2>1. offset \in Nat /\ position \in Nat /\ avail \in Nat /\ client_avail \in Nat /\ skipped \in Int
    BY Numbers DEF Moves
  <2>. QED  BY <2>1 DEF WindowsEnd
<1>3. fd' /\ UNCHANGED cursor /\ offset' = offset + 0 /\ (offset' <= SizeOf(cursor) \/ cursor = Len(ends))
  BY <1>1, <1>2 DEF InPlace, file
<1>4. WindowsEnd' = WindowsEnd + 0
  BY <1>2
<1>. QED  BY <1>3, <1>4, PlaceIsKept

\* A block is read and the windows end behind it.
LEMMA BlockIsRead ==
    ASSUME Moves, Tracks, NEW n \in Nat, FileRead(n), WindowsEnd' = WindowsEnd + n
    PROVE  lost' => lost
<1>. SUFFICES ASSUME ~lost PROVE ~lost'
  BY DEF Moves, Shape, TypeOK, StreamType
<1>1. fd' /\ UNCHANGED cursor /\ offset' = offset + n /\ n \in 1 .. Least(BlockSize, Rest)
  BY DEF FileRead
<1>2. offset \in Nat /\ SizeOf(cursor) \in Nat
  BY Numbers DEF Moves
<1>3. offset' <= SizeOf(cursor)
  <2>1. Rest \in Nat /\ (Rest > 0 => offset + Rest = SizeOf(cursor))
    BY <1>2 DEF Rest
  <2>2. n <= Rest
    BY <1>1, <2>1, SizesAssumption DEF Least
  <2>. QED  BY <1>1, <1>2, <2>1, <2>2
<1>. QED  BY <1>1, <1>3, PlaceIsKept

\* The next volume begins where this one ends.
LEMMA NextVolumeIsOpen ==
    ASSUME Moves, Tracks, ReadsNothing, HasNextVolume, Switched(cursor + 1, 0), WindowsEnd' = WindowsEnd
    PROVE  lost' => lost
<1>. SUFFICES ASSUME ~lost PROVE InPlace'
  BY DEF Moves, Tracks, Shape, TypeOK, StreamType
<1>1. InPlace
  BY DEF Moves, Windows
<1>2. cursor' = cursor + 1 /\ fd' /\ offset' = 0
  BY DEF Switched
<1>3. /\ offset \in Nat /\ cursor \in Volumes /\ SizeOf(cursor) \in Nat /\ Begin(cursor) \in Nat
      /\ Begin(cursor) + SizeOf(cursor) = ends[cursor]
  BY Numbers DEF Moves
<1>4. cursor + 1 \in Volumes /\ cursor # Len(ends)
  BY NextIsVolume DEF Moves, Shape, HasNextVolume
<1>5. Begin(cursor + 1) = ends[cursor] /\ SizeOf(cursor + 1) \in Nat
  BY <1>3, <1>4, VolumesFollow DEF Moves, Shape, TypeOK, StreamType
<1>6. Begin(cursor)' = Begin(cursor + 1) /\ SizeOf(cursor)' = SizeOf(cursor + 1)
  BY <1>2 DEF Moves, Begin, SizeOf
<1>7. offset = SizeOf(cursor)
  <2>1. offset <= SizeOf(cursor)
    BY <1>1, <1>4 DEF InPlace
  <2>2. ~(offset < SizeOf(cursor))
    <3>1. Rest = 0
      BY DEF ReadsNothing
    <3>. QED  BY <1>3, <3>1 DEF Rest
  <2>. QED  BY <1>3, <2>1, <2>2
<1>8. Begin(cursor) + offset = WindowsEnd
  BY <1>1 DEF InPlace, WindowsEnd
<1>9. (Begin(cursor) + offset)' = WindowsEnd'
  BY <1>2, <1>3, <1>5, <1>6, <1>7, <1>8
<1>. QED  BY <1>2, <1>5, <1>6, <1>9 DEF InPlace, WindowsEnd
-----------------------------------------------------------------------------
(* The steps of a look ahead. *)

\* A file that cannot be read is a failure, now or before.
LEMMA ReadFailureCounts ==
    ASSUME Moves, FileReadFails
    PROVE  (Fault \/ NoFault) /\ faults' > 0 /\ UNCHANGED file
<1>1. CASE fd
  <2>1. Fault /\ UNCHANGED file
    BY <1>1 DEF FileReadFails
  <2>. QED  BY <2>1, FaultsAdd DEF Moves
<1>2. CASE ~fd
  <2>1. NoFault /\ UNCHANGED file /\ faults > 0
    BY <1>2 DEF FileReadFails, Moves, History, FaultHistory
  <2>. QED  BY <2>1, FaultsAdd DEF Moves
<1>. QED  BY <1>1, <1>2

\* There is no next volume, or it cannot be opened, which is a failure.
LEMMA EndCounts ==
    ASSUME Moves, IF HasNextVolume THEN SwitchFails(cursor + 1) ELSE NoFault /\ UNCHANGED file
    PROVE  (Fault \/ NoFault) /\ (UNCHANGED file \/ faults' > 0) /\ (~fd' => faults' > 0)
<1>1. CASE HasNextVolume
  <2>1. Fault
    BY <1>1 DEF SwitchFails
  <2>. QED  BY <2>1, FaultsAdd DEF Moves
<1>2. CASE ~HasNextVolume
  <2>1. NoFault /\ UNCHANGED file
    BY <1>2
  <2>2. ~fd => faults > 0
    BY DEF Moves, History, FaultHistory
  <2>. QED  BY <2>1, <2>2, FaultsAdd DEF Moves, file
<1>. QED  BY <1>1, <1>2

LEMMA AheadMaps ==
    ASSUME Moves, Tracks, NEW k \in Asks, Ahead(k)
    PROVE  History' /\ StreamStep
<1>. DEFINE c == [Nothing EXCEPT !.call = "ahead", !.ask = k]
<1>1. UNCHANGED <<file, client, buffer, dataset, position, end_of_file, fatal, left, skipped, faults>>
  BY DEF Ahead
<1>2. FaultHistory'
  BY <1>1 DEF FaultHistory, Moves, History, file
<1>3. CASE fatal
  <2>1. ReturnsAtOnce(c, FATAL, <<>>)
    BY <1>3 DEF Ahead
  <2>2. c \in [call : {"ahead"}, whence : {""}, ask : Asks, ret : {0}, data : {<<>>}]
    BY Asking, Zenon
  <2>. HIDE DEF c
  <2>3. StreamStep
    BY <1>1, <1>3, <2>1, <2>2, CallIsRefused, Zenon
  <2>4. pc' = "idle"
    BY <2>1 DEF ReturnsAtOnce
  <2>5. ~fd' => faults' > 0
    BY <1>2 DEF FaultHistory
  <2>. QED  BY <2>3, <2>4, <2>5, HistoryIsOver
<1>4. CASE ~fatal
  <2>1. Begins(c, "ahead")
    BY <1>4 DEF Ahead
  <2>. HIDE DEF c
  <2>2. StreamStep
    BY <1>1, <2>1, CallBegins DEF Moves
  <2>3. pc = "idle" /\ pc' = "ahead" /\ before' = [position |-> position, lost |-> lost]
    BY <2>1 DEF Begins
  <2>4. before'.position = position /\ before'.lost = lost
    BY <2>3
  <2>5. lost' => lost
    <3>1. WindowsEnd' = WindowsEnd
      BY <1>1, <2>3 DEF WindowsEnd, client, buffer, avail
    <3>. QED  BY <1>1, <3>1, NothingMoves
  <2>6. History'
    BY <1>1, <1>2, <1>4, <2>3, <2>4, <2>5
    DEF History, CallHistory, AheadHistory, SeekHistory, ConsumeHistory, Seeks, Tracks
  <2>. QED  BY <2>2, <2>6
<1>. QED  BY <1>3, <1>4

\* What the windows hold when they are what the stream goes on with.
LEMMA AheadSees ==
    ASSUME Moves, pc = "ahead", ~lost
    PROVE  /\ copy = Bytes(position, avail) /\ call.ask \in Nat \ {0}
           /\ client_avail + avail > 0 => position + avail + client_avail <= Total
           /\ client_avail + avail > 0 /\ client_total > 0 => client_buff + client_next = position + avail
           /\ end_of_file => client_avail = 0 /\ position + avail >= Total
<1>1. Pieces
  BY DEF Moves, Windows
<1>. QED  BY <1>1, AskIsPositive DEF Pieces, Moves, Shape

LEMMA AheadFromCopyMaps ==
    ASSUME Moves, Tracks, AheadFromCopy
    PROVE  History' /\ StreamStep
<1>1. /\ pc = "ahead" /\ HasCopy /\ Returns(avail, copy) /\ NoFault
      /\ UNCHANGED <<file, client, buffer, dataset, position, end_of_file, fatal, left, skipped>>
  BY DEF AheadFromCopy, NoFault
<1>2. pc' = "idle"
  BY <1>1 DEF Returns
<1>3. lost' => lost
  <2>1. WindowsEnd' = WindowsEnd
    BY <1>1, <1>2 DEF WindowsEnd, client, buffer, avail
  <2>. QED  BY <1>1, <2>1, NothingMoves
<1>4. \/ lost'
      \/ copy # <<>> /\ avail >= call.ask /\ copy = Bytes(position, avail) /\ position + avail <= Total
  <2>. SUFFICES ASSUME ~lost'
                PROVE  copy # <<>> /\ avail >= call.ask /\ copy = Bytes(position, avail) /\ position + avail <= Total
    OBVIOUS
  <2>1. ~lost
    BY DEF Tracks
  <2>2. avail > 0 /\ avail >= call.ask /\ avail \in Nat /\ client_avail \in Nat /\ position \in Nat /\ Total \in Nat
    BY <1>1, Numbers DEF HasCopy, Moves
  <2>3. copy # <<>>
    BY <2>2 DEF avail
  <2>4. copy = Bytes(position, avail) /\ (client_avail + avail > 0 => position + avail + client_avail <= Total)
    BY <1>1, <2>1, AheadSees
  <2>. QED  BY <2>2, <2>3, <2>4
<1>5. StreamStep
  BY <1>1, <1>3, <1>4, LooksAhead
<1>6. ~fd' => faults' > 0
  BY <1>1 DEF Moves, History, FaultHistory, NoFault, file
<1>. QED  BY <1>2, <1>5, <1>6, HistoryIsOver

LEMMA RollBackMaps ==
    ASSUME Moves, Tracks, RollBack
    PROVE  History' /\ StreamStep
<1>. DEFINE d == Bytes(client_buff + client_next', client_avail')
<1>1. /\ pc = "ahead" /\ CanRollBack /\ Returns(client_avail', d) /\ NoFault
      /\ client_avail' = client_avail + avail /\ client_next' = client_next - avail /\ copy' = <<>>
      /\ UNCHANGED <<file, client_buff, client_total, position, fatal, skipped>>
  BY DEF RollBack, NoFault
<1>2. pc' = "idle"
  BY <1>1 DEF Returns
<1>3. /\ avail \in Nat /\ client_avail \in Nat /\ position \in Nat /\ Total \in Nat /\ client_next \in Nat
      /\ client_buff \in Nat /\ client_total \in Nat
  BY Numbers DEF Moves
<1>4. lost' => lost
  <2>1. avail' = 0
    BY <1>1 DEF avail
  <2>2. WindowsEnd' = WindowsEnd
    BY <1>1, <1>2, <1>3, <2>1 DEF WindowsEnd
  <2>. QED  BY <1>1, <2>2, NothingMoves
<1>5. \/ lost'
      \/ /\ d # <<>> /\ client_avail' >= call.ask /\ d = Bytes(position, client_avail')
         /\ position + client_avail' <= Total
  <2>. SUFFICES ASSUME ~lost'
                PROVE  /\ d # <<>> /\ client_avail' >= call.ask /\ d = Bytes(position, client_avail')
                       /\ position + client_avail' <= Total
    OBVIOUS
  <2>1. ~lost
    BY DEF Tracks
  <2>2. call.ask \in Nat \ {0}
    BY <1>1, <2>1, AheadSees
  <2>3. client_avail + avail >= call.ask /\ client_avail + avail > 0 /\ client_total > 0
    BY <1>1, <1>3, <2>2 DEF CanRollBack
  <2>4. client_buff + client_next = position + avail /\ position + avail + client_avail <= Total
    BY <1>1, <2>1, <2>3, AheadSees
  <2>5. client_buff + client_next' = position
    BY <1>1, <1>3, <2>4
  <2>6. Len(d) = client_avail' /\ client_avail' > 0 /\ client_avail' \in Nat
    <3>1. client_avail' \in Nat /\ client_avail' > 0
      BY <1>1, <1>3, <2>3
    <3>2. Len(Bytes(position, client_avail')) = client_avail'
      BY <1>3, <3>1, BytesType
    <3>. QED  BY <2>5, <3>1, <3>2
  <2>7. d # <<>>
    <3>. HIDE DEF d
    <3>. QED  BY <2>6
  <2>. QED  BY <1>1, <1>3, <2>3, <2>4, <2>5, <2>7
<1>6. StreamStep
  <2>. HIDE DEF d
  <2>. QED  BY <1>1, <1>4, <1>5, LooksAhead
<1>7. ~fd' => faults' > 0
  BY <1>1 DEF Moves, History, FaultHistory, NoFault, file
<1>. QED  BY <1>2, <1>6, <1>7, HistoryIsOver

\* There is not as much as was asked for.
LEMMA TooLittle ==
    ASSUME Moves, NeedsMore, ~lost, position + avail >= Total
    PROVE  /\ position + call.ask > Total
           /\ client_avail = 0 => avail \in {0, Stream!Beyond(position) - position}
<1>1. avail \in Nat /\ client_avail \in Nat /\ position \in Nat /\ Total \in Nat
  BY Numbers DEF Moves
<1>2. pc = "ahead" /\ ~HasCopy
  BY DEF NeedsMore
<1>3. call.ask \in Nat \ {0} /\ (client_avail + avail > 0 => position + avail + client_avail <= Total)
  BY <1>2, AheadSees
<1>4. avail < call.ask
  BY <1>1, <1>2, <1>3 DEF HasCopy
<1>5. ASSUME client_avail = 0, avail # 0
      PROVE  avail = Stream!Beyond(position) - position
  <2>1. position + avail = Total /\ position < Total
    BY <1>1, <1>3, <1>5
  <2>2. Stream!Beyond(position) = Total
    BY <2>1 DEF Stream!Beyond, Stream!Size, Total
  <2>. QED  BY <1>1, <2>1, <2>2
<1>. QED  BY <1>1, <1>3, <1>4, <1>5

LEMMA AheadAfterEndMaps ==
    ASSUME Moves, Tracks, AheadAfterEnd
    PROVE  History' /\ StreamStep
<1>1. /\ pc = "ahead" /\ NeedsMore /\ end_of_file /\ Returns(0, <<>>) /\ NoFault
      /\ UNCHANGED <<file, client, copy, position, fatal, skipped>>
  BY DEF AheadAfterEnd, NeedsBlock, NeedsMore, NoFault
<1>2. pc' = "idle"
  BY <1>1 DEF Returns
<1>3. lost' => lost
  <2>1. WindowsEnd' = WindowsEnd
    BY <1>1, <1>2 DEF WindowsEnd, client, avail
  <2>. QED  BY <1>1, <2>1, NothingMoves
<1>4. lost' \/ position + call.ask > Total
  <2>1. CASE ~lost
    BY <1>1, <2>1, AheadSees, TooLittle
  <2>2. CASE lost
    BY <2>2 DEF Tracks
  <2>. QED  BY <2>1, <2>2
<1>5. StreamStep
  BY <1>1, <1>3, <1>4, LooksAhead
<1>6. ~fd' => faults' > 0
  BY <1>1 DEF Moves, History, FaultHistory, NoFault, file
<1>. QED  BY <1>2, <1>5, <1>6, HistoryIsOver

\* A look ahead that goes on is still at the same place.
LEMMA AheadGoesOn ==
    ASSUME Moves, Tracks, pc = "ahead", pc' = pc, GoesOn, NoFault, UNCHANGED <<position, fatal>>,
           fd' \/ fd' = fd, lost' => lost
    PROVE  History' /\ StreamStep
<1>1. before' = before /\ faults' = faults /\ ~fatal /\ (before.lost => lost)
  BY DEF GoesOn, args, NoFault, Moves, History, CallHistory
<1>2. StreamStep
  BY WithinCall DEF Moves
<1>3. skipped' = 0
  BY DEF Moves, Shape, Consuming
<1>4. FaultHistory' /\ CallHistory' /\ AheadHistory'
  BY <1>1, <1>3 DEF Moves, Tracks, History, FaultHistory, CallHistory, AheadHistory
<1>. QED  BY <1>2, <1>4 DEF History, SeekHistory, ConsumeHistory, Seeks

LEMMA ReadBlockMaps ==
    ASSUME Moves, Tracks, ReadBlock
    PROVE  History' /\ StreamStep
<1>1. /\ pc = "ahead" /\ pc' = pc /\ client_avail = 0 /\ GoesOn
      /\ UNCHANGED <<copy, position, fatal, skipped>>
  BY DEF ReadBlock, NeedsBlock, NeedsMore
<1>2. PICK n \in 1 .. BlockSize : FileRead(n) /\ client_avail' = n
  BY DEF ReadBlock
<1>3. n \in Nat /\ NoFault /\ fd' = fd
  BY <1>2, SizesAssumption DEF FileRead
<1>4. WindowsEnd' = WindowsEnd + n
  <2>1. avail' = avail /\ avail \in Nat /\ position \in Nat
    BY <1>1, Numbers DEF avail, Moves
  <2>. QED  BY <1>1, <1>2, <1>3, <2>1 DEF WindowsEnd
<1>5. lost' => lost
  BY <1>2, <1>3, <1>4, BlockIsRead
<1>. QED  BY <1>1, <1>3, <1>5, AheadGoesOn

LEMMA NextVolumeMaps ==
    ASSUME Moves, Tracks, NextVolume
    PROVE  History' /\ StreamStep
<1>1. /\ pc = "ahead" /\ pc' = pc /\ ReadsNothing /\ HasNextVolume /\ Switched(cursor + 1, 0) /\ GoesOn
      /\ UNCHANGED <<client, copy, position, fatal, skipped>>
  BY DEF NextVolume, NeedsBlock, NeedsMore
<1>2. WindowsEnd' = WindowsEnd
  BY <1>1 DEF WindowsEnd, client, avail
<1>3. lost' => lost
  BY <1>1, <1>2, NextVolumeIsOpen
<1>4. fd' /\ NoFault
  BY <1>1 DEF Switched
<1>. QED  BY <1>1, <1>3, <1>4, AheadGoesOn

LEMMA CopyMoreMaps ==
    ASSUME Moves, Tracks, CopyMore
    PROVE  History' /\ StreamStep
<1>. DEFINE n == Room(buffer_size', next')
            b == Bytes(client_buff + client_next, n)
<1>1. /\ pc = "ahead" /\ pc' = pc /\ GoesOn /\ NoFault /\ copy' = copy \o b
      /\ client_avail' = client_avail - n /\ UNCHANGED <<file, position, fatal, skipped>>
  BY DEF CopyMore, NeedsMore
<1>2. n \in 1 .. client_avail
  BY CopyFits DEF Moves
<1>3. /\ client_avail \in Nat /\ client_buff + client_next \in Nat /\ n \in Nat /\ copy \in Seq(Nat)
      /\ avail \in Nat /\ position \in Nat
  <2>. HIDE DEF n
  <2>1. /\ client_avail \in Nat /\ client_buff \in Nat /\ client_next \in Nat /\ copy \in Seq(Nat)
        /\ avail \in Nat /\ position \in Nat
    BY Numbers DEF Moves
  <2>. QED  BY <1>2, <2>1
<1>4. avail' = avail + n
  <2>1. b \in Seq(Nat) /\ Len(b) = n
    BY <1>3, BytesType
  <2>. HIDE DEF b
  <2>2. Len(copy \o b) = Len(copy) + Len(b)
    BY <1>3, <2>1, ConcatProperties
  <2>. QED  BY <1>1, <2>1, <2>2 DEF avail
<1>5. WindowsEnd' = WindowsEnd
  <2>. HIDE DEF n
  <2>. QED  BY <1>1, <1>3, <1>4 DEF WindowsEnd
<1>6. lost' => lost
  BY <1>1, <1>5, NothingMoves
<1>. QED  BY <1>1, <1>6, AheadGoesOn DEF file

LEMMA ReadBlockFailsMaps ==
    ASSUME Moves, Tracks, ReadBlockFails
    PROVE  History' /\ StreamStep
<1>1. pc = "ahead" /\ FileReadFails /\ fatal' = TRUE /\ Returns(FATAL, <<>>) /\ position' = position
  BY DEF ReadBlockFails, NeedsBlock, NeedsMore
<1>2. faults' > 0 /\ pc' = "idle"
  BY <1>1, ReadFailureCounts DEF Returns
<1>3. StreamStep
  BY <1>1, <1>2, FailsForGood
<1>. QED  BY <1>2, <1>3, HistoryIsOver

LEMMA NoMemoryMaps ==
    ASSUME Moves, Tracks, NoMemory
    PROVE  History' /\ StreamStep
<1>1. pc = "ahead" /\ Fault /\ fatal' = TRUE /\ Returns(FATAL, <<>>) /\ position' = position
  BY DEF NoMemory, NeedsMore
<1>2. faults' > 0 /\ pc' = "idle"
  BY <1>1, FaultsAdd DEF Returns, Moves
<1>3. StreamStep
  BY <1>1, <1>2, FailsForGood
<1>. QED  BY <1>2, <1>3, HistoryIsOver

LEMMA AheadMeetsEndMaps ==
    ASSUME Moves, Tracks, AheadMeetsEnd
    PROVE  History' /\ StreamStep
<1>1. /\ pc = "ahead" /\ NeedsMore /\ client_avail = 0 /\ client_avail' = 0 /\ Returns(avail, <<>>)
      /\ end_of_file' = TRUE /\ UNCHANGED <<copy, position, fatal, skipped>>
  BY DEF AheadMeetsEnd, NeedsBlock, NeedsMore, EmptyClient
<1>2. pc' = "idle"
  BY <1>1 DEF Returns
<1>3. (Fault \/ NoFault) /\ (UNCHANGED file \/ faults' > 0) /\ (~fd' => faults' > 0)
  BY EndCounts DEF AheadMeetsEnd
<1>4. lost' => lost \/ faults' > 0
  <2>1. WindowsEnd' = WindowsEnd
    BY <1>1, <1>2 DEF WindowsEnd, avail
  <2>. QED  BY <1>3, <2>1, NothingMoves
<1>5. lost' \/ (position + call.ask > Total /\ avail \in {0, Stream!Beyond(position) - position})
  <2>. SUFFICES ASSUME ~lost'
                PROVE  position + call.ask > Total /\ avail \in {0, Stream!Beyond(position) - position}
    OBVIOUS
  <2>1. ~lost
    BY DEF Tracks
  <2>2. Pieces'
    BY DEF Moves, Windows
  <2>3. position + avail >= Total
    <3>1. position' + avail' >= Total'
      BY <1>1, <2>2 DEF Pieces
    <3>2. avail' = avail /\ Total' = Total
      BY <1>1 DEF avail, Total, Moves
    <3>. QED  BY <1>1, <3>1, <3>2
  <2>. QED  BY <1>1, <2>1, <2>3, TooLittle
<1>6. StreamStep
  BY <1>1, <1>3, <1>4, <1>5, LooksAhead
<1>. QED  BY <1>2, <1>3, <1>6, HistoryIsOver
-----------------------------------------------------------------------------
(* The steps of a consume. *)

LEMMA ConsumeMaps ==
    ASSUME Moves, Tracks, NEW k \in Asks, Consume(k)
    PROVE  History' /\ StreamStep
<1>. DEFINE c == [Nothing EXCEPT !.call = "consume", !.ask = k]
            f == Least(k, avail)
            t == Taken(k)
            rest == k - f - t
<1>1. UNCHANGED <<skipped, file, dataset, end_of_file, fatal, faults>>
  BY DEF Consume
<1>2. FaultHistory'
  BY <1>1 DEF FaultHistory, Moves, History, file
<1>3. ~fd' => faults' > 0
  BY <1>2 DEF FaultHistory
<1>4. c \in [call : {"consume"}, whence : {""}, ask : Asks, ret : {0}, data : {<<>>}]
  BY Asking, Zenon
<1>5. CASE fatal
  <2>1. ReturnsAtOnce(c, FATAL, <<>>) /\ UNCHANGED <<buffer, client, position, left>>
    BY <1>5 DEF Consume
  <2>. HIDE DEF c
  <2>2. StreamStep
    BY <1>1, <1>4, <1>5, <2>1, CallIsRefused, Zenon
  <2>3. pc' = "idle"
    BY <2>1 DEF ReturnsAtOnce
  <2>. QED  BY <1>3, <2>2, <2>3, HistoryIsOver
<1>6. CASE ~fatal
  <2>1. /\ copy' = SubSeq(copy, f + 1, avail) /\ client_avail' = client_avail - t
        /\ position' = position + f + t /\ left' = rest
        /\ IF rest = 0 THEN ReturnsAtOnce(c, k, <<>>) ELSE Begins(c, "skip")
    BY <1>6 DEF Consume
  <2>2. /\ k \in Nat \ {0} /\ avail \in Nat /\ client_avail \in Nat /\ position \in Nat /\ copy \in Seq(Nat)
        /\ Total \in Nat /\ skipped \in Int
    BY SizesAssumption, Numbers DEF Moves
  <2>3. f \in 0 .. avail /\ t \in 0 .. client_avail /\ rest \in Nat /\ (rest > 0 => f = avail /\ t = client_avail)
    BY <2>2, ConsumeNumbers DEF Moves, Shape, TypeOK
  <2>4. f + t + rest = k
    BY <2>2, <2>3
  <2>5. pc = "idle" /\ pc' = IF rest = 0 THEN "idle" ELSE "skip"
    BY <2>1 DEF ReturnsAtOnce, Begins
  <2>6. skipped = 0 /\ skipped' = 0
    BY <1>1, <2>5 DEF Moves, Shape, Consuming
  <2>. HIDE DEF c, f, t, rest
  <2>7. lost' => lost
    <3>1. avail' = avail - f
      BY <2>1, <2>2, <2>3, RestType DEF avail
    <3>2. WindowsEnd' = WindowsEnd
      BY <2>1, <2>2, <2>3, <2>5, <2>6, <3>1 DEF WindowsEnd
    <3>. QED  BY <1>1, <3>2, NothingMoves
  <2>8. CASE rest = 0
    <3>1. ReturnsAtOnce(c, k, <<>>) /\ position' = position + k
      BY <2>1, <2>2, <2>3, <2>4, <2>8
    <3>2. reply' = [c EXCEPT !.ret = k, !.data = <<>>] /\ pc' = "idle"
      BY <3>1 DEF ReturnsAtOnce
    <3>3. reply'.ret = k /\ reply'.ask = c.ask /\ reply'.call = c.call
      BY <1>4, <3>2, RecordsKeep, Zenon
    <3>4. c.ask = k /\ c.call = "consume"
      <4>. USE DEF c
      <4>. QED  BY Zenon DEF Nothing
    <3>5. Stream!Consume
      BY <1>1, <2>5, <2>7, <3>1, <3>2, <3>3, <3>4 DEF Stream!Consume, Tracks
    <3>6. Stream!Call
      BY <1>1, <1>6, <3>5 DEF Stream!Call, Moves
    <3>7. StreamStep
      BY <3>6 DEF StreamStep, Stream!Next
    <3>. QED  BY <1>3, <3>2, <3>7, HistoryIsOver
  <2>9. CASE rest # 0
    <3>1. Begins(c, "skip")
      BY <2>1, <2>9
    <3>2. StreamStep
      BY <1>1, <3>1, CallBegins DEF Moves
    <3>3. pc' = "skip" /\ call' = c /\ before' = [position |-> position, lost |-> lost]
      BY <3>1 DEF Begins
    <3>4. before'.position = position /\ before'.lost = lost
      BY <3>3
    <3>5. call'.ask = k
      <4>1. c.ask = k
        <5>. USE DEF c
        <5>. QED  BY Zenon DEF Nothing
      <4>. QED  BY <3>3, <4>1
    <3>6. position' + left' = position + k /\ left' <= k
      BY <2>1, <2>2, <2>3, <2>4
    <3>7. ~lost' => position' = position \/ position' <= Total'
      <4>. SUFFICES ASSUME ~lost', position' # position PROVE position' <= Total
        BY DEF Moves, Total
      <4>1. Pieces
        BY DEF Tracks, Moves, Windows
      <4>2. position' = position + avail + client_avail /\ client_avail + avail > 0
        BY <2>1, <2>2, <2>3, <2>9
      <4>. QED  BY <4>1, <4>2 DEF Pieces
    <3>8. ConsumeHistory'
      BY <2>6, <2>7, <3>3, <3>4, <3>5, <3>6, <3>7 DEF ConsumeHistory
    <3>9. History'
      BY <1>1, <1>2, <1>6, <3>3, <3>4, <3>8
      DEF History, CallHistory, AheadHistory, SeekHistory, Seeks, Tracks
    <3>. QED  BY <3>2, <3>9
  <2>. QED  BY <2>8, <2>9
<1>. QED  BY <1>5, <1>6

\* A consume that goes on, within client_skip_proxy or reading.
LEMMA ConsumeGoesOn ==
    ASSUME Moves, Tracks, pc \in {"skip", "discard"}, pc' \in {"skip", "discard"}, GoesOn, Fault \/ NoFault,
           UNCHANGED fatal, ~fd' \/ skipped' = -1 => faults' > 0,
           NEW n \in Nat, position' = position + n, left' = left - n, left' \in Nat,
           lost' => lost \/ faults' > 0 \/ Crossed,
           ~lost' => n = 0 \/ position' <= Total,
           pc' = "skip" /\ ~lost' /\ skipped' # 0 => use_lseek'[cursor']
    PROVE  History' /\ StreamStep
<1>1. before' = before /\ call' = call /\ pc # "idle" /\ pc' # "idle"
  BY DEF GoesOn, args
<1>2. StreamStep
  BY <1>1, WithinCall DEF Moves
<1>3. /\ position + left = before.position + call.ask /\ left <= call.ask
      /\ lost => before.lost \/ faults > 0 \/ Crossed
      /\ ~lost => position = before.position \/ position <= Total
      /\ ~fatal /\ (before.lost => lost)
  BY <1>1 DEF Moves, History, ConsumeHistory, CallHistory
<1>4. position \in Nat /\ left \in Nat /\ before.position \in Nat /\ call.ask \in Nat /\ Total \in Nat
  BY Numbers, AskIsPositive DEF Moves, Shape
<1>5. position' + left' = before.position + call.ask /\ left' <= call.ask
  BY <1>3, <1>4
<1>6. lost' => before.lost \/ faults' > 0 \/ Crossed
  <2>1. faults > 0 => faults' > 0
    BY FaultsAdd DEF Moves
  <2>. QED  BY <1>3, <2>1
<1>7. Crossed' <=> Crossed
  BY <1>1 DEF Crossed, Moves
<1>8. ~lost' => position' = before.position \/ position' <= Total
  <2>. SUFFICES ASSUME ~lost' PROVE position' = before.position \/ position' <= Total
    OBVIOUS
  <2>1. ~lost
    BY DEF Tracks
  <2>. QED  BY <1>3, <1>4, <2>1
<1>9. Total' = Total
  BY DEF Moves, Total
<1>10. ConsumeHistory'
  BY <1>1, <1>5, <1>6, <1>7, <1>8, <1>9 DEF ConsumeHistory
<1>11. FaultHistory' /\ CallHistory'
  BY <1>1, <1>3 DEF FaultHistory, CallHistory, Tracks
<1>. QED  BY <1>2, <1>10, <1>11 DEF History, AheadHistory, SeekHistory, Seeks

\* Where a file that is moved leaves the windows behind: in the middle of the consume.
LEMMA SkipMayCross ==
    ASSUME Moves, Tracks, pc = "skip", use_lseek[cursor], fd, NEW d \in Nat, d <= left - skipped,
           offset' = offset + d, UNCHANGED <<cursor, fd>>, WindowsEnd' = WindowsEnd + d
    PROVE  lost' => lost \/ Crossed
<1>. SUFFICES ASSUME ~lost, lost' PROVE Crossed
  BY DEF Moves, Shape, TypeOK, StreamType
<1>1. ~(offset' <= SizeOf(cursor) \/ cursor = Len(ends))
  BY PlaceIsKept
<1>2. InPlace /\ skipped \in Nat
  BY DEF Moves, Windows, Shape, Consuming, TypeOK, CallType
<1>3. /\ offset \in Nat /\ position \in Nat /\ left \in Nat /\ Begin(cursor) \in Nat /\ SizeOf(cursor) \in Nat
      /\ Begin(cursor) + SizeOf(cursor) = ends[cursor] /\ cursor \in Volumes /\ before.position \in Nat
  BY Numbers DEF Moves
<1>4. avail = 0 /\ client_avail = 0
  BY Empty DEF Moves
<1>5. Begin(cursor) + offset = position + skipped
  BY <1>2, <1>3, <1>4 DEF InPlace
<1>6. offset <= SizeOf(cursor)
  BY <1>1, <1>2 DEF InPlace
<1>7. position + left = before.position + call.ask /\ left <= call.ask /\ call.ask \in Nat
  BY AskIsPositive DEF Moves, History, ConsumeHistory, Shape
<1>8. before.position <= ends[cursor]
  BY <1>2, <1>3, <1>5, <1>6, <1>7
<1>9. ends[cursor] < before.position + call.ask
  BY <1>1, <1>2, <1>3, <1>5, <1>7
<1>10. cursor \in 1 .. Len(ends) - 1
  BY <1>1, <1>3, VolumesFollow DEF Volumes, Moves, Shape, TypeOK, StreamType
<1>. QED  BY <1>8, <1>9, <1>10 DEF Crossed

LEMMA SkipChunkMaps ==
    ASSUME Moves, Tracks, SkipChunk
    PROVE  History' /\ StreamStep
<1>. DEFINE d == Least(left - skipped, SkipLimit)
<1>1. /\ pc = "skip" /\ use_lseek[cursor] /\ fd /\ offset' = offset + d /\ NoFault
      /\ UNCHANGED <<use_lseek, cursor, fd, client, buffer>>
  BY DEF SkipChunk
<1>2. left \in Nat \ {0} /\ skipped \in Nat /\ skipped < left /\ position \in Nat
  BY <1>1, Numbers, Empty DEF Moves, Shape, TypeOK, CallType, Consuming
<1>3. d \in Nat \ {0} /\ d <= left - skipped
  BY <1>2, SizesAssumption DEF Least
<1>4. avail = 0 /\ client_avail = 0 /\ avail' = 0 /\ client_avail' = 0
  BY <1>1, Empty DEF Moves, avail, client, buffer
<1>. HIDE DEF d
<1>5. CASE d = left - skipped
  <2>1. skipped' = 0 /\ position' = position + left /\ fatal' = fatal /\ Returns(call.ask, <<>>)
    BY <1>2, <1>5 DEF SkipChunk, SkipReturns, d
  <2>2. pc' = "idle"
    BY <2>1 DEF Returns
  <2>3. WindowsEnd' = WindowsEnd + d
    BY <1>1, <1>2, <1>4, <1>5, <2>1, <2>2 DEF WindowsEnd
  <2>4. lost' => lost \/ Crossed
    BY <1>1, <1>3, <2>3, SkipMayCross
  <2>5. StreamStep
    BY <1>1, <2>1, <2>4, ConsumesRest
  <2>. QED  BY <1>1, <2>2, <2>5, HistoryIsOver
<1>6. CASE d # left - skipped
  <2>1. skipped' = skipped + d /\ GoesOn /\ UNCHANGED <<pc, position, left, fatal>>
    BY <1>6 DEF SkipChunk, d
  <2>2. WindowsEnd' = WindowsEnd + d
    BY <1>1, <1>2, <1>3, <1>4, <2>1 DEF WindowsEnd
  <2>3. lost' => lost \/ Crossed
    BY <1>1, <1>3, <2>2, SkipMayCross
  <2>4. position' = position + 0 /\ left' = left - 0 /\ left' \in Nat /\ skipped' # -1
    BY <1>2, <1>3, <2>1
  <2>. QED  BY <1>1, <2>1, <2>3, <2>4, ConsumeGoesOn
<1>. QED  BY <1>5, <1>6

LEMMA SkipFailsMaps ==
    ASSUME Moves, Tracks, SkipFails
    PROVE  History' /\ StreamStep
<1>1. /\ pc = "skip" /\ use_lseek[cursor] /\ skipped' = skipped - 1 /\ GoesOn /\ (Fault \/ NoFault)
      /\ UNCHANGED <<pc, cursor, fd, offset, client, buffer, position, fatal, left>>
  BY DEF SkipFails
<1>2. faults' > 0
  <2>1. CASE fd
    BY <2>1, FaultsAdd DEF SkipFails, Moves
  <2>2. CASE ~fd
    <3>1. faults > 0 /\ NoFault
      BY <2>2 DEF SkipFails, Moves, History, FaultHistory
    <3>. QED  BY <3>1, FaultsAdd DEF Moves
  <2>. QED  BY <2>1, <2>2
<1>3. lost'
  <2>. SUFFICES ASSUME ~lost' PROVE FALSE
    OBVIOUS
  <2>1. ~lost
    BY DEF Tracks
  <2>2. InPlace /\ InPlace'
    BY <2>1 DEF Moves, Windows
  <2>3. /\ Begin(cursor) \in Nat /\ offset \in Nat /\ position \in Nat /\ avail \in Nat /\ client_avail \in Nat
        /\ skipped \in Int
    BY Numbers DEF Moves
  <2>4. Begin(cursor) + offset = position + avail + client_avail + skipped
    BY <1>1, <2>2 DEF InPlace
  <2>5. Begin(cursor)' = Begin(cursor) /\ avail' = avail
    BY <1>1 DEF Begin, avail, buffer, Moves
  <2>6. Begin(cursor) + offset = position + avail + client_avail + (skipped - 1)
    BY <1>1, <2>2, <2>5 DEF InPlace, client
  <2>. QED  BY <2>3, <2>4, <2>6
<1>4. position \in Nat /\ left \in Nat
  BY Numbers DEF Moves
<1>5. position' = position + 0 /\ left' = left - 0 /\ left' \in Nat
  BY <1>1, <1>4
<1>. QED  BY <1>1, <1>2, <1>3, <1>5, ConsumeGoesOn

LEMMA CannotSkipMaps ==
    ASSUME Moves, Tracks, CannotSkip
    PROVE  History' /\ StreamStep
<1>1. pc = "skip" /\ ~use_lseek[cursor] /\ SkipReturns(skipped) /\ NoFault /\ UNCHANGED <<file, client, buffer>>
  BY DEF CannotSkip
<1>2. left \in Nat \ {0} /\ skipped \in Nat \cup {-1} /\ skipped < left /\ position \in Nat
  BY <1>1, Numbers, Empty DEF Moves, Shape, TypeOK, CallType, Consuming
<1>3. ~fd \/ skipped = -1 => faults' > 0
  BY <1>1 DEF Moves, History, FaultHistory, NoFault
<1>4. ~fd' => faults' > 0
  BY <1>1, <1>3 DEF file
<1>5. CASE skipped < 0
  <2>1. fatal' = TRUE /\ Returns(FATAL, <<>>) /\ position' = position /\ faults' > 0
    BY <1>1, <1>2, <1>3, <1>5 DEF SkipReturns
  <2>2. pc' = "idle"
    BY <2>1 DEF Returns
  <2>3. StreamStep
    BY <1>1, <2>1, FailsForGood
  <2>. QED  BY <1>4, <2>2, <2>3, HistoryIsOver
<1>6. CASE skipped >= 0
  <2>1. /\ skipped' = 0 /\ position' = position + skipped /\ left' = left - skipped /\ fatal' = fatal
        /\ pc' = "discard" /\ GoesOn
    BY <1>1, <1>2, <1>6 DEF SkipReturns
  <2>2. skipped \in Nat /\ left' \in Nat
    BY <1>2, <1>6, <2>1
  <2>3. lost' => lost
    <3>1. avail' = avail /\ avail \in Nat /\ client_avail \in Nat
      BY <1>1, Numbers DEF avail, buffer, Moves
    <3>2. WindowsEnd' = WindowsEnd
      BY <1>1, <1>2, <2>1, <2>2, <3>1 DEF WindowsEnd, client
    <3>. QED  BY <1>1, <3>2, NothingMoves
  <2>4. ~lost' => skipped = 0
    BY <1>1 DEF Tracks, Moves, History, ConsumeHistory
  <2>. QED  BY <1>1, <1>4, <2>1, <2>2, <2>3, <2>4, ConsumeGoesOn
<1>. QED  BY <1>2, <1>5, <1>6

LEMMA DiscardMaps ==
    ASSUME Moves, Tracks, Discard
    PROVE  History' /\ StreamStep
<1>1. pc = "discard" /\ UNCHANGED <<copy, end_of_file, fatal, skipped>>
  BY DEF Discard, buffer
<1>2. PICK n \in 1 .. BlockSize :
        /\ FileRead(n)
        /\ \/ /\ Suffices(n)
              /\ client_avail' = n - left
              /\ position' = position + left
              /\ Returns(call.ask, <<>>)
           \/ /\ ~Suffices(n)
              /\ position' = position + n /\ left' = left - n /\ GoesOn
              /\ UNCHANGED <<pc, client_avail>>
  BY DEF Discard
<1>3. n \in Nat \ {0} /\ NoFault /\ fd /\ fd' = fd /\ n \in 1 .. Least(BlockSize, Rest)
  BY <1>2, SizesAssumption DEF FileRead
<1>4. avail = 0 /\ client_avail = 0 /\ left \in Nat \ {0} /\ position \in Nat /\ avail' = 0
  BY <1>1, Empty, Numbers DEF Moves, avail
<1>5. skipped = 0 /\ skipped' = 0
  BY <1>1 DEF Moves, Shape, Consuming
<1>6. CASE Suffices(n)
  <2>1. client_avail' = n - left /\ position' = position + left /\ Returns(call.ask, <<>>)
    BY <1>2, <1>6
  <2>2. pc' = "idle"
    BY <2>1 DEF Returns
  <2>3. WindowsEnd' = WindowsEnd + n
    BY <1>1, <1>3, <1>4, <2>1, <2>2 DEF WindowsEnd
  <2>4. lost' => lost
    BY <1>2, <1>3, <2>3, BlockIsRead
  <2>5. StreamStep
    BY <1>1, <1>3, <2>1, <2>4, ConsumesRest
  <2>. QED  BY <1>3, <2>2, <2>5, HistoryIsOver
<1>7. CASE ~Suffices(n)
  <2>1. position' = position + n /\ left' = left - n /\ GoesOn /\ UNCHANGED <<pc, client_avail>>
    BY <1>2, <1>7
  <2>2. left' \in Nat
    BY <1>3, <1>4, <1>7, <2>1 DEF Suffices
  <2>3. WindowsEnd' = WindowsEnd + n
    BY <1>1, <1>3, <1>4, <2>1 DEF WindowsEnd
  <2>4. lost' => lost
    BY <1>2, <1>3, <2>3, BlockIsRead
  <2>5. ~lost' => position' <= Total
    <3>. SUFFICES ASSUME ~lost' PROVE position' <= Total
      OBVIOUS
    <3>1. InPlace
      BY DEF Tracks, Moves, Windows
    <3>2. Begin(cursor) + offset = position + avail + client_avail
      BY <1>1, <3>1, PointerInPlace DEF Moves
    <3>3. Begin(cursor) + offset + n <= Total
      BY <1>3, <3>1, PointerInPlace, Zenon DEF Moves
    <3>. QED  BY <1>3, <1>4, <2>1, <3>2, <3>3
  <2>6. n \in Nat /\ (~fd' \/ skipped' = -1 => faults' > 0)
    BY <1>3, <1>5
  <2>. QED  BY <1>1, <1>3, <1>5, <2>1, <2>2, <2>4, <2>5, <2>6, ConsumeGoesOn
<1>. QED  BY <1>6, <1>7

LEMMA DiscardFailsMaps ==
    ASSUME Moves, Tracks, DiscardFails
    PROVE  History' /\ StreamStep
<1>1. pc = "discard" /\ FileReadFails /\ fatal' = TRUE /\ Returns(FATAL, <<>>) /\ position' = position
  BY DEF DiscardFails
<1>2. faults' > 0 /\ pc' = "idle"
  BY <1>1, ReadFailureCounts DEF Returns
<1>3. StreamStep
  BY <1>1, <1>2, FailsForGood
<1>. QED  BY <1>2, <1>3, HistoryIsOver

LEMMA DiscardNextVolumeMaps ==
    ASSUME Moves, Tracks, DiscardNextVolume
    PROVE  History' /\ StreamStep
<1>1. /\ pc = "discard" /\ ReadsNothing /\ HasNextVolume /\ Switched(cursor + 1, 0) /\ GoesOn
      /\ UNCHANGED <<pc, client, copy, position, fatal, left, skipped>>
  BY DEF DiscardNextVolume, buffer
<1>2. WindowsEnd' = WindowsEnd
  BY <1>1 DEF WindowsEnd, client, avail
<1>3. lost' => lost
  BY <1>1, <1>2, NextVolumeIsOpen
<1>4. fd' /\ NoFault /\ skipped' = 0
  BY <1>1 DEF Switched, Moves, Shape, Consuming
<1>5. position \in Nat /\ left \in Nat
  BY Numbers DEF Moves
<1>6. position' = position + 0 /\ left' = left - 0 /\ left' \in Nat
  BY <1>1, <1>5
<1>. QED  BY <1>1, <1>3, <1>4, <1>6, ConsumeGoesOn

LEMMA DiscardMeetsEndMaps ==
    ASSUME Moves, Tracks, DiscardMeetsEnd
    PROVE  History' /\ StreamStep
<1>1. /\ pc = "discard" /\ end_of_file' = TRUE /\ Returns(FATAL, <<>>)
      /\ UNCHANGED <<client, copy, position, fatal, skipped>>
  BY DEF DiscardMeetsEnd, buffer
<1>2. pc' = "idle"
  BY <1>1 DEF Returns
<1>3. (Fault \/ NoFault) /\ (UNCHANGED file \/ faults' > 0) /\ (~fd' => faults' > 0)
  BY EndCounts DEF DiscardMeetsEnd
<1>4. lost' => lost \/ faults' > 0
  <2>1. WindowsEnd' = WindowsEnd
    BY <1>1, <1>2 DEF WindowsEnd, client, avail
  <2>. QED  BY <1>3, <2>1, NothingMoves
<1>5. lost' \/ position = Stream!Beyond(before.position)
  <2>. SUFFICES ASSUME ~lost' PROVE position = Stream!Beyond(before.position)
    OBVIOUS
  <2>1. ~lost
    BY DEF Tracks
  <2>2. Pieces'
    BY DEF Moves, Windows
  <2>3. position >= Total
    <3>1. position' + avail' >= Total'
      BY <1>1, <2>2 DEF Pieces
    <3>2. avail' = 0 /\ Total' = Total /\ position \in Nat
      BY <1>1, Empty, Numbers DEF avail, Total, Moves
    <3>. QED  BY <1>1, <3>1, <3>2
  <2>4. position = before.position \/ position <= Total
    BY <1>1, <2>1 DEF Moves, History, ConsumeHistory
  <2>5. position >= before.position
    <3>1. position + left = before.position + call.ask /\ left <= call.ask /\ call.ask \in Nat
      BY <1>1, AskIsPositive DEF Moves, History, ConsumeHistory, Shape
    <3>2. position \in Nat /\ left \in Nat /\ before.position \in Nat
      BY Numbers DEF Moves
    <3>. QED  BY <3>1, <3>2
  <2>6. position \in Nat /\ before.position \in Nat /\ Total \in Nat
    BY Numbers DEF Moves
  <2>. QED  BY <2>3, <2>4, <2>5, <2>6 DEF Stream!Beyond, Stream!Size, Total
<1>6. StreamStep
  BY <1>1, <1>3, <1>4, <1>5, ConsumesRest
<1>. QED  BY <1>2, <1>3, <1>6, HistoryIsOver
-----------------------------------------------------------------------------
(* The steps of a seek. *)

LEMMA SeekCallMaps ==
    ASSUME Moves, Tracks, NEW whence \in {"set", "cur", "end"}, NEW off \in Offsets, SeekCall(whence, off)
    PROVE  History' /\ StreamStep
<1>. DEFINE c == [Nothing EXCEPT !.call = "seek", !.whence = whence, !.ask = off]
<1>1. UNCHANGED <<file, client, buffer, dataset, position, end_of_file, fatal, skipped, faults>>
  BY DEF SeekCall
<1>2. FaultHistory'
  BY <1>1 DEF FaultHistory, Moves, History, file
<1>3. CASE fatal
  <2>1. ReturnsAtOnce(c, FATAL, <<>>)
    BY <1>3 DEF SeekCall
  <2>2. c \in [call : {"seek"}, whence : {"set", "cur", "end"}, ask : Offsets, ret : {0}, data : {<<>>}]
    BY AskingToSeek, Zenon
  <2>. HIDE DEF c
  <2>3. StreamStep
    BY <1>1, <1>3, <2>1, <2>2, CallIsRefused, Zenon
  <2>4. pc' = "idle"
    BY <2>1 DEF ReturnsAtOnce
  <2>5. ~fd' => faults' > 0
    BY <1>2 DEF FaultHistory
  <2>. QED  BY <2>3, <2>4, <2>5, HistoryIsOver
<1>4. CASE ~fatal
  <2>1. Begins(c, "known")
    BY <1>4 DEF SeekCall
  <2>. HIDE DEF c
  <2>2. StreamStep
    BY <1>1, <2>1, CallBegins DEF Moves
  <2>3. pc = "idle" /\ pc' = "known" /\ before' = [position |-> position, lost |-> lost]
    BY <2>1 DEF Begins
  <2>4. before'.position = position /\ before'.lost = lost
    BY <2>3
  <2>5. History'
    BY <1>1, <1>2, <1>4, <2>3, <2>4
    DEF History, CallHistory, AheadHistory, SeekHistory, ConsumeHistory, Tracks
  <2>. QED  BY <2>2, <2>5
<1>. QED  BY <1>3, <1>4

\* A seek that goes on has not moved the place.
LEMMA SeekStaysThere ==
    ASSUME Moves, Tracks, pc \in Seeks, pc' \in Seeks, GoesOn, NoFault, UNCHANGED <<fatal, position>>,
           fd' \/ fd' = fd
    PROVE  History' /\ StreamStep
<1>1. before' = before /\ faults' = faults /\ pc # "idle" /\ pc' # "idle"
  BY DEF GoesOn, args, NoFault, Seeks
<1>2. StreamStep
  BY <1>1, WithinCall DEF Moves
<1>3. skipped' = 0
  BY DEF Moves, Shape, Consuming, Seeks
<1>4. FaultHistory' /\ CallHistory' /\ SeekHistory'
  BY <1>1, <1>3 DEF Moves, Tracks, History, FaultHistory, CallHistory, SeekHistory
<1>5. pc' # "ahead" /\ pc' \notin {"skip", "discard"}
  BY DEF Seeks
<1>. QED  BY <1>2, <1>4, <1>5 DEF History, AheadHistory, ConsumeHistory

LEMMA PassKnownMaps ==
    ASSUME Moves, Tracks, PassKnown
    PROVE  History' /\ StreamStep
<1>1. pc \in Seeks /\ pc' \in Seeks /\ GoesOn /\ NoFault /\ UNCHANGED <<fatal, position>> /\ fd' = fd
  BY DEF PassKnown, Seeks, file
<1>. QED  BY <1>1, SeekStaysThere

LEMMA MoveOpens ==
    ASSUME NEW v, NEW o, MovesTo(v, o)
    PROVE  fd' /\ NoFault
BY DEF MovesTo, Switched

LEMMA SizeVolumeMaps ==
    ASSUME Moves, Tracks, SizeVolume
    PROVE  History' /\ StreamStep
<1>1. pc \in Seeks /\ GoesOn /\ UNCHANGED <<fatal, position>> /\ MovesTo(left, SizeOf(left))
  BY SizesInSeek DEF SizeVolume
<1>2. fd' /\ NoFault
  BY <1>1, MoveOpens
<1>3. pc' \in Seeks
  BY DEF SizeVolume, Seeks
<1>. QED  BY <1>1, <1>2, <1>3, SeekStaysThere

\* Moving the file pointer fails for a reason.
LEMMA MoveFailsForAReason ==
    ASSUME Moves, NEW v, NEW o \in Int, MoveFails(v, o)
    PROVE  /\ Fault \/ NoFault
           /\ ~disk_like \/ faults' > 0 \/ o < 0
           /\ ~fd' => faults' > 0
<1>1. ~fd => faults > 0
  BY DEF Moves, History, FaultHistory
<1>2. CASE SwitchFails(v)
  <2>1. Fault
    BY <1>2 DEF SwitchFails
  <2>. QED  BY <2>1, FaultsAdd DEF Moves
<1>3. CASE ~SwitchFails(v)
  <2>1. IF disk_like /\ o >= 0 /\ (cursor = v => fd) THEN Fault ELSE NoFault
    BY <1>3 DEF MoveFails
  <2>2. (Fault \/ NoFault) /\ (faults > 0 => faults' > 0)
    BY <2>1, FaultsAdd DEF Moves
  <2>3. fd' \/ fd' = fd
    BY <1>3 DEF MoveFails, file
  <2>4. CASE disk_like /\ o >= 0 /\ (cursor = v => fd)
    BY <2>1, <2>2, <2>4, FaultsAdd DEF Moves
  <2>5. CASE ~(disk_like /\ o >= 0 /\ (cursor = v => fd))
    BY <1>1, <2>2, <2>3, <2>5
  <2>6. ~fd' => faults' > 0
    BY <1>1, <2>2, <2>3
  <2>. QED  BY <2>2, <2>4, <2>5, <2>6
<1>. QED  BY <1>2, <1>3

LEMMA SizeFailsMaps ==
    ASSUME Moves, Tracks, SizeFails
    PROVE  History' /\ StreamStep
<1>1. pc \in Seeks /\ MoveFails(left, SizeOf(left)) /\ Returns(FATAL, <<>>) /\ UNCHANGED <<fatal, position>>
  BY SizesInSeek DEF SizeFails, SeekFails
<1>2. SizeOf(left) \in Nat
  <2>1. left \in Volumes
    BY <1>1, SeekKnows DEF Moves
  <2>. QED  BY <2>1, VolumesFollow DEF Moves, Shape, TypeOK, StreamType
<1>3. (Fault \/ NoFault) /\ (~disk_like \/ faults' > 0) /\ (~fd' => faults' > 0)
  BY <1>1, <1>2, MoveFailsForAReason
<1>4. StreamStep
  BY <1>1, <1>3, SeeksInVain
<1>5. pc' = "idle"
  BY <1>1 DEF Returns
<1>. QED  BY <1>3, <1>4, <1>5, HistoryIsOver

\* Counted from the end, the goal is what FromEnd is.
LEMMA FromEndIsGoal ==
    ASSUME Shape, pc = "set", call.whence = "end"
    PROVE  FromEnd = SeekGoal /\ SeekGoal \in Int
<1>1. Known(left) /\ left = Len(ends)
  BY DEF Shape, Seeking
<1>2. left \in Volumes /\ call.ask \in Int
  BY SeekKnows DEF Seeks
<1>3. Begin(left) + SizeOf(left) = Total /\ Begin(left) \in Nat /\ SizeOf(left) \in Nat /\ Total \in Nat
  BY <1>1, <1>2, VolumesFollow DEF Shape, TypeOK, StreamType
<1>4. FromEnd = Begin(left) + SizeOf(left) + call.ask
  BY <1>1 DEF FromEnd, Known
<1>. QED  BY <1>2, <1>3, <1>4 DEF SeekGoal

LEMMA ArriveFailsMaps ==
    ASSUME Moves, Tracks, ArriveFails
    PROVE  History' /\ StreamStep
<1>1. PICK v \in VolumeSet : InRange(v) /\ SeekFails(v, OffsetSet(v))
  BY DEF ArriveFails
<1>2. pc = "set" /\ pc \in Seeks
  BY DEF ArriveFails, Seeks
<1>3. MoveFails(v, OffsetSet(v)) /\ Returns(FATAL, <<>>) /\ UNCHANGED <<fatal, position>>
  BY <1>1 DEF SeekFails
<1>4. v \in Volumes /\ OffsetSet(v) \in Int /\ begin_position[v] = Begin(v) /\ total_size[v] = SizeOf(v)
  BY <1>2, Arrivals DEF Moves
<1>5. (Fault \/ NoFault) /\ (~disk_like \/ faults' > 0 \/ OffsetSet(v) < 0) /\ (~fd' => faults' > 0)
  BY <1>3, <1>4, MoveFailsForAReason
<1>6. Begin(v) \in Nat /\ SizeOf(v) \in Nat /\ (v = 1 => Begin(v) = 0)
  BY <1>4, VolumesFollow DEF Moves, Shape, TypeOK, StreamType
<1>7. ASSUME OffsetSet(v) < 0
      PROVE  SeekGoal \notin 0 .. Total
  <2>1. call.whence = "end"
    BY <1>1, <1>4, <1>6, <1>7 DEF InRange
  <2>2. FromEnd = SeekGoal /\ SeekGoal \in Int
    BY <1>2, <2>1, FromEndIsGoal DEF Moves
  <2>3. v = 1 \/ Begin(v) <= FromEnd
    BY <1>1, <1>4, <2>1 DEF VolumeSet, VolumeFromEnd
  <2>4. OffsetSet(v) = FromEnd - Begin(v) + (IF FromEnd < 0 THEN SizeOf(v) ELSE 0)
    BY <1>4, <2>1 DEF OffsetSet
  <2>5. SeekGoal < 0
    BY <1>6, <1>7, <2>2, <2>3, <2>4
  <2>. QED  BY <2>2, <2>5
<1>8. StreamStep
  BY <1>2, <1>3, <1>5, <1>7, SeeksInVain
<1>9. pc' = "idle"
  BY <1>3 DEF Returns
<1>. QED  BY <1>5, <1>8, <1>9, HistoryIsOver

LEMMA OutOfRangeMaps ==
    ASSUME Moves, Tracks, OutOfRange
    PROVE  History' /\ StreamStep
<1>1. PICK v \in VolumeSet : ~InRange(v)
  BY DEF OutOfRange
<1>2. pc = "set" /\ pc \in Seeks /\ Returns(FATAL, <<>>) /\ UNCHANGED <<file, position, fatal, faults>>
  BY DEF OutOfRange, Seeks
<1>3. call.whence # "end" /\ v = left
  BY <1>1 DEF InRange, VolumeSet
<1>4. /\ left \in Volumes /\ left \in Nat \ {0} /\ Goal \in Int /\ Known(left)
      /\ left > 1 => Goal >= Begin(left) - 1
      /\ left = Len(ends) \/ Goal < ends[left] - 1
  BY <1>2, <1>3, SeekKnows DEF Moves, Shape, Seeking
<1>5. /\ Begin(left) \in Nat /\ SizeOf(left) \in Nat /\ Begin(left) + SizeOf(left) = ends[left]
      /\ ends[left] \in Nat /\ Total \in Nat /\ (left = Len(ends) => ends[left] = Total)
      /\ (left = 1 => Begin(left) = 0)
  BY <1>4, VolumesFollow DEF Moves, Shape, TypeOK, StreamType
<1>6. Goal - Begin(left) \notin 0 .. SizeOf(left)
  BY <1>1, <1>3, <1>4 DEF InRange, OffsetSet, Known
<1>7. SeekGoal = Goal
  BY <1>3 DEF SeekGoal
<1>8. SeekGoal \notin 0 .. Total \/ \E w \in 1 .. Len(ends) - 1 : SeekGoal = ends[w] - 1
  <2>1. CASE Goal < Begin(left)
    <3>1. CASE left = 1
      BY <1>4, <1>5, <1>7, <2>1, <3>1
    <3>2. CASE left # 1
      <4>1. Goal = Begin(left) - 1
        BY <1>4, <1>5, <2>1, <3>2
      <4>2. left - 1 \in 1 .. Len(ends) - 1 /\ Begin(left) = ends[left - 1]
        BY <1>4, <3>2, VolumesFollow DEF Begin, Volumes, Moves, Shape, TypeOK, StreamType
      <4>. QED  BY <1>7, <4>1, <4>2
    <3>. QED  BY <3>1, <3>2
  <2>2. CASE Goal > ends[left]
    BY <1>4, <1>5, <1>7, <2>2
  <2>3. Goal < Begin(left) \/ Goal > ends[left]
    <3>1. \A g, b, n \in Int : g - b \notin 0 .. n => g < b \/ g > b + n
      OBVIOUS
    <3>2. Goal < Begin(left) \/ Goal > Begin(left) + SizeOf(left)
      <4>1. Goal \in Int /\ Begin(left) \in Int /\ SizeOf(left) \in Int
        BY <1>4, <1>5
      <4>. QED  BY <3>1, <4>1, <1>6, Zenon
    <3>. QED  BY <3>2, <1>5, Zenon
  <2>. QED  BY <2>1, <2>2, <2>3
<1>9. StreamStep
  BY <1>2, <1>8, SeeksInVain DEF NoFault
<1>10. pc' = "idle"
  BY <1>2 DEF Returns
<1>11. ~fd' => faults' > 0
  BY <1>2 DEF Moves, History, FaultHistory, file
<1>. QED  BY <1>9, <1>10, <1>11, HistoryIsOver

LEMMA ArriveMaps ==
    ASSUME Moves, Arrive, ~lost'
    PROVE  History' /\ StreamStep
<1>1. PICK v \in VolumeSet : ArriveAt(v)
  BY DEF Arrive
<1>2. pc = "set" /\ pc \in Seeks
  BY DEF Arrive, Seeks
<1>3. v \in Volumes /\ OffsetSet(v) \in Int /\ begin_position[v] = Begin(v)
  BY <1>2, Arrivals DEF Moves
<1>4. /\ MovesTo(v, OffsetSet(v)) /\ position' = begin_position[v] + OffsetSet(v)
      /\ Returns(position', <<>>) /\ UNCHANGED fatal
  BY <1>1 DEF ArriveAt
<1>5. fd' /\ NoFault
  BY <1>4, MoveOpens
<1>6. Begin(v) \in Nat
  BY <1>3, VolumesFollow DEF Moves, Shape, TypeOK, StreamType
<1>7. position' = SeekGoal \/ (SeekGoal < 0 /\ call.whence = "end")
  <2>1. CASE call.whence = "end"
    <3>1. FromEnd = SeekGoal /\ SeekGoal \in Int
      BY <1>2, <2>1, FromEndIsGoal DEF Moves
    <3>2. FromEnd >= 0 => OffsetSet(v) = FromEnd - Begin(v) + 0
      BY <1>3, <2>1, <3>1 DEF OffsetSet
    <3>. QED  BY <1>3, <1>4, <1>6, <2>1, <3>1, <3>2
  <2>2. CASE call.whence # "end"
    <3>1. OffsetSet(v) = Goal - Begin(v) /\ SeekGoal = Goal /\ Goal \in Int
      BY <1>2, <1>3, <2>2, SeekKnows DEF OffsetSet, SeekGoal, Moves
    <3>. QED  BY <1>3, <1>4, <1>6, <3>1
  <2>. QED  BY <2>1, <2>2
<1>8. StreamStep
  BY <1>2, <1>4, <1>5, <1>7, SeekArrives
<1>9. pc' = "idle"
  BY <1>4 DEF Returns
<1>. QED  BY <1>5, <1>8, <1>9, HistoryIsOver
-----------------------------------------------------------------------------
(* The refinement. *)

LEMMA InitHistory == Init => History /\ Stream!Init
<1>. SUFFICES ASSUME Init PROVE History /\ Stream!Init
  OBVIOUS
<1>1. History
  BY DEF Init, History, FaultHistory, CallHistory, AheadHistory, SeekHistory, ConsumeHistory, Seeks
<1>2. reply = Stream!Nothing
  <2>1. Nothing = Stream!Nothing
    BY DEF Nothing, Stream!Nothing
  <2>. QED  BY <2>1, Zenon DEF Init
<1>3. Stream!Init
  BY <1>2 DEF Init, Stream!Init
<1>. QED  BY <1>1, <1>3

LEMMA StutterMaps == History /\ UNCHANGED vars => History' /\ StreamStep
<1>. SUFFICES ASSUME History, UNCHANGED vars PROVE History' /\ StreamStep
  OBVIOUS
<1>1. UNCHANGED <<ends, disk_like, use_lseek, cursor, fd, position, fatal, pc, call, before, left, skipped, reply,
                  faults, lost>>
  BY DEF vars, file, args
<1>2. Crossed' = Crossed /\ Total' = Total
  BY <1>1 DEF Crossed, Total
<1>3. FaultHistory' /\ CallHistory' /\ AheadHistory' /\ SeekHistory'
  BY <1>1 DEF History, FaultHistory, CallHistory, AheadHistory, SeekHistory
<1>4. ConsumeHistory'
  BY <1>1, <1>2 DEF History, ConsumeHistory
<1>5. StreamStep
  BY <1>1 DEF StreamStep, Stream!vars
<1>. QED  BY <1>3, <1>4, <1>5 DEF History

LEMMA NextMaps ==
    ASSUME Shape, Windows, History, Shape', Windows', [Next]_vars
    PROVE  History' /\ StreamStep
<1>. SUFFICES ASSUME Next PROVE History' /\ StreamStep
  BY StutterMaps
<1>1. Moves
  BY DEF Next, Moves
<1>2. CASE Arrive /\ lost' = FALSE
  BY <1>1, <1>2, ArriveMaps
<1>3. CASE (Calls \/ Step) /\ lost' = (lost \/ ~InPlace')
  <2>1. Tracks
    <3>1. lost \in BOOLEAN
      BY DEF Shape, TypeOK, StreamType
    <3>. QED  BY <1>3, <3>1 DEF Tracks
  <2>2. CASE Calls
    BY <1>1, <2>1, <2>2, AheadMaps, ConsumeMaps, SeekCallMaps DEF Calls
  <2>3. CASE AheadFromCopy \/ RollBack \/ AheadAfterEnd \/ ReadBlock \/ ReadBlockFails \/ NextVolume
             \/ AheadMeetsEnd \/ CopyMore \/ NoMemory
    BY <1>1, <2>1, <2>3, AheadFromCopyMaps, RollBackMaps, AheadAfterEndMaps, ReadBlockMaps, ReadBlockFailsMaps,
       NextVolumeMaps, AheadMeetsEndMaps, CopyMoreMaps, NoMemoryMaps
  <2>4. CASE SkipChunk \/ SkipFails \/ CannotSkip \/ Discard \/ DiscardFails \/ DiscardNextVolume \/ DiscardMeetsEnd
    BY <1>1, <2>1, <2>4, SkipChunkMaps, SkipFailsMaps, CannotSkipMaps, DiscardMaps, DiscardFailsMaps,
       DiscardNextVolumeMaps, DiscardMeetsEndMaps
  <2>5. CASE PassKnown \/ SizeVolume \/ SizeFails \/ ArriveFails \/ OutOfRange
    BY <1>1, <2>1, <2>5, PassKnownMaps, SizeVolumeMaps, SizeFailsMaps, ArriveFailsMaps, OutOfRangeMaps
  <2>. QED  BY <1>3, <2>2, <2>3, <2>4, <2>5 DEF Step
<1>. QED  BY <1>2, <1>3, Zenon DEF Next

\* Whatever the volumes, the sizes of the blocks, the requests and the failures, a decoder
\* sees one stream with a place in it: __archive_read_filter_ahead, _consume and _seek do
\* together what ByteStream promises of each call, and nothing else.
THEOREM ReadsAreOneStream == Spec => ReadsOneStream
<1>1. Init => Shape /\ Windows /\ History /\ Stream!Init
  BY InitShape, InitWindows, InitHistory
<1>2. Shape /\ Windows /\ History /\ [Next]_vars => (Shape /\ Windows /\ History)'
  BY NextKeepsShape, NextKeepsWindows, NextMaps
<1>3. Shape /\ Windows /\ History /\ (Shape /\ Windows /\ History)' /\ [Next]_vars => [Stream!Next]_(Stream!vars)
  BY NextMaps DEF StreamStep
<1>. QED  BY <1>1, <1>2, <1>3, PTL DEF Spec, ReadsOneStream, Stream!Spec
=============================================================================
