----------------------------- MODULE ReadAhead -----------------------------
(***************************************************************************)
(* lib/libarchive/archive_read.c: how the first filter of the pipeline     *)
(* hands out the client's data.  It keeps two windows on the stream: the   *)
(* rest of the block the client has read last, and a copy buffer for what  *)
(* does not lie in one block.  Below it is the client of                   *)
(* archive_read_open_filename.c, which reads a file, or several files that *)
(* are volumes of one stream.                                              *)
(*                                                                         *)
(* A byte of the stream is its position; memory is what bytes it holds.    *)
(* A call is an action that begins it, one for each round of its loop, and *)
(* the answer in reply.  At most MaxFaults calls of the system fail.       *)
(* Volumes are counted from 1.                                             *)
(***************************************************************************)
EXTENDS Integers, Sequences

CONSTANTS
    Layouts,    \* the streams: where the volumes of each end
    BlockSize,  \* of the client's buffer
    SkipLimit,  \* the 1 GiB that are skipped at once
    Asks,       \* how much is asked for
    Offsets,    \* where seeks lead
    MaxBeyond,  \* how far beyond the end a consume may lead
    MaxFaults

ASSUME SizesAssumption ==
    /\ BlockSize \in Nat \ {0} /\ SkipLimit \in Nat \ {0}
    /\ Asks \subseteq Nat \ {0} /\ Offsets \subseteq Int
    /\ MaxBeyond \in Nat /\ MaxFaults \in Nat
ASSUME LayoutsAssumption ==
    \A l \in Layouts : l \in Seq(Nat) /\ l # <<>> /\ \A v, w \in DOMAIN l : v <= w => l[v] <= l[w]

VARIABLES
    ends,           \* where the volumes end
    disk_like,      \* the volumes are files on a disk
    use_lseek,      \* of each volume: mine->use_lseek
    cursor,         \* the volume that is open
    fd,             \* it could be opened
    offset,         \* of its file pointer
    client_buff,    \* the block read last: the byte it begins with
    client_total,   \* how many bytes it has
    client_next,    \* where the client's window begins in it
    client_avail,   \* how many bytes the window has
    buffer_size,    \* of the copy buffer
    next,           \* where the copy begins in it
    copy,           \* the copy, which is avail bytes
    position,       \* of the next byte that is not consumed
    end_of_file,
    fatal,
    begin_position, \* of each volume, -1 if not known
    total_size,     \* of each volume, -1 if not known
    pc,             \* where the call is
    call,           \* its arguments
    left,           \* how much of a consume is left, or the volume a seek is at
    skipped,        \* what client_skip_proxy has skipped
    reply,          \* what the last call returned
    faults,         \* failures so far
    lost,           \* the file pointer is not where the windows end, since when a seek succeeded last
    before          \* the place and whether it was lost when the call began

file == <<use_lseek, cursor, fd, offset>>
client == <<client_buff, client_total, client_next, client_avail>>
buffer == <<buffer_size, next, copy>>
dataset == <<begin_position, total_size>>
args == <<call, before>>
vars == <<ends, disk_like, file, client, buffer, dataset, position, end_of_file, fatal, pc, args, left, skipped,
          reply, faults, lost>>

FATAL == -30

Volumes == 1 .. Len(ends)
Begin(v) == IF v = 1 THEN 0 ELSE ends[v - 1]
SizeOf(v) == ends[v] - Begin(v)
Total == ends[Len(ends)]

Bytes(from, n) == [k \in 1 .. n |-> from + k - 1]
Least(a, b) == IF a < b THEN a ELSE b
avail == Len(copy)

AtStart == [position |-> 0, lost |-> FALSE]
Nothing == [call |-> "none", whence |-> "", ask |-> 0, ret |-> 0, data |-> <<>>]

\* The file pointer is where the windows end, in the volume or behind the last one.
InPlace ==
    /\ fd
    /\ Begin(cursor) + offset = position + avail + client_avail + (IF pc = "skip" THEN skipped ELSE 0)
    /\ offset <= SizeOf(cursor) \/ cursor = Len(ends)

StreamType == ends \in Layouts /\ disk_like \in BOOLEAN /\ lost \in BOOLEAN
FileType ==
    /\ use_lseek \in [Volumes -> BOOLEAN] /\ cursor \in Volumes
    /\ fd \in BOOLEAN /\ offset \in Nat
    /\ faults \in 0 .. MaxFaults
WindowsType ==
    /\ client_buff \in Nat /\ client_total \in Nat /\ client_next \in Nat /\ client_avail \in Nat
    /\ buffer_size \in Nat /\ next \in Nat /\ copy \in Seq(Nat)
    /\ position \in Nat /\ end_of_file \in BOOLEAN /\ fatal \in BOOLEAN
DatasetType ==
    begin_position \in [Volumes -> Nat \cup {-1}] /\ total_size \in [Volumes -> Nat \cup {-1}]
CallType ==
    /\ pc \in {"idle", "ahead", "skip", "discard", "known", "size", "set"}
    /\ left \in Nat /\ skipped \in Nat \cup {-1}
TypeOK == StreamType /\ FileType /\ WindowsType /\ DatasetType /\ CallType

Init ==
    /\ ends \in Layouts
    /\ disk_like \in BOOLEAN
    /\ use_lseek = [v \in Volumes |-> v = 1 /\ disk_like]
    /\ cursor = 1 /\ fd = TRUE /\ offset = 0
    /\ client_buff = 0 /\ client_total = 0 /\ client_next = 0 /\ client_avail = 0
    /\ buffer_size = 0 /\ next = 0 /\ copy = <<>>
    /\ position = 0 /\ end_of_file = FALSE /\ fatal = FALSE
    /\ begin_position = [v \in Volumes |-> IF v = 1 THEN 0 ELSE -1]
    /\ total_size = [v \in Volumes |-> -1]
    /\ pc = "idle" /\ call = Nothing /\ left = 0 /\ skipped = 0
    /\ reply = Nothing
    /\ faults = 0 /\ lost = FALSE
    /\ before = AtStart
-----------------------------------------------------------------------------
(* Calls of the client. *)

Fault == faults < MaxFaults /\ faults' = faults + 1
NoFault == faults' = faults

\* The call c begins at step, or it returns ret with the bytes d at once.
Begins(c, step) ==
    /\ pc = "idle" /\ pc' = step
    /\ call' = c
    /\ before' = [position |-> position, lost |-> lost]
    /\ reply' = Nothing
ReturnsAtOnce(c, ret, d) ==
    /\ pc = "idle"
    /\ reply' = [c EXCEPT !.ret = ret, !.data = d]
    /\ UNCHANGED <<pc, args>>

\* The call returns ret with the bytes d.
Returns(ret, d) ==
    /\ pc' = "idle"
    /\ reply' = [call EXCEPT !.ret = ret, !.data = d]
    /\ call' = Nothing
    /\ before' = AtStart
GoesOn == UNCHANGED <<reply, args>>

\* file_read: a block of n bytes from the file pointer on; none at the end of the volume.
Rest == IF offset < SizeOf(cursor) THEN SizeOf(cursor) - offset ELSE 0
FileRead(n) ==
    /\ fd
    /\ n \in 1 .. Least(BlockSize, Rest)
    /\ offset' = offset + n
    /\ client_buff' = Begin(cursor) + offset
    /\ NoFault
    /\ UNCHANGED <<use_lseek, cursor, fd>>
ReadsNothing == fd /\ Rest = 0

\* A file that could not be opened cannot be read either.
FileReadFails == (IF fd THEN Fault ELSE NoFault) /\ UNCHANGED file

\* client_switch_proxy to another volume v, which closes the one that is open; o is where
\* the file pointer is moved then.
Switched(v, o) ==
    /\ cursor' = v
    /\ fd' = TRUE
    /\ offset' = o
    /\ use_lseek' = [use_lseek EXCEPT ![v] = @ \/ disk_like]
    /\ NoFault
SwitchFails(v) ==
    /\ Fault
    /\ cursor' = v
    /\ fd' = FALSE
    /\ offset' = 0
    /\ UNCHANGED use_lseek
-----------------------------------------------------------------------------
(* __archive_read_filter_ahead. *)

Ahead(min) ==
    LET c == [Nothing EXCEPT !.call = "ahead", !.ask = min]
    IN  /\ IF fatal
           THEN ReturnsAtOnce(c, FATAL, <<>>)
           ELSE Begins(c, "ahead")
        /\ UNCHANGED <<file, client, buffer, dataset, position, end_of_file, fatal, left, skipped, faults>>

HasCopy == avail >= call.ask /\ avail > 0

\* What is in the copy buffer is still in the client's.
CanRollBack == client_total >= client_avail + avail /\ client_avail + avail >= call.ask

AheadFromCopy ==
    /\ pc = "ahead" /\ HasCopy
    /\ Returns(avail, copy)
    /\ UNCHANGED <<file, client, buffer, dataset, position, end_of_file, fatal, left, skipped, faults>>

\* Mutant: does not move the client's window back.
RollBackHalf ==
    /\ pc = "ahead" /\ ~HasCopy /\ CanRollBack
    /\ client_avail' = client_avail + avail
    /\ copy' = <<>> /\ next' = 0
    /\ Returns(client_avail', Bytes(client_buff + client_next, client_avail'))
    /\ UNCHANGED <<file, client_buff, client_total, client_next, buffer_size, dataset, position, end_of_file, fatal,
                   left, skipped, faults>>

RollBack ==
    /\ pc = "ahead" /\ ~HasCopy /\ CanRollBack
    /\ client_avail' = client_avail + avail
    /\ client_next' = client_next - avail
    /\ copy' = <<>> /\ next' = 0
    /\ Returns(client_avail', Bytes(client_buff + client_next', client_avail'))
    /\ UNCHANGED <<file, client_buff, client_total, buffer_size, dataset, position, end_of_file, fatal,
                   left, skipped, faults>>

NeedsMore == pc = "ahead" /\ ~HasCopy /\ ~CanRollBack

\* Mutant: leaves the copy where it is.
NeverMoved == next

\* The copy is moved to the front when the rest of what is asked for does not fit behind it;
\* this is where next is then.
Moved == IF next + call.ask > buffer_size THEN 0 ELSE next
NeedsBlock == NeedsMore /\ client_avail = 0 /\ next' = Moved

AheadAfterEnd ==
    /\ NeedsBlock /\ end_of_file
    /\ Returns(0, <<>>)
    /\ UNCHANGED <<file, client, buffer_size, copy, dataset, position, end_of_file, fatal, left, skipped, faults>>

ReadBlock ==
    /\ NeedsBlock /\ ~end_of_file
    /\ \E n \in 1 .. BlockSize :
        /\ FileRead(n)
        /\ client_total' = n /\ client_avail' = n
    /\ client_next' = 0
    /\ GoesOn
    /\ UNCHANGED <<pc, buffer_size, copy, dataset, position, end_of_file, fatal, left, skipped>>

EmptyClient ==
    /\ client_total' = 0 /\ client_next' = 0 /\ client_avail' = 0
    /\ UNCHANGED client_buff

ReadBlockFails ==
    /\ NeedsBlock /\ ~end_of_file
    /\ FileReadFails
    /\ EmptyClient
    /\ fatal' = TRUE
    /\ Returns(FATAL, <<>>)
    /\ UNCHANGED <<buffer_size, copy, dataset, position, end_of_file, left, skipped>>

HasNextVolume == cursor < Len(ends)

NextVolume ==
    /\ NeedsBlock /\ ~end_of_file
    /\ ReadsNothing /\ HasNextVolume
    /\ Switched(cursor + 1, 0)
    /\ GoesOn
    /\ UNCHANGED <<pc, client, buffer_size, copy, dataset, position, end_of_file, fatal, left, skipped>>

\* There is no other volume, or it cannot be opened.
AheadMeetsEnd ==
    /\ NeedsBlock /\ ~end_of_file
    /\ ReadsNothing
    /\ IF HasNextVolume THEN SwitchFails(cursor + 1) ELSE NoFault /\ UNCHANGED file
    /\ EmptyClient
    /\ end_of_file' = TRUE
    /\ Returns(avail, <<>>)
    /\ UNCHANGED <<buffer_size, copy, dataset, position, fatal, left, skipped>>

\* The buffer is doubled until min fits into it: its only new size.
Grown(s, min) ==
    IF s >= min THEN {s}
    ELSE IF s = 0 THEN {min}
    ELSE {t \in min .. 2 * min - 1 : \E k \in 1 .. min : t = s * 2 ^ k}

\* Mutant: fills the buffer up as if it were free.
RoomOfAll(size, at) == Least(size - at, client_avail)

\* How much is copied into a buffer of that size behind the copy, which is then at at.
Room(size, at) == Least(Least(size - (at + avail), call.ask - avail), client_avail)

CopyMore ==
    /\ NeedsMore /\ client_avail > 0
    /\ buffer_size' \in Grown(buffer_size, call.ask)
    /\ next' = IF call.ask > buffer_size THEN 0 ELSE Moved
    /\ LET n == Room(buffer_size', next')
       IN  /\ copy' = copy \o Bytes(client_buff + client_next, n)
           /\ client_next' = client_next + n
           /\ client_avail' = client_avail - n
    /\ NoFault /\ GoesOn
    /\ UNCHANGED <<pc, file, client_buff, client_total, dataset, position, end_of_file, fatal, left, skipped>>

NoMemory ==
    /\ NeedsMore /\ client_avail > 0 /\ call.ask > buffer_size
    /\ Fault
    /\ next' = Moved
    /\ fatal' = TRUE
    /\ Returns(FATAL, <<>>)
    /\ UNCHANGED <<file, client, buffer_size, copy, dataset, position, end_of_file, left, skipped>>
-----------------------------------------------------------------------------
(* __archive_read_filter_consume and advance_file_pointer. *)

\* What a consume takes out of the client's window, after the copy.
Taken(request) == Least(request - Least(request, avail), client_avail)

Consume(request) ==
    LET c == [Nothing EXCEPT !.call = "consume", !.ask = request]
        fromCopy == Least(request, avail)
        rest == request - fromCopy - Taken(request)
    IN  /\ position + request <= Total + MaxBeyond
        /\ IF fatal
           THEN ReturnsAtOnce(c, FATAL, <<>>) /\ UNCHANGED <<buffer, client, position, left>>
           ELSE /\ next' = next + fromCopy
                /\ copy' = SubSeq(copy, fromCopy + 1, avail)
                /\ client_next' = client_next + Taken(request)
                /\ client_avail' = client_avail - Taken(request)
                /\ position' = position + fromCopy + Taken(request)
                /\ left' = rest
                /\ IF rest = 0 THEN ReturnsAtOnce(c, request, <<>>)
                               ELSE Begins(c, "skip")
                /\ UNCHANGED <<buffer_size, client_buff, client_total>>
        /\ UNCHANGED <<skipped, file, dataset, end_of_file, fatal, faults>>

\* client_skip_proxy has skipped n in all: it has failed, or it was all that is left, or less.
SkipReturns(n) ==
    /\ skipped' = 0
    /\ IF n < 0
       THEN fatal' = TRUE /\ Returns(FATAL, <<>>) /\ left' = 0 /\ UNCHANGED position
       ELSE /\ position' = position + n
            /\ left' = left - n
            /\ UNCHANGED fatal
            /\ IF left = n THEN Returns(call.ask, <<>>) ELSE pc' = "discard" /\ GoesOn

\* file_skip_lseek moves the file pointer, beyond the end, too.
SkipChunk ==
    LET ask == Least(left - skipped, SkipLimit)
    IN  /\ pc = "skip" /\ use_lseek[cursor] /\ fd
        /\ offset' = offset + ask
        /\ NoFault
        /\ IF ask = left - skipped
           THEN SkipReturns(left)
           ELSE skipped' = skipped + ask /\ GoesOn /\ UNCHANGED <<pc, position, left, fatal>>
        /\ UNCHANGED <<use_lseek, cursor, fd, client, buffer, dataset, end_of_file>>

\* Its -1 counts as bytes that were skipped.
SkipFails ==
    /\ pc = "skip" /\ use_lseek[cursor]
    /\ IF fd THEN Fault ELSE NoFault
    /\ use_lseek' = [use_lseek EXCEPT ![cursor] = FALSE]
    /\ skipped' = skipped - 1
    /\ GoesOn
    /\ UNCHANGED <<pc, cursor, fd, offset, client, buffer, dataset, position, end_of_file, fatal, left>>

CannotSkip ==
    /\ pc = "skip" /\ ~use_lseek[cursor]
    /\ SkipReturns(skipped)
    /\ NoFault
    /\ UNCHANGED <<file, client, buffer, dataset, end_of_file>>

\* Mutant: a block that is as long as what is left is passed over as a whole.
DiscardedToo(n) == n > left

\* A block of n bytes ends the consume.
Suffices(n) == n >= left

Discard ==
    /\ pc = "discard"
    /\ \E n \in 1 .. BlockSize :
        /\ FileRead(n)
        /\ \/ /\ Suffices(n)
              /\ client_next' = left /\ client_avail' = n - left /\ client_total' = n
              /\ position' = position + left
              /\ left' = 0
              /\ Returns(call.ask, <<>>)
           \/ /\ ~Suffices(n)
              /\ position' = position + n
              /\ left' = left - n
              /\ GoesOn
              /\ UNCHANGED <<pc, client_total, client_next, client_avail>>
    /\ UNCHANGED <<buffer, dataset, end_of_file, fatal, skipped>>

DiscardFails ==
    /\ pc = "discard"
    /\ FileReadFails
    /\ fatal' = TRUE
    /\ left' = 0
    /\ Returns(FATAL, <<>>)
    /\ UNCHANGED <<client, buffer, dataset, position, end_of_file, skipped>>

DiscardNextVolume ==
    /\ pc = "discard"
    /\ ReadsNothing /\ HasNextVolume
    /\ Switched(cursor + 1, 0)
    /\ GoesOn
    /\ UNCHANGED <<pc, client, buffer, dataset, position, end_of_file, fatal, left, skipped>>

DiscardMeetsEnd ==
    /\ pc = "discard"
    /\ ReadsNothing
    /\ IF HasNextVolume THEN SwitchFails(cursor + 1) ELSE NoFault /\ UNCHANGED file
    /\ end_of_file' = TRUE
    /\ left' = 0
    /\ Returns(FATAL, <<>>)
    /\ UNCHANGED <<client, buffer, dataset, position, fatal, skipped>>
-----------------------------------------------------------------------------
(* __archive_read_filter_seek; left is its cursor. *)

SeekCall(whence, off) ==
    LET c == [Nothing EXCEPT !.call = "seek", !.whence = whence, !.ask = off]
    IN  /\ IF fatal
           THEN ReturnsAtOnce(c, FATAL, <<>>) /\ UNCHANGED left
           ELSE Begins(c, "known") /\ left' = 1
        /\ UNCHANGED <<file, client, buffer, dataset, position, end_of_file, fatal, skipped, faults>>

\* Where a seek that counts from the start or from the place leads.
Goal == IF call.whence = "cur" THEN call.ask + position ELSE call.ask

\* The goal is in a volume that begins at b and has n bytes.
Reaches(b, n) == call.whence # "end" /\ b + n - 1 > Goal

Passed(v) ==
    /\ begin_position[v] >= 0 /\ total_size[v] >= 0
    /\ ~Reaches(begin_position[v], total_size[v])
    /\ v < Len(ends)

\* A volume whose size is known and that ends before the goal.
PassKnown ==
    /\ pc = "known" /\ Passed(left)
    /\ begin_position' = [begin_position EXCEPT ![left + 1] = begin_position[left] + total_size[left]]
    /\ left' = left + 1
    /\ NoFault /\ GoesOn
    /\ UNCHANGED <<pc, file, client, buffer, total_size, position, end_of_file, fatal, skipped>>

\* client_switch_proxy to v and client_seek_proxy to o in it.
MovesTo(v, o) ==
    /\ disk_like /\ o >= 0
    /\ IF cursor = v
       THEN fd /\ offset' = o /\ NoFault /\ UNCHANGED <<use_lseek, cursor, fd>>
       ELSE Switched(v, o)

\* The volume cannot be opened, or its file pointer cannot be moved.
MoveFails(v, o) ==
    \/ cursor # v /\ SwitchFails(v)
    \/ /\ IF disk_like /\ o >= 0 /\ (cursor = v => fd) THEN Fault ELSE NoFault
       /\ IF cursor = v
          THEN UNCHANGED file
          ELSE /\ cursor' = v /\ fd' = TRUE /\ offset' = 0
               /\ use_lseek' = [use_lseek EXCEPT ![v] = @ \/ disk_like]

SeekFails(v, o) ==
    /\ MoveFails(v, o)
    /\ left' = 0
    /\ Returns(FATAL, <<>>)
    /\ UNCHANGED <<client, buffer, dataset, position, end_of_file, fatal, skipped>>

\* The size of volume v is what the end of it is.
Sizes(v) == pc = "size" \/ (pc = "known" /\ ~Passed(v))

SizeVolume ==
    /\ Sizes(left)
    /\ MovesTo(left, SizeOf(left))
    /\ total_size' = [total_size EXCEPT ![left] = SizeOf(left)]
    /\ IF Reaches(begin_position[left], SizeOf(left)) \/ left = Len(ends)
       THEN pc' = "set" /\ UNCHANGED <<left, begin_position>>
       ELSE /\ pc' = "size"
            /\ begin_position' = [begin_position EXCEPT ![left + 1] = begin_position[left] + SizeOf(left)]
            /\ left' = left + 1
    /\ GoesOn
    /\ UNCHANGED <<client, buffer, position, end_of_file, fatal, skipped>>

SizeFails == Sizes(left) /\ SeekFails(left, SizeOf(left))

\* A goal that counts from the end is looked for from the last volume backwards.  Before
\* the start the size of the first volume is added once more.
FromEnd == begin_position[left] + total_size[left] + call.ask
VolumeFromEnd ==
    LET Holds(v) == begin_position[v] <= FromEnd
    IN  {v \in Volumes : (v = 1 \/ Holds(v)) /\ \A w \in v + 1 .. Len(ends) : ~Holds(w)}

\* The offset in volume v that the goal stands for.
OffsetSet(v) ==
    IF call.whence # "end" THEN Goal - begin_position[v]
    ELSE FromEnd - begin_position[v] + (IF FromEnd < 0 THEN total_size[v] ELSE 0)

\* The volume the goal is in, the only one.
VolumeSet == IF call.whence = "end" THEN VolumeFromEnd ELSE {left}

\* Mutant: keeps what has been read before.
ClearedNot == UNCHANGED <<client_avail, copy, next>>

\* Nothing of what has been read before is of use.
Cleared == client_avail' = 0 /\ copy' = <<>> /\ next' = 0

\* Counted from the start the offset must be in the volume.
InRange(v) == call.whence = "end" \/ OffsetSet(v) \in 0 .. total_size[v]

ArriveAt(v) ==
    /\ InRange(v)
    /\ MovesTo(v, OffsetSet(v))
    /\ Cleared
    /\ position' = begin_position[v] + OffsetSet(v)
    /\ end_of_file' = FALSE
    /\ left' = 0
    /\ Returns(position', <<>>)
    /\ UNCHANGED <<client_buff, client_total, client_next, buffer_size, dataset, fatal, skipped>>

Arrive == pc = "set" /\ \E v \in VolumeSet : ArriveAt(v)

ArriveFails == pc = "set" /\ \E v \in VolumeSet : InRange(v) /\ SeekFails(v, OffsetSet(v))

OutOfRange ==
    /\ pc = "set" /\ \E v \in VolumeSet : ~InRange(v)
    /\ left' = 0
    /\ Returns(FATAL, <<>>)
    /\ UNCHANGED <<file, client, buffer, dataset, position, end_of_file, fatal, skipped, faults>>
-----------------------------------------------------------------------------
Calls ==
    \/ \E k \in Asks : Ahead(k) \/ Consume(k)
    \/ \E whence \in {"set", "cur", "end"}, off \in Offsets : SeekCall(whence, off)

Step ==
    \/ AheadFromCopy \/ RollBack \/ AheadAfterEnd \/ ReadBlock \/ ReadBlockFails \/ NextVolume
    \/ AheadMeetsEnd \/ CopyMore \/ NoMemory
    \/ SkipChunk \/ SkipFails \/ CannotSkip
    \/ Discard \/ DiscardFails \/ DiscardNextVolume \/ DiscardMeetsEnd
    \/ PassKnown \/ SizeVolume \/ SizeFails \/ ArriveFails \/ OutOfRange

\* The place is known again only where a seek arrives.
Next ==
    /\ UNCHANGED <<ends, disk_like>>
    /\ \/ (Calls \/ Step) /\ lost' = (lost \/ ~InPlace')
       \/ Arrive /\ lost' = FALSE

Spec == Init /\ [][Next]_vars /\ WF_vars(Next /\ pc # "idle" /\ faults' = faults)
-----------------------------------------------------------------------------
(* Properties. *)

\* Neither window leaves its buffer, whatever was lost before: the copy fits into the
\* copy buffer, the client's window into the block, and when the client's window is
\* rolled back the bytes before it are of the same block (archive_read.c:1358, 1410).  The
\* copy buffer is less than twice as large as what was asked for once.
WindowsStayInTheirBuffers ==
    /\ TypeOK
    /\ next + avail <= buffer_size
    /\ client_avail > 0 => client_next + client_avail <= client_total
    /\ pc = "ahead" /\ ~HasCopy /\ CanRollBack => avail <= client_next
    /\ buffer_size = 0 \/ \E k \in Asks : k <= buffer_size /\ buffer_size < 2 * k

\* The two windows are one piece of the stream that begins at position, although they are
\* filled, emptied and rolled back one by one and the block is overwritten below them.  The
\* end is noted only where it is, and what seeks have learned of the volumes is true.
WindowsAreTheStream ==
    /\ ~lost => /\ copy = Bytes(position, avail)
                /\ client_avail > 0 => client_buff + client_next = position + avail
                /\ end_of_file => client_avail = 0 /\ position + avail >= Total
    /\ \A v \in Volumes : begin_position[v] \in {-1, Begin(v)} /\ total_size[v] \in {-1, SizeOf(v)}

\* What a decoder sees of all this is one stream with a place in it.
Stream == INSTANCE ByteStream WITH
    seekable <- disk_like,
    pos <- IF pc = "idle" THEN position ELSE before.position,
    lost <- IF pc = "idle" THEN lost ELSE before.lost,
    dead <- fatal,
    trouble <- faults > 0
ReadsOneStream == Stream!Spec

\* Every call returns: each round of a loop reads, copies or skips something.
EveryCallReturns == pc # "idle" ~> pc = "idle"
=============================================================================
