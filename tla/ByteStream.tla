----------------------------- MODULE ByteStream -----------------------------
(***************************************************************************)
(* What a decoder of libarchive may rely on when it reads its input: a     *)
(* stream of Size bytes, one after the other, with a place in it.  Looking *)
(* ahead shows the bytes behind the place and does not move it, consuming  *)
(* moves it forward, seeking moves it anywhere.  The byte at position p is *)
(* p itself.  The stream may be cut into volumes that end at ends[1],      *)
(* ends[2] and so on.                                                      *)
(*                                                                         *)
(* The promise has gaps, which are the actual ones: nothing is promised    *)
(* once the place is lost, and it says when that may happen.               *)
(***************************************************************************)
EXTENDS Integers, Sequences

FATAL == -30

VARIABLES
    ends,       \* where the volumes end
    seekable,   \* the input is a file on a disk
    pos,        \* the place
    lost,       \* what is behind the place is no longer known
    dead,       \* a call has failed for good
    trouble,    \* a call of the operating system has failed
    reply       \* what the last call returned

vars == <<ends, seekable, pos, lost, dead, trouble, reply>>

Size == ends[Len(ends)]
Bytes(from, n) == [k \in 1 .. n |-> from + k - 1]
Beyond(p) == IF p < Size THEN Size ELSE p

Nothing == [call |-> "none", whence |-> "", ask |-> 0, ret |-> 0, data |-> <<>>]

Init ==
    /\ pos = 0
    /\ ~lost /\ ~dead /\ ~trouble
    /\ reply = Nothing

\* A call begins.
Asked == reply' = Nothing /\ UNCHANGED <<ends, seekable, pos, lost, dead, trouble>>

IoFails == trouble' /\ UNCHANGED <<ends, seekable, pos, lost, dead, reply>>

\* At least the bytes asked for, or none when there are not so many; then the number that
\* comes with them is what is left or, when asked again, zero.
LookAhead ==
    /\ reply'.call = "ahead"
    /\ UNCHANGED <<pos, dead>>
    /\ lost => lost'
    /\ lost' => lost \/ trouble'
    /\ lost' \/ IF reply'.data = <<>>
                THEN pos + reply'.ask > Size /\ reply'.ret \in {0, Beyond(pos) - pos}
                ELSE /\ reply'.ret >= reply'.ask
                     /\ reply'.data = Bytes(pos, reply'.ret)
                     /\ pos + reply'.ret <= Size

\* All of it, or an error at the end of the stream.  A file on a disk lets itself be moved
\* beyond its end, and the place is lost when that is not the last volume.
Consume ==
    /\ reply'.call = "consume"
    /\ UNCHANGED dead
    /\ lost => lost'
    /\ lost' => lost \/ trouble' \/ \E v \in 1 .. Len(ends) - 1 : pos <= ends[v] /\ ends[v] < pos + reply'.ask
    /\ \/ reply'.ret = reply'.ask /\ pos' = pos + reply'.ask
       \/ /\ reply'.ret = FATAL
          /\ pos' \in pos .. pos + reply'.ask - 1
          /\ lost' \/ pos' = Beyond(pos)

Target ==
    CASE reply'.whence = "set" -> reply'.ask
      [] reply'.whence = "cur" -> pos + reply'.ask
      [] reply'.whence = "end" -> Size + reply'.ask

\* To the target, and then the place is known again.  There is no failure without a reason,
\* but two odd cases: the last byte of a volume that is not the last one cannot be
\* reached from the start, and a target before the start may end up somewhere else.
Seek ==
    /\ reply'.call = "seek"
    /\ UNCHANGED dead
    /\ \/ /\ reply'.ret = pos'
          /\ ~lost'
          /\ pos' = Target \/ (Target < 0 /\ reply'.whence = "end")
       \/ /\ reply'.ret = FATAL
          /\ pos' = pos
          /\ lost => lost'
          /\ \/ ~seekable \/ trouble' \/ Target \notin 0 .. Size
             \/ \E v \in 1 .. Len(ends) - 1 : Target = ends[v] - 1

Die ==
    /\ trouble' /\ dead'
    /\ reply'.ret = FATAL /\ reply'.data = <<>>
    /\ reply'.call \in {"ahead", "consume"}
    /\ pos' >= pos

Call ==
    /\ UNCHANGED <<ends, seekable>>
    /\ trouble => trouble'
    /\ \/ ~dead /\ (LookAhead \/ Consume \/ Seek \/ Die)
       \/ dead /\ UNCHANGED <<pos, lost, dead>> /\ reply'.ret = FATAL /\ reply'.data = <<>>

Next == Asked \/ IoFails \/ Call

Spec == Init /\ [][Next]_vars
=============================================================================
