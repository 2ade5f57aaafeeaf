-------------------------- MODULE WriteDiskProofs --------------------------
(***************************************************************************)
(* Theorems about WriteDiskCalls, for any tree of paths, any disk and any  *)
(* sequence of calls with any failures.  What is said of file systems and  *)
(* of the calls is said for any greatest number M of an entry and any set  *)
(* B of blocks, so that it holds for other clients of WriteDisk as well.   *)
(***************************************************************************)
EXTENDS WriteDiskCalls, SequenceTheorems, WellFoundedInduction, TLAPS

\* What may be at a path when the entries have the numbers up to M and the blocks are those of B.
Object(M, B) ==
    [kind : {"none", "dir", "file"}, data : Seq(B), time : {Now} \cup 1 .. M, owner : 0 .. M]

\* A file system: everything is in a directory, only files have data, and nothing has no owner.
IsDisk(d, M, B) ==
    /\ d \in [Paths -> Object(M, B)]
    /\ WellFormed(d)
    /\ \A p \in Paths : /\ d[p].kind # "file" => d[p].data = <<>>
                        /\ d[p].kind = "none" => d[p].owner = 0

\* What is at q in f is what was there in d, though a directory may have got a new time.
Stays(d, f, q) == f[q] = d[q] \/ (d[q].kind = "dir" /\ f[q] = [d[q] EXCEPT !.time = Now])

\* f is d with room made for p: only what is in the way, at p or above it, is gone, or a directory now.
Room(d, f, p) ==
    \A q \in Paths : /\ q \notin Ancestors(p) \cup {p} => f[q] = d[q]
                     /\ Stays(d, f, q) \/ (f[q].kind # "file" /\ f[q].owner = 0)

\* An entry that can be given to header.
IsEntry(e) ==
    e.path \in Paths \ {<<>>} /\ e.type \in {"dir", "reg", "link"} /\ (e.type = "link" => e.target \in Paths)

\* What a restored entry leaves at its path.
Made(d, r, e, id) ==
    \/ e.type = "dir" /\ r.late /\ r.disk[e.path] = Dir(id)
    \/ e.type = "reg" /\ r.opens /\ r.disk[e.path] = File(id)
    \/ e.type = "link" /\ ~r.times /\ d[e.target].kind = "file" /\ r.disk[e.path] = d[e.target]

\* What the outcome r of restoring e as the entry id is, on the file system d.
IsRestored(d, r, e, id) ==
    /\ \A q \in Paths : q \notin Ancestors(e.path) \cup {e.path} => r.disk[q] = d[q]
    /\ \A q \in Paths : \/ Stays(d, r.disk, q)
                        \/ r.disk[q].kind # "file" /\ r.disk[q].owner = 0
                        \/ q = e.path /\ Made(d, r, e, id)
    /\ r.ret \in {"ok", "failed"} /\ r.failures \in {0, 1}
    /\ r.opens \in BOOLEAN /\ r.times \in BOOLEAN /\ r.late \in BOOLEAN
    /\ r.opens => r.ret = "ok" /\ r.times /\ e.type = "reg" /\ r.disk[e.path] = File(id)
    /\ r.late => r.ret = "ok" /\ ~r.opens /\ ~r.times /\ e.type = "dir" /\ r.disk[e.path] = Dir(id)
    /\ r.ret = "ok" /\ r.times => r.opens \/ r.disk[e.path].kind = "dir"

\* The blocks of s are those that were meant for the entry o, where they belong, or zeroes.
Own(s, o) == \A i \in DOMAIN s : s[i] \in {<<o, i - 1>>, Zero}
OwnData(d) == \A p \in Paths : Own(d[p].data, d[p].owner)

\* The handle between two calls.  An open file is one of the present entry.
HandleOK(M, B) ==
    /\ IsDisk(disk, M, B)
    /\ state \in {"header", "data", "fatal", "freed"}
    /\ cur \in [id : 0 .. M, path : Paths, size : Int]
    /\ fh \in BOOLEAN
    /\ fh => state = "data" /\ disk[cur.path].kind = "file" /\ disk[cur.path].owner = cur.id
    /\ offset \in Nat
    /\ times \in BOOLEAN
    /\ state = "data" \/ times => cur.id >= 1
    /\ fixups \in Seq([id : 1 .. M, path : Paths])
    /\ wret \in Ret
    /\ faults \in 0 .. MaxFaults
    /\ torn \subseteq 1 .. M

\* What the outcome f of finishing the present entry is: nothing but the size and the time of
\* its file may have changed.
IsFinished(f) ==
    /\ f.state \in {"header", "data"} /\ f.ret \in Ret /\ f.failures \in {0, 1}
    /\ f.state = "data" => state = "data" /\ f.failures = 1 /\ f.ret = "failed"
    /\ state = "header" => f.disk = disk
    /\ \A q \in Paths \ {cur.path} : f.disk[q] = disk[q]
    /\ \A q \in Paths : f.disk[q].kind = disk[q].kind /\ f.disk[q].owner = disk[q].owner
    /\ f.state = "data" \/ ~SizeIsOff => f.disk[cur.path].data = disk[cur.path].data
    /\ f.state = "header" /\ SizeIsOff => f.disk[cur.path].data = Resize(disk[cur.path].data, cur.size)
    /\ f.disk[cur.path].time = disk[cur.path].time
        \/ (state = "data" /\ times /\ f.disk[cur.path].time = cur.id)
    /\ state = "data" /\ times /\ f.failures = 0 /\ disk[cur.path].kind # "none" => f.disk[cur.path].time = cur.id
-----------------------------------------------------------------------------
(* Paths. *)

\* A path is a sequence, and so is each of its prefixes.
LEMMA PathIsSeq ==
    ASSUME NEW p \in Paths
    PROVE  /\ Len(p) \in Nat /\ SubSeq(p, 1, Len(p)) = p
           /\ p # <<>> => Len(p) >= 1
           /\ \A k \in 0 .. Len(p) : SubSeq(p, 1, k) \in Paths /\ Len(SubSeq(p, 1, k)) = k
<1> DEFINE S == {p[k] : k \in DOMAIN p}
<1>1. p \in Seq(S)
  BY PathsAssumption DEF PathsAssumption
<1> HIDE DEF S
<1>2. Len(p) \in Nat /\ SubSeq(p, 1, Len(p)) = p /\ (p # <<>> => Len(p) >= 1)
  BY <1>1, SubSeqFull, EmptySeq
<1>3. ASSUME NEW k \in 0 .. Len(p) PROVE Len(SubSeq(p, 1, k)) = k
  <2>1. \A i \in 1 .. k : p[i] \in S
    BY <1>1
  <2> QED BY <2>1, <1>2, SubSeqProperties
<1> QED BY <1>2, <1>3, PathsAssumption DEF PathsAssumption

\* What leads to an ancestor of a path leads to the path.
LEMMA PrefixOfPrefix ==
    ASSUME NEW p \in Paths, NEW k \in 0 .. Len(p), NEW n \in 0 .. k
    PROVE  SubSeq(SubSeq(p, 1, k), 1, n) = SubSeq(p, 1, n)
<1> DEFINE S == {p[i] : i \in DOMAIN p}
           q == SubSeq(p, 1, k)
<1>1. p \in Seq(S)
  BY PathsAssumption DEF PathsAssumption
<1> HIDE DEF S
<1>2. Len(p) \in Nat /\ \A i \in 1 .. k : p[i] \in S
  BY <1>1
<1>3. CASE n = 0
  BY <1>3, SubSeqEmpty
<1>4. CASE n > 0
  <2>1. q \in Seq(S)
    BY <1>2, SubSeqProperties
  <2>2. SubSeq(q, 1, n) = SubSeq(p, 1 + 1 - 1, 1 + n - 1)
    <3>1. 1 \in 1 .. Len(p) /\ k \in 1 .. Len(p) /\ 1 \in 1 .. k - 1 + 1 /\ n \in 1 .. k - 1 + 1
      BY <1>2, <1>4
    <3> QED BY <3>1, <1>1, SubSeqOfSubSeq
  <2> QED BY <2>2
<1> QED BY <1>3, <1>4

\* The directories above a path are paths that are shorter; the last of them is its parent.
LEMMA AncestorsAreAbove ==
    ASSUME NEW p \in Paths
    PROVE  /\ Ancestors(p) \subseteq Paths
           /\ \A a \in Ancestors(p) : Len(a) < Len(p)
           /\ p \notin Ancestors(p)
<1>1. ASSUME NEW a \in Ancestors(p) PROVE a \in Paths /\ Len(a) < Len(p)
  <2>1. PICK k \in 0 .. Len(p) - 1 : a = SubSeq(p, 1, k)
    BY DEF Ancestors
  <2>2. Len(p) \in Nat /\ k \in 0 .. Len(p)
    BY <2>1, PathIsSeq
  <2>3. a \in Paths /\ Len(a) = k
    BY <2>1, <2>2, PathIsSeq
  <2> QED BY <2>2, <2>3
<1>2. p \notin Ancestors(p)
  BY <1>1, PathIsSeq
<1> QED BY <1>1, <1>2

LEMMA ParentIsAbove ==
    ASSUME NEW p \in Paths, p # <<>>
    PROVE  Parent(p) \in Paths /\ Parent(p) \in Ancestors(p) /\ Parent(p) # p /\ Len(Parent(p)) = Len(p) - 1
<1>1. Len(p) \in Nat /\ Len(p) >= 1
  BY PathIsSeq
<1>2. Len(p) - 1 \in 0 .. Len(p) - 1 /\ Len(p) - 1 \in 0 .. Len(p)
  BY <1>1
<1>3. Parent(p) \in Ancestors(p)
  BY <1>2 DEF Parent, Ancestors
<1>4. Len(Parent(p)) = Len(p) - 1
  BY <1>2, PathIsSeq DEF Parent
<1> QED BY <1>3, <1>4, <1>1, AncestorsAreAbove

\* Above an ancestor there are only ancestors; an ancestor of the parent is one of the path.
LEMMA AboveAnAncestor ==
    ASSUME NEW p \in Paths, NEW a \in Ancestors(p)
    PROVE  /\ a # <<>> => Parent(a) \in Ancestors(p)
           /\ Ancestors(a) \subseteq Ancestors(p)
<1>1. PICK k \in 0 .. Len(p) - 1 : a = SubSeq(p, 1, k)
  BY DEF Ancestors
<1>2. Len(p) \in Nat /\ k \in 0 .. Len(p)
  BY <1>1, PathIsSeq
<1>3. a \in Paths /\ Len(a) = k
  BY <1>1, <1>2, PathIsSeq
<1>4. ASSUME NEW b \in Ancestors(a) PROVE b \in Ancestors(p)
  <2>1. PICK n \in 0 .. k - 1 : b = SubSeq(a, 1, n)
    BY <1>3 DEF Ancestors
  <2>2. b = SubSeq(p, 1, n)
    BY <2>1, <1>1, <1>2, PrefixOfPrefix
  <2>3. n \in 0 .. Len(p) - 1
    BY <1>1, <1>2
  <2> QED BY <2>2, <2>3 DEF Ancestors
<1> QED BY <1>3, <1>4, ParentIsAbove
-----------------------------------------------------------------------------
(* File systems. *)

\* What the operations put into a file system is an object.
LEMMA NewObjects ==
    ASSUME NEW M \in Nat, NEW B, NEW id \in 0 .. M
    PROVE  Nothing \in Object(M, B) /\ Dir(id) \in Object(M, B) /\ File(id) \in Object(M, B)
BY EmptySeq DEF Nothing, Dir, File, Object

\* A directory that gets a new time stays the directory it is.
LEMMA RestampIs ==
    ASSUME NEW M, NEW B, NEW o \in Object(M, B), NEW t \in {Now} \cup 1 .. M
    PROVE  LET u == [o EXCEPT !.time = t]
           IN  u \in Object(M, B) /\ u.kind = o.kind /\ u.data = o.data /\ u.owner = o.owner /\ u.time = t
BY DEF Object

\* Putting o where nothing is below, in a directory that is there.
LEMMA PutIs ==
    ASSUME NEW M \in Nat, NEW B, NEW d, IsDisk(d, M, B), NEW p \in Paths \ {<<>>},
           d[Parent(p)].kind = "dir", Empty(d, p),
           NEW o \in Object(M, B), o.kind # "file" => o.data = <<>>, o.kind = "none" => o.owner = 0
    PROVE  /\ IsDisk(Put(d, p, o), M, B)
           /\ Put(d, p, o)[p] = o
           /\ \A q \in Paths \ {p} : Stays(d, Put(d, p, o), q)
           /\ \A q \in Paths \ {p, Parent(p)} : Put(d, p, o)[q] = d[q]
<1> DEFINE f == Put(d, p, o)
           a == Parent(p)
<1>1. a \in Paths /\ a # p
  BY ParentIsAbove
<1>2. d \in [Paths -> Object(M, B)] /\ WellFormed(d)
  BY DEF IsDisk
<1>3. [d[a] EXCEPT !.time = Now] \in Object(M, B) /\ [d[a] EXCEPT !.time = Now].kind = "dir"
      /\ [d[a] EXCEPT !.time = Now].data = d[a].data
  BY <1>1, <1>2, RestampIs
<1>4. /\ f \in [Paths -> Object(M, B)]
      /\ f[p] = o /\ f[a] = [d[a] EXCEPT !.time = Now]
      /\ \A q \in Paths \ {p, a} : f[q] = d[q]
  BY <1>1, <1>2, <1>3 DEF Put
<1>5. \A q \in Paths \ {p} : Stays(d, f, q)
  BY <1>4 DEF Stays
<1>6. \A q \in Paths \ {p} : f[q].kind = d[q].kind
  BY <1>3, <1>4
<1>7. WellFormed(f)
  <2>1. f[<<>>].kind = "dir"
    BY <1>2, <1>6, PathsAssumption DEF WellFormed, PathsAssumption
  <2>2. ASSUME NEW q \in Paths \ {<<>>}, f[q].kind # "none" PROVE f[Parent(q)].kind = "dir"
    <3>1. CASE q = p
      BY <3>1, <1>3, <1>4
    <3>2. CASE q # p
      <4>1. d[q].kind # "none" /\ Parent(q) \in Paths
        BY <3>2, <2>2, <1>6, ParentIsAbove
      <4>2. Parent(q) # p
        BY <4>1 DEF Empty
      <4> QED BY <4>1, <4>2, <1>2, <1>6 DEF WellFormed
    <3> QED BY <3>1, <3>2
  <2> QED BY <2>1, <2>2 DEF WellFormed
<1>8. ASSUME NEW q \in Paths
      PROVE  (f[q].kind # "file" => f[q].data = <<>>) /\ (f[q].kind = "none" => f[q].owner = 0)
  <2>1. CASE q = p
    BY <2>1, <1>4
  <2>2. CASE q = a
    BY <2>2, <1>1, <1>3, <1>4 DEF IsDisk
  <2>3. CASE q \notin {p, a}
    BY <2>3, <1>4 DEF IsDisk
  <2> QED BY <2>1, <2>2, <2>3
<1> QED BY <1>4, <1>5, <1>7, <1>8 DEF IsDisk

\* Removing a file, or a directory in which there is nothing.
LEMMA ClearIs ==
    ASSUME NEW M \in Nat, NEW B, NEW d, IsDisk(d, M, B), NEW p \in Paths \ {<<>>},
           d[p].kind = "dir" => Empty(d, p)
    PROVE  /\ IsDisk(Clear(d, p), M, B)
           /\ Clear(d, p)[p].kind = "none"
           /\ \A q \in Paths \ {p} : Stays(d, Clear(d, p), q)
           /\ \A q \in Paths \ {p, Parent(p)} : Clear(d, p)[q] = d[q]
<1>1. CASE d[p].kind = "none"
  BY <1>1 DEF Clear, Stays
<1>2. CASE d[p].kind # "none"
  <2>1. d[Parent(p)].kind = "dir"
    BY <1>2 DEF IsDisk, WellFormed
  <2>2. Empty(d, p)
    <3>1. SUFFICES ASSUME d[p].kind # "dir", NEW q \in Paths, q # <<>>, Parent(q) = p PROVE d[q].kind = "none"
      BY DEF Empty
    <3> QED BY <3>1 DEF IsDisk, WellFormed
  <2>3. Nothing \in Object(M, B) /\ Nothing.kind = "none" /\ Nothing.data = <<>> /\ Nothing.owner = 0
    BY NewObjects DEF Nothing
  <2>4. Clear(d, p) = Put(d, p, Nothing)
    BY <1>2 DEF Clear
  <2> HIDE DEF Nothing
  <2> QED BY <2>1, <2>2, <2>3, <2>4, PutIs
<1> QED BY <1>1, <1>2

\* Making the directories above p: what was there and is none becomes one, and files stay.
LEMMA MakeParentsIs ==
    ASSUME NEW M \in Nat, NEW B, NEW d, IsDisk(d, M, B), NEW p \in Paths
    PROVE  LET f == MakeParents(d, p)
           IN  /\ IsDisk(f, M, B)
               /\ \A a \in Ancestors(p) : f[a].kind = "dir" /\ (d[a].kind = "dir" => Stays(d, f, a))
                                          /\ (d[a].kind # "dir" => f[a] = Dir(0))
               /\ \A q \in Paths \ Ancestors(p) : f[q] = d[q]
<1> DEFINE f == MakeParents(d, p)
           made == {q \in Ancestors(p) : d[q].kind # "dir"}
<1>1. d \in [Paths -> Object(M, B)] /\ WellFormed(d) /\ <<>> \in Paths /\ Ancestors(p) \subseteq Paths
  BY PathsAssumption, AncestorsAreAbove DEF IsDisk, PathsAssumption
<1>2. <<>> \notin made
  BY <1>1 DEF WellFormed
<1>3. \A m \in made : Parent(m) \in Ancestors(p)
  BY <1>1, <1>2, AboveAnAncestor
<1>4. ASSUME NEW q \in Paths
      PROVE  /\ q \in made => f[q] = Dir(0)
             /\ q \notin made => f[q] = d[q] \/ (q \in Ancestors(p) /\ f[q] = [d[q] EXCEPT !.time = Now])
  BY <1>3 DEF MakeParents
<1>5. ASSUME NEW q \in Paths, q \notin made PROVE Stays(d, f, q)
  BY <1>4, <1>5 DEF Stays
<1>6. DOMAIN f = Paths /\ f = [q \in Paths |-> f[q]]
  BY DEF MakeParents
<1>7. Dir(0) \in Object(M, B) /\ Dir(0).kind = "dir" /\ Dir(0).data = <<>>
  BY NewObjects DEF Dir
<1> HIDE DEF f, made
<1>8. ASSUME NEW q \in Paths
      PROVE  /\ f[q] \in Object(M, B)
             /\ f[q].kind = IF q \in made THEN "dir" ELSE d[q].kind
             /\ f[q].data = IF q \in made THEN <<>> ELSE d[q].data
             /\ q \notin made => f[q].owner = d[q].owner
  <2>1. CASE q \in made
    BY <2>1, <1>4, <1>7
  <2>2. CASE q \notin made
    <3>1. [d[q] EXCEPT !.time = Now] \in Object(M, B) /\ [d[q] EXCEPT !.time = Now].kind = d[q].kind
          /\ [d[q] EXCEPT !.time = Now].data = d[q].data /\ [d[q] EXCEPT !.time = Now].owner = d[q].owner
      BY <1>1, RestampIs
    <3> QED BY <2>2, <3>1, <1>1, <1>4
  <2> QED BY <2>1, <2>2
<1>9. f \in [Paths -> Object(M, B)]
  BY <1>6, <1>8
<1>10. \A a \in Ancestors(p) : f[a].kind = "dir"
  BY <1>8, <1>1 DEF made
<1>11. WellFormed(f)
  <2>1. f[<<>>].kind = "dir"
    BY <1>1, <1>2, <1>8 DEF WellFormed
  <2>2. ASSUME NEW q \in Paths \ {<<>>}, f[q].kind # "none" PROVE f[Parent(q)].kind = "dir"
    <3>1. CASE q \in made
      BY <3>1, <1>3, <1>10
    <3>2. CASE q \notin made
      <4>1. d[Parent(q)].kind = "dir" /\ Parent(q) \in Paths
        BY <3>2, <2>2, <1>8, <1>1, ParentIsAbove DEF WellFormed
      <4> QED BY <4>1, <1>8
    <3> QED BY <3>1, <3>2
  <2> QED BY <2>1, <2>2 DEF WellFormed
<1>12. \A q \in Paths : (f[q].kind # "file" => f[q].data = <<>>) /\ (f[q].kind = "none" => f[q].owner = 0)
  BY <1>8 DEF IsDisk
<1>13. IsDisk(f, M, B)
  BY <1>9, <1>11, <1>12 DEF IsDisk
<1>14. \A q \in Paths \ Ancestors(p) : f[q] = d[q]
  BY <1>4 DEF made
<1>15. \A a \in Ancestors(p) : (d[a].kind = "dir" => Stays(d, f, a)) /\ (d[a].kind # "dir" => f[a] = Dir(0))
  BY <1>4, <1>5, <1>1 DEF made
<1> QED BY <1>10, <1>13, <1>14, <1>15 DEF f

\* Where a file stays, it is the same.
LEMMA FilesStay ==
    ASSUME NEW M, NEW B, NEW d, IsDisk(d, M, B), NEW f, NEW q \in Paths, Stays(d, f, q)
    PROVE  /\ f[q].kind = d[q].kind /\ f[q].data = d[q].data /\ f[q].owner = d[q].owner
           /\ f[q].kind = "file" => f[q] = d[q]
<1>1. CASE f[q] = d[q]
  BY <1>1
<1>2. CASE d[q].kind = "dir" /\ f[q] = [d[q] EXCEPT !.time = Now]
  BY <1>2, RestampIs DEF IsDisk
<1> QED BY <1>1, <1>2 DEF Stays

\* What stays as it was where room had been made is still as it was, or still out of the way.
LEMMA StaysInRoom ==
    ASSUME NEW M \in Nat, NEW B, NEW d, IsDisk(d, M, B), NEW p, NEW c, IsDisk(c, M, B), Room(d, c, p),
           NEW f, NEW q \in Paths, Stays(c, f, q)
    PROVE  Stays(d, f, q) \/ (f[q].kind # "file" /\ f[q].owner = 0)
<1>1. CASE f[q] = c[q]
  BY <1>1 DEF Room, Stays
<1>2. CASE c[q].kind = "dir" /\ f[q] = [c[q] EXCEPT !.time = Now]
  <2>1. f[q].kind = "dir" /\ f[q].owner = c[q].owner
    BY <1>2, RestampIs DEF IsDisk
  <2>2. CASE ~Stays(d, c, q)
    BY <2>1, <2>2 DEF Room
  <2>3. CASE Stays(d, c, q)
    <3>1. d[q].kind = "dir" /\ (c[q] = d[q] \/ c[q] = [d[q] EXCEPT !.time = Now])
      BY <1>2, <2>3 DEF Stays
    <3>2. f[q] = [d[q] EXCEPT !.time = Now]
      <4>1. d[q] \in Object(M, B)
        BY DEF IsDisk
      <4> QED BY <4>1, <3>1, <1>2 DEF Object
    <3> QED BY <3>1, <3>2 DEF Stays
  <2> QED BY <2>2, <2>3
<1> QED BY <1>1, <1>2 DEF Stays

\* Every file system that is seen while room is made for p.
LEMMA RoomIs ==
    ASSUME NEW M \in Nat, NEW B, NEW d, IsDisk(d, M, B), NEW p \in Paths \ {<<>>},
           NEW c, c = d \/ (c = Clear(d, p) /\ (d[p].kind = "dir" => Empty(d, p)))
    PROVE  /\ IsDisk(c, M, B) /\ Room(d, c, p)
           /\ \A a \in Ancestors(p) \cup {p} : IsDisk(MakeParents(c, a), M, B) /\ Room(d, MakeParents(c, a), p)
           /\ \A f \in HalfMade(c, p) : IsDisk(f, M, B) /\ Room(d, f, p)
<1>1. IsDisk(c, M, B) /\ (c = d \/ c[p].kind = "none")
      /\ (\A q \in Paths \ {p} : Stays(d, c, q)) /\ (\A q \in Paths \ {p, Parent(p)} : c[q] = d[q])
  <2>1. CASE c = d
    BY <2>1 DEF Stays
  <2>2. CASE c = Clear(d, p) /\ (d[p].kind = "dir" => Empty(d, p))
    BY <2>2, ClearIs
  <2> QED BY <2>1, <2>2
<1>2. Parent(p) \in Ancestors(p)
  BY ParentIsAbove
<1>3. Room(d, c, p)
  <2>1. CASE c = d
    BY <2>1 DEF Room, Stays
  <2>2. CASE c[p].kind = "none"
    <3>1. c[p].owner = 0
      BY <2>2, <1>1 DEF IsDisk
    <3> QED BY <2>2, <3>1, <1>1, <1>2 DEF Room
  <2> QED BY <1>1, <2>1, <2>2
<1>4. ASSUME NEW a \in Ancestors(p) \cup {p}
      PROVE  IsDisk(MakeParents(c, a), M, B) /\ Room(d, MakeParents(c, a), p)
  <2> DEFINE f == MakeParents(c, a)
  <2>1. a \in Paths /\ Ancestors(a) \subseteq Ancestors(p)
    BY AncestorsAreAbove, AboveAnAncestor
  <2>2. /\ IsDisk(f, M, B)
        /\ \A b \in Ancestors(a) : /\ c[b].kind = "dir" => Stays(c, f, b)
                                   /\ c[b].kind # "dir" => f[b] = Dir(0)
        /\ \A q \in Paths \ Ancestors(a) : f[q] = c[q]
    BY <1>1, <2>1, MakeParentsIs
  <2> HIDE DEF f
  <2>3. \A q \in Paths : q \notin Ancestors(p) \cup {p} => f[q] = d[q]
    BY <2>1, <2>2, <1>3 DEF Room
  <2>4. ASSUME NEW q \in Paths PROVE Stays(d, f, q) \/ (f[q].kind # "file" /\ f[q].owner = 0)
    <3>1. CASE f[q] = c[q]
      BY <3>1, <1>3 DEF Room, Stays
    <3>2. CASE f[q] = Dir(0)
      BY <3>2 DEF Dir
    <3>3. CASE Stays(c, f, q)
      BY <3>3, <1>1, <1>3, StaysInRoom
    <3> QED BY <2>2, <3>1, <3>2, <3>3
  <2> QED BY <2>2, <2>3, <2>4 DEF Room, f
<1>5. ASSUME NEW a \in Ancestors(p), c[a].kind = "file"
      PROVE  IsDisk(Clear(c, a), M, B) /\ Room(d, Clear(c, a), p)
  <2> DEFINE f == Clear(c, a)
  <2>1. a \in Paths \ {<<>>} /\ Ancestors(a) \subseteq Ancestors(p) /\ Parent(a) \in Ancestors(p)
    <3>1. a \in Paths \ {<<>>}
      BY <1>1, <1>5, AncestorsAreAbove DEF IsDisk, WellFormed
    <3> QED BY <3>1, <1>5, AboveAnAncestor, ParentIsAbove
  <2>2. /\ IsDisk(f, M, B) /\ f[a].kind = "none"
        /\ \A q \in Paths \ {a} : Stays(c, f, q)
        /\ \A q \in Paths \ {a, Parent(a)} : f[q] = c[q]
    BY <1>1, <1>5, <2>1, ClearIs
  <2> HIDE DEF f
  <2>3. \A q \in Paths : q \notin Ancestors(p) \cup {p} => f[q] = d[q]
    BY <1>5, <2>1, <2>2, <1>3 DEF Room
  <2>4. ASSUME NEW q \in Paths PROVE Stays(d, f, q) \/ (f[q].kind # "file" /\ f[q].owner = 0)
    <3>1. CASE q = a
      BY <3>1, <2>2 DEF IsDisk
    <3>2. CASE q # a
      BY <3>2, <2>2, <1>1, <1>3, StaysInRoom
    <3> QED BY <3>1, <3>2
  <2> QED BY <2>2, <2>3, <2>4 DEF Room, f
<1>6. \A f \in HalfMade(c, p) : IsDisk(f, M, B) /\ Room(d, f, p)
  BY <1>4, <1>5 DEF HalfMade
<1> QED BY <1>1, <1>3, <1>4, <1>6

\* Putting o into the room made for p.
LEMMA PutInRoom ==
    ASSUME NEW M \in Nat, NEW B, NEW d, IsDisk(d, M, B), NEW p \in Paths \ {<<>>},
           d[p].kind = "dir" => Empty(d, p),
           NEW o \in Object(M, B), o.kind # "file" => o.data = <<>>, o.kind = "none" => o.owner = 0
    PROVE  LET f == Put(MakeParents(Clear(d, p), p), p, o)
           IN  /\ IsDisk(f, M, B) /\ f[p] = o
               /\ \A q \in Paths : q \notin Ancestors(p) \cup {p} => f[q] = d[q]
               /\ \A q \in Paths \ {p} : Stays(d, f, q) \/ (f[q].kind # "file" /\ f[q].owner = 0)
<1> DEFINE c == Clear(d, p)
           room == MakeParents(c, p)
           f == Put(room, p, o)
<1>1. IsDisk(c, M, B) /\ c[p].kind = "none"
  BY ClearIs
<1>2. IsDisk(room, M, B) /\ Room(d, room, p)
  BY RoomIs
<1>3. room[p].kind = "none" /\ Parent(p) \in Ancestors(p) /\ Parent(p) \in Paths /\ room[Parent(p)].kind = "dir"
  BY <1>1, MakeParentsIs, ParentIsAbove, AncestorsAreAbove
<1> HIDE DEF room
<1>4. Empty(room, p)
  BY <1>2, <1>3 DEF IsDisk, WellFormed, Empty
<1>5. /\ IsDisk(f, M, B) /\ f[p] = o
      /\ \A q \in Paths \ {p} : Stays(room, f, q)
      /\ \A q \in Paths \ {p, Parent(p)} : f[q] = room[q]
  BY <1>2, <1>3, <1>4, PutIs
<1> HIDE DEF f
<1>6. \A q \in Paths : q \notin Ancestors(p) \cup {p} => f[q] = d[q]
  BY <1>2, <1>3, <1>5 DEF Room
<1>7. ASSUME NEW q \in Paths \ {p} PROVE Stays(d, f, q) \/ (f[q].kind # "file" /\ f[q].owner = 0)
  <2>1. f[q].kind = room[q].kind /\ f[q].owner = room[q].owner
    BY <1>2, <1>5, FilesStay
  <2>2. CASE ~Stays(d, room, q)
    BY <2>1, <2>2, <1>2 DEF Room
  <2>3. CASE Stays(d, room, q) /\ f[q] = room[q]
    BY <2>3 DEF Stays
  <2>4. CASE Stays(d, room, q) /\ room[q].kind = "dir" /\ f[q] = [room[q] EXCEPT !.time = Now]
    <3>1. d[q].kind = "dir" /\ (room[q] = d[q] \/ room[q] = [d[q] EXCEPT !.time = Now])
      BY <2>4 DEF Stays
    <3>2. f[q] = [d[q] EXCEPT !.time = Now]
      <4>1. d[q] \in Object(M, B)
        BY DEF IsDisk
      <4> QED BY <4>1, <3>1, <2>4 DEF Object
    <3> QED BY <3>1, <3>2 DEF Stays
  <2> QED BY <2>2, <2>3, <2>4, <1>5 DEF Stays
<1> QED BY <1>5, <1>6, <1>7 DEF f, room

\* Whatever comes of restoring an entry, the file system is one, and it has changed only at
\* the path of the entry and above it.
LEMMA RestoreIs ==
    ASSUME NEW M \in Nat, NEW B, NEW d, IsDisk(d, M, B), NEW e, IsEntry(e), NEW id \in 1 .. M,
           NEW r \in RestoreOutcomes(d, e, id)
    PROVE  IsDisk(r.disk, M, B) /\ IsRestored(d, r, e, id)
<1> DEFINE p == e.path
           there == d[p].kind
           stays == there = "dir" /\ (e.type = "dir" \/ ~Empty(d, p))
           cleared == IF stays THEN d ELSE Clear(d, p)
           room == MakeParents(cleared, p)
<1>1. p \in Paths \ {<<>>} /\ d \in [Paths -> Object(M, B)]
  BY DEF IsEntry, IsDisk
<1>2. (cleared = d \/ (cleared = Clear(d, p) /\ (d[p].kind = "dir" => Empty(d, p)))) /\ id \in 0 .. M
  OBVIOUS
<1>3. /\ IsDisk(cleared, M, B) /\ Room(d, cleared, p)
      /\ \A a \in Ancestors(p) \cup {p} : IsDisk(MakeParents(cleared, a), M, B) /\ Room(d, MakeParents(cleared, a), p)
      /\ \A f \in HalfMade(cleared, p) : IsDisk(f, M, B) /\ Room(d, f, p)
  <2> HIDE DEF cleared
  <2> QED BY <1>1, <1>2, RoomIs
<1>4. Room(d, d, p)
  BY DEF Room, Stays
<1>5. ASSUME NEW f, IsDisk(f, M, B), Room(d, f, p), NEW n \in {0, 1}, r = NotRestored(f, n)
      PROVE  IsDisk(r.disk, M, B) /\ IsRestored(d, r, e, id)
  BY <1>5 DEF NotRestored, Restored, IsRestored, Room
<1>6. /\ \/ \E f \in {d} \cup HalfMade(cleared, p) : r = NotRestored(f, 1)
         \/ r = IF e.type = "dir" /\ there = "dir" THEN Restored(d, "ok", 0, FALSE, TRUE, FALSE)
                ELSE IF stays THEN NotRestored(d, 0)
                ELSE Created(room, cleared, e, id)
  BY DEF RestoreOutcomes
<1> HIDE DEF cleared
<1>7. CASE \E f \in {d} \cup HalfMade(cleared, p) : r = NotRestored(f, 1)
  <2>1. PICK f \in {d} \cup HalfMade(cleared, p) : r = NotRestored(f, 1)
    BY <1>7
  <2>2. IsDisk(f, M, B) /\ Room(d, f, p)
    BY <1>3, <1>4
  <2> QED BY <2>1, <2>2, <1>5
<1>8. CASE e.type = "dir" /\ there = "dir" /\ r = Restored(d, "ok", 0, FALSE, TRUE, FALSE)
  BY <1>8, <1>4 DEF Restored, IsRestored, Room
<1>9. CASE stays /\ r = NotRestored(d, 0)
  BY <1>9, <1>4, <1>5
<1>10. CASE ~stays /\ r = Created(room, cleared, e, id)
  <2>1. cleared = Clear(d, p) /\ (d[p].kind = "dir" => Empty(d, p))
    BY <1>10 DEF cleared
  <2>2. Dir(id) \in Object(M, B) /\ Dir(id).kind = "dir" /\ Dir(id).data = <<>>
        /\ File(id) \in Object(M, B) /\ File(id).kind = "file"
    BY <1>2, NewObjects DEF Dir, File
  <2>3. IsDisk(room, M, B) /\ Room(d, room, p)
    BY <1>3
  <2>4. CASE e.type = "dir"
    <3> DEFINE f == Put(MakeParents(Clear(d, p), p), p, Dir(id))
    <3>1. r = Restored(f, "ok", 0, FALSE, FALSE, TRUE)
      BY <1>10, <2>1, <2>4 DEF Created
    <3>2. /\ IsDisk(f, M, B) /\ f[p] = Dir(id)
          /\ \A q \in Paths : q \notin Ancestors(p) \cup {p} => f[q] = d[q]
          /\ \A q \in Paths \ {p} : Stays(d, f, q) \/ (f[q].kind # "file" /\ f[q].owner = 0)
      BY <1>1, <2>1, <2>2, PutInRoom
    <3> HIDE DEF f
    <3> QED BY <2>4, <3>1, <3>2 DEF Restored, IsRestored, Made
  <2>5. CASE e.type = "reg"
    <3> DEFINE f == Put(MakeParents(Clear(d, p), p), p, File(id))
    <3>1. r = Restored(f, "ok", 0, TRUE, TRUE, FALSE)
      BY <1>10, <2>1, <2>5 DEF Created
    <3>2. /\ IsDisk(f, M, B) /\ f[p] = File(id)
          /\ \A q \in Paths : q \notin Ancestors(p) \cup {p} => f[q] = d[q]
          /\ \A q \in Paths \ {p} : Stays(d, f, q) \/ (f[q].kind # "file" /\ f[q].owner = 0)
      BY <1>1, <2>1, <2>2, PutInRoom
    <3> HIDE DEF f
    <3> QED BY <2>5, <3>1, <3>2 DEF Restored, IsRestored, Made
  <2>6. CASE e.type = "link" /\ room[e.target].kind = "file"
    <3> DEFINE t == e.target
               f == Put(MakeParents(Clear(d, p), p), p, room[t])
    <3>1. t \in Paths
      BY <2>6 DEF IsEntry
    <3>2. room[t] = d[t]
      <4>1. Stays(d, room, t)
        BY <2>3, <2>6, <3>1 DEF Room
      <4> QED BY <4>1, <2>6, <3>1, FilesStay
    <3>3. r = Restored(f, "ok", 0, FALSE, FALSE, FALSE)
      BY <1>10, <2>1, <2>6 DEF Created
    <3>4. room[t] \in Object(M, B) /\ room[t].kind = "file"
      BY <2>6, <3>1, <3>2, <1>1
    <3>5. /\ IsDisk(f, M, B) /\ f[p] = room[t]
          /\ \A q \in Paths : q \notin Ancestors(p) \cup {p} => f[q] = d[q]
          /\ \A q \in Paths \ {p} : Stays(d, f, q) \/ (f[q].kind # "file" /\ f[q].owner = 0)
      BY <1>1, <2>1, <3>4, PutInRoom
    <3> HIDE DEF f, room
    <3> QED BY <2>6, <3>2, <3>3, <3>5 DEF Restored, IsRestored, Made
  <2>7. CASE e.type = "link" /\ room[e.target].kind # "file"
    <3>1. r = NotRestored(IF cleared[e.target].kind = "dir" THEN cleared ELSE room, 0)
      BY <1>10, <2>7 DEF Created
    <3> QED BY <3>1, <2>3, <1>3, <1>5
  <2> QED BY <2>4, <2>5, <2>6, <2>7 DEF IsEntry
<1> QED BY <1>6, <1>7, <1>8, <1>9, <1>10
\* When no system call fails, a file is restored where no directory is and a directory anywhere; what
\* was a directory elsewhere stays one.
LEMMA RestoreSucceeds ==
    ASSUME NEW M \in Nat, NEW B, NEW d, IsDisk(d, M, B), NEW e, IsEntry(e), e.type \in {"reg", "dir"},
           e.type = "reg" => d[e.path].kind # "dir", NEW id \in 1 .. M,
           NEW r \in RestoreOutcomes(d, e, id), r.failures = 0
    PROVE  /\ r.ret = "ok" /\ (r.opens <=> e.type = "reg")
           /\ e.type = "reg" => r.disk[e.path] = File(id)
           /\ e.type = "dir" => r.disk[e.path].kind = "dir"
           /\ \A q \in Paths \ {e.path} : d[q].kind = "dir" => r.disk[q].kind = "dir"
<1> DEFINE p == e.path
           o == IF e.type = "dir" THEN Dir(id) ELSE File(id)
           room == MakeParents(Clear(d, p), p)
           f == Put(room, p, o)
<1>1. p \in Paths \ {<<>>} /\ id \in 0 .. M
  BY DEF IsEntry
<1>2. CASE e.type = "dir" /\ d[p].kind = "dir"
  <2>1. r = Restored(d, "ok", 0, FALSE, TRUE, FALSE)
    BY <1>2 DEF RestoreOutcomes, NotRestored, Restored
  <2> QED BY <1>2, <2>1 DEF Restored
<1>3. CASE d[p].kind # "dir"
  <2>1. r.disk = f /\ r.ret = "ok" /\ (r.opens <=> e.type = "reg")
    <3>1. r = Created(room, Clear(d, p), e, id)
      BY <1>3 DEF RestoreOutcomes, NotRestored, Restored
    <3>2. CASE e.type = "dir"
      BY <3>1, <3>2 DEF Created, Restored
    <3>3. CASE e.type = "reg"
      BY <3>1, <3>3 DEF Created, Restored
    <3> QED BY <3>2, <3>3
  <2>2. o \in Object(M, B) /\ (o.kind # "file" => o.data = <<>>) /\ (o.kind = "none" => o.owner = 0)
    BY <1>1, NewObjects DEF Dir, File
  <2>3. IsDisk(f, M, B) /\ f[p] = o
    BY <1>1, <1>3, <2>2, PutInRoom
  <2>4. IsDisk(Clear(d, p), M, B) /\ Clear(d, p)[p].kind = "none" /\ \A q \in Paths \ {p} : Stays(d, Clear(d, p), q)
    BY <1>1, <1>3, ClearIs
  <2>5. /\ IsDisk(room, M, B)
        /\ \A a \in Ancestors(p) : room[a].kind = "dir"
        /\ \A q \in Paths \ Ancestors(p) : room[q] = Clear(d, p)[q]
    BY <1>1, <2>4, MakeParentsIs
  <2>6. room[p].kind = "none" /\ Parent(p) \in Ancestors(p) /\ Parent(p) \in Paths
    BY <1>1, <2>4, <2>5, ParentIsAbove, AncestorsAreAbove
  <2>7. Empty(room, p) /\ room[Parent(p)].kind = "dir"
    BY <2>5, <2>6 DEF IsDisk, WellFormed, Empty
  <2>8. \A q \in Paths \ {p} : Stays(room, f, q)
    BY <1>1, <2>2, <2>5, <2>7, PutIs
  <2> HIDE DEF f, room, o
  <2>9. ASSUME NEW q \in Paths \ {p}, d[q].kind = "dir" PROVE f[q].kind = "dir"
    <3>1. Clear(d, p)[q].kind = "dir"
      BY <2>4, <2>9, FilesStay
    <3>2. room[q].kind = "dir"
      BY <2>5, <3>1
    <3> QED BY <2>5, <2>8, <3>2, FilesStay
  <2>10. (e.type = "reg" => f[p] = File(id)) /\ (e.type = "dir" => f[p].kind = "dir")
    BY <2>3 DEF o, Dir
  <2> QED BY <2>1, <2>9, <2>10
<1> QED BY <1>2, <1>3
-----------------------------------------------------------------------------
(* The data of files. *)

LEMMA ResizeIs ==
    ASSUME NEW B, Zero \in B, NEW s \in Seq(B), NEW n \in Nat
    PROVE  /\ Resize(s, n) \in Seq(B) /\ Len(Resize(s, n)) = n
           /\ \A i \in 1 .. n : Resize(s, n)[i] = IF i <= Len(s) THEN s[i] ELSE Zero
<1>1. \A i \in 1 .. n : (IF i <= Len(s) THEN s[i] ELSE Zero) \in B
  BY ElementOfSeq
<1>2. Resize(s, n) \in [1 .. n -> B]
  BY <1>1 DEF Resize
<1>3. Resize(s, n) \in Seq(B) /\ Len(Resize(s, n)) = n
  BY <1>2
<1> QED BY <1>3 DEF Resize

\* u is s with b written at o.
IsWritten(u, s, o, b) ==
    /\ Len(u) = IF o < Len(s) THEN Len(s) ELSE o + 1
    /\ \A i \in 1 .. Len(u) : u[i] = IF i = o + 1 THEN b ELSE IF i <= Len(s) THEN s[i] ELSE Zero

LEMMA WriteAtIs ==
    ASSUME NEW B, Zero \in B, NEW s \in Seq(B), NEW o \in Nat, NEW b \in B
    PROVE  WriteAt(s, o, b) \in Seq(B) /\ IsWritten(WriteAt(s, o, b), s, o, b)
<1> DEFINE n == IF o < Len(s) THEN Len(s) ELSE o + 1
           u == Resize(s, n)
<1>1. n \in Nat /\ o + 1 \in 1 .. n
  OBVIOUS
<1> HIDE DEF n
<1>2. u \in Seq(B) /\ Len(u) = n /\ \A i \in 1 .. n : u[i] = IF i <= Len(s) THEN s[i] ELSE Zero
  BY <1>1, ResizeIs
<1>3. WriteAt(s, o, b) = [u EXCEPT ![o + 1] = b]
  BY DEF WriteAt, n
<1> HIDE DEF u
<1>4. /\ [u EXCEPT ![o + 1] = b] \in Seq(B) /\ Len([u EXCEPT ![o + 1] = b]) = n
      /\ \A i \in 1 .. n : [u EXCEPT ![o + 1] = b][i] = IF i = o + 1 THEN b ELSE u[i]
  BY <1>1, <1>2, ExceptSeq
<1> QED BY <1>2, <1>3, <1>4 DEF n, IsWritten

\* Neither puts a block where it does not belong.
LEMMA OwnDataStays ==
    ASSUME NEW B, Zero \in B, NEW s \in Seq(B), NEW o, Own(s, o)
    PROVE  /\ \A n \in Nat : Own(Resize(s, n), o)
           /\ \A k \in Nat : <<o, k>> \in B => Own(WriteAt(s, k, <<o, k>>), o)
<1>1. ASSUME NEW n \in Nat PROVE Own(Resize(s, n), o)
  <2>1. /\ Resize(s, n) \in Seq(B) /\ Len(Resize(s, n)) = n
        /\ \A i \in 1 .. n : Resize(s, n)[i] = IF i <= Len(s) THEN s[i] ELSE Zero
    BY ResizeIs
  <2> QED BY <2>1 DEF Own
<1>2. ASSUME NEW k \in Nat, NEW b \in B, b = <<o, k>> PROVE Own(WriteAt(s, k, b), o)
  <2> DEFINE u == WriteAt(s, k, b)
  <2>1. /\ u \in Seq(B)
        /\ \A i \in 1 .. Len(u) : u[i] = IF i = k + 1 THEN b ELSE IF i <= Len(s) THEN s[i] ELSE Zero
    <3>1. WriteAt(s, k, b) \in Seq(B) /\ IsWritten(WriteAt(s, k, b), s, k, b)
      BY WriteAtIs
    <3> QED BY <3>1 DEF IsWritten
  <2> HIDE DEF u
  <2>2. ASSUME NEW i \in DOMAIN u PROVE u[i] \in {<<o, i - 1>>, Zero}
    <3>1. i \in 1 .. Len(u) /\ i \in Nat
      BY <2>1
    <3>2. CASE i = k + 1
      <4>1. i - 1 = k
        BY <3>2
      <4> QED BY <4>1, <3>1, <3>2, <2>1, <1>2
    <3>3. CASE i # k + 1 /\ i <= Len(s)
      <4>1. i \in DOMAIN s
        BY <3>1, <3>3
      <4> QED BY <4>1, <3>1, <3>3, <2>1 DEF Own
    <3>4. CASE i # k + 1 /\ ~(i <= Len(s))
      BY <3>1, <3>4, <2>1
    <3> QED BY <3>2, <3>3, <3>4
  <2> QED BY <2>2 DEF Own, u
<1> QED BY <1>1, <1>2

\* Giving a file other data, and anything another time.
Rewrite(d, p, s) == [d EXCEPT ![p].data = s]
Retime(d, p, t) == [d EXCEPT ![p].time = t]

LEMMA RewriteIs ==
    ASSUME NEW M \in Nat, NEW B, NEW d, IsDisk(d, M, B), NEW p \in Paths, d[p].kind = "file",
           NEW s \in Seq(B)
    PROVE  LET f == Rewrite(d, p, s)
           IN  /\ IsDisk(f, M, B) /\ \A q \in Paths \ {p} : f[q] = d[q]
               /\ f[p].kind = "file" /\ f[p].owner = d[p].owner /\ f[p].time = d[p].time /\ f[p].data = s
<1> DEFINE f == Rewrite(d, p, s)
           o == [d[p] EXCEPT !.data = s]
<1>1. d \in [Paths -> Object(M, B)]
  BY DEF IsDisk
<1>2. o \in Object(M, B) /\ o.kind = "file" /\ o.owner = d[p].owner /\ o.time = d[p].time /\ o.data = s
  BY <1>1 DEF Object
<1>3. f \in [Paths -> Object(M, B)] /\ f[p] = o /\ \A q \in Paths \ {p} : f[q] = d[q]
  BY <1>1, <1>2 DEF Rewrite
<1> HIDE DEF f, o
<1>4. \A q \in Paths : f[q].kind = d[q].kind
  BY <1>2, <1>3
<1>5. WellFormed(f)
  BY <1>4, PathsAssumption, ParentIsAbove DEF IsDisk, WellFormed, PathsAssumption
<1>6. \A q \in Paths : (f[q].kind # "file" => f[q].data = <<>>) /\ (f[q].kind = "none" => f[q].owner = 0)
  BY <1>2, <1>3, <1>4 DEF IsDisk
<1> QED BY <1>2, <1>3, <1>5, <1>6 DEF IsDisk, f

LEMMA RetimeIs ==
    ASSUME NEW M \in Nat, NEW B, NEW d, IsDisk(d, M, B), NEW p \in Paths, NEW t \in 1 .. M
    PROVE  LET f == Retime(d, p, t)
           IN  /\ IsDisk(f, M, B) /\ \A q \in Paths \ {p} : f[q] = d[q]
               /\ f[p].kind = d[p].kind /\ f[p].owner = d[p].owner /\ f[p].time = t /\ f[p].data = d[p].data
<1> DEFINE f == Retime(d, p, t)
           o == [d[p] EXCEPT !.time = t]
<1>1. d \in [Paths -> Object(M, B)]
  BY DEF IsDisk
<1>2. o \in Object(M, B) /\ o.kind = d[p].kind /\ o.owner = d[p].owner /\ o.time = t /\ o.data = d[p].data
  BY <1>1, RestampIs
<1>3. f \in [Paths -> Object(M, B)] /\ f[p] = o /\ \A q \in Paths \ {p} : f[q] = d[q]
  BY <1>1, <1>2 DEF Retime
<1> HIDE DEF f, o
<1>4. \A q \in Paths : f[q].kind = d[q].kind
  BY <1>2, <1>3
<1>5. WellFormed(f)
  BY <1>4, PathsAssumption, ParentIsAbove DEF IsDisk, WellFormed, PathsAssumption
<1>6. \A q \in Paths : (f[q].kind # "file" => f[q].data = <<>>) /\ (f[q].kind = "none" => f[q].owner = 0)
  BY <1>2, <1>3, <1>4 DEF IsDisk
<1> QED BY <1>2, <1>3, <1>5, <1>6 DEF IsDisk, f
-----------------------------------------------------------------------------
(* Fixups. *)

\* A set of natural numbers that is not empty has a least element.
LEMMA LeastOf ==
    ASSUME NEW S, S \subseteq Nat, S # {}
    PROVE  \E m \in S : \A k \in S : m <= k
<1> DEFINE R == {ss \in Nat \X Nat : ss[1] < ss[2]}
<1>1. IsWellFoundedOn(R, Nat)
  BY NatLessThanWellFounded DEF OpToRel
<1>2. \A x, y \in Nat : <<x, y>> \in R <=> x < y
  OBVIOUS
<1> HIDE DEF R
<1>3. PICK m \in S : \A k \in S : ~ (<<k, m>> \in R)
  BY <1>1, WFMin
<1>4. ASSUME NEW k \in S PROVE m <= k
  <2>1. m \in Nat /\ k \in Nat
    OBVIOUS
  <2>2. ~(k < m)
    BY <2>1, <1>2, <1>3
  <2> QED BY <2>1, <2>2
<1> QED BY <1>4

\* i is the newest fixup of p; the list begins with the newest.
Newest(i, p) == i \in 1 .. Len(fixups) /\ fixups[i].path = p
                /\ \A j \in 1 .. Len(fixups) : fixups[j].path = p => i <= j

\* Fixing changes nothing but times: an object gets the time of the newest fixup of its path.
LEMMA FixedIs ==
    ASSUME NEW M \in Nat, NEW B, HandleOK(M, B), NEW d, IsDisk(d, M, B)
    PROVE  /\ IsDisk(Fixed(d), M, B)
           /\ \A p \in Paths :
                 /\ Fixed(d)[p].kind = d[p].kind /\ Fixed(d)[p].data = d[p].data /\ Fixed(d)[p].owner = d[p].owner
                 /\ (\A i \in 1 .. Len(fixups) : fixups[i].path # p) => Fixed(d)[p] = d[p]
                 /\ (\E i \in 1 .. Len(fixups) : fixups[i].path = p) /\ d[p].kind # "none" =>
                       \E i \in 1 .. Len(fixups) : Newest(i, p) /\ Fixed(d)[p].time = fixups[i].id
<1> DEFINE f == Fixed(d)
           mine(p) == {i \in 1 .. Len(fixups) : fixups[i].path = p}
           least(p) == CHOOSE i \in mine(p) : \A j \in mine(p) : i <= j
<1>1. d \in [Paths -> Object(M, B)] /\ fixups \in Seq([id : 1 .. M, path : Paths])
  BY DEF IsDisk, HandleOK
<1>2. ASSUME NEW p \in Paths, mine(p) # {} PROVE Newest(least(p), p)
  <2>1. \E i \in mine(p) : \A j \in mine(p) : i <= j
    <3>1. mine(p) \subseteq Nat
      OBVIOUS
    <3> HIDE DEF mine
    <3> QED BY <3>1, <1>2, LeastOf
  <2>2. least(p) \in mine(p) /\ \A j \in mine(p) : least(p) <= j
    <3> HIDE DEF mine
    <3> QED BY <2>1
  <2> HIDE DEF least
  <2> QED BY <2>2 DEF Newest
<1>3. ASSUME NEW p \in Paths
      PROVE  f[p] = IF mine(p) = {} \/ d[p].kind = "none" THEN d[p] ELSE [d[p] EXCEPT !.time = fixups[least(p)].id]
  BY DEF Fixed
<1>4. DOMAIN f = Paths /\ f = [q \in Paths |-> f[q]]
  BY DEF Fixed
<1> HIDE DEF f, least
<1>5. ASSUME NEW p \in Paths
      PROVE  /\ f[p] \in Object(M, B)
             /\ f[p].kind = d[p].kind /\ f[p].data = d[p].data /\ f[p].owner = d[p].owner
             /\ mine(p) = {} => f[p] = d[p]
             /\ mine(p) # {} /\ d[p].kind # "none" => Newest(least(p), p) /\ f[p].time = fixups[least(p)].id
  <2>1. CASE mine(p) = {} \/ d[p].kind = "none"
    <3>1. f[p] = d[p]
      BY <2>1, <1>3
    <3> HIDE DEF mine
    <3> QED BY <2>1, <3>1, <1>1
  <2>2. CASE mine(p) # {} /\ d[p].kind # "none"
    <3>1. Newest(least(p), p) /\ f[p] = [d[p] EXCEPT !.time = fixups[least(p)].id]
      BY <2>2, <1>2, <1>3
    <3> DEFINE t == fixups[least(p)].id
    <3>2. t \in 1 .. M
      <4>1. least(p) \in 1 .. Len(fixups)
        BY <3>1 DEF Newest
      <4>2. fixups[least(p)] \in [id : 1 .. M, path : Paths]
        BY <4>1, <1>1, ElementOfSeq
      <4> QED BY <4>2
    <3> HIDE DEF t
    <3>3. [d[p] EXCEPT !.time = t] \in Object(M, B) /\ [d[p] EXCEPT !.time = t].kind = d[p].kind
          /\ [d[p] EXCEPT !.time = t].data = d[p].data /\ [d[p] EXCEPT !.time = t].owner = d[p].owner
          /\ [d[p] EXCEPT !.time = t].time = t
      BY <3>2, <1>1, RestampIs
    <3> HIDE DEF mine
    <3> QED BY <2>2, <3>1, <3>3 DEF t
  <2> QED BY <2>1, <2>2
<1>6. f \in [Paths -> Object(M, B)]
  BY <1>4, <1>5
<1>7. WellFormed(f)
  BY <1>5, PathsAssumption, ParentIsAbove DEF IsDisk, WellFormed, PathsAssumption
<1>8. \A q \in Paths : (f[q].kind # "file" => f[q].data = <<>>) /\ (f[q].kind = "none" => f[q].owner = 0)
  BY <1>5 DEF IsDisk
<1>9. IsDisk(f, M, B)
  BY <1>6, <1>7, <1>8 DEF IsDisk
<1>10. ASSUME NEW p \in Paths
       PROVE  /\ (\A i \in 1 .. Len(fixups) : fixups[i].path # p) => f[p] = d[p]
              /\ (\E i \in 1 .. Len(fixups) : fixups[i].path = p) /\ d[p].kind # "none" =>
                     \E i \in 1 .. Len(fixups) : Newest(i, p) /\ f[p].time = fixups[i].id
  <2>1. (\A i \in 1 .. Len(fixups) : fixups[i].path # p) => mine(p) = {}
    OBVIOUS
  <2>2. (\E i \in 1 .. Len(fixups) : fixups[i].path = p) => mine(p) # {}
    OBVIOUS
  <2>3. Newest(least(p), p) => least(p) \in 1 .. Len(fixups)
    BY DEF Newest
  <2> HIDE DEF mine
  <2> QED BY <2>1, <2>2, <2>3, <1>5
<1> HIDE DEF mine
<1> QED BY <1>5, <1>9, <1>10 DEF f
-----------------------------------------------------------------------------
(* What the calls do. *)

\* Finishing an entry.
LEMMA FinishIs ==
    ASSUME NEW M \in Nat, NEW B, Zero \in B, HandleOK(M, B), state \in {"header", "data"},
           NEW f \in FinishOutcomes
    PROVE  /\ IsDisk(f.disk, M, B) /\ IsFinished(f) /\ Torn(f) \subseteq 1 .. M
           /\ OwnData(disk) => OwnData(f.disk)
<1> DEFINE p == cur.path
<1>1. IsDisk(disk, M, B) /\ p \in Paths /\ cur.id \in 0 .. M /\ cur.size \in Int /\ offset \in Nat
      /\ (state = "data" => cur.id \in 1 .. M) /\ disk[p].data \in Seq(B)
  BY DEF HandleOK, IsDisk, Object
<1>2. SizeIsOff => disk[p].kind = "file" /\ Resize(disk[p].data, cur.size) \in Seq(B)
  BY <1>1, ResizeIs DEF SizeIsOff, HandleOK
<1>3. /\ IsDisk(Sized, M, B)
      /\ \A q \in Paths \ {p} : Sized[q] = disk[q]
      /\ Sized[p].kind = disk[p].kind /\ Sized[p].owner = disk[p].owner /\ Sized[p].time = disk[p].time
      /\ Sized[p].data = IF SizeIsOff THEN Resize(disk[p].data, cur.size) ELSE disk[p].data
  <2>1. CASE SizeIsOff
    <3> DEFINE s == Resize(disk[p].data, cur.size)
    <3>1. s \in Seq(B) /\ Sized = Rewrite(disk, p, s)
      BY <1>1, <1>2, <2>1 DEF Sized, Rewrite
    <3> HIDE DEF s
    <3>2. /\ IsDisk(Sized, M, B) /\ \A q \in Paths \ {p} : Sized[q] = disk[q]
          /\ Sized[p].kind = "file" /\ Sized[p].owner = disk[p].owner /\ Sized[p].time = disk[p].time /\ Sized[p].data = s
      BY <1>1, <1>2, <2>1, <3>1, RewriteIs
    <3> QED BY <1>2, <2>1, <3>1, <3>2 DEF s
  <2>2. CASE ~SizeIsOff
    BY <1>1, <2>2 DEF Sized
  <2> QED BY <2>1, <2>2
<1>4. state = "data" =>
      /\ IsDisk(Stamped(Sized), M, B)
      /\ \A q \in Paths \ {p} : Stamped(Sized)[q] = Sized[q]
      /\ Stamped(Sized)[p].kind = Sized[p].kind /\ Stamped(Sized)[p].owner = Sized[p].owner
      /\ Stamped(Sized)[p].data = Sized[p].data
      /\ Stamped(Sized)[p].time = IF times /\ ~Gone THEN cur.id ELSE Sized[p].time
  <2>1. CASE times /\ ~Gone
    <3>1. Stamped(Sized) = Retime(Sized, p, cur.id)
      BY <2>1 DEF Stamped, Retime
    <3> QED BY <2>1, <3>1, <1>1, <1>3, RetimeIs
  <2>2. CASE ~(times /\ ~Gone)
    BY <2>2, <1>3 DEF Stamped
  <2> QED BY <2>1, <2>2
<1>5. IsDisk(f.disk, M, B) /\ IsFinished(f)
  <2>1. CASE state = "header"
    <3>1. f = Outcome(disk, "header", "ok", 0) /\ ~SizeIsOff
      BY <2>1 DEF FinishOutcomes, HandleOK, SizeIsOff
    <3> QED BY <2>1, <3>1, <1>1 DEF Outcome, IsFinished, Ret
  <2>2. CASE state = "data"
    <3>1. \/ f = Outcome(Stamped(Sized), "header", IF times /\ Gone THEN "warn" ELSE "ok", 0)
          \/ SizeIsOff /\ f = Outcome(disk, "data", "failed", 1)
          \/ times /\ f = Outcome(Sized, "header", "warn", 1)
      BY <2>2 DEF FinishOutcomes, If
    <3>2. CASE f = Outcome(Stamped(Sized), "header", IF times /\ Gone THEN "warn" ELSE "ok", 0)
      <4>1. f.disk = Stamped(Sized) /\ f.state = "header" /\ f.ret \in Ret /\ f.failures = 0
        BY <3>2 DEF Outcome, Ret
      <4>2. times /\ disk[p].kind # "none" => times /\ ~Gone
        BY DEF Gone
      <4> QED BY <2>2, <4>1, <4>2, <1>1, <1>3, <1>4 DEF IsFinished
    <3>3. CASE SizeIsOff /\ f = Outcome(disk, "data", "failed", 1)
      BY <2>2, <3>3, <1>1 DEF Outcome, IsFinished, Ret
    <3>4. CASE f = Outcome(Sized, "header", "warn", 1)
      BY <2>2, <3>4, <1>1, <1>3 DEF Outcome, IsFinished, Ret
    <3> QED BY <3>1, <3>2, <3>3, <3>4
  <2> QED BY <2>1, <2>2
<1>6. Torn(f) \subseteq 1 .. M
  BY <1>1, <1>5 DEF IsFinished, Torn, HandleOK
<1>7. ASSUME OwnData(disk) PROVE OwnData(f.disk)
  <2>1. SUFFICES ASSUME NEW q \in Paths PROVE Own(f.disk[q].data, f.disk[q].owner)
    BY DEF OwnData
  <2>2. Own(disk[q].data, disk[q].owner) /\ f.disk[q].owner = disk[q].owner
    BY <1>5, <1>7 DEF OwnData, IsFinished
  <2>3. CASE f.disk[q].data = disk[q].data
    BY <2>2, <2>3
  <2>4. CASE q = p /\ SizeIsOff /\ f.disk[q].data = Resize(disk[q].data, cur.size)
    BY <2>2, <2>4, <1>1, OwnDataStays DEF SizeIsOff
  <2> QED BY <2>3, <2>4, <1>5 DEF IsFinished
<1> QED BY <1>5, <1>6, <1>7

\* An entry that is restored brings no blocks along but those of the file it is a link to.
LEMMA RestoreOwns ==
    ASSUME NEW M, NEW B, NEW d, IsDisk(d, M, B), OwnData(d), NEW e, IsEntry(e), NEW id,
           NEW r, IsDisk(r.disk, M, B), IsRestored(d, r, e, id)
    PROVE  OwnData(r.disk)
<1>1. SUFFICES ASSUME NEW q \in Paths PROVE Own(r.disk[q].data, r.disk[q].owner)
  BY DEF OwnData
<1>2. CASE r.disk[q].data = <<>>
  BY <1>2 DEF Own
<1>3. CASE Stays(d, r.disk, q)
  <2>1. r.disk[q].data = d[q].data /\ r.disk[q].owner = d[q].owner
    BY <1>3, FilesStay
  <2> QED BY <2>1 DEF OwnData
<1>4. CASE q = e.path /\ e.type = "link" /\ r.disk[q] = d[e.target]
  BY <1>4 DEF IsEntry, OwnData
<1>5. r.disk[q].kind # "file" => r.disk[q].data = <<>>
  BY DEF IsDisk
<1>6. Dir(id).data = <<>> /\ File(id).data = <<>>
  BY DEF Dir, File
<1> QED BY <1>2, <1>3, <1>4, <1>5, <1>6 DEF IsRestored, Made

\* The number of failed calls stays within its bound.
LEMMA FaultsStay ==
    ASSUME NEW n \in Nat, faults \in 0 .. MaxFaults, Fails(n)
    PROVE  faults' \in 0 .. MaxFaults /\ faults' = faults + n
BY FaultsAssumption DEF Fails, FaultsAssumption

LEMMA MisusedKeeps ==
    ASSUME NEW M, NEW B, HandleOK(M, B), Misused, ~fh
    PROVE  HandleOK(M, B)'
BY DEF HandleOK, Misused, Ret

\* The fixups that a header leaves.
LEMMA FixupsGrow ==
    ASSUME NEW M \in Nat, NEW S, NEW s \in Seq([id : 1 .. M, path : S]), NEW id \in 1 .. M, NEW p \in S
    PROVE  LET u == <<[id |-> id, path |-> p]>> \o s
           IN  /\ u \in Seq([id : 1 .. M, path : S]) /\ Len(u) = Len(s) + 1
               /\ u[1] = [id |-> id, path |-> p]
               /\ \A i \in 1 .. Len(s) : u[i + 1] = s[i]
<1> DEFINE F == [id : 1 .. M, path : S]
           x == [id |-> id, path |-> p]
<1>1. x \in F
  OBVIOUS
<1> HIDE DEF F, x
<1>2. <<x>> \in Seq(F) /\ Len(<<x>>) = 1 /\ <<x>>[1] = x /\ s \in Seq(F)
  BY <1>1 DEF F
<1> DEFINE u == <<x>> \o s
<1>3. u \in Seq(F) /\ Len(u) = Len(s) + 1 /\ u[1] = x /\ \A i \in 1 .. Len(s) : u[i + 1] = s[i]
  BY <1>2
<1> QED BY <1>3 DEF x, F

\* Whatever comes of a header, the handle is in order, no file has blocks of another, and files
\* have gone only where the entry goes.
LEMMA HeaderKeeps ==
    ASSUME NEW M \in Nat, NEW B, Zero \in B, HandleOK(M, B), state \in {"header", "data"},
           NEW e, IsEntry(e), e.size \in Int, NEW id \in 1 .. M, Header(e, id)
    PROVE  /\ HandleOK(M, B)' /\ state' \in {"header", "data"}
           /\ OwnData(disk) => OwnData(disk')
           /\ \A q \in Paths : q \notin Ancestors(e.path) \cup {e.path, cur.path} => disk'[q] = disk[q]
           /\ \A q \in Paths : disk[q].kind = "file" /\ disk'[q].kind # "file" =>
                ~e.dots /\ q \in Ancestors(e.path) \cup {e.path}
<1>1. PICK f \in FinishOutcomes :
        /\ cur' = [id |-> id, path |-> e.path, size |-> IF e.type = "reg" THEN e.size ELSE 0]
        /\ torn' = Torn(f)
        /\ Refuse(f, e) \/ Restore(f, e, id)
  BY DEF Header
<1>2. /\ IsDisk(f.disk, M, B) /\ IsFinished(f) /\ Torn(f) \subseteq 1 .. M
      /\ OwnData(disk) => OwnData(f.disk)
  BY FinishIs
<1>3. cur' \in [id : 0 .. M, path : Paths, size : Int] /\ cur'.id >= 1 /\ cur'.id = id /\ cur'.path = e.path
  BY <1>1 DEF IsEntry
<1>4. f.failures \in {0, 1} /\ f.state \in {"header", "data"} /\ faults \in 0 .. MaxFaults
  BY <1>2 DEF IsFinished, HandleOK
<1>5. CASE Refuse(f, e)
  <2>1. faults' \in 0 .. MaxFaults
    <3>1. PICK n \in {0, 1, 2} : Fails(n)
      BY <1>4, <1>5 DEF Refuse
    <3> QED BY <3>1, <1>4, FaultsStay
  <2>2. disk' = f.disk /\ state' = f.state /\ wret' = "failed" /\ fh' = FALSE /\ offset' = 0
        /\ times' = times /\ fixups' = fixups
    BY <1>5 DEF Refuse
  <2>3. HandleOK(M, B)'
    BY <1>1, <1>2, <1>3, <1>4, <2>1, <2>2 DEF HandleOK, Ret
  <2> QED BY <1>2, <1>4, <2>2, <2>3 DEF IsFinished
<1>6. CASE Restore(f, e, id)
  <2>1. PICK r \in RestoreOutcomes(f.disk, e, id) :
         /\ Fails(f.failures + r.failures)
         /\ disk' = r.disk
         /\ state' = IF r.ret = "ok" THEN "data" ELSE f.state
         /\ wret' = r.ret
         /\ fh' = r.opens
         /\ offset' = 0
         /\ times' = r.times
         /\ fixups' = IF r.late THEN <<[id |-> id, path |-> e.path]>> \o fixups ELSE fixups
    BY <1>6 DEF Restore
  <2>2. IsDisk(r.disk, M, B) /\ IsRestored(f.disk, r, e, id)
    BY <1>2, RestoreIs
  <2>3. faults' \in 0 .. MaxFaults
    <3>1. r.failures \in {0, 1}
      BY <2>2 DEF IsRestored
    <3>2. PICK n \in {0, 1, 2} : Fails(n)
      BY <3>1, <1>4, <2>1
    <3> QED BY <3>2, <1>4, FaultsStay
  <2>4. fixups' \in Seq([id : 1 .. M, path : Paths])
    BY <2>1, FixupsGrow DEF HandleOK, IsEntry
  <2>5. fh' \in BOOLEAN /\ times' \in BOOLEAN /\ wret' \in Ret /\ state' \in {"header", "data"}
    BY <1>4, <2>1, <2>2 DEF IsRestored, Ret
  <2>6. fh' => state' = "data" /\ disk'[cur'.path].kind = "file" /\ disk'[cur'.path].owner = cur'.id
    BY <1>3, <2>1, <2>2 DEF IsRestored, File
  <2>7. HandleOK(M, B)'
    BY <1>1, <1>2, <1>3, <2>1, <2>2, <2>3, <2>4, <2>5, <2>6 DEF HandleOK
  <2>8. OwnData(disk) => OwnData(disk')
    BY <1>2, <2>1, <2>2, RestoreOwns
  <2>9. \A q \in Paths : q \notin Ancestors(e.path) \cup {e.path, cur.path} => disk'[q] = disk[q]
    BY <1>2, <2>1, <2>2 DEF IsFinished, IsRestored
  <2>10. ~e.dots /\ \A q \in Paths : disk[q].kind = "file" /\ disk'[q].kind # "file" =>
            q \in Ancestors(e.path) \cup {e.path}
    BY <1>2, <1>6, <2>1, <2>2 DEF IsFinished, IsRestored, Restore
  <2> QED BY <2>5, <2>7, <2>8, <2>9, <2>10
<1> QED BY <1>1, <1>5, <1>6

\* What comes of a header: its entry is the present one, a file is one that was there or the
\* entry's, and a fixup is an old one or of the entry.
LEMMA HeaderMakes ==
    ASSUME NEW M \in Nat, NEW B, Zero \in B, HandleOK(M, B), state \in {"header", "data"},
           NEW e, IsEntry(e), NEW id \in 1 .. M, Header(e, id)
    PROVE  /\ cur'.id = id /\ cur'.path = e.path
           /\ wret' = "ok" => state' = "data"
           /\ \A q \in Paths : disk'[q].kind = "file" =>
                \/ disk[q].kind = "file" /\ disk'[q].owner = disk[q].owner
                \/ q = e.path /\ (e.type = "link" \/ disk'[q].owner = id)
           /\ \A i \in 1 .. Len(fixups') : \/ fixups'[i].path = e.path
                                          \/ \E j \in 1 .. Len(fixups) : fixups'[i].path = fixups[j].path
<1>1. PICK f \in FinishOutcomes :
        /\ cur' = [id |-> id, path |-> e.path, size |-> IF e.type = "reg" THEN e.size ELSE 0]
        /\ torn' = Torn(f)
        /\ Refuse(f, e) \/ Restore(f, e, id)
  BY DEF Header
<1>2. IsDisk(f.disk, M, B) /\ IsFinished(f)
  BY FinishIs
<1>3. cur'.id = id /\ cur'.path = e.path
  BY <1>1
<1>4. CASE Refuse(f, e)
  BY <1>2, <1>3, <1>4 DEF Refuse, IsFinished
<1>5. CASE Restore(f, e, id)
  <2>1. PICK r \in RestoreOutcomes(f.disk, e, id) :
         /\ disk' = r.disk
         /\ state' = IF r.ret = "ok" THEN "data" ELSE f.state
         /\ wret' = r.ret
         /\ fixups' = IF r.late THEN <<[id |-> id, path |-> e.path]>> \o fixups ELSE fixups
    BY <1>5 DEF Restore
  <2>2. IsDisk(r.disk, M, B) /\ IsRestored(f.disk, r, e, id)
    BY <1>2, RestoreIs
  <2>3. ASSUME NEW q \in Paths, disk'[q].kind = "file"
        PROVE  \/ disk[q].kind = "file" /\ disk'[q].owner = disk[q].owner
               \/ q = e.path /\ (e.type = "link" \/ disk'[q].owner = id)
    <3>1. CASE Stays(f.disk, r.disk, q)
      BY <1>2, <2>1, <2>3, <3>1, FilesStay DEF IsFinished
    <3>2. CASE q = e.path /\ Made(f.disk, r, e, id)
      BY <2>1, <2>3, <3>2 DEF Made, File, Dir
    <3> QED BY <2>1, <2>2, <2>3, <3>1, <3>2 DEF IsRestored
  <2>4. ASSUME NEW i \in 1 .. Len(fixups')
        PROVE  fixups'[i].path = e.path \/ \E j \in 1 .. Len(fixups) : fixups'[i].path = fixups[j].path
    <3>1. CASE r.late
      <4>1. fixups \in Seq([id : 1 .. M, path : Paths]) /\ e.path \in Paths
        BY DEF HandleOK, IsEntry
      <4>2. /\ Len(fixups') = Len(fixups) + 1 /\ fixups'[1] = [id |-> id, path |-> e.path]
            /\ \A j \in 1 .. Len(fixups) : fixups'[j + 1] = fixups[j]
        BY <2>1, <3>1, <4>1, FixupsGrow
      <4>3. CASE i = 1
        BY <4>2, <4>3
      <4>4. CASE i # 1
        <5>1. i - 1 \in 1 .. Len(fixups) /\ i = (i - 1) + 1
          BY <2>4, <4>1, <4>2, <4>4
        <5>2. fixups'[i] = fixups[i - 1]
          BY <4>2, <5>1
        <5> QED BY <5>1, <5>2
      <4> QED BY <4>3, <4>4
    <3>2. CASE ~r.late
      BY <2>1, <2>4, <3>2
    <3> QED BY <3>1, <3>2
  <2>5. wret' = "ok" => state' = "data"
    BY <2>1
  <2> QED BY <1>3, <2>3, <2>4, <2>5
<1> QED BY <1>1, <1>4, <1>5

\* The other calls leave every object what it is, and change only the present file and, in the
\* end, what has a fixup.
LEMMA DataBlockKeeps ==
    ASSUME NEW M \in Nat, NEW B, Zero \in B, HandleOK(M, B), NEW o \in Nat, NEW b \in B, DataBlock(b, o)
    PROVE  /\ HandleOK(M, B)'
           /\ OwnData(disk) /\ b = <<cur.id, o>> => OwnData(disk')
           /\ \A q \in Paths \ {cur.path} : disk'[q] = disk[q]
           /\ \A q \in Paths : disk'[q].kind = disk[q].kind /\ disk'[q].owner = disk[q].owner
           /\ state = "data" => state' = "data"
<1>1. CASE state # "data"
  <2>1. Misused
    BY <1>1 DEF DataBlock
  <2>2. ~fh /\ UNCHANGED disk
    BY <1>1, <2>1 DEF HandleOK, Misused
  <2> QED BY <1>1, <2>1, <2>2, MisusedKeeps
<1>2. CASE state = "data" /\ UNCHANGED disk
  <2>1. /\ UNCHANGED <<state, cur, fh, times, fixups, torn>>
        /\ offset' \in Nat /\ wret' \in Ret
    BY <1>2 DEF DataBlock, HandleOK, Ret
  <2>2. faults' \in 0 .. MaxFaults
    <3>1. UNCHANGED faults \/ Fails(0) \/ Fails(1)
      BY <1>2 DEF DataBlock
    <3> QED BY <3>1, FaultsStay DEF HandleOK
  <2>3. HandleOK(M, B)'
    BY <1>2, <2>1, <2>2 DEF HandleOK
  <2> QED BY <1>2, <2>1, <2>3
<1>3. CASE state = "data" /\ ~UNCHANGED disk
  <2> DEFINE p == cur.path
             s == WriteAt(disk[p].data, o, b)
  <2>1. /\ fh /\ disk' = Rewrite(disk, p, s)
        /\ offset' = o + 1 /\ wret' = "ok" /\ UNCHANGED <<state, cur, fh, times, fixups, torn, faults>>
    BY <1>3 DEF DataBlock, Rewrite
  <2>2. IsDisk(disk, M, B) /\ p \in Paths /\ disk[p].kind = "file" /\ disk[p].owner = cur.id /\ disk[p].data \in Seq(B)
    BY <2>1 DEF HandleOK, IsDisk, Object
  <2>3. s \in Seq(B)
    BY <2>2, WriteAtIs
  <2> HIDE DEF s
  <2>4. /\ IsDisk(disk', M, B) /\ \A q \in Paths \ {p} : disk'[q] = disk[q]
        /\ disk'[p].kind = "file" /\ disk'[p].owner = disk[p].owner /\ disk'[p].data = s
    <3>1. LET f == Rewrite(disk, p, s)
          IN  /\ IsDisk(f, M, B) /\ \A q \in Paths \ {p} : f[q] = disk[q]
              /\ f[p].kind = "file" /\ f[p].owner = disk[p].owner /\ f[p].data = s
      BY <2>2, <2>3, RewriteIs
    <3> QED BY <2>1, <3>1
  <2>5. HandleOK(M, B)'
    BY <1>3, <2>1, <2>2, <2>4 DEF HandleOK, Ret
  <2>6. ASSUME OwnData(disk), b = <<cur.id, o>> PROVE OwnData(disk')
    <3>1. Own(s, cur.id)
      BY <2>2, <2>6, OwnDataStays DEF s, OwnData
    <3> QED BY <2>2, <2>4, <2>6, <3>1 DEF OwnData
  <2> QED BY <1>3, <2>1, <2>2, <2>4, <2>5, <2>6
<1> QED BY <1>1, <1>2, <1>3

LEMMA FinishKeeps ==
    ASSUME NEW M \in Nat, NEW B, Zero \in B, HandleOK(M, B), FinishEntry
    PROVE  /\ HandleOK(M, B)'
           /\ OwnData(disk) => OwnData(disk')
           /\ \A q \in Paths \ {cur.path} : disk'[q] = disk[q]
           /\ \A q \in Paths : disk'[q].kind = disk[q].kind /\ disk'[q].owner = disk[q].owner
           /\ state \in {"header", "data"} => state' \in {"header", "data"}
<1>1. CASE state \notin {"header", "data"}
  <2>1. Misused
    BY <1>1 DEF FinishEntry
  <2>2. ~fh /\ UNCHANGED disk
    BY <1>1, <2>1 DEF HandleOK, Misused
  <2> QED BY <1>1, <2>1, <2>2, MisusedKeeps
<1>2. CASE state \in {"header", "data"}
  <2>1. PICK f \in FinishOutcomes :
           /\ Fails(f.failures)
           /\ disk' = f.disk
           /\ state' = f.state
           /\ wret' = f.ret
           /\ torn' = Torn(f)
           /\ fh' = FALSE
           /\ UNCHANGED <<cur, offset, times, fixups>>
    BY <1>2 DEF FinishEntry
  <2>2. /\ IsDisk(f.disk, M, B) /\ IsFinished(f) /\ Torn(f) \subseteq 1 .. M
        /\ OwnData(disk) => OwnData(f.disk)
    BY <1>2, FinishIs
  <2>3. faults' \in 0 .. MaxFaults
    <3>1. f.failures \in Nat
      BY <2>2 DEF IsFinished
    <3> QED BY <2>1, <3>1, FaultsStay DEF HandleOK
  <2>4. HandleOK(M, B)'
    BY <1>2, <2>1, <2>2, <2>3 DEF HandleOK, IsFinished
  <2> QED BY <2>1, <2>2, <2>4 DEF IsFinished
<1> QED BY <1>1, <1>2

\* The step of close or of free in which the fixups are made.
LEMMA FixingKeeps ==
    ASSUME NEW M \in Nat, NEW B, Zero \in B, HandleOK(M, B), state \in {"header", "data"},
           NEW f \in FinishOutcomes,
           Fails(f.failures), disk' = Fixed(f.disk), wret' = f.ret, torn' = Torn(f), fh' = FALSE, fixups' = <<>>,
           UNCHANGED <<cur, offset, times>>, state' \in {f.state, "freed"}
    PROVE  /\ HandleOK(M, B)'
           /\ OwnData(disk) => OwnData(disk')
           /\ \A q \in Paths \ {cur.path} :
                (\A i \in 1 .. Len(fixups) : fixups[i].path # q) => disk'[q] = disk[q]
           /\ \A q \in Paths : disk'[q].kind = disk[q].kind /\ disk'[q].owner = disk[q].owner
<1>1. /\ IsDisk(f.disk, M, B) /\ IsFinished(f) /\ Torn(f) \subseteq 1 .. M
      /\ OwnData(disk) => OwnData(f.disk)
  BY FinishIs
<1>2. /\ IsDisk(disk', M, B)
      /\ \A q \in Paths :
             /\ disk'[q].kind = f.disk[q].kind /\ disk'[q].data = f.disk[q].data /\ disk'[q].owner = f.disk[q].owner
             /\ (\A i \in 1 .. Len(fixups) : fixups[i].path # q) => disk'[q] = f.disk[q]
  <2>1. /\ IsDisk(Fixed(f.disk), M, B)
        /\ \A q \in Paths :
             /\ Fixed(f.disk)[q].kind = f.disk[q].kind /\ Fixed(f.disk)[q].data = f.disk[q].data
             /\ Fixed(f.disk)[q].owner = f.disk[q].owner
             /\ (\A i \in 1 .. Len(fixups) : fixups[i].path # q) => Fixed(f.disk)[q] = f.disk[q]
    BY <1>1, FixedIs
  <2> QED BY <2>1
<1>3. faults' \in 0 .. MaxFaults
  <2>1. f.failures \in Nat
    BY <1>1 DEF IsFinished
  <2> QED BY <2>1, FaultsStay DEF HandleOK
<1>4. fixups' \in Seq([id : 1 .. M, path : Paths])
  BY EmptySeq
<1>5. HandleOK(M, B)'
  BY <1>1, <1>2, <1>3, <1>4 DEF HandleOK, IsFinished
<1>6. OwnData(disk) => OwnData(disk')
  BY <1>1, <1>2 DEF OwnData
<1> QED BY <1>1, <1>2, <1>5, <1>6 DEF IsFinished

LEMMA CloseKeeps ==
    ASSUME NEW M \in Nat, NEW B, Zero \in B, HandleOK(M, B), Close
    PROVE  /\ HandleOK(M, B)'
           /\ OwnData(disk) => OwnData(disk')
           /\ \A q \in Paths \ {cur.path} :
                (\A i \in 1 .. Len(fixups) : fixups[i].path # q) => disk'[q] = disk[q]
           /\ \A q \in Paths : disk'[q].kind = disk[q].kind /\ disk'[q].owner = disk[q].owner
           /\ state \in {"header", "data"} => state' \in {"header", "data"}
<1>1. CASE state \notin {"header", "data"}
  <2>1. Misused
    BY <1>1 DEF Close
  <2>2. ~fh /\ UNCHANGED disk
    BY <1>1, <2>1 DEF HandleOK, Misused
  <2> QED BY <1>1, <2>1, <2>2, MisusedKeeps
<1>2. CASE state \in {"header", "data"}
  <2>1. PICK f \in FinishOutcomes :
           /\ Fails(f.failures)
           /\ disk' = Fixed(f.disk)
           /\ state' = f.state
           /\ wret' = f.ret
           /\ torn' = Torn(f)
           /\ fh' = FALSE
           /\ fixups' = <<>>
           /\ UNCHANGED <<cur, offset, times>>
    BY <1>2 DEF Close
  <2>2. f.state \in {"header", "data"}
    BY <1>2, FinishIs DEF IsFinished
  <2>3. state' \in {f.state, "freed"}
    BY <2>1
  <2> QED BY <1>2, <2>1, <2>2, <2>3, FixingKeeps
<1> QED BY <1>1, <1>2

\* The blocks at q when the present entry has been finished without a failure.
FinishedData(q) == IF SizeIsOff /\ q = cur.path THEN Resize(disk[q].data, cur.size) ELSE disk[q].data

\* No system call has failed in a step that leaves the count at 0.
LEMMA NoneFails ==
    ASSUME NEW m \in Nat, NEW n \in Nat, faults \in 0 .. MaxFaults, Fails(m + n), faults' = 0
    PROVE  faults = 0 /\ m = 0 /\ n = 0
BY FaultsAssumption DEF Fails, FaultsAssumption

\* An entry that is finished without a failure has its size.
LEMMA FinishSucceeds ==
    ASSUME NEW M \in Nat, NEW B, Zero \in B, HandleOK(M, B), state \in {"header", "data"},
           NEW f \in FinishOutcomes, f.failures = 0
    PROVE  /\ f.state = "header" /\ IsDisk(f.disk, M, B)
           /\ \A q \in Paths : f.disk[q].kind = disk[q].kind /\ f.disk[q].data = FinishedData(q)
<1>1. IsDisk(f.disk, M, B) /\ IsFinished(f)
  BY FinishIs
<1>2. f.state = "header"
  BY <1>1 DEF IsFinished
<1> QED BY <1>1, <1>2 DEF IsFinished, FinishedData

\* A header in which nothing fails finishes the entry before and restores its own.
LEMMA HeaderFailures ==
    ASSUME NEW M \in Nat, NEW B, Zero \in B, HandleOK(M, B), state \in {"header", "data"},
           NEW e, IsEntry(e), ~e.dots, NEW id \in 1 .. M, Header(e, id), faults' = 0
    PROVE  /\ faults = 0
           /\ cur' = [id |-> id, path |-> e.path, size |-> IF e.type = "reg" THEN e.size ELSE 0]
           /\ \E f \in FinishOutcomes : \E r \in RestoreOutcomes(f.disk, e, id) :
                /\ f.failures = 0 /\ r.failures = 0
                /\ disk' = r.disk /\ wret' = r.ret /\ fh' = r.opens /\ offset' = 0
<1>1. PICK f \in FinishOutcomes :
        /\ cur' = [id |-> id, path |-> e.path, size |-> IF e.type = "reg" THEN e.size ELSE 0]
        /\ Refuse(f, e) \/ Restore(f, e, id)
  BY DEF Header
<1>2. f.failures \in {0, 1} /\ faults \in 0 .. MaxFaults
  BY FinishIs DEF IsFinished, HandleOK
<1>3. ~Refuse(f, e)
  BY <1>2, NoneFails DEF Refuse
<1>4. PICK r \in RestoreOutcomes(f.disk, e, id) :
         /\ Fails(f.failures + r.failures)
         /\ disk' = r.disk /\ wret' = r.ret /\ fh' = r.opens /\ offset' = 0
  BY <1>1, <1>3 DEF Restore
<1>5. IsRestored(f.disk, r, e, id)
  BY FinishIs, RestoreIs
<1>6. r.failures \in {0, 1}
  BY <1>5 DEF IsRestored
<1>7. faults = 0 /\ f.failures = 0 /\ r.failures = 0
  BY <1>2, <1>4, <1>6, NoneFails
<1> QED BY <1>1, <1>4, <1>7

\* The entry before is finished and e is restored: its file is open and empty, and every directory
\* that was there still is one.
Begun(e, id) ==
    /\ wret' = "ok" /\ fh' = (e.type = "reg") /\ offset' = 0
    /\ e.type = "reg" => cur'.size = e.size /\ disk'[e.path].kind = "file" /\ disk'[e.path].data = <<>>
    /\ e.type = "dir" => disk'[e.path].kind = "dir"
    /\ \A q \in Paths \ {e.path} : disk[q].kind = "dir" => disk'[q].kind = "dir"
    /\ \A q \in Paths : q \notin Ancestors(e.path) \cup {e.path} =>
         disk'[q].kind = disk[q].kind /\ disk'[q].data = FinishedData(q)

LEMMA HeaderSucceeds ==
    ASSUME NEW M \in Nat, NEW B, Zero \in B, HandleOK(M, B), state \in {"header", "data"},
           NEW e, IsEntry(e), e.type \in {"reg", "dir"}, ~e.dots,
           e.type = "reg" => disk[e.path].kind # "dir", NEW id \in 1 .. M, Header(e, id), faults' = 0
    PROVE  Begun(e, id)
<1>1. /\ cur' = [id |-> id, path |-> e.path, size |-> IF e.type = "reg" THEN e.size ELSE 0]
      /\ \E f \in FinishOutcomes : \E r \in RestoreOutcomes(f.disk, e, id) :
           /\ f.failures = 0 /\ r.failures = 0
           /\ disk' = r.disk /\ wret' = r.ret /\ fh' = r.opens /\ offset' = 0
  BY HeaderFailures
<1>2. PICK f \in FinishOutcomes : \E r \in RestoreOutcomes(f.disk, e, id) :
           /\ f.failures = 0 /\ r.failures = 0
           /\ disk' = r.disk /\ wret' = r.ret /\ fh' = r.opens /\ offset' = 0
  BY <1>1
<1>3. PICK r \in RestoreOutcomes(f.disk, e, id) :
           /\ f.failures = 0 /\ r.failures = 0
           /\ disk' = r.disk /\ wret' = r.ret /\ fh' = r.opens /\ offset' = 0
  BY <1>2
<1>4. /\ IsDisk(f.disk, M, B)
      /\ \A q \in Paths : f.disk[q].kind = disk[q].kind /\ f.disk[q].data = FinishedData(q)
  BY <1>3, FinishSucceeds
<1>5. e.type = "reg" => f.disk[e.path].kind # "dir"
  BY <1>4 DEF IsEntry
<1>6. /\ r.ret = "ok" /\ (r.opens <=> e.type = "reg")
      /\ e.type = "reg" => r.disk[e.path] = File(id)
      /\ e.type = "dir" => r.disk[e.path].kind = "dir"
      /\ \A q \in Paths \ {e.path} : f.disk[q].kind = "dir" => r.disk[q].kind = "dir"
  BY <1>3, <1>4, <1>5, RestoreSucceeds
<1>7. /\ r.opens \in BOOLEAN
      /\ \A q \in Paths : q \notin Ancestors(e.path) \cup {e.path} => r.disk[q] = f.disk[q]
  BY <1>4, RestoreIs DEF IsRestored
<1>8. e.type = "reg" => disk'[e.path].kind = "file" /\ disk'[e.path].data = <<>>
  BY <1>3, <1>6 DEF File
<1>9. fh' = (e.type = "reg")
  BY <1>3, <1>6, <1>7
<1> QED BY <1>1, <1>3, <1>4, <1>6, <1>7, <1>8, <1>9 DEF Begun

\* What close and free leave behind when nothing fails.
LEMMA CloseSucceeds ==
    ASSUME NEW M \in Nat, NEW B, Zero \in B, HandleOK(M, B), state \in {"header", "data"}, Close \/ Free, faults' = 0
    PROVE  /\ faults = 0 /\ ~fh'
           /\ \A q \in Paths : disk'[q].kind = disk[q].kind /\ disk'[q].data = FinishedData(q)
<1>1. PICK f \in FinishOutcomes : Fails(f.failures) /\ disk' = Fixed(f.disk) /\ fh' = FALSE
  BY DEF Close, Free
<1>2. f.failures \in {0, 1} /\ faults \in 0 .. MaxFaults
  BY FinishIs DEF IsFinished, HandleOK
<1>3. faults = 0 /\ f.failures = 0
  BY <1>1, <1>2, NoneFails
<1>4. /\ IsDisk(f.disk, M, B)
      /\ \A q \in Paths : f.disk[q].kind = disk[q].kind /\ f.disk[q].data = FinishedData(q)
  BY <1>3, FinishSucceeds
<1>5. \A q \in Paths : Fixed(f.disk)[q].kind = f.disk[q].kind /\ Fixed(f.disk)[q].data = f.disk[q].data
  BY <1>4, FixedIs
<1> QED BY <1>1, <1>3, <1>4, <1>5

LEMMA FreeKeeps ==
    ASSUME NEW M \in Nat, NEW B, Zero \in B, HandleOK(M, B), Free
    PROVE  /\ HandleOK(M, B)' /\ state' = "freed"
           /\ OwnData(disk) => OwnData(disk')
           /\ \A q \in Paths \ {cur.path} :
                (\A i \in 1 .. Len(fixups) : fixups[i].path # q) => disk'[q] = disk[q]
           /\ \A q \in Paths : disk'[q].kind = disk[q].kind /\ disk'[q].owner = disk[q].owner
<1>1. state' = "freed" /\ state # "freed"
  BY DEF Free
<1>2. CASE state = "fatal"
  <2>1. wret' = "fatal" /\ UNCHANGED <<disk, cur, fh, offset, times, fixups, faults, torn>>
    BY <1>2 DEF Free
  <2>2. HandleOK(M, B)'
    BY <1>1, <1>2, <2>1 DEF HandleOK, Ret
  <2> QED BY <1>1, <2>1, <2>2
<1>3. CASE state \in {"header", "data"}
  <2>1. PICK f \in FinishOutcomes :
              /\ Fails(f.failures)
              /\ disk' = Fixed(f.disk)
              /\ wret' = f.ret
              /\ torn' = Torn(f)
              /\ fh' = FALSE
              /\ fixups' = <<>>
              /\ UNCHANGED <<cur, offset, times>>
    BY <1>3 DEF Free
  <2>2. state' \in {f.state, "freed"}
    BY <1>1
  <2> QED BY <1>1, <1>3, <2>1, <2>2, FixingKeeps
<1> QED BY <1>1, <1>2, <1>3 DEF HandleOK
\* The handle is in order when it has been made.
LEMMA ReadyIs ==
    ASSUME NEW M \in Nat, NEW B, NEW d \in [Paths -> {Nothing, Dir(0), File(0)}], WellFormed(d), Ready(d)
    PROVE  HandleOK(M, B) /\ OwnData(disk)
<1>1. \A o \in {Nothing, Dir(0), File(0)} : o \in Object(M, B) /\ o.data = <<>> /\ o.owner = 0
  <2>1. Nothing \in Object(M, B) /\ Dir(0) \in Object(M, B) /\ File(0) \in Object(M, B)
    <3>1. 0 \in 0 .. M
      OBVIOUS
    <3> QED BY <3>1, NewObjects
  <2>2. \A o \in {Nothing, Dir(0), File(0)} : o.data = <<>> /\ o.owner = 0
    BY DEF Nothing, Dir, File
  <2> QED BY <2>1, <2>2
<1>2. IsDisk(d, M, B)
  BY <1>1 DEF IsDisk
<1>3. OwnData(d)
  BY <1>1 DEF OwnData, Own
<1>4. <<>> \in Seq([id : 1 .. M, path : Paths]) /\ faults \in 0 .. MaxFaults
  BY EmptySeq, FaultsAssumption DEF FaultsAssumption, Ready
<1>5. cur \in [id : 0 .. M, path : Paths, size : Int] /\ offset \in Nat
  BY PathsAssumption DEF PathsAssumption, Ready
<1> QED BY <1>2, <1>3, <1>4, <1>5 DEF HandleOK, Ready, Ret

-----------------------------------------------------------------------------
(* Types, the tree and the data of files, whatever the client calls. *)

Handled ==
    /\ HandleOK(MaxEntries, Blocks) /\ OwnData(disk)
    /\ cur.size \in Sizes \cup {0, -1}
    /\ given \in Seq(Entries) /\ Len(given) <= MaxEntries
    /\ cur.id <= Len(given)
    /\ closed \in BOOLEAN

LEMMA Given ==
    /\ MaxEntries \in Nat /\ Sizes \subseteq Int /\ Offsets \subseteq Nat /\ Zero \in Blocks
    /\ \A e \in Entries : IsEntry(e) /\ e.size \in Sizes \cup {0} /\ e.size \in Int /\ e.dots \in BOOLEAN
                           /\ (e.type # "reg" => e.size = 0) /\ (e.type = "link" => e.target \in Targets)
<1>1. MaxEntries \in Nat /\ Sizes \subseteq Int /\ Offsets \subseteq Nat /\ Zero \in Blocks
  BY CallsAssumption DEF CallsAssumption, Blocks
<1>2. ASSUME NEW e \in Entries
      PROVE  IsEntry(e) /\ e.size \in Sizes \cup {0} /\ e.size \in Int /\ e.dots \in BOOLEAN
             /\ (e.type # "reg" => e.size = 0) /\ (e.type = "link" => e.target \in Targets)
  <2>1. /\ e.path \in EntryPaths /\ e.type \in {"dir", "reg", "link"} /\ e.size \in Sizes \cup {0} /\ e.dots \in BOOLEAN
        /\ e.type # "reg" => e.size = 0
        /\ e.type = "link" => e.target \in Targets
    BY DEF Entries
  <2>2. e.path \in Paths \ {<<>>} /\ (e.type = "link" => e.target \in Paths)
    BY <2>1, EntryPathsAssumption DEF EntryPathsAssumption
  <2>3. e.size \in Int
    <3>1. Sizes \cup {0} \subseteq Int
      BY <1>1
    <3> QED BY <3>1, <2>1, Zenon
  <2> QED BY <2>1, <2>2, <2>3, Zenon DEF IsEntry
<1> QED BY <1>1, <1>2, Zenon

LEMMA InitHandled == Init => Handled
<1> SUFFICES ASSUME Init PROVE Handled
  OBVIOUS
<1>1. PICK d \in Disks : Ready(d)
  BY DEF Init
<1>2. d \in [Paths -> {Nothing, Dir(0), File(0)}] /\ WellFormed(d)
  BY DisksAssumption DEF DisksAssumption
<1>3. HandleOK(MaxEntries, Blocks) /\ OwnData(disk)
  BY <1>1, <1>2, Given, ReadyIs
<1>4. OwnData(disk) /\ cur.size = -1 /\ cur.id = 0 /\ given = <<>> /\ closed = FALSE
  BY <1>1, <1>3 DEF Init, Ready
<1>5. given \in Seq(Entries) /\ Len(given) = 0
  BY <1>4, EmptySeq
<1>6. cur.size \in Sizes \cup {0, -1} /\ Len(given) <= MaxEntries /\ cur.id <= Len(given)
  BY <1>4, <1>5, Given
<1> QED BY <1>3, <1>4, <1>5, <1>6, Zenon DEF Handled

\* What a header is given is an entry, and its number is that of its place in given.
LEMMA HeaderGives ==
    ASSUME Handled, NEW e \in Entries, Len(given) < MaxEntries, given' = Append(given, e)
    PROVE  /\ IsEntry(e) /\ e.size \in Int
           /\ Len(given) \in Nat /\ Len(given) + 1 \in 1 .. MaxEntries
           /\ given' \in Seq(Entries) /\ Len(given') = Len(given) + 1 /\ given'[Len(given) + 1] = e
           /\ \A i \in 1 .. Len(given) : given'[i] = given[i]
BY Given DEF Handled

LEMMA HeaderHandled == Handled /\ CallHeader => Handled'
<1> SUFFICES ASSUME Handled, CallHeader PROVE Handled'
  OBVIOUS
<1>1. PICK e \in Entries : Len(given) < MaxEntries /\ Header(e, Len(given) + 1) /\ given' = Append(given, e) /\ UNCHANGED closed
  BY DEF CallHeader
<1> DEFINE id == Len(given) + 1
<1>2. IsEntry(e) /\ e.size \in Int /\ id \in 1 .. MaxEntries /\ given' \in Seq(Entries) /\ Len(given') = id /\ Len(given) \in Nat
  BY <1>1, HeaderGives
<1>3. CASE state \notin {"header", "data"}
  <2>1. Misused /\ ~fh
    BY <1>1, <1>3 DEF Header, Handled, HandleOK
  <2>2. HandleOK(MaxEntries, Blocks)'
    BY <2>1, MisusedKeeps DEF Handled
  <2>3. UNCHANGED <<disk, cur>>
    BY <2>1 DEF Misused
  <2>4. cur.id \in Nat
    BY Given DEF Handled, HandleOK
  <2> QED BY <1>1, <1>2, <2>2, <2>3, <2>4 DEF Handled, HandleOK
<1>4. CASE state \in {"header", "data"}
  <2> HIDE DEF id
  <2>1. HandleOK(MaxEntries, Blocks)' /\ OwnData(disk')
    <3>1. Header(e, id)
      BY <1>1 DEF id
    <3> QED BY <3>1, <1>2, <1>4, Given, HeaderKeeps DEF Handled
  <2>2. cur' = [id |-> id, path |-> e.path, size |-> IF e.type = "reg" THEN e.size ELSE 0]
    BY <1>1, <1>4 DEF Header, id
  <2>3. cur'.size \in Sizes \cup {0, -1} /\ cur'.id = id
    BY <2>2, Given
  <2> QED BY <1>1, <1>2, <2>1, <2>3 DEF Handled
<1> QED BY <1>3, <1>4

LEMMA OthersHandled ==
    /\ Handled /\ CallDataBlock => Handled'
    /\ Handled /\ CallFinish => Handled'
    /\ Handled /\ CallClose => Handled'
    /\ Handled /\ CallFree => Handled'
<1> SUFFICES ASSUME Handled PROVE (CallDataBlock => Handled') /\ (CallFinish => Handled')
                                  /\ (CallClose => Handled') /\ (CallFree => Handled')
  OBVIOUS
<1>1. HandleOK(MaxEntries, Blocks) /\ OwnData(disk) /\ MaxEntries \in Nat /\ Zero \in Blocks
  BY Given DEF Handled
<1>2. ASSUME HandleOK(MaxEntries, Blocks)', OwnData(disk'), UNCHANGED <<cur, given>>, closed' \in BOOLEAN
      PROVE  Handled'
  BY <1>2 DEF Handled
<1>3. ASSUME CallDataBlock PROVE Handled'
  <2>1. PICK o \in Offsets : DataBlock(<<cur.id, o>>, o) /\ UNCHANGED <<given, closed>> /\ cur.id > 0
    BY <1>3 DEF CallDataBlock
  <2>2. o \in Nat /\ <<cur.id, o>> \in Blocks
    BY <2>1, <1>1, Given DEF HandleOK, Blocks
  <2>3. HandleOK(MaxEntries, Blocks)' /\ OwnData(disk')
    BY <1>1, <2>1, <2>2, DataBlockKeeps
  <2>4. UNCHANGED cur
    BY <2>1 DEF DataBlock, Misused
  <2> QED BY <2>1, <2>3, <2>4, <1>2 DEF Handled
<1>4. ASSUME CallFinish PROVE Handled'
  <2>1. HandleOK(MaxEntries, Blocks)' /\ OwnData(disk')
    BY <1>1, <1>4, FinishKeeps DEF CallFinish
  <2>2. UNCHANGED <<cur, given, closed>>
    BY <1>4 DEF CallFinish, FinishEntry, Misused
  <2> QED BY <2>1, <2>2, <1>2 DEF Handled
<1>5. ASSUME CallClose PROVE Handled'
  <2>1. HandleOK(MaxEntries, Blocks)' /\ OwnData(disk')
    BY <1>1, <1>5, CloseKeeps DEF CallClose
  <2>2. UNCHANGED <<cur, given>> /\ closed' = TRUE
    BY <1>5 DEF CallClose, Close, Misused
  <2> QED BY <2>1, <2>2, <1>2
<1>6. ASSUME CallFree PROVE Handled'
  <2>1. HandleOK(MaxEntries, Blocks)' /\ OwnData(disk')
    BY <1>1, <1>6, FreeKeeps DEF CallFree
  <2>2. UNCHANGED <<cur, given>> /\ closed' = TRUE
    BY <1>6 DEF CallFree, Free
  <2> QED BY <2>1, <2>2, <1>2
<1> QED BY <1>3, <1>4, <1>5, <1>6

\* The handle is in order after every call, and no file has a block of another entry.
THEOREM HandledHolds == Spec => []Handled
<1>1. Init => Handled
  BY InitHandled
<1>2. Handled /\ [Next]_vars => Handled'
  <2>1. Handled /\ UNCHANGED vars => Handled'
    BY DEF vars, wdvars, Handled, HandleOK
  <2> QED BY <2>1, HeaderHandled, OthersHandled DEF Next
<1> QED BY <1>1, <1>2, PTL DEF Spec

\* TypeOK: every variable has its type, and an open file is one of the present entry.
LEMMA HandledTypeOK == Handled => TypeOK
<1> SUFFICES ASSUME Handled PROVE TypeOK
  OBVIOUS
<1>1. \A p \in Paths : /\ disk[p].kind \in {"none", "dir", "file"} /\ disk[p].data \in Seq(Blocks)
                       /\ disk[p].kind # "file" => disk[p].data = <<>>
                       /\ disk[p].time \in {Now} \cup 1 .. MaxEntries
                       /\ disk[p].owner \in 0 .. MaxEntries
  BY DEF Handled, HandleOK, IsDisk, Object
<1>2. cur \in [id : 0 .. MaxEntries, path : Paths, size : Sizes \cup {0, -1}]
  BY DEF Handled, HandleOK
<1>3. /\ fh \in BOOLEAN
      /\ fh => state = "data" /\ disk[cur.path].kind = "file" /\ disk[cur.path].owner = cur.id
      /\ state \in {"header", "data", "fatal", "freed"} /\ offset \in Nat
      /\ times \in BOOLEAN
      /\ fixups \in Seq([id : 1 .. MaxEntries, path : Paths])
      /\ wret \in Ret
      /\ faults \in 0 .. MaxFaults
      /\ torn \subseteq 1 .. MaxEntries
  BY Zenon DEF Handled, HandleOK
<1> QED BY <1>1, <1>2, <1>3, Zenon DEF TypeOK

\* TypeOK: every variable has its type after any calls, the objects on the disk included.
THEOREM TypeCorrect == Spec => []TypeOK
BY HandledHolds, HandledTypeOK, PTL

\* TreeStaysWellFormed: whatever fails and whatever was there (the directories that create_dir
\* makes, what restore_entry unlinks), every object lies in a directory.
THEOREM TreeIsWellFormed == Spec => []TreeStaysWellFormed
<1>1. Handled => TreeStaysWellFormed
  BY HandledTypeOK DEF TreeStaysWellFormed, Handled, HandleOK, IsDisk
<1> QED BY <1>1, HandledHolds, PTL

\* FilesHoldTheirOwnData: no file has a block that was written for another entry or elsewhere in
\* it, so neither the handle nor its offset is left over from the entry before.
THEOREM DataIsOwn == Spec => []FilesHoldTheirOwnData
<1>1. Handled => FilesHoldTheirOwnData
  BY DEF Handled, OwnData, Own, FilesHoldTheirOwnData
<1> QED BY <1>1, HandledHolds, PTL

\* FilesAreLostOnlyToEntries: disk_unlink removes a file only for the entry of a header that
\* cleanup_pathname has accepted, at the entry's path or above it.
THEOREM LossesAreMeant == Spec => FilesAreLostOnlyToEntries
<1> DEFINE Lost ==
      \A p \in Paths : disk[p].kind = "file" /\ disk'[p].kind # "file" =>
        /\ given' # given
        /\ LET e == given'[Len(given')] IN ~e.dots /\ p \in Ancestors(e.path) \cup {e.path}
<1>1. ASSUME Handled, [Next]_vars PROVE Lost
  <2>1. HandleOK(MaxEntries, Blocks) /\ MaxEntries \in Nat /\ Zero \in Blocks
    BY <1>1, Given DEF Handled
  <2>2. CASE CallHeader
    <3>1. PICK e \in Entries : Len(given) < MaxEntries /\ Header(e, Len(given) + 1) /\ given' = Append(given, e)
      BY <2>2 DEF CallHeader
    <3>2. IsEntry(e) /\ e.size \in Int /\ Len(given) + 1 \in 1 .. MaxEntries /\ Len(given) \in Nat
          /\ Len(given') = Len(given) + 1 /\ given'[Len(given')] = e
      BY <1>1, <3>1, HeaderGives
    <3>3. given' # given
      BY <3>2
    <3>4. CASE state \in {"header", "data"}
      <4>1. \A q \in Paths : disk[q].kind = "file" /\ disk'[q].kind # "file" =>
                ~e.dots /\ q \in Ancestors(e.path) \cup {e.path}
        BY <2>1, <3>1, <3>2, <3>4, HeaderKeeps
      <4> QED BY <4>1, <3>2, <3>3
    <3>5. CASE state \notin {"header", "data"}
      BY <3>1, <3>5 DEF Header, Misused
    <3> QED BY <3>4, <3>5
  <2>3. CASE CallDataBlock
    <3>1. PICK o \in Offsets : DataBlock(<<cur.id, o>>, o) /\ cur.id > 0
      BY <2>3 DEF CallDataBlock
    <3>2. o \in Nat /\ <<cur.id, o>> \in Blocks
      BY <2>1, <3>1, Given DEF HandleOK, Blocks
    <3>3. \A q \in Paths : disk'[q].kind = disk[q].kind
      BY <2>1, <3>1, <3>2, DataBlockKeeps
    <3> QED BY <3>3
  <2>4. CASE CallFinish
    <3>1. \A q \in Paths : disk'[q].kind = disk[q].kind
      BY <2>1, <2>4, FinishKeeps DEF CallFinish
    <3> QED BY <3>1
  <2>5. CASE CallClose
    <3>1. \A q \in Paths : disk'[q].kind = disk[q].kind
      BY <2>1, <2>5, CloseKeeps DEF CallClose
    <3> QED BY <3>1
  <2>6. CASE CallFree
    <3>1. \A q \in Paths : disk'[q].kind = disk[q].kind
      BY <2>1, <2>6, FreeKeeps DEF CallFree
    <3> QED BY <3>1
  <2>7. CASE UNCHANGED vars
    BY <2>7 DEF vars, wdvars
  <2> QED BY <1>1, <2>2, <2>3, <2>4, <2>5, <2>6, <2>7 DEF Next
<1>2. Handled /\ [Next]_vars => [Lost]_vars
  BY <1>1
<1> QED BY <1>2, HandledHolds, PTL DEF Spec, FilesAreLostOnlyToEntries
-----------------------------------------------------------------------------
(* Files that are finished, and the times of what entries created. *)

\* What is on disk and in the fixups comes from entries that were given; what an entry has made
\* a file was a regular one, and the open file is the only one of its entry.  Nothing is written
\* beyond the end of the open file, and the last write ended within it.
Traced ==
    /\ \A p \in Paths : /\ disk[p].owner <= Len(given)
                        /\ disk[p].kind = "file" /\ disk[p].owner > 0 => given[disk[p].owner].type = "reg"
    /\ \A i \in 1 .. Len(fixups) :
            fixups[i].id <= Len(given) /\ given[fixups[i].id].path = fixups[i].path /\ given[fixups[i].id].type = "dir"
    /\ fh => /\ cur.size = given[cur.id].size
             /\ \A p \in Paths : disk[p].kind = "file" /\ disk[p].owner = cur.id => p = cur.path
             /\ offset <= Len(disk[cur.path].data)
             /\ cur.size >= 0 => Len(disk[cur.path].data) <= cur.size

\* Before close, when nothing has failed: a file has its time or is the present entry, whose time
\* is still to be set, and the newest fixup of a directory is the one of the entry that made it.
Timed ==
    faults = 0 /\ ~closed =>
        /\ \A p \in Paths : disk[p].kind = "file" /\ disk[p].owner > 0 =>
                disk[p].time = disk[p].owner
                \/ (state = "data" /\ times /\ p = cur.path /\ disk[p].owner = cur.id)
        /\ \A p \in Paths : disk[p].kind = "dir" /\ disk[p].owner > 0 =>
                \E i \in 1 .. Len(fixups) : Newest(i, p) /\ fixups[i].id = disk[p].owner
        /\ state = "data" /\ times => fh \/ disk[cur.path].kind = "dir"

IInv == Handled /\ Traced /\ Timed /\ FinishedFilesAreWhole /\ OnlyReplacementsLoseTheirTime

\* Finishing leaves every file whole, the present one too unless its size could not be set.
LEMMA FinishMakesWhole ==
    ASSUME Handled, Traced, FinishedFilesAreWhole, state \in {"header", "data"}, NEW f \in FinishOutcomes,
           NEW p \in Paths, f.disk[p].kind = "file", f.disk[p].owner \notin Torn(f) \cup {0}, given[f.disk[p].owner].size >= 0
    PROVE  Len(f.disk[p].data) = given[f.disk[p].owner].size
<1> DEFINE o == f.disk[p].owner
<1>1. IsFinished(f) /\ MaxEntries \in Nat /\ Zero \in Blocks
  BY Given, FinishIs DEF Handled
<1>2. disk[p].kind = "file" /\ disk[p].owner = o /\ o \notin torn \cup {0}
  BY <1>1 DEF IsFinished, Torn
<1>3. IsDisk(disk, MaxEntries, Blocks) /\ cur.path \in Paths /\ cur.size \in Int /\ offset \in Nat
      /\ disk[cur.path].data \in Seq(Blocks) /\ Len(disk[cur.path].data) \in Nat
  BY DEF Handled, HandleOK, IsDisk, Object
<1>4. CASE ~(o = cur.id /\ fh)
  <2>1. Len(disk[p].data) = given[o].size
    BY <1>2, <1>4 DEF FinishedFilesAreWhole, Size
  <2>2. p = cur.path => ~SizeIsOff
    BY <1>2, <1>4 DEF SizeIsOff, Handled, HandleOK
  <2>3. f.disk[p].data = disk[p].data
    BY <2>2, <1>1 DEF IsFinished
  <2> QED BY <2>1, <2>3
<1>5. CASE o = cur.id /\ fh
  <2>1. p = cur.path /\ cur.size = given[o].size /\ cur.size >= 0
        /\ offset <= Len(disk[p].data) /\ Len(disk[p].data) <= cur.size
    BY <1>2, <1>5 DEF Traced
  <2>2. f.state = "header"
    BY <1>1, <1>5 DEF IsFinished, Torn
  <2>3. CASE SizeIsOff
    <3>1. f.disk[p].data = Resize(disk[p].data, cur.size)
      BY <1>1, <2>1, <2>2, <2>3 DEF IsFinished
    <3>2. Len(Resize(disk[p].data, cur.size)) = cur.size
      <4>1. disk[p].data \in Seq(Blocks) /\ cur.size \in Nat /\ Zero \in Blocks
        BY <1>1, <1>3, <2>1
      <4> QED BY <4>1, ResizeIs
    <3> QED BY <3>1, <3>2, <2>1
  <2>4. CASE ~SizeIsOff
    <3>1. offset = cur.size
      BY <1>5, <2>1, <2>4 DEF SizeIsOff
    <3>2. f.disk[p].data = disk[p].data
      BY <1>1, <2>1, <2>4 DEF IsFinished
    <3> QED BY <3>1, <3>2, <2>1, <1>3
  <2> QED BY <2>3, <2>4
<1> QED BY <1>4, <1>5

\* Finishing without a failure gives every file its time.
LEMMA FinishSetsTimes ==
    ASSUME Handled, Timed, faults = 0, ~closed, state \in {"header", "data"}, NEW f \in FinishOutcomes, f.failures = 0
    PROVE  /\ f.state = "header"
           /\ \A p \in Paths : f.disk[p].kind = "file" /\ f.disk[p].owner > 0 => f.disk[p].time = f.disk[p].owner
<1>1. IsFinished(f) /\ cur.path \in Paths
  BY Given, FinishIs DEF Handled, HandleOK
<1>2. f.state = "header"
  BY <1>1 DEF IsFinished
<1>3. ASSUME NEW p \in Paths, f.disk[p].kind = "file", f.disk[p].owner > 0
      PROVE  f.disk[p].time = f.disk[p].owner
  <2>1. disk[p].kind = "file" /\ disk[p].owner = f.disk[p].owner
    BY <1>1, <1>3 DEF IsFinished
  <2>2. disk[p].time = disk[p].owner \/ (state = "data" /\ times /\ p = cur.path /\ disk[p].owner = cur.id)
    BY <2>1, <1>3 DEF Timed
  <2>3. CASE p = cur.path /\ state = "data" /\ times
    <3>1. fh
      BY <2>1, <2>3 DEF Timed
    <3>2. disk[p].owner = cur.id
      BY <2>3, <3>1 DEF Handled, HandleOK
    <3> QED BY <1>1, <2>1, <2>3, <3>2 DEF IsFinished
  <2>4. CASE ~(p = cur.path /\ state = "data" /\ times)
    BY <1>1, <2>1, <2>2, <2>4 DEF IsFinished
  <2> QED BY <2>3, <2>4
<1> QED BY <1>2, <1>3

LEMMA FixupsAreSeq ==
    ASSUME Handled
    PROVE  /\ Len(fixups) \in Nat
           /\ \A i \in 1 .. Len(fixups) : fixups[i].id \in 1 .. MaxEntries /\ fixups[i].path \in Paths
<1> DEFINE F == [id : 1 .. MaxEntries, path : Paths]
<1>1. fixups \in Seq(F)
  BY DEF Handled, HandleOK
<1>2. Len(fixups) \in Nat /\ \A i \in 1 .. Len(fixups) : fixups[i] \in F
  <2> HIDE DEF F
  <2> QED BY <1>1, ElementOfSeq
<1> QED BY <1>2

\* A call that is misused changes none of this.
LEMMA MisusedIInv ==
    ASSUME IInv, Handled', Misused, state # "data", ~closed, Len(given) <= Len(given'),
           \A i \in 1 .. Len(given) : given'[i] = given[i], closed' \in BOOLEAN
    PROVE  IInv'
<1>1. UNCHANGED <<disk, cur, fh, offset, times, fixups, faults, torn>> /\ state' = "fatal" /\ ~fh
  BY DEF Misused, IInv, Handled, HandleOK
<1>2. Len(given) \in Nat /\ Len(given') \in Nat /\ \A p \in Paths : disk[p].owner \in Nat
  <2>1. given \in Seq(Entries) /\ given' \in Seq(Entries) /\ MaxEntries \in Nat
    BY Given DEF IInv, Handled
  <2>2. disk \in [Paths -> Object(MaxEntries, Blocks)]
    BY DEF IInv, Handled, HandleOK, IsDisk
  <2>3. \A p \in Paths : disk[p].owner \in 0 .. MaxEntries
    BY <2>2 DEF Object
  <2> QED BY <2>1, <2>3
<1>3. \A i \in 1 .. Len(fixups) : fixups[i].id \in 1 .. MaxEntries
  BY FixupsAreSeq DEF IInv
<1>4. Traced'
  <2>1. ASSUME NEW p \in Paths
        PROVE  disk'[p].owner <= Len(given') /\ (disk'[p].kind = "file" /\ disk'[p].owner > 0 => given'[disk'[p].owner].type = "reg")
    BY <1>1, <1>2 DEF IInv, Traced
  <2>2. ASSUME NEW i \in 1 .. Len(fixups)
        PROVE  fixups[i].id <= Len(given') /\ given'[fixups[i].id].path = fixups[i].path /\ given'[fixups[i].id].type = "dir"
    BY <1>2, <1>3, Given DEF IInv, Traced
  <2> QED BY <1>1, <2>1, <2>2 DEF Traced
<1>5. Timed'
  <2>1. \A i, p : Newest(i, p)' <=> Newest(i, p)
    BY <1>1 DEF Newest
  <2> QED BY <1>1, <2>1 DEF IInv, Timed
<1>6. FinishedFilesAreWhole'
  <2>1. SUFFICES ASSUME NEW p \in Paths, disk[p].kind = "file", disk[p].owner \notin torn \cup {0},
                        given'[disk[p].owner].size >= 0
                 PROVE  Len(disk[p].data) = given'[disk[p].owner].size
    BY <1>1 DEF FinishedFilesAreWhole, Size
  <2>2. given'[disk[p].owner] = given[disk[p].owner]
    BY <2>1, <1>2 DEF IInv, Traced
  <2> QED BY <1>1, <2>1, <2>2 DEF IInv, FinishedFilesAreWhole, Size
<1>7. OnlyReplacementsLoseTheirTime'
  BY <1>1 DEF OnlyReplacementsLoseTheirTime
<1> QED BY <1>4, <1>5, <1>6, <1>7 DEF IInv

LEMMA OwnersAreNumbers ==
    ASSUME NEW d, IsDisk(d, MaxEntries, Blocks)
    PROVE  \A p \in Paths : d[p].owner \in Nat
<1>1. d \in [Paths -> Object(MaxEntries, Blocks)] /\ MaxEntries \in Nat
  BY Given DEF IsDisk
<1>2. \A p \in Paths : d[p].owner \in 0 .. MaxEntries
  BY <1>1 DEF Object
<1> QED BY <1>1, <1>2

LEMMA RefuseIInv ==
    ASSUME IInv, Handled', ~closed, UNCHANGED closed, state \in {"header", "data"},
           NEW e \in Entries, Len(given) < MaxEntries, given' = Append(given, e),
           NEW f \in FinishOutcomes, torn' = Torn(f), Refuse(f, e)
    PROVE  IInv'
<1>1. /\ Len(given) \in Nat /\ Len(given') = Len(given) + 1
      /\ \A i \in 1 .. Len(given) : given'[i] = given[i]
  BY HeaderGives DEF IInv
<1>2. IsDisk(f.disk, MaxEntries, Blocks) /\ IsFinished(f)
  BY Given, FinishIs DEF IInv, Handled
<1>3. /\ disk' = f.disk /\ state' = f.state /\ ~fh' /\ fixups' = fixups
      /\ \A p \in Paths : disk'[p].kind = disk[p].kind /\ disk'[p].owner = disk[p].owner
  BY <1>2 DEF Refuse, IsFinished
<1>4. \A p \in Paths : disk'[p].owner \in Nat /\ disk'[p].owner <= Len(given)
  BY <1>2, <1>3, OwnersAreNumbers DEF IInv, Traced
<1>5. Traced'
  <2>1. ASSUME NEW p \in Paths
        PROVE  disk'[p].owner <= Len(given') /\ (disk'[p].kind = "file" /\ disk'[p].owner > 0 => given'[disk'[p].owner].type = "reg")
    BY <1>1, <1>3, <1>4 DEF IInv, Traced
  <2>2. ASSUME NEW i \in 1 .. Len(fixups)
        PROVE  fixups[i].id <= Len(given') /\ given'[fixups[i].id].path = fixups[i].path /\ given'[fixups[i].id].type = "dir"
    <3>1. fixups[i].id \in 1 .. Len(given)
      BY <1>1, FixupsAreSeq, Given DEF IInv, Traced
    <3> QED BY <3>1, <1>1 DEF IInv, Traced
  <2> QED BY <1>3, <2>1, <2>2 DEF Traced
<1>6. FinishedFilesAreWhole'
  <2>1. SUFFICES ASSUME NEW p \in Paths, disk'[p].kind = "file", disk'[p].owner \notin torn' \cup {0},
                        given'[disk'[p].owner].size >= 0
                 PROVE  Len(disk'[p].data) = given'[disk'[p].owner].size
    BY DEF FinishedFilesAreWhole, Size
  <2>2. given'[disk'[p].owner] = given[disk'[p].owner]
    BY <2>1, <1>1, <1>4
  <2> QED BY <2>1, <2>2, <1>3, FinishMakesWhole DEF IInv
<1>7. Timed'
  <2>1. SUFFICES ASSUME faults' = 0 PROVE
        /\ \A p \in Paths : disk'[p].kind = "file" /\ disk'[p].owner > 0 => disk'[p].time = disk'[p].owner
        /\ \A p \in Paths : disk'[p].kind = "dir" /\ disk'[p].owner > 0 =>
                \E i \in 1 .. Len(fixups) : Newest(i, p)' /\ fixups[i].id = disk'[p].owner
        /\ state' = "header"
    BY <1>3 DEF Timed
  <2>2. faults = 0 /\ f.failures = 0
    BY <2>1, <1>2 DEF Refuse, Fails, IsFinished, IInv, Handled, HandleOK
  <2>3. f.state = "header"
        /\ \A p \in Paths : f.disk[p].kind = "file" /\ f.disk[p].owner > 0 => f.disk[p].time = f.disk[p].owner
    BY <2>2, FinishSetsTimes DEF IInv
  <2>4. \A i, p : Newest(i, p)' <=> Newest(i, p)
    BY <1>3 DEF Newest
  <2> QED BY <1>3, <2>2, <2>3, <2>4 DEF IInv, Timed
<1>8. OnlyReplacementsLoseTheirTime'
  BY DEF OnlyReplacementsLoseTheirTime
<1> QED BY <1>5, <1>6, <1>7, <1>8 DEF IInv

LEMMA RestoreIInv ==
    ASSUME IInv, Handled', ~closed, UNCHANGED closed, state \in {"header", "data"},
           NEW e \in Entries, Len(given) < MaxEntries, given' = Append(given, e),
           cur' = [id |-> Len(given) + 1, path |-> e.path, size |-> IF e.type = "reg" THEN e.size ELSE 0],
           NEW f \in FinishOutcomes, torn' = Torn(f), Restore(f, e, Len(given) + 1)
    PROVE  IInv'
<1> DEFINE id == Len(given) + 1
           p == e.path
<1>1. /\ Len(given) \in Nat /\ Len(given') = id /\ given'[id] = e /\ id \in 1 .. MaxEntries
      /\ \A i \in 1 .. Len(given) : given'[i] = given[i]
      /\ IsEntry(e) /\ p \in Paths
  BY HeaderGives DEF IInv, IsEntry
<1>2. IsDisk(f.disk, MaxEntries, Blocks) /\ IsFinished(f)
  BY Given, FinishIs DEF IInv, Handled
<1> HIDE DEF id
<1>3. PICK r \in RestoreOutcomes(f.disk, e, id) :
         /\ Fails(f.failures + r.failures)
         /\ disk' = r.disk
         /\ state' = IF r.ret = "ok" THEN "data" ELSE f.state
         /\ fh' = r.opens
         /\ offset' = 0
         /\ times' = r.times
         /\ fixups' = IF r.late THEN <<[id |-> id, path |-> p]>> \o fixups ELSE fixups
  BY DEF Restore, id
<1>4. IsDisk(disk', MaxEntries, Blocks) /\ IsRestored(f.disk, r, e, id)
  BY <1>1, <1>2, <1>3, Given, RestoreIs
<1>5. /\ \A q \in Paths : f.disk[q].owner \in Nat /\ f.disk[q].owner <= Len(given) /\ disk'[q].owner \in Nat
      /\ \A q \in Paths : f.disk[q].kind = disk[q].kind /\ f.disk[q].owner = disk[q].owner
  <2>1. \A q \in Paths : f.disk[q].kind = disk[q].kind /\ f.disk[q].owner = disk[q].owner
    BY <1>2 DEF IsFinished
  <2> QED BY <2>1, <1>2, <1>4, OwnersAreNumbers DEF IInv, Traced
\* Where the files come from.
<1>6. ASSUME NEW q \in Paths, disk'[q].kind = "file"
      PROVE  \/ \E t \in Paths : f.disk[t].kind = "file" /\ disk'[q] = f.disk[t]
             \/ q = p /\ e.type = "reg" /\ r.opens /\ disk'[q] = File(id)
  <2>1. CASE Stays(f.disk, disk', q)
    BY <2>1, <1>6, <1>2, FilesStay
  <2>2. CASE q = p /\ Made(f.disk, r, e, id)
    BY <2>2, <1>1, <1>3, <1>6 DEF Made, Dir, IsEntry
  <2> QED BY <2>1, <2>2, <1>3, <1>4, <1>6 DEF IsRestored
<1>7. ASSUME NEW q \in Paths
      PROVE  disk'[q].owner <= Len(given) \/ (q = p /\ disk'[q].owner = id)
  <2>1. CASE Stays(f.disk, disk', q)
    <3>1. disk'[q].owner = f.disk[q].owner
      BY <2>1, <1>2, FilesStay
    <3> QED BY <3>1, <1>5
  <2>2. CASE disk'[q].kind # "file" /\ disk'[q].owner = 0
    BY <2>2, <1>1
  <2>3. CASE q = p /\ Made(f.disk, r, e, id)
    BY <2>3, <1>1, <1>3, <1>5 DEF Made, Dir, File, IsEntry
  <2> QED BY <2>1, <2>2, <2>3, <1>3, <1>4 DEF IsRestored
<1>8. /\ Len(fixups) \in Nat /\ Len(fixups') = Len(fixups) + (IF r.late THEN 1 ELSE 0)
      /\ r.late => fixups'[1] = [id |-> id, path |-> p]
      /\ \A i \in 1 .. Len(fixups) : fixups'[i + (IF r.late THEN 1 ELSE 0)] = fixups[i]
  BY <1>1, <1>3, FixupsGrow DEF IInv, Handled, HandleOK
<1>9. Traced'
  <2>1. ASSUME NEW q \in Paths
        PROVE  disk'[q].owner <= Len(given') /\ (disk'[q].kind = "file" /\ disk'[q].owner > 0 => given'[disk'[q].owner].type = "reg")
    <3>1. disk'[q].owner <= Len(given')
      BY <1>1, <1>5, <1>7 DEF id
    <3>2. ASSUME disk'[q].kind = "file", disk'[q].owner > 0 PROVE given'[disk'[q].owner].type = "reg"
      <4>1. CASE \E t \in Paths : f.disk[t].kind = "file" /\ disk'[q] = f.disk[t]
        <5>1. PICK t \in Paths : f.disk[t].kind = "file" /\ disk'[q] = f.disk[t]
          BY <4>1
        <5>2. disk'[q].owner = disk[t].owner /\ disk[t].kind = "file" /\ disk[t].owner \in 1 .. Len(given)
          BY <5>1, <3>2, <1>1, <1>5
        <5>3. given[disk[t].owner].type = "reg"
          BY <5>2 DEF IInv, Traced
        <5> QED BY <5>2, <5>3, <1>1
      <4>2. CASE q = p /\ e.type = "reg" /\ disk'[q] = File(id)
        BY <4>2, <1>1 DEF File
      <4> QED BY <3>2, <4>1, <4>2, <1>6
    <3> QED BY <3>1, <3>2
  <2>2. ASSUME NEW i \in 1 .. Len(fixups')
        PROVE  fixups'[i].id <= Len(given') /\ given'[fixups'[i].id].path = fixups'[i].path /\ given'[fixups'[i].id].type = "dir"
    <3>1. CASE r.late /\ i = 1
      BY <3>1, <1>1, <1>4, <1>8 DEF IsRestored
    <3>2. CASE ~(r.late /\ i = 1)
      <4>1. PICK j \in 1 .. Len(fixups) : fixups'[i] = fixups[j]
        <5>1. CASE r.late
          <6>1. i - 1 \in 1 .. Len(fixups) /\ fixups'[(i - 1) + 1] = fixups[i - 1] /\ (i - 1) + 1 = i
            BY <3>2, <5>1, <1>8
          <6> QED BY <6>1
        <5>2. CASE ~r.late
          BY <5>2, <1>8
        <5> QED BY <5>1, <5>2
      <4>2. fixups[j].id \in 1 .. Len(given) /\ given[fixups[j].id].path = fixups[j].path /\ given[fixups[j].id].type = "dir"
        BY <1>1, FixupsAreSeq, Given DEF IInv, Traced
      <4> QED BY <4>1, <4>2, <1>1 DEF id
    <3> QED BY <3>1, <3>2
  <2>3. ASSUME fh'
        PROVE  /\ cur'.size = given'[cur'.id].size
               /\ \A q \in Paths : disk'[q].kind = "file" /\ disk'[q].owner = cur'.id => q = cur'.path
               /\ offset' <= Len(disk'[cur'.path].data)
               /\ cur'.size >= 0 => Len(disk'[cur'.path].data) <= cur'.size
    <3>1. e.type = "reg" /\ disk'[p] = File(id)
      BY <2>3, <1>3, <1>4 DEF IsRestored
    <3>2. cur'.id = id /\ cur'.path = p /\ cur'.size = e.size
      BY <3>1 DEF id
    <3>3. disk'[p].data = <<>> /\ Len(<<>>) = 0
      BY <3>1 DEF File
    <3>4. \A q \in Paths : disk'[q].owner = id => q = p
      BY <1>1, <1>7 DEF id
    <3>5. e.size \in Int
      BY Given
    <3> QED BY <1>1, <1>3, <3>2, <3>3, <3>4, <3>5
  <2> QED BY <2>1, <2>2, <2>3 DEF Traced
<1>10. FinishedFilesAreWhole'
  <2>1. SUFFICES ASSUME NEW q \in Paths, disk'[q].kind = "file", disk'[q].owner \notin torn' \cup {0},
                        disk'[q].owner = cur'.id => ~fh', given'[disk'[q].owner].size >= 0
                 PROVE  Len(disk'[q].data) = given'[disk'[q].owner].size
    BY DEF FinishedFilesAreWhole, Size
  <2>2. CASE \E t \in Paths : f.disk[t].kind = "file" /\ disk'[q] = f.disk[t]
    <3>1. PICK t \in Paths : f.disk[t].kind = "file" /\ disk'[q] = f.disk[t]
      BY <2>2
    <3>2. f.disk[t].owner \in 1 .. Len(given) /\ f.disk[t].owner \notin Torn(f) \cup {0}
      BY <3>1, <2>1, <1>1, <1>5
    <3>3. given'[disk'[q].owner] = given[f.disk[t].owner]
      BY <3>1, <3>2, <1>1
    <3>4. Len(f.disk[t].data) = given[f.disk[t].owner].size
      BY <3>1, <3>2, <3>3, <2>1, FinishMakesWhole DEF IInv
    <3> QED BY <3>1, <3>3, <3>4
  <2>3. CASE r.opens /\ disk'[q] = File(id)
    <3>1. disk'[q].owner = cur'.id /\ fh'
      BY <2>3, <1>3 DEF File, id
    <3> QED BY <3>1, <2>1
  <2> QED BY <2>1, <2>2, <2>3, <1>6
<1>11. Timed'
  <2>1. SUFFICES ASSUME faults' = 0 PROVE
        /\ \A q \in Paths : disk'[q].kind = "file" /\ disk'[q].owner > 0 =>
              disk'[q].time = disk'[q].owner \/ (state' = "data" /\ times' /\ q = cur'.path /\ disk'[q].owner = cur'.id)
        /\ \A q \in Paths : disk'[q].kind = "dir" /\ disk'[q].owner > 0 =>
              \E i \in 1 .. Len(fixups') : Newest(i, q)' /\ fixups'[i].id = disk'[q].owner
        /\ state' = "data" /\ times' => fh' \/ disk'[cur'.path].kind = "dir"
    BY DEF Timed
  <2>2. faults = 0 /\ f.failures = 0
    BY <2>1, <1>2, <1>3, <1>4 DEF Fails, IsFinished, IsRestored, IInv, Handled, HandleOK
  <2>3. f.state = "header"
        /\ \A q \in Paths : f.disk[q].kind = "file" /\ f.disk[q].owner > 0 => f.disk[q].time = f.disk[q].owner
    BY <2>2, FinishSetsTimes DEF IInv
  <2>4. ASSUME NEW q \in Paths, disk'[q].kind = "file", disk'[q].owner > 0
        PROVE  disk'[q].time = disk'[q].owner \/ (state' = "data" /\ times' /\ q = cur'.path /\ disk'[q].owner = cur'.id)
    <3>1. CASE \E t \in Paths : f.disk[t].kind = "file" /\ disk'[q] = f.disk[t]
      BY <3>1, <2>3, <2>4
    <3>2. CASE q = p /\ r.opens /\ disk'[q] = File(id)
      BY <3>2, <1>3, <1>4 DEF IsRestored, File, id
    <3> QED BY <2>4, <3>1, <3>2, <1>6
  <2>5. ASSUME NEW q \in Paths, disk'[q].kind = "dir", disk'[q].owner > 0
        PROVE  \E i \in 1 .. Len(fixups') : Newest(i, q)' /\ fixups'[i].id = disk'[q].owner
    <3>1. CASE r.late /\ q = p
      <4>1. disk'[q].owner = id
        BY <3>1, <1>3, <1>4 DEF IsRestored, Dir
      <4>2. 1 \in 1 .. Len(fixups') /\ fixups'[1].id = id /\ fixups'[1].path = p
        BY <3>1, <1>8
      <4>3. Newest(1, q)'
        BY <3>1, <4>2, <1>8 DEF Newest
      <4> QED BY <4>1, <4>2, <4>3
    <3>2. CASE ~(r.late /\ q = p)
      <4>1. Stays(f.disk, disk', q)
        <5>1. \/ Stays(f.disk, disk', q)
              \/ disk'[q].kind # "file" /\ disk'[q].owner = 0
              \/ q = p /\ Made(f.disk, r, e, id)
          BY <1>3, <1>4 DEF IsRestored
        <5>2. ~(disk'[q].owner = 0)
          BY <2>5
        <5>3. ~(q = p /\ Made(f.disk, r, e, id))
          BY <2>5, <3>2, <1>3 DEF Made, File
        <5> QED BY <5>1, <5>2, <5>3
      <4>2. disk[q].kind = "dir" /\ disk[q].owner = disk'[q].owner
        BY <4>1, <2>5, <1>2, <1>5, FilesStay
      <4>3. PICK i \in 1 .. Len(fixups) : Newest(i, q) /\ fixups[i].id = disk'[q].owner
        BY <4>2, <2>2, <2>5 DEF IInv, Timed
      <4> DEFINE j == i + (IF r.late THEN 1 ELSE 0)
      <4>4. j \in 1 .. Len(fixups') /\ fixups'[j] = fixups[i]
        BY <1>8
      <4>5. ASSUME NEW k \in 1 .. Len(fixups'), fixups'[k].path = q PROVE j <= k
        <5>1. CASE r.late
          <6>1. k # 1
            BY <3>2, <4>5, <5>1, <1>8
          <6>2. k - 1 \in 1 .. Len(fixups) /\ fixups'[(k - 1) + 1] = fixups[k - 1] /\ (k - 1) + 1 = k
            BY <5>1, <6>1, <1>8
          <6>3. i <= k - 1
            BY <4>3, <4>5, <6>2 DEF Newest
          <6> QED BY <5>1, <6>3
        <5>2. CASE ~r.late
          BY <5>2, <4>3, <4>5, <1>8 DEF Newest
        <5> QED BY <5>1, <5>2
      <4> HIDE DEF j
      <4>6. Newest(j, q)'
        BY <4>3, <4>4, <4>5 DEF Newest
      <4> QED BY <4>3, <4>4, <4>6
    <3> QED BY <3>1, <3>2
  <2>6. state' = "data" /\ times' => fh' \/ disk'[cur'.path].kind = "dir"
    BY <2>3, <1>3, <1>4 DEF IsRestored
  <2> QED BY <2>4, <2>5, <2>6
<1>12. OnlyReplacementsLoseTheirTime'
  BY DEF OnlyReplacementsLoseTheirTime
<1> QED BY <1>9, <1>10, <1>11, <1>12 DEF IInv

LEMMA HeaderIInv == IInv /\ CallHeader => IInv'
<1> SUFFICES ASSUME IInv, CallHeader PROVE IInv'
  OBVIOUS
<1>1. PICK e \in Entries : ~closed /\ Len(given) < MaxEntries /\ Header(e, Len(given) + 1)
                          /\ given' = Append(given, e) /\ UNCHANGED closed
  BY DEF CallHeader
<1>2. Handled'
  BY HeaderHandled DEF IInv
<1>3. CASE state \notin {"header", "data"}
  <2>1. Misused
    BY <1>1, <1>3 DEF Header
  <2>2. Len(given) <= Len(given') /\ \A i \in 1 .. Len(given) : given'[i] = given[i]
    BY <1>1, HeaderGives DEF IInv
  <2>3. closed' \in BOOLEAN
    BY <1>2 DEF Handled
  <2> QED BY <1>1, <1>2, <1>3, <2>1, <2>2, <2>3, MisusedIInv
<1>4. CASE state \in {"header", "data"}
  <2>1. PICK f \in FinishOutcomes :
           /\ cur' = [id |-> Len(given) + 1, path |-> e.path, size |-> IF e.type = "reg" THEN e.size ELSE 0]
           /\ torn' = Torn(f)
           /\ Refuse(f, e) \/ Restore(f, e, Len(given) + 1)
    BY <1>1, <1>4 DEF Header
  <2>2. CASE Refuse(f, e)
    BY <1>1, <1>2, <1>4, <2>1, <2>2, RefuseIInv
  <2>3. CASE Restore(f, e, Len(given) + 1)
    BY <1>1, <1>2, <1>4, <2>1, <2>3, RestoreIInv
  <2> QED BY <2>1, <2>2, <2>3
<1> QED BY <1>3, <1>4

LEMMA DataBlockIInv == IInv /\ CallDataBlock => IInv'
<1> SUFFICES ASSUME IInv, CallDataBlock PROVE IInv'
  OBVIOUS
<1>1. PICK o \in Offsets : ~closed /\ DataBlock(<<cur.id, o>>, o) /\ UNCHANGED <<given, closed>> /\ cur.id > 0
  BY DEF CallDataBlock
<1>2. Handled' /\ Handled
  BY OthersHandled DEF IInv
<1>3. Len(given) \in Nat
  BY <1>2 DEF Handled
<1>4. CASE state # "data"
  <2>1. Misused /\ closed' \in BOOLEAN
    BY <1>1, <1>2, <1>4 DEF DataBlock, Handled
  <2> QED BY <1>1, <1>2, <1>3, <1>4, <2>1, MisusedIInv
<1>5. CASE state = "data" /\ UNCHANGED <<disk, offset, state, cur, fh, times, fixups, torn>> /\ (faults' = 0 => faults = 0)
  <2>1. \A i, p : Newest(i, p)' <=> Newest(i, p)
    BY <1>5 DEF Newest
  <2>2. Timed'
    BY <1>1, <1>5, <2>1 DEF IInv, Timed
  <2>3. Traced' /\ FinishedFilesAreWhole'
    BY <1>1, <1>5 DEF IInv, Traced, FinishedFilesAreWhole, Size
  <2>4. OnlyReplacementsLoseTheirTime'
    BY <1>1 DEF OnlyReplacementsLoseTheirTime
  <2> QED BY <1>2, <2>2, <2>3, <2>4 DEF IInv
<1>6. CASE /\ state = "data" /\ fh /\ (cur.size < 0 \/ o < cur.size)
           /\ disk' = [disk EXCEPT ![cur.path].data = WriteAt(@, o, <<cur.id, o>>)]
           /\ offset' = o + 1
           /\ UNCHANGED <<state, cur, fh, times, fixups, torn, faults>>
  <2> DEFINE p == cur.path
             b == <<cur.id, o>>
             s == WriteAt(disk[p].data, o, b)
  <2>1. IsDisk(disk, MaxEntries, Blocks) /\ p \in Paths /\ disk[p].kind = "file" /\ disk[p].owner = cur.id
        /\ disk[p].data \in Seq(Blocks) /\ MaxEntries \in Nat /\ Zero \in Blocks /\ o \in Nat /\ cur.size \in Int
    BY <1>2, <1>6, Given DEF Handled, HandleOK, IsDisk, Object
  <2>2. b \in Blocks
    BY <1>1, <1>2 DEF Blocks, Handled, HandleOK
  <2> HIDE DEF b
  <2>3. s \in Seq(Blocks) /\ IsWritten(s, disk[p].data, o, b)
    BY <2>1, <2>2, WriteAtIs
  <2>4. disk' = Rewrite(disk, p, s)
    BY <1>6 DEF Rewrite, b
  <2> HIDE DEF s
  <2>5. /\ \A q \in Paths \ {p} : disk'[q] = disk[q]
        /\ disk'[p].kind = "file" /\ disk'[p].owner = disk[p].owner /\ disk'[p].time = disk[p].time /\ disk'[p].data = s
    <3>1. LET f == Rewrite(disk, p, s)
          IN  /\ \A q \in Paths \ {p} : f[q] = disk[q]
              /\ f[p].kind = "file" /\ f[p].owner = disk[p].owner /\ f[p].time = disk[p].time /\ f[p].data = s
      BY <2>1, <2>3, RewriteIs
    <3> QED BY <2>4, <3>1
  <2>6. \A q \in Paths : disk'[q].kind = disk[q].kind /\ disk'[q].owner = disk[q].owner /\ disk'[q].time = disk[q].time
    BY <2>1, <2>5
  <2>7. Traced'
    <3>1. cur.size = given[cur.id].size /\ (cur.size >= 0 => Len(disk[p].data) <= cur.size)
      BY <1>6 DEF IInv, Traced
    <3>2. Len(s) = (IF o < Len(disk[p].data) THEN Len(disk[p].data) ELSE o + 1) /\ Len(disk[p].data) \in Nat
      <4>1. Len(s) = IF o < Len(disk[p].data) THEN Len(disk[p].data) ELSE o + 1
        BY <2>3 DEF IsWritten
      <4> QED BY <2>1, <4>1
    <3>3. o + 1 <= Len(s) /\ (cur.size >= 0 => Len(s) <= cur.size)
      BY <1>6, <2>1, <3>1, <3>2
    <3> QED BY <1>1, <1>6, <2>5, <2>6, <3>3 DEF IInv, Traced
  <2>8. FinishedFilesAreWhole'
    BY <1>1, <1>6, <2>1, <2>5 DEF IInv, FinishedFilesAreWhole, Size
  <2>9. Timed'
    <3>1. \A i, q : Newest(i, q)' <=> Newest(i, q)
      BY <1>6 DEF Newest
    <3> QED BY <1>1, <1>6, <2>6, <3>1 DEF IInv, Timed
  <2>10. OnlyReplacementsLoseTheirTime'
    BY <1>1 DEF OnlyReplacementsLoseTheirTime
  <2> QED BY <1>2, <2>7, <2>8, <2>9, <2>10 DEF IInv
<1>7. state = "data" /\ Fails(1) => (faults' = 0 => faults = 0)
  BY <1>2 DEF Fails, Handled, HandleOK
<1>8. Fails(0) => (faults' = 0 => faults = 0)
  BY <1>2 DEF Fails, Handled, HandleOK
<1> QED BY <1>1, <1>4, <1>5, <1>6, <1>7, <1>8 DEF DataBlock

LEMMA FinishIInv == IInv /\ CallFinish => IInv'
<1> SUFFICES ASSUME IInv, CallFinish PROVE IInv'
  OBVIOUS
<1>1. ~closed /\ FinishEntry /\ UNCHANGED <<given, closed>>
  BY DEF CallFinish
<1>2. Handled' /\ Handled
  BY OthersHandled DEF IInv
<1>3. Len(given) \in Nat
  BY <1>2 DEF Handled
<1>4. CASE state \notin {"header", "data"}
  <2>1. Misused /\ closed' \in BOOLEAN
    BY <1>1, <1>2, <1>4 DEF FinishEntry, Handled
  <2> QED BY <1>1, <1>2, <1>3, <1>4, <2>1, MisusedIInv
<1>5. CASE state \in {"header", "data"}
  <2>1. PICK f \in FinishOutcomes :
           /\ Fails(f.failures)
           /\ disk' = f.disk
           /\ state' = f.state
           /\ torn' = Torn(f)
           /\ fh' = FALSE
           /\ UNCHANGED <<cur, offset, times, fixups>>
    BY <1>1, <1>5 DEF FinishEntry
  <2>2. IsFinished(f)
    BY <1>2, <1>5, Given, FinishIs DEF Handled
  <2>3. \A p \in Paths : disk'[p].kind = disk[p].kind /\ disk'[p].owner = disk[p].owner
    BY <2>1, <2>2 DEF IsFinished
  <2>4. Traced'
    BY <1>1, <2>1, <2>3 DEF IInv, Traced
  <2>5. FinishedFilesAreWhole'
    BY <1>1, <1>5, <2>1, FinishMakesWhole DEF IInv, FinishedFilesAreWhole, Size
  <2>6. Timed'
    <3>1. SUFFICES ASSUME faults' = 0 PROVE
        /\ \A p \in Paths : disk'[p].kind = "file" /\ disk'[p].owner > 0 => disk'[p].time = disk'[p].owner
        /\ \A p \in Paths : disk'[p].kind = "dir" /\ disk'[p].owner > 0 =>
                \E i \in 1 .. Len(fixups') : Newest(i, p)' /\ fixups'[i].id = disk'[p].owner
        /\ state' = "header"
      BY DEF Timed
    <3>2. faults = 0 /\ f.failures = 0
      BY <3>1, <1>2, <2>1, <2>2 DEF Fails, IsFinished, Handled, HandleOK
    <3>3. f.state = "header"
          /\ \A p \in Paths : f.disk[p].kind = "file" /\ f.disk[p].owner > 0 => f.disk[p].time = f.disk[p].owner
      BY <1>1, <1>5, <3>2, FinishSetsTimes DEF IInv
    <3>4. \A i, p : Newest(i, p)' <=> Newest(i, p)
      BY <2>1 DEF Newest
    <3> QED BY <1>1, <2>1, <2>3, <3>2, <3>3, <3>4 DEF IInv, Timed
  <2>7. OnlyReplacementsLoseTheirTime'
    BY <1>1 DEF OnlyReplacementsLoseTheirTime
  <2> QED BY <1>2, <2>4, <2>5, <2>6, <2>7 DEF IInv
<1> QED BY <1>4, <1>5

\* The step of close or of free that makes the fixups.
LEMMA FixingIInv ==
    ASSUME IInv, Handled', state \in {"header", "data"}, NEW f \in FinishOutcomes, UNCHANGED given, closed' = TRUE,
           Fails(f.failures), disk' = Fixed(f.disk), torn' = Torn(f), fh' = FALSE, fixups' = <<>>,
           (state' = f.state /\ ~closed) \/ state' = "freed"
    PROVE  IInv'
<1>1. IsDisk(f.disk, MaxEntries, Blocks) /\ IsFinished(f) /\ Handled
  BY Given, FinishIs DEF IInv, Handled
<1>2. \A p \in Paths :
        /\ disk'[p].kind = f.disk[p].kind /\ disk'[p].data = f.disk[p].data /\ disk'[p].owner = f.disk[p].owner
        /\ (\A i \in 1 .. Len(fixups) : fixups[i].path # p) => disk'[p] = f.disk[p]
        /\ (\E i \in 1 .. Len(fixups) : fixups[i].path = p) /\ f.disk[p].kind # "none" =>
              \E i \in 1 .. Len(fixups) : Newest(i, p) /\ disk'[p].time = fixups[i].id
  <2>1. \A p \in Paths :
          /\ Fixed(f.disk)[p].kind = f.disk[p].kind /\ Fixed(f.disk)[p].data = f.disk[p].data
          /\ Fixed(f.disk)[p].owner = f.disk[p].owner
          /\ (\A i \in 1 .. Len(fixups) : fixups[i].path # p) => Fixed(f.disk)[p] = f.disk[p]
          /\ (\E i \in 1 .. Len(fixups) : fixups[i].path = p) /\ f.disk[p].kind # "none" =>
                \E i \in 1 .. Len(fixups) : Newest(i, p) /\ Fixed(f.disk)[p].time = fixups[i].id
    BY <1>1, Given, FixedIs DEF Handled
  <2> QED BY <2>1
<1>3. \A p \in Paths : disk'[p].kind = disk[p].kind /\ disk'[p].owner = disk[p].owner
  BY <1>1, <1>2 DEF IsFinished
<1>4. Traced'
  <2>1. Len(fixups') = 0
    BY EmptySeq
  <2> QED BY <1>3, <2>1 DEF IInv, Traced
<1>5. FinishedFilesAreWhole'
  <2>1. SUFFICES ASSUME NEW p \in Paths, disk'[p].kind = "file", disk'[p].owner \notin torn' \cup {0},
                        given[disk'[p].owner].size >= 0
                 PROVE  Len(disk'[p].data) = given[disk'[p].owner].size
    BY DEF FinishedFilesAreWhole, Size
  <2>2. f.disk[p].kind = "file" /\ f.disk[p].owner = disk'[p].owner /\ f.disk[p].owner \notin Torn(f) \cup {0}
    BY <2>1, <1>2
  <2>3. Len(f.disk[p].data) = given[f.disk[p].owner].size
    BY <2>1, <2>2, FinishMakesWhole DEF IInv
  <2> QED BY <2>2, <2>3, <1>2
<1>6. Timed'
  BY DEF Timed
<1>7. OnlyReplacementsLoseTheirTime'
  <2>1. SUFFICES ASSUME faults' = 0, state' = "header", NEW p \in Paths, disk'[p].owner > 0, disk'[p].time # disk'[p].owner
                 PROVE  disk'[p].kind = "file"
                        /\ \E i \in DOMAIN given : given[i].path = p /\ given[i].type = "dir" /\ disk'[p].time = i
    BY DEF OnlyReplacementsLoseTheirTime
  <2>2. ~closed /\ faults = 0 /\ f.failures = 0
    BY <2>1, <1>1 DEF Fails, IsFinished, Handled, HandleOK
  <2>3. \A q \in Paths : f.disk[q].kind = "file" /\ f.disk[q].owner > 0 => f.disk[q].time = f.disk[q].owner
    BY <1>1, <2>2, FinishSetsTimes DEF IInv
  <2>4. disk[p].kind # "none" /\ disk'[p].kind \in {"none", "dir", "file"}
    <3>1. disk' \in [Paths -> Object(MaxEntries, Blocks)] /\ disk \in [Paths -> Object(MaxEntries, Blocks)]
      BY <1>1 DEF Handled, HandleOK, IsDisk
    <3>2. disk[p].kind = "none" => disk[p].owner = 0
      BY <1>1 DEF Handled, HandleOK, IsDisk
    <3> QED BY <3>1, <3>2, <1>3, <2>1 DEF Object
  <2>5. PICK i \in 1 .. Len(fixups) : Newest(i, p) /\ disk'[p].time = fixups[i].id
    <3>1. CASE \A k \in 1 .. Len(fixups) : fixups[k].path # p
      <4>1. disk'[p] = f.disk[p]
        BY <3>1, <1>2
      <4>2. disk[p].kind # "file"
        BY <4>1, <1>3, <2>1, <2>3
      <4>3. \E k \in 1 .. Len(fixups) : Newest(k, p)
        BY <4>2, <1>3, <2>1, <2>2, <2>4 DEF IInv, Timed
      <4> QED BY <4>3, <3>1 DEF Newest
    <3>2. CASE \E k \in 1 .. Len(fixups) : fixups[k].path = p
      BY <3>2, <1>1, <1>2, <2>4 DEF IsFinished
    <3> QED BY <3>1, <3>2
  <2>6. disk'[p].kind = "file"
    <3>1. SUFFICES ASSUME disk[p].kind = "dir" PROVE FALSE
      BY <1>3, <2>4
    <3>2. PICK k \in 1 .. Len(fixups) : Newest(k, p) /\ fixups[k].id = disk[p].owner
      BY <3>1, <1>3, <2>1, <2>2 DEF IInv, Timed
    <3>3. k = i
      BY <3>2, <2>5 DEF Newest
    <3> QED BY <3>2, <3>3, <2>1, <2>5, <1>3
  <2>7. fixups[i].id \in 1 .. Len(given) /\ given[fixups[i].id].path = p /\ given[fixups[i].id].type = "dir"
    <3>1. fixups[i].id \in 1 .. MaxEntries /\ Len(given) \in Nat
      BY <1>1, FixupsAreSeq DEF Handled
    <3> QED BY <3>1, <2>5, Given DEF IInv, Traced, Newest
  <2>8. DOMAIN given = 1 .. Len(given)
    BY <1>1 DEF Handled
  <2> QED BY <2>5, <2>6, <2>7, <2>8
<1> QED BY <1>4, <1>5, <1>6, <1>7 DEF IInv

LEMMA CloseIInv == IInv /\ CallClose => IInv'
<1> SUFFICES ASSUME IInv, CallClose PROVE IInv'
  OBVIOUS
<1>1. ~closed /\ Close /\ closed' = TRUE /\ UNCHANGED given
  BY DEF CallClose
<1>2. Handled' /\ Len(given) \in Nat
  BY OthersHandled DEF IInv, Handled
<1>3. CASE state \notin {"header", "data"}
  <2>1. Misused
    BY <1>1, <1>3 DEF Close
  <2> QED BY <1>1, <1>2, <1>3, <2>1, MisusedIInv
<1>4. CASE state \in {"header", "data"}
  BY <1>1, <1>2, <1>4, FixingIInv DEF Close
<1> QED BY <1>3, <1>4

LEMMA FreeIInv == IInv /\ CallFree => IInv'
<1> SUFFICES ASSUME IInv, CallFree PROVE IInv'
  OBVIOUS
<1>1. Free /\ closed' = TRUE /\ UNCHANGED given /\ state' = "freed"
  BY DEF CallFree, Free
<1>2. Handled' /\ Handled
  BY OthersHandled DEF IInv
<1>3. CASE state = "fatal"
  <2>1. UNCHANGED <<disk, cur, fh, offset, times, fixups, faults, torn>>
    BY <1>1, <1>3 DEF Free
  <2>2. Traced' /\ FinishedFilesAreWhole'
    BY <1>1, <2>1 DEF IInv, Traced, FinishedFilesAreWhole, Size
  <2>3. Timed' /\ OnlyReplacementsLoseTheirTime'
    BY <1>1 DEF Timed, OnlyReplacementsLoseTheirTime
  <2> QED BY <1>2, <2>2, <2>3 DEF IInv
<1>4. CASE state \in {"header", "data"}
  BY <1>1, <1>2, <1>4, FixingIInv DEF Free
<1> QED BY <1>1, <1>2, <1>3, <1>4 DEF Free, Handled, HandleOK

LEMMA InitIInv == Init => IInv
<1> SUFFICES ASSUME Init PROVE IInv
  OBVIOUS
<1>1. PICK d \in Disks : Ready(d)
  BY DEF Init
<1>2. \A p \in Paths : disk[p].owner = 0
  BY <1>1, DisksAssumption DEF DisksAssumption, Ready, Nothing, Dir, File
<1>3. given = <<>> /\ Len(given) = 0 /\ fixups = <<>> /\ Len(fixups) = 0 /\ ~closed /\ ~fh /\ state = "header"
  BY <1>1, EmptySeq DEF Init, Ready
<1>4. Traced /\ FinishedFilesAreWhole
  BY <1>2, <1>3 DEF Traced, FinishedFilesAreWhole
<1>5. Timed /\ OnlyReplacementsLoseTheirTime
  BY <1>2, <1>3 DEF Timed, OnlyReplacementsLoseTheirTime
<1> QED BY <1>4, <1>5, InitHandled DEF IInv

\* The invariant from which the two theorems below follow holds after every call.
THEOREM InvHolds == Spec => []IInv
<1>1. IInv /\ [Next]_vars => IInv'
  <2>1. ASSUME IInv, UNCHANGED vars PROVE IInv'
    <3>1. \A i, p : Newest(i, p)' <=> Newest(i, p)
      BY <2>1 DEF vars, wdvars, Newest
    <3>2. Handled'
      BY <2>1 DEF vars, wdvars, IInv, Handled, HandleOK
    <3>3. Traced' /\ FinishedFilesAreWhole' /\ OnlyReplacementsLoseTheirTime'
      BY <2>1 DEF vars, wdvars, IInv, Traced, FinishedFilesAreWhole, Size, OnlyReplacementsLoseTheirTime
    <3>4. Timed'
      BY <2>1, <3>1 DEF vars, wdvars, IInv, Timed
    <3> QED BY <3>2, <3>3, <3>4 DEF IInv
  <2> QED BY <2>1, HeaderIInv, DataBlockIInv, FinishIInv, CloseIInv, FreeIInv DEF Next
<1> QED BY InitIInv, <1>1, PTL DEF Spec

\* FinishedFilesAreWhole: archive_write_disk_finish_entry cuts or fills a file to the size in its
\* header, in whichever order blocks came, unless la_ftruncate failed.
THEOREM FinishedMeansWhole == Spec => []FinishedFilesAreWhole
<1>1. IInv => FinishedFilesAreWhole
  BY DEF IInv
<1> QED BY <1>1, InvHolds, PTL

\* OnlyReplacementsLoseTheirTime: after archive_write_disk_close what an entry created has the
\* entry's time, but for a file that replaced a directory with a fixup.
THEOREM TimesAreRestored == Spec => []OnlyReplacementsLoseTheirTime
<1>1. IInv => OnlyReplacementsLoseTheirTime
  BY DEF IInv
<1> QED BY <1>1, InvHolds, PTL
=============================================================================
