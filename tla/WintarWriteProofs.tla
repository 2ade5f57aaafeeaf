------------------------- MODULE WintarWriteProofs --------------------------
(***************************************************************************)
(* Theorems about WintarWrite, for any arguments, files, links, sizes and  *)
(* formats, and any number of failures.                                    *)
(***************************************************************************)
EXTENDS WintarWrite, FiniteSetTheorems, SequenceTheorems, TLAPS

\* An entry that says which file it is of.
IsOwn(e) == e \in Entries /\ e.ino = work.ino[e.path]

\* What the table of the resolver has of the file i.  Only a newer cpio holds entries back.
CacheEntries == [canonical : Paths, links : Nat \ {0}, entry : Seq(Entries)]
Cell(c, i) ==
    /\ work.ino[c[i].canonical] = i
    /\ IF strategy = "new_cpio"
       THEN \E h : IsOwn(h) /\ h.ino = i /\ h.link = NoLink /\ c[i].entry = <<h>>
       ELSE c[i].entry = <<>>
Table(c) ==
    /\ c \in [DOMAIN c -> CacheEntries] /\ DOMAIN c \subseteq Inodes /\ IsFiniteSet(DOMAIN c)
    /\ \A i \in DOMAIN c : Cell(c, i)

Queued(s) == s \in Seq(Entries) /\ Len(s) <= 2 /\ \A k \in 1 .. Len(s) : IsOwn(s[k])

ArchiveIs == archive \in Seq(Archived) /\ \A k \in 1 .. Len(archive) : archive[k].ino = work.ino[archive[k].path]
Small ==
    /\ pc \in {"args", "walk", "append", "flush", "close", "done"} /\ copying \in BOOLEAN
    /\ return_value \in {0, 1} /\ status \in {-1, 0, 1} /\ faults \in 0 .. MaxFaults
Ways ==
    /\ argv \in Seq([kind : Kinds, paths : Seq(Paths)]) /\ walk \in Seq(Paths)
    /\ disk \in [state : {"closed", "open", "data", "fatal"}, path : Paths \cup {NoLink}, left : Nat]
Counts == size \in [Inodes -> Nat] /\ seen \in [Paths -> Nat] /\ gone \in [Paths -> Nat] /\ spoiled \subseteq Inodes

Typed == work \in Works /\ format \in Formats /\ Small /\ Ways /\ Counts /\ Table(cache) /\ Queued(todo) /\ ArchiveIs

\* Where entries wait to be written, and where their data comes from: the disk is still at
\* the file of the entries that linkify has returned.
Waiting ==
    /\ todo # <<>> => pc \in {"walk", "append", "flush", "done"}
    /\ pc \in {"append", "flush"} => Len(todo) <= 1
    /\ pc \in {"walk", "flush"} /\ todo # <<>> =>
        /\ disk.path \in Paths
        /\ \A k \in 1 .. Len(todo) : todo[k].ino = work.ino[disk.path]
    /\ copying =>
        /\ todo # <<>> /\ archive # <<>>
        /\ archive[Last].path = Entry.path /\ archive[Last].ino = Entry.ino
        /\ archive[Last].size = Entry.size /\ archive[Last].link = Entry.link

\* How often an entry of p is held back.
Kept(c, p) == Cardinality({i \in Deferred(c) : Head(c[i].entry).path = p})

Balance == \A p \in Paths : seen[p] = Times(Pending, p) + Kept(cache, p) + Times(archive, p) + gone[p]

IInv == Typed /\ Waiting /\ Balance /\ DataIsItsOwn
-----------------------------------------------------------------------------
(* What the work is. *)

LEMMA WorkIs ==
    ASSUME work \in Works
    PROVE  /\ work.ino \in [Paths -> Inodes] /\ NoLink \notin Paths
           /\ work.nlink \in [Inodes -> Nat \ {0}] /\ work.size \in [Inodes -> Nat]
           /\ work.args \in Seq([kind : Kinds, paths : Seq(Paths)])
           /\ \A k \in DOMAIN work.args :
                /\ work.args[k].kind \in {"chdir", "chdir_nowhere"} => work.args[k].paths = <<>>
                /\ work.args[k].kind = "archive" =>
                    \A n \in DOMAIN work.args[k].paths : work.nlink[work.ino[work.args[k].paths[n]]] = 1
           /\ MaxFaults \in Nat /\ Sizes \subseteq Nat
BY WorksAssumption, Zenon DEF WorksAssumption, Paths, Inodes

LEMMA StrategyIs == strategy \in {"tar", "mtree", "new_cpio", "old_cpio"}
BY DEF strategy, Strategy

LEMMA EntryIs ==
    ASSUME work \in Works, size \in [Inodes -> Nat], NEW p \in Paths
    PROVE  IsOwn(EntryOf(p)) /\ EntryOf(p).link = NoLink /\ EntryOf(p).path = p /\ EntryOf(p).ino = work.ino[p]
           /\ EntryOf(p).size = size[work.ino[p]]
BY WorkIs DEF EntryOf, IsOwn, Entries
-----------------------------------------------------------------------------
(* Counting. *)

One(e, p) == IF e.path = p THEN 1 ELSE 0

LEMMA OneIsNat == \A e, p : One(e, p) \in {0, 1}
BY DEF One

LEMMA TimesIsNat ==
    ASSUME NEW S, NEW s \in Seq(S), NEW p
    PROVE  Times(s, p) \in Nat /\ IsFiniteSet({k \in DOMAIN s : s[k].path = p})
<1>1. DOMAIN s = 1 .. Len(s) /\ Len(s) \in Nat
  OBVIOUS
<1>2. IsFiniteSet(DOMAIN s)
  BY <1>1, FS_Interval
<1>3. IsFiniteSet({k \in DOMAIN s : s[k].path = p})
  BY <1>2, FS_Subset
<1>. QED  BY <1>3, FS_CardinalityType DEF Times

LEMMA TimesAppend ==
    ASSUME NEW S, NEW s \in Seq(S), NEW e \in S, NEW p
    PROVE  Times(Append(s, e), p) = Times(s, p) + One(e, p)
<1>. DEFINE T == {k \in DOMAIN s : s[k].path = p}
            U == {k \in DOMAIN Append(s, e) : Append(s, e)[k].path = p}
            n == Len(s) + 1
<1>1. IsFiniteSet(T) /\ Times(s, p) \in Nat /\ Times(s, p) = Cardinality(T) /\ Times(Append(s, e), p) = Cardinality(U)
  BY TimesIsNat, Zenon DEF Times
<1>2. DOMAIN Append(s, e) = DOMAIN s \cup {n} /\ Append(s, e)[n] = e /\ \A k \in DOMAIN s : Append(s, e)[k] = s[k]
  OBVIOUS
<1>3. n \notin T
  OBVIOUS
<1>4. U = IF e.path = p THEN T \cup {n} ELSE T
  BY <1>2
<1>. HIDE DEF T, U, n
<1>5. Cardinality(T \cup {n}) = Cardinality(T) + 1
  BY <1>1, <1>3, FS_AddElement, Zenon
<1>. QED  BY <1>1, <1>4, <1>5 DEF One

LEMMA TimesShort ==
    ASSUME NEW p
    PROVE  /\ Times(<<>>, p) = 0
           /\ \A a : Times(<<a>>, p) = One(a, p)
           /\ \A a, b : Times(<<a, b>>, p) = One(a, p) + One(b, p)
<1>1. Times(<<>>, p) = 0
  <2>1. {k \in DOMAIN <<>> : <<>>[k].path = p} = {}
    OBVIOUS
  <2>. QED  BY <2>1, FS_EmptySet DEF Times
<1>2. ASSUME NEW a PROVE Times(<<a>>, p) = One(a, p)
  <2>1. <<>> \in Seq({a}) /\ Append(<<>>, a) = <<a>>
    OBVIOUS
  <2>2. Times(Append(<<>>, a), p) = Times(<<>>, p) + One(a, p)
    BY <2>1, TimesAppend
  <2>. QED  BY <1>1, <2>1, <2>2, OneIsNat
<1>3. ASSUME NEW a, NEW b PROVE Times(<<a, b>>, p) = One(a, p) + One(b, p)
  <2>1. <<a>> \in Seq({a, b}) /\ <<a, b>> \in Seq({a, b})
    OBVIOUS
  <2>2. Append(<<a>>, b) = <<a, b>>
    <3>1. PICK t : t = Append(<<a>>, b)
      OBVIOUS
    <3>2. t \in Seq({a, b}) /\ Len(t) = 2 /\ t[1] = a /\ t[2] = b
      BY <2>1, <3>1, AppendProperties
    <3>3. t = <<t[1], t[2]>>
      BY <3>2
    <3>. QED  BY <3>1, <3>2, <3>3
  <2>3. Times(Append(<<a>>, b), p) = Times(<<a>>, p) + One(b, p)
    BY <2>1, TimesAppend
  <2>. QED  BY <1>2, <2>2, <2>3
<1>. QED  BY <1>1, <1>2, <1>3

LEMMA ShortIs ==
    ASSUME NEW S, NEW s \in Seq(S), s # <<>>, Len(s) <= 2
    PROVE  \E a \in S : /\ Head(s) = a /\ s[1] = a
                        /\ \/ s = <<a>> /\ Tail(s) = <<>> /\ Len(s) = 1
                           \/ \E b \in S : s = <<a, b>> /\ Tail(s) = <<b>> /\ s[2] = b /\ Len(s) = 2
<1>1. Len(s) \in {1, 2}
  <2>1. Len(s) \in Nat /\ Len(s) # 0
    OBVIOUS
  <2>2. \A n \in Nat : n # 0 /\ n <= 2 => n \in {1, 2}
    OBVIOUS
  <2>. QED  BY <2>1, <2>2, Zenon
<1>2. CASE Len(s) = 1
  <2>1. PICK a \in S : a = s[1]
    BY <1>2
  <2>2. s = <<a>>
    BY <1>2, <2>1
  <2>3. Head(s) = a /\ Tail(s) = <<>>
    BY <2>2
  <2>. QED  BY <1>2, <2>1, <2>2, <2>3
<1>3. CASE Len(s) = 2
  <2>1. PICK a \in S : a = s[1]
    BY <1>3
  <2>2. PICK b \in S : b = s[2]
    <3>1. 2 \in 1 .. Len(s)
      BY <1>3
    <3>2. s[2] \in S
      BY <3>1, ElementOfSeq, Zenon
    <3>. QED  BY <3>2
  <2>3. s = <<a, b>>
    BY <1>3, <2>1, <2>2
  <2>4. Head(s) = a /\ Tail(s) = <<b>>
    BY <2>3
  <2>. QED  BY <1>3, <2>1, <2>2, <2>3, <2>4
<1>. QED  BY <1>1, <1>2, <1>3

\* A queue that is not empty has a first entry and at most one more.
LEMMA QueueIs ==
    ASSUME NEW s, Queued(s), s # <<>>
    PROVE  \E a : /\ IsOwn(a) /\ Head(s) = a /\ s[1] = a
                  /\ \/ s = <<a>> /\ Tail(s) = <<>> /\ Len(s) = 1
                     \/ \E b : IsOwn(b) /\ s = <<a, b>> /\ Tail(s) = <<b>> /\ s[2] = b /\ Len(s) = 2
<1>1. s \in Seq(Entries) /\ Len(s) <= 2 /\ \A k \in 1 .. Len(s) : IsOwn(s[k])
  BY DEF Queued
<1>2. PICK S : S = Entries
  OBVIOUS
<1>3. PICK a \in S : /\ Head(s) = a /\ s[1] = a
                     /\ \/ s = <<a>> /\ Tail(s) = <<>> /\ Len(s) = 1
                        \/ \E b \in S : s = <<a, b>> /\ Tail(s) = <<b>> /\ s[2] = b /\ Len(s) = 2
  BY <1>1, <1>2, ShortIs
<1>4. IsOwn(a) /\ (Len(s) = 2 => IsOwn(s[2]))
  BY <1>1, <1>3
<1>. QED  BY <1>3, <1>4

LEMMA TailIs ==
    ASSUME NEW s, Queued(s), s # <<>>
    PROVE  /\ Queued(Tail(s)) /\ Len(Tail(s)) <= 1 /\ (Len(s) <= 1 => Tail(s) = <<>>)
           /\ Tail(s) # <<>> => Tail(s)[1] = s[2] /\ Len(s) = 2
<1>1. PICK a : /\ IsOwn(a) /\ Head(s) = a /\ s[1] = a
               /\ \/ s = <<a>> /\ Tail(s) = <<>> /\ Len(s) = 1
                  \/ \E b : IsOwn(b) /\ s = <<a, b>> /\ Tail(s) = <<b>> /\ s[2] = b /\ Len(s) = 2
  BY QueueIs
<1>2. Queued(<<>>) /\ Len(<<>>) = 0
  BY DEF Queued
<1>3. ASSUME NEW b, IsOwn(b) PROVE Queued(<<b>>) /\ Len(<<b>>) = 1 /\ <<b>>[1] = b
  BY <1>3 DEF Queued, IsOwn
<1>4. CASE s = <<a>> /\ Tail(s) = <<>> /\ Len(s) = 1
  BY <1>2, <1>4
<1>5. ASSUME NEW b, IsOwn(b), s = <<a, b>>, Tail(s) = <<b>>, s[2] = b, Len(s) = 2
      PROVE  /\ Queued(Tail(s)) /\ Len(Tail(s)) <= 1 /\ ~(Len(s) <= 1)
             /\ Tail(s)[1] = s[2]
  BY <1>3, <1>5
<1>. QED  BY <1>1, <1>4, <1>5

LEMMA TimesTail ==
    ASSUME NEW s, Queued(s), s # <<>>, NEW p
    PROVE  Times(s, p) = Times(Tail(s), p) + One(Head(s), p)
<1>1. PICK a : /\ Head(s) = a
               /\ \/ s = <<a>> /\ Tail(s) = <<>>
                  \/ \E b : s = <<a, b>> /\ Tail(s) = <<b>>
  BY QueueIs
<1>2. CASE s = <<a>> /\ Tail(s) = <<>>
  <2>1. Times(<<a>>, p) = One(a, p) /\ Times(<<>>, p) = 0 /\ One(a, p) \in {0, 1}
    BY TimesShort, OneIsNat, Zenon
  <2>2. Times(s, p) = One(a, p) /\ Times(Tail(s), p) = 0 /\ One(Head(s), p) = One(a, p)
    BY <1>1, <1>2, <2>1
  <2>. QED  BY <2>1, <2>2
<1>3. ASSUME NEW b, s = <<a, b>>, Tail(s) = <<b>> PROVE Times(s, p) = Times(Tail(s), p) + One(Head(s), p)
  <2>1. Times(<<a, b>>, p) = One(a, p) + One(b, p) /\ Times(<<b>>, p) = One(b, p) /\ One(a, p) \in {0, 1} /\ One(b, p) \in {0, 1}
    BY TimesShort, OneIsNat, Zenon
  <2>2. Times(s, p) = One(a, p) + One(b, p) /\ Times(Tail(s), p) = One(b, p) /\ One(Head(s), p) = One(a, p)
    BY <1>1, <1>3, <2>1
  <2>. QED  BY <2>1, <2>2
<1>. QED  BY <1>1, <1>2, <1>3

\* How often an entry of p is held back of the file i.
KeptAt(c, i, p) == IF i \in DOMAIN c /\ c[i].entry # <<>> /\ Head(c[i].entry).path = p THEN 1 ELSE 0

LEMMA KeptIsNat ==
    ASSUME NEW c, IsFiniteSet(DOMAIN c), NEW p
    PROVE  Kept(c, p) \in Nat /\ IsFiniteSet({i \in Deferred(c) : Head(c[i].entry).path = p})
<1>1. IsFiniteSet({i \in Deferred(c) : Head(c[i].entry).path = p})
  BY FS_Subset DEF Deferred
<1>. QED  BY <1>1, FS_CardinalityType DEF Kept

LEMMA KeptWithout ==
    ASSUME NEW c, IsFiniteSet(DOMAIN c), NEW i, NEW p
    PROVE  /\ Kept(c, p) = Kept(Without(c, i), p) + KeptAt(c, i, p)
           /\ Kept(Without(c, i), p) \in Nat /\ KeptAt(c, i, p) \in {0, 1}
<1>. DEFINE w == Without(c, i)
            K == {j \in Deferred(c) : Head(c[j].entry).path = p}
            W == {j \in Deferred(w) : Head(w[j].entry).path = p}
            at == i \in DOMAIN c /\ c[i].entry # <<>> /\ Head(c[i].entry).path = p
<1>1. DOMAIN w = DOMAIN c \ {i} /\ \A j \in DOMAIN w : w[j] = c[j]
  BY DEF Without
<1>2. IsFiniteSet(DOMAIN w)
  BY <1>1, FS_Subset
<1>3. IsFiniteSet(W) /\ Kept(w, p) \in Nat
  BY <1>2, KeptIsNat, Zenon
<1>4. i \notin W
  BY <1>1 DEF Deferred
<1>5. K = IF at THEN W \cup {i} ELSE W
  BY <1>1 DEF Deferred
<1>6. Cardinality(W \cup {i}) = Cardinality(W) + 1
  BY <1>3, <1>4, FS_AddElement, Zenon
<1>7. Kept(c, p) = Cardinality(K) /\ Kept(w, p) = Cardinality(W) /\ KeptAt(c, i, p) = IF at THEN 1 ELSE 0
  BY Zenon DEF Kept, KeptAt
<1>. HIDE DEF w, K, W, at
<1>. QED  BY <1>3, <1>5, <1>6, <1>7 DEF w

\* Two tables that differ in one file.
LEMMA KeptChanges ==
    ASSUME NEW c, NEW d, NEW i, NEW p, IsFiniteSet(DOMAIN c), IsFiniteSet(DOMAIN d), Without(c, i) = Without(d, i)
    PROVE  Kept(d, p) + KeptAt(c, i, p) = Kept(c, p) + KeptAt(d, i, p)
<1>1. Kept(c, p) = Kept(Without(c, i), p) + KeptAt(c, i, p) /\ KeptAt(c, i, p) \in {0, 1} /\ Kept(Without(c, i), p) \in Nat
  BY KeptWithout
<1>2. Kept(d, p) = Kept(Without(d, i), p) + KeptAt(d, i, p) /\ KeptAt(d, i, p) \in {0, 1}
  BY KeptWithout
<1>. QED  BY <1>1, <1>2
-----------------------------------------------------------------------------
(* The link resolver. *)

\* What linkify may do with an entry: let it through; remember the file; make it a link to the
\* name that was first; hold it back; hold it back in place of the one before, or let both out.
Passed(r, e) == r.cache = cache /\ r.out = <<e>>
First(r, e) ==
    /\ strategy \in {"tar", "mtree"} /\ e.ino \notin DOMAIN cache
    /\ r.cache = Inserted(cache, e, work.nlink[e.ino], <<>>) /\ r.out = <<e>>
Link(r, e) ==
    /\ strategy \in {"tar", "mtree"} /\ e.ino \in DOMAIN cache
    /\ r.cache = Found(cache, e)
    /\ \E s \in {0, e.size} : r.out = <<[e EXCEPT !.link = cache[e.ino].canonical, !.size = s]>>
FirstHeld(r, e) ==
    /\ strategy = "new_cpio" /\ e.ino \notin DOMAIN cache
    /\ r.cache = Inserted(cache, e, work.nlink[e.ino], <<e>>) /\ r.out = <<>>
Before(e) == [Head(cache[e.ino].entry) EXCEPT !.link = cache[e.ino].canonical, !.size = 0]
NextHeld(r, e) ==
    /\ strategy = "new_cpio" /\ e.ino \in DOMAIN cache /\ cache[e.ino].links # 1
    /\ r.cache = [Found(cache, e) EXCEPT ![e.ino].entry = <<e>>] /\ r.out = <<Before(e)>>
LastHeld(r, e) ==
    /\ strategy = "new_cpio" /\ e.ino \in DOMAIN cache /\ cache[e.ino].links = 1
    /\ r.cache = Without(cache, e.ino) /\ r.out = <<Before(e), e>>

\* In the order of cases above; an entry of a file with one link, or of a format that has none, or
\* without memory for it, goes through.
LEMMA LinkifyCases ==
    ASSUME work \in Works, Table(cache), NEW e, IsOwn(e), NEW memory \in BOOLEAN,
           NEW r, r = Linkify(strategy, cache, e, work.nlink[e.ino], memory)
    PROVE  \/ Passed(r, e) /\ (work.nlink[e.ino] = 1 \/ strategy = "old_cpio" \/ (~memory /\ e.ino \notin DOMAIN cache))
           \/ work.nlink[e.ino] # 1 /\ (First(r, e) \/ Link(r, e) \/ FirstHeld(r, e) \/ NextHeld(r, e) \/ LastHeld(r, e))
<1>. DEFINE n == work.nlink[e.ino]
<1>1. n \in Nat \ {0} /\ e.ino \in Inodes /\ strategy \in {"tar", "mtree", "new_cpio", "old_cpio"}
  BY WorkIs, StrategyIs DEF IsOwn, Entries
<1>2. CASE n = 1 \/ strategy = "old_cpio"
  <2>1. r = [cache |-> cache, out |-> <<e>>]
    BY <1>2, Zenon DEF Linkify
  <2>. QED  BY <1>2, <2>1 DEF Passed
<1>3. CASE n # 1 /\ strategy \in {"tar", "mtree"}
  <2>1. PICK s \in {0, e.size} : r = LinkifyLikeTar(cache, e, n, memory, s)
    BY <1>3 DEF Linkify
  <2>2. CASE e.ino \in DOMAIN cache
    <3>1. r = [cache |-> Found(cache, e), out |-> <<[Linked(cache, e) EXCEPT !.size = s]>>]
      BY <2>1, <2>2 DEF LinkifyLikeTar, Cached
    <3>2. [Linked(cache, e) EXCEPT !.size = s] = [e EXCEPT !.link = cache[e.ino].canonical, !.size = s]
      BY Zenon DEF Linked
    <3>3. r.cache = Found(cache, e) /\ r.out = <<[e EXCEPT !.link = cache[e.ino].canonical, !.size = s]>>
      BY <3>1, <3>2
    <3>4. Link(r, e)
      BY <1>3, <2>2, <3>3, Zenon DEF Link
    <3>. QED  BY <1>3, <3>4
  <2>3. CASE e.ino \notin DOMAIN cache
    <3>1. r = [cache |-> IF memory THEN Inserted(cache, e, n, <<>>) ELSE cache, out |-> <<e>>]
      BY <2>1, <2>3 DEF LinkifyLikeTar, Cached
    <3>. QED  BY <1>3, <2>3, <3>1 DEF First, Passed
  <2>. QED  BY <2>2, <2>3
<1>4. CASE n # 1 /\ strategy = "new_cpio"
  <2>1. r = LinkifyLikeNewCpio(cache, e, n, memory)
    BY <1>4 DEF Linkify
  <2>2. CASE e.ino \notin DOMAIN cache
    <3>1. r = IF memory THEN [cache |-> Inserted(cache, e, n, <<e>>), out |-> <<>>]
              ELSE [cache |-> cache, out |-> <<e>>]
      BY <2>1, <2>2 DEF LinkifyLikeNewCpio, Cached
    <3>. QED  BY <1>4, <2>2, <3>1 DEF FirstHeld, Passed
  <2>3. CASE e.ino \in DOMAIN cache
    <3>1. Before(e) = WithoutData(Linked(cache, Head(cache[e.ino].entry)))
      <4>1. Head(cache[e.ino].entry).ino = e.ino
        BY <1>4, <2>3 DEF Table, Cell
      <4>. QED  BY <4>1, Zenon DEF Before, WithoutData, Linked
    <3>2. cache[e.ino].links = 1 => Found(cache, e) = Without(cache, e.ino) /\ e.ino \notin DOMAIN Found(cache, e)
      BY DEF Found, Without
    <3>3. cache[e.ino].links # 1 => e.ino \in DOMAIN Found(cache, e)
      BY <2>3 DEF Found
    <3>4. r = IF e.ino \in DOMAIN Found(cache, e)
              THEN [cache |-> [Found(cache, e) EXCEPT ![e.ino].entry = <<e>>], out |-> <<Before(e)>>]
              ELSE [cache |-> Found(cache, e), out |-> <<Before(e), e>>]
      BY <2>1, <2>3, <3>1, Zenon DEF LinkifyLikeNewCpio, Cached
    <3>5. CASE cache[e.ino].links = 1
      BY <1>4, <2>3, <3>2, <3>4, <3>5 DEF LastHeld
    <3>6. CASE cache[e.ino].links # 1
      BY <1>4, <2>3, <3>3, <3>4, <3>6 DEF NextHeld
    <3>. QED  BY <3>5, <3>6
  <2>. QED  BY <2>2, <2>3
<1>. QED  BY <1>1, <1>2, <1>3, <1>4

\* Every function that is built from the table differs from it in one file.
LEMMA WithoutSame ==
    ASSUME NEW c, NEW d, NEW i, DOMAIN c \ {i} = DOMAIN d \ {i}, \A j \in DOMAIN c \ {i} : c[j] = d[j]
    PROVE  Without(c, i) = Without(d, i)
BY DEF Without

LEMMA WithoutIs ==
    ASSUME NEW c, Table(c), NEW i
    PROVE  Table(Without(c, i)) /\ DOMAIN Without(c, i) = DOMAIN c \ {i} /\ \A j \in DOMAIN c \ {i} : Without(c, i)[j] = c[j]
<1>1. DOMAIN Without(c, i) = DOMAIN c \ {i} /\ \A j \in DOMAIN c \ {i} : Without(c, i)[j] = c[j]
  BY DEF Without
<1>2. IsFiniteSet(DOMAIN Without(c, i))
  BY <1>1, FS_Subset DEF Table
<1>3. Without(c, i) \in [DOMAIN Without(c, i) -> CacheEntries]
  BY DEF Table, Without
<1>4. \A j \in DOMAIN Without(c, i) : Cell(Without(c, i), j)
  BY <1>1 DEF Table, Cell
<1>. QED  BY <1>1, <1>2, <1>3, <1>4 DEF Table

\* A table in which one cell is new.
LEMMA WithCell ==
    ASSUME NEW c, Table(c), NEW i \in Inodes, NEW d, DOMAIN d = DOMAIN c \cup {i},
           d \in [DOMAIN d -> CacheEntries], \A j \in DOMAIN c \ {i} : d[j] = c[j], Cell(d, i)
    PROVE  Table(d) /\ Without(d, i) = Without(c, i)
<1>1. IsFiniteSet(DOMAIN d)
  BY FS_AddElement DEF Table
<1>2. \A j \in DOMAIN d : Cell(d, j)
  BY DEF Table, Cell
<1>3. Without(d, i) = Without(c, i)
  BY DEF Without
<1>. QED  BY <1>1, <1>2, <1>3 DEF Table

\* The three ways in which linkify leaves a file in the table.
LEMMA InsertedIs ==
    ASSUME work \in Works, Table(cache), NEW e, IsOwn(e), e.link = NoLink, work.nlink[e.ino] # 1, e.ino \notin DOMAIN cache,
           NEW held, held = IF strategy = "new_cpio" THEN <<e>> ELSE <<>>
    PROVE  LET d == Inserted(cache, e, work.nlink[e.ino], held)
           IN  /\ Table(d) /\ Without(d, e.ino) = Without(cache, e.ino) /\ DOMAIN d = DOMAIN cache \cup {e.ino}
               /\ d[e.ino] = [canonical |-> e.path, links |-> work.nlink[e.ino] - 1, entry |-> held]
<1>. DEFINE d == Inserted(cache, e, work.nlink[e.ino], held)
            cell == [canonical |-> e.path, links |-> work.nlink[e.ino] - 1, entry |-> held]
<1>1. e.ino \in Inodes /\ e.path \in Paths /\ e \in Entries /\ e.ino = work.ino[e.path]
  BY DEF IsOwn, Entries
<1>0. work.nlink[e.ino] - 1 \in Nat \ {0}
  BY <1>1, WorkIs
<1>2. held \in Seq(Entries)
  <2>1. <<e>> \in Seq(Entries) /\ <<>> \in Seq(Entries)
    BY <1>1
  <2>. QED  BY <2>1
<1>3. cell \in CacheEntries
  BY <1>0, <1>1, <1>2 DEF CacheEntries
<1>4. DOMAIN d = DOMAIN cache \cup {e.ino} /\ d[e.ino] = cell /\ \A j \in DOMAIN cache \ {e.ino} : d[j] = cache[j]
  BY Zenon DEF Inserted
<1>5. d \in [DOMAIN d -> CacheEntries]
  <2>1. \A j \in DOMAIN cache : cache[j] \in CacheEntries
    BY DEF Table
  <2>2. d = [j \in DOMAIN d |-> d[j]]
    BY Zenon DEF Inserted
  <2>. HIDE DEF d, cell
  <2>3. \A j \in DOMAIN d : d[j] \in CacheEntries
    BY <1>3, <1>4, <2>1, Zenon
  <2>. QED  BY <2>2, <2>3, Zenon
<1>6. Cell(d, e.ino)
  <2>1. d[e.ino].canonical = e.path /\ d[e.ino].entry = held
    BY <1>4
  <2>. HIDE DEF d, cell
  <2>. QED  BY <1>1, <2>1, Zenon DEF Cell
<1>. HIDE DEF d, cell
<1>7. Table(d) /\ Without(d, e.ino) = Without(cache, e.ino)
  BY <1>1, <1>4, <1>5, <1>6, WithCell
<1>. QED  BY <1>4, <1>7, Zenon DEF d, cell

LEMMA FoundIs ==
    ASSUME work \in Works, Table(cache), NEW e, IsOwn(e), e.ino \in DOMAIN cache
    PROVE  LET d == Found(cache, e)
           IN  /\ Table(d) /\ Without(d, e.ino) = Without(cache, e.ino)
               /\ cache[e.ino].links = 1 => DOMAIN d = DOMAIN cache \ {e.ino}
               /\ cache[e.ino].links # 1 => /\ DOMAIN d = DOMAIN cache
                                            /\ d[e.ino] = [cache[e.ino] EXCEPT !.links = cache[e.ino].links - 1]
<1>. DEFINE d == Found(cache, e)
            cell == [cache[e.ino] EXCEPT !.links = cache[e.ino].links - 1]
<1>1. CASE cache[e.ino].links = 1
  <2>1. d = Without(cache, e.ino)
    BY <1>1 DEF Found
  <2>2. Without(d, e.ino) = Without(cache, e.ino)
    <3>1. DOMAIN d = DOMAIN cache \ {e.ino} /\ \A j \in DOMAIN d : d[j] = cache[j]
      BY <2>1 DEF Without
    <3>. HIDE DEF d
    <3>. QED  BY <3>1, WithoutSame
  <2>3. Table(d) /\ DOMAIN d = DOMAIN cache \ {e.ino}
    <3>1. Table(Without(cache, e.ino)) /\ DOMAIN Without(cache, e.ino) = DOMAIN cache \ {e.ino}
      BY WithoutIs, Zenon
    <3>. QED  BY <2>1, <3>1, Zenon
  <2>. HIDE DEF d
  <2>. QED  BY <1>1, <2>2, <2>3 DEF d
<1>2. CASE cache[e.ino].links # 1
  <2>1. cache \in [DOMAIN cache -> CacheEntries] /\ cache[e.ino] \in CacheEntries /\ e.ino \in Inodes /\ Cell(cache, e.ino)
    BY DEF Table, IsOwn, Entries
  <2>2. cache[e.ino].links - 1 \in Nat \ {0}
    BY <1>2, <2>1 DEF CacheEntries
  <2>3. cell \in CacheEntries /\ cell.canonical = cache[e.ino].canonical /\ cell.entry = cache[e.ino].entry
    BY <2>1, <2>2 DEF CacheEntries
  <2>4. d = [cache EXCEPT ![e.ino] = cell]
    BY <1>2, Zenon DEF Found
  <2>. HIDE DEF d, cell
  <2>5. /\ DOMAIN d = DOMAIN cache /\ d \in [DOMAIN d -> CacheEntries] /\ d[e.ino] = cell
        /\ \A j \in DOMAIN cache \ {e.ino} : d[j] = cache[j]
    BY <2>1, <2>3, <2>4
  <2>6. Cell(d, e.ino)
    BY <2>1, <2>3, <2>5 DEF Cell
  <2>7. DOMAIN d = DOMAIN cache \cup {e.ino}
    BY <2>5
  <2>. QED  BY <1>2, <2>1, <2>5, <2>6, <2>7, WithCell DEF d, cell
<1>. QED  BY <1>1, <1>2

LEMMA ReplacedIs ==
    ASSUME work \in Works, NEW f, Table(f), NEW e, IsOwn(e), e.link = NoLink, e.ino \in DOMAIN f, strategy = "new_cpio"
    PROVE  LET d == [f EXCEPT ![e.ino].entry = <<e>>]
           IN  /\ Table(d) /\ Without(d, e.ino) = Without(f, e.ino) /\ DOMAIN d = DOMAIN f
               /\ d[e.ino] = [f[e.ino] EXCEPT !.entry = <<e>>] /\ d[e.ino].entry = <<e>>
<1>. DEFINE cell == [f[e.ino] EXCEPT !.entry = <<e>>]
            d == [f EXCEPT ![e.ino].entry = <<e>>]
<1>1. e \in Entries /\ e.ino \in Inodes
  BY DEF IsOwn, Entries
<1>2. f[e.ino] \in CacheEntries /\ Cell(f, e.ino) /\ f \in [DOMAIN f -> CacheEntries]
  BY DEF Table
<1>3. <<e>> \in Seq(Entries)
  BY <1>1
<1>4. cell \in CacheEntries /\ cell.entry = <<e>> /\ cell.canonical = f[e.ino].canonical
  BY <1>2, <1>3 DEF CacheEntries
<1>5. d = [f EXCEPT ![e.ino] = cell]
  BY Zenon
<1>. HIDE DEF d, cell
<1>6. /\ DOMAIN d = DOMAIN f /\ d \in [DOMAIN d -> CacheEntries] /\ d[e.ino] = cell
      /\ \A j \in DOMAIN f \ {e.ino} : d[j] = f[j]
  BY <1>2, <1>4, <1>5
<1>7. Cell(d, e.ino)
  <2>1. d[e.ino].canonical = f[e.ino].canonical /\ d[e.ino].entry = <<e>>
    BY <1>4, <1>6
  <2>. QED  BY <1>2, <2>1, Zenon DEF Cell
<1>8. DOMAIN d = DOMAIN f \cup {e.ino}
  BY <1>6
<1>9. Table(d) /\ Without(d, e.ino) = Without(f, e.ino)
  BY <1>1, <1>6, <1>7, <1>8, WithCell
<1>. QED  BY <1>4, <1>6, <1>9, Zenon DEF d, cell

\* What an entry held back says, and what it becomes.
LEMMA HeldIs ==
    ASSUME work \in Works, Table(cache), strategy = "new_cpio", NEW i \in DOMAIN cache
    PROVE  \E h : /\ IsOwn(h) /\ h.ino = i /\ h.link = NoLink /\ cache[i].entry = <<h>> /\ Head(cache[i].entry) = h
                  /\ cache[i].entry # <<>>
<1>1. PICK h : IsOwn(h) /\ h.ino = i /\ h.link = NoLink /\ cache[i].entry = <<h>>
  BY Zenon DEF Table, Cell
<1>2. Head(<<h>>) = h /\ <<h>> # <<>>
  OBVIOUS
<1>. QED  BY <1>1, <1>2, Zenon

LEMMA LinkIs ==
    ASSUME work \in Works, NEW h, IsOwn(h), NEW q \in Paths, NEW s \in Nat,
           NEW l, l = [h EXCEPT !.link = q, !.size = s]
    PROVE  IsOwn(l) /\ l.path = h.path /\ l.ino = h.ino /\ l.size = s /\ l.link = q
BY DEF IsOwn, Entries

LEMMA BeforeIs ==
    ASSUME work \in Works, Table(cache), strategy = "new_cpio", NEW e, e.ino \in DOMAIN cache
    PROVE  /\ IsOwn(Before(e)) /\ Before(e).ino = e.ino /\ Before(e).size = 0
           /\ Before(e).path = Head(cache[e.ino].entry).path /\ Before(e).link = cache[e.ino].canonical
<1>1. PICK h : IsOwn(h) /\ h.ino = e.ino /\ Head(cache[e.ino].entry) = h
  BY HeldIs
<1>2. PICK q \in Paths : q = cache[e.ino].canonical
  BY DEF Table, CacheEntries
<1>3. PICK b : b = Before(e)
  OBVIOUS
<1>4. b = [h EXCEPT !.link = q, !.size = 0]
  BY <1>1, <1>2, <1>3, Zenon DEF Before
<1>5. IsOwn(b) /\ b.path = h.path /\ b.ino = h.ino /\ b.size = 0 /\ b.link = q
  BY <1>1, <1>2, <1>4 DEF IsOwn, Entries
<1>. QED  BY <1>1, <1>2, <1>3, <1>5, Zenon

LEMMA QueuedOne ==
    ASSUME NEW a, IsOwn(a)
    PROVE  Queued(<<a>>) /\ <<a>>[1] = a /\ Len(<<a>>) = 1 /\ DOMAIN <<a>> = {1}
BY DEF Queued, IsOwn

LEMMA QueuedTwo ==
    ASSUME NEW a, IsOwn(a), NEW b, IsOwn(b)
    PROVE  Queued(<<a, b>>) /\ <<a, b>>[1] = a /\ <<a, b>>[2] = b /\ Len(<<a, b>>) = 2 /\ DOMAIN <<a, b>> = {1, 2}
BY DEF Queued, IsOwn

LEMMA QueuedNone == Queued(<<>>) /\ Len(<<>>) = 0 /\ DOMAIN <<>> = {}
BY DEF Queued

\* What goes into the resolver comes out or is held, and is of the same file.
LEMMA LinkifyKeeps ==
    ASSUME work \in Works, Table(cache), NEW e, IsOwn(e), e.link = NoLink, NEW memory \in BOOLEAN,
           NEW r, r = Linkify(strategy, cache, e, work.nlink[e.ino], memory)
    PROVE  /\ Table(r.cache) /\ Queued(r.out)
           /\ \A k \in 1 .. Len(r.out) : r.out[k].ino = e.ino
           /\ \A p : Kept(r.cache, p) + Times(r.out, p) = Kept(cache, p) + One(e, p)
<1>. DEFINE i == e.ino
<1>1. i \in Inodes /\ e.size \in Nat /\ IsFiniteSet(DOMAIN cache)
  BY DEF IsOwn, Entries, Table
<1>2. \A p : Kept(cache, p) \in Nat /\ One(e, p) \in Nat
  <2>1. ASSUME NEW p PROVE Kept(cache, p) \in Nat
    BY <1>1, KeptIsNat, Zenon
  <2>2. ASSUME NEW p PROVE One(e, p) \in Nat
    BY OneIsNat
  <2>. QED  BY <2>1, <2>2
<1>3. ASSUME NEW d, Table(d), Without(d, i) = Without(cache, i), NEW p
      PROVE  Kept(d, p) + KeptAt(cache, i, p) = Kept(cache, p) + KeptAt(d, i, p) /\ Kept(d, p) \in Nat
             /\ KeptAt(cache, i, p) \in {0, 1} /\ KeptAt(d, i, p) \in {0, 1}
  <2>1. IsFiniteSet(DOMAIN d)
    BY <1>3 DEF Table
  <2>2. Kept(d, p) + KeptAt(cache, i, p) = Kept(cache, p) + KeptAt(d, i, p)
    <3>1. IsFiniteSet(DOMAIN cache) /\ Without(cache, i) = Without(d, i)
      BY <1>1, <1>3
    <3>. QED  BY <2>1, <3>1, KeptChanges
  <2>3. Kept(d, p) \in Nat
    BY <2>1, KeptIsNat, Zenon
  <2>4. KeptAt(cache, i, p) \in {0, 1} /\ KeptAt(d, i, p) \in {0, 1}
    BY DEF KeptAt
  <2>. QED  BY <2>2, <2>3, <2>4, Zenon
<1>4. ASSUME NEW a, IsOwn(a), a.ino = i, NEW c, Table(c), r.cache = c, r.out = <<a>>,
             \A p : Kept(c, p) + One(a, p) = Kept(cache, p) + One(e, p)
      PROVE  /\ Table(r.cache) /\ Queued(r.out)
             /\ \A k \in 1 .. Len(r.out) : r.out[k].ino = e.ino
             /\ \A p : Kept(r.cache, p) + Times(r.out, p) = Kept(cache, p) + One(e, p)
  <2>1. \A p : Times(<<a>>, p) = One(a, p)
    BY TimesShort
  <2>2. Queued(<<a>>) /\ <<a>>[1] = a /\ Len(<<a>>) = 1
    BY <1>4, QueuedOne
  <2>3. 1 .. 1 = {1}
    OBVIOUS
  <2>. QED  BY <1>4, <2>1, <2>2, <2>3, Zenon
<1>. DEFINE Goal == /\ Table(r.cache) /\ Queued(r.out)
                    /\ \A k \in 1 .. Len(r.out) : r.out[k].ino = e.ino
                    /\ \A p : Kept(r.cache, p) + Times(r.out, p) = Kept(cache, p) + One(e, p)
<1>5. CASE Passed(r, e)
  <2>1. r.cache = cache /\ r.out = <<e>>
    BY <1>5 DEF Passed
  <2>. QED  BY <1>4, <2>1
<1>6. CASE work.nlink[e.ino] # 1 /\ First(r, e)
  <2>. DEFINE d == Inserted(cache, e, work.nlink[e.ino], <<>>)
  <2>1. strategy # "new_cpio" /\ i \notin DOMAIN cache /\ r.cache = d /\ r.out = <<e>>
    BY <1>6 DEF First
  <2>2. Table(d) /\ Without(d, i) = Without(cache, i) /\ d[i].entry = <<>>
    <3>1. PICK held : held = <<>>
      OBVIOUS
    <3>2. held = IF strategy = "new_cpio" THEN <<e>> ELSE <<>>
      BY <2>1, <3>1, Zenon
    <3>3. /\ Table(Inserted(cache, e, work.nlink[i], held))
          /\ Without(Inserted(cache, e, work.nlink[i], held), i) = Without(cache, i)
          /\ Inserted(cache, e, work.nlink[i], held)[i] = [canonical |-> e.path, links |-> work.nlink[i] - 1, entry |-> held]
      BY <1>6, <2>1, <3>2, InsertedIs, Zenon
    <3>4. d = Inserted(cache, e, work.nlink[i], held)
      BY <3>1, Zenon
    <3>. HIDE DEF d
    <3>. QED  BY <3>1, <3>3, <3>4
  <2>. HIDE DEF d
  <2>3. \A p : KeptAt(cache, i, p) = 0 /\ KeptAt(d, i, p) = 0
    BY <2>1, <2>2 DEF KeptAt
  <2>4. \A p : Kept(d, p) = Kept(cache, p)
    BY <1>2, <1>3, <2>2, <2>3
  <2>. QED  BY <1>4, <2>1, <2>2, <2>4
<1>7. CASE work.nlink[e.ino] # 1 /\ Link(r, e)
  <2>. DEFINE d == Found(cache, e)
  <2>1. PICK s \in {0, e.size} : r.out = <<[e EXCEPT !.link = cache[e.ino].canonical, !.size = s]>>
    BY <1>7 DEF Link
  <2>2. PICK l : l = [e EXCEPT !.link = cache[e.ino].canonical, !.size = s]
    OBVIOUS
  <2>3. strategy # "new_cpio" /\ i \in DOMAIN cache /\ r.cache = d /\ cache[i].canonical \in Paths /\ s \in Nat
    BY <1>1, <1>7 DEF Link, Table, CacheEntries
  <2>4. IsOwn(l) /\ l.ino = i /\ l.path = e.path
    <3>1. PICK q \in Paths : q = cache[i].canonical
      BY <2>3
    <3>2. l = [e EXCEPT !.link = q, !.size = s]
      BY <2>2, <3>1, Zenon
    <3>. QED  BY <2>3, <3>2 DEF IsOwn, Entries
  <2>5. Table(d) /\ Without(d, i) = Without(cache, i)
    BY <2>3, FoundIs
  <2>. HIDE DEF d
  <2>6. \A p : KeptAt(cache, i, p) = 0 /\ KeptAt(d, i, p) = 0
    BY <2>3, <2>5 DEF KeptAt, Table, Cell
  <2>7. \A p : Kept(d, p) = Kept(cache, p)
    BY <1>2, <1>3, <2>5, <2>6
  <2>8. \A p : One(l, p) = One(e, p)
    BY <2>4 DEF One
  <2>9. r.out = <<l>>
    BY <2>1, <2>2, Zenon
  <2>. QED  BY <1>4, <2>3, <2>4, <2>5, <2>7, <2>8, <2>9
<1>8. CASE work.nlink[e.ino] # 1 /\ FirstHeld(r, e)
  <2>. DEFINE d == Inserted(cache, e, work.nlink[e.ino], <<e>>)
  <2>1. strategy = "new_cpio" /\ i \notin DOMAIN cache /\ r.cache = d /\ r.out = <<>>
    BY <1>8 DEF FirstHeld
  <2>2. Table(d) /\ Without(d, i) = Without(cache, i) /\ d[i].entry = <<e>> /\ i \in DOMAIN d
    <3>1. PICK held : held = <<e>>
      OBVIOUS
    <3>2. held = IF strategy = "new_cpio" THEN <<e>> ELSE <<>>
      BY <2>1, <3>1, Zenon
    <3>3. /\ Table(Inserted(cache, e, work.nlink[i], held))
          /\ Without(Inserted(cache, e, work.nlink[i], held), i) = Without(cache, i)
          /\ DOMAIN Inserted(cache, e, work.nlink[i], held) = DOMAIN cache \cup {i}
          /\ Inserted(cache, e, work.nlink[i], held)[i] = [canonical |-> e.path, links |-> work.nlink[i] - 1, entry |-> held]
      BY <1>8, <2>1, <3>2, InsertedIs, Zenon
    <3>4. d = Inserted(cache, e, work.nlink[i], held)
      BY <3>1, Zenon
    <3>. HIDE DEF d
    <3>. QED  BY <3>1, <3>3, <3>4
  <2>. HIDE DEF d
  <2>3. <<e>> # <<>> /\ Head(<<e>>) = e
    OBVIOUS
  <2>4. \A p : KeptAt(cache, i, p) = 0 /\ KeptAt(d, i, p) = One(e, p)
    BY <2>1, <2>2, <2>3, Zenon DEF KeptAt, One
  <2>5. \A p : Kept(d, p) = Kept(cache, p) + One(e, p)
    BY <1>2, <1>3, <2>2, <2>4
  <2>6. \A p : Times(<<>>, p) = 0
    BY TimesShort
  <2>7. \A p : Kept(d, p) + Times(<<>>, p) = Kept(cache, p) + One(e, p)
    BY <1>2, <2>5, <2>6
  <2>. QED  BY <2>1, <2>2, <2>7, QueuedNone
<1>9. CASE work.nlink[e.ino] # 1 /\ NextHeld(r, e)
  <2>. DEFINE f == Found(cache, e)
              d == [f EXCEPT ![i].entry = <<e>>]
              b == Before(e)
  <2>1. strategy = "new_cpio" /\ i \in DOMAIN cache /\ cache[i].links # 1 /\ r.cache = d /\ r.out = <<b>>
    BY <1>9 DEF NextHeld
  <2>2. IsOwn(b) /\ b.ino = i /\ b.path = Head(cache[i].entry).path
    BY <2>1, BeforeIs
  <2>3. /\ Table(f) /\ Without(f, i) = Without(cache, i) /\ i \in DOMAIN f
    BY <2>1, FoundIs
  <2>4. /\ Table(d) /\ Without(d, i) = Without(f, i) /\ i \in DOMAIN d /\ d[i].entry = <<e>>
    BY <2>1, <2>3, ReplacedIs
  <2>. HIDE DEF d, f, b
  <2>5. <<e>> # <<>> /\ Head(<<e>>) = e /\ cache[i].entry # <<>>
    BY <2>1, HeldIs
  <2>6. \A p : KeptAt(cache, i, p) = One(b, p) /\ KeptAt(d, i, p) = One(e, p)
    BY <2>1, <2>2, <2>4, <2>5, Zenon DEF KeptAt, One
  <2>7. \A p : Kept(d, p) + One(b, p) = Kept(cache, p) + One(e, p)
    BY <1>3, <2>3, <2>4, <2>6
  <2>. QED  BY <1>4, <2>1, <2>2, <2>4, <2>7
<1>10. CASE work.nlink[e.ino] # 1 /\ LastHeld(r, e)
  <2>. DEFINE d == Without(cache, i)
              b == Before(e)
  <2>1. strategy = "new_cpio" /\ i \in DOMAIN cache /\ r.cache = d /\ r.out = <<b, e>>
    BY <1>10 DEF LastHeld
  <2>2. IsOwn(b) /\ b.ino = i /\ b.path = Head(cache[i].entry).path
    BY <2>1, BeforeIs
  <2>3. Table(d) /\ \A p : Kept(cache, p) = Kept(d, p) + KeptAt(cache, i, p) /\ Kept(d, p) \in Nat
    BY <1>1, WithoutIs, KeptWithout
  <2>. HIDE DEF d, b
  <2>4. \A p : KeptAt(cache, i, p) = One(b, p)
    BY <2>1, <2>2, HeldIs DEF KeptAt, One
  <2>5. \A p : Times(<<b, e>>, p) = One(b, p) + One(e, p)
    BY TimesShort
  <2>6. \A p : One(b, p) \in Nat
    BY OneIsNat
  <2>7. \A p : Kept(d, p) + Times(<<b, e>>, p) = Kept(cache, p) + One(e, p)
    BY <1>2, <2>3, <2>4, <2>5, <2>6
  <2>8. Queued(<<b, e>>) /\ <<b, e>>[1] = b /\ <<b, e>>[2] = e /\ Len(<<b, e>>) = 2 /\ 1 .. 2 = {1, 2}
    BY <2>2, QueuedTwo
  <2>9. \A k \in 1 .. Len(<<b, e>>) : <<b, e>>[k].ino = i
    BY <2>2, <2>8
  <2>. QED  BY <2>1, <2>3, <2>7, <2>8, <2>9
<1>. QED  BY <1>5, <1>6, <1>7, <1>8, <1>9, <1>10, LinkifyCases
-----------------------------------------------------------------------------
(* The invariant: where it holds at first, and how it is put together after a step. *)

LEMMA JobStays ==
    ASSUME UNCHANGED job
    PROVE  /\ work' = work /\ format' = format /\ strategy' = strategy /\ Paths' = Paths /\ Inodes' = Inodes
           /\ Entries' = Entries /\ Archived' = Archived /\ CacheEntries' = CacheEntries
BY DEF job, strategy, Paths, Inodes, Entries, Archived, CacheEntries

LEMMA QueuedStays ==
    ASSUME UNCHANGED job, Queued(todo')
    PROVE  Queued(todo)'
BY JobStays DEF Queued, IsOwn

LEMMA TableStays ==
    ASSUME UNCHANGED job, Table(cache')
    PROVE  Table(cache)'
<1>1. ASSUME NEW i \in DOMAIN cache', Cell(cache', i) PROVE Cell(cache, i)'
  BY <1>1, JobStays DEF Cell, IsOwn
<1>. QED  BY <1>1, JobStays DEF Table

LEMMA TypedStep ==
    ASSUME Typed, UNCHANGED job, Small', Ways', Counts', Table(cache'), Queued(todo'), ArchiveIs'
    PROVE  Typed'
<1>1. work' \in Works /\ format' \in Formats
  BY JobStays DEF Typed
<1>2. Table(cache)' /\ Queued(todo)'
  BY TableStays, QueuedStays
<1>. QED  BY <1>1, <1>2, Zenon DEF Typed

LEMMA InitIs == Init => IInv
<1>. SUFFICES ASSUME Init PROVE IInv
  OBVIOUS
<1>1. /\ work \in Works /\ format \in Formats /\ argv = work.args /\ pc = "args" /\ walk = <<>> /\ disk = Closed
      /\ cache = [i \in {} |-> 0] /\ todo = <<>> /\ copying = FALSE /\ archive = <<>> /\ return_value = 0
      /\ status = -1 /\ size = work.size /\ faults = 0
      /\ seen = [p \in Paths |-> 0] /\ gone = [p \in Paths |-> 0] /\ spoiled = {}
  BY Zenon DEF Init
<1>2. Small
  <2>1. MaxFaults \in Nat
    BY WorksAssumption, Zenon DEF WorksAssumption
  <2>2. 0 \in 0 .. MaxFaults /\ -1 \in {-1, 0, 1}
    BY <2>1
  <2>. QED  BY <1>1, <2>2, Zenon DEF Small
<1>3. Ways
  BY <1>1, WorkIs DEF Ways, Closed
<1>4. Counts
  BY <1>1, WorkIs DEF Counts
<1>5. DOMAIN cache = {}
  BY <1>1
<1>6. Table(cache)
  <2>1. cache \in [DOMAIN cache -> CacheEntries]
    BY <1>1, <1>5
  <2>. QED  BY <1>5, <2>1, FS_EmptySet DEF Table
<1>7. Queued(todo) /\ ArchiveIs
  BY <1>1, QueuedNone DEF ArchiveIs
<1>8. Typed
  BY <1>1, <1>2, <1>3, <1>4, <1>6, <1>7, Zenon DEF Typed
<1>9. Waiting
  BY <1>1 DEF Waiting
<1>10. Balance
  <2>1. ASSUME NEW p \in Paths
        PROVE  seen[p] = 0 /\ Times(Pending, p) = 0 /\ Kept(cache, p) = 0 /\ Times(archive, p) = 0 /\ gone[p] = 0
    <3>1. Times(Pending, p) = 0 /\ Times(archive, p) = 0
      BY <1>1, TimesShort DEF Pending
    <3>2. {i \in Deferred(cache) : Head(cache[i].entry).path = p} = {}
      BY <1>5 DEF Deferred
    <3>. QED  BY <1>1, <3>1, <3>2, FS_EmptySet DEF Kept
  <2>2. 0 = 0 + 0 + 0 + 0
    OBVIOUS
  <2>. QED  BY <2>1, <2>2, Zenon DEF Balance
<1>11. DataIsItsOwn
  BY <1>1 DEF DataIsItsOwn
<1>. QED  BY <1>8, <1>9, <1>10, <1>11 DEF IInv

-----------------------------------------------------------------------------
(* The steps that move only wintar itself: there is nothing to be written, or wintar dies. *)

Moves ==
    \/ OpenPath \/ OpenPathFails \/ OpenArchive \/ OpenArchiveFails
    \/ ChangeDir \/ ChdirFails \/ MissingDir \/ EndOfArguments
    \/ NextFileFails \/ EndOfWalk \/ AppendFails \/ EndOfAppend
    \/ HeaderFatal \/ CopyFails \/ EndOfFlush \/ Close

LEMMA FaultIs ==
    ASSUME Small, Fault \/ NoFault
    PROVE  faults' \in 0 .. MaxFaults
<1>1. MaxFaults \in Nat
  BY WorksAssumption, Zenon DEF WorksAssumption
<1>. QED  BY <1>1 DEF Small, Fault, NoFault

\* The argument that is next.
LEMMA ArgIs ==
    ASSUME Ways, argv # <<>>
    PROVE  Arg.paths \in Seq(Paths) /\ Tail(argv) \in Seq([kind : Kinds, paths : Seq(Paths)])
<1>1. PICK S : S = [kind : Kinds, paths : Seq(Paths)]
  OBVIOUS
<1>2. argv \in Seq(S)
  BY <1>1 DEF Ways
<1>3. Head(argv) \in S /\ Tail(argv) \in Seq(S)
  BY <1>2, HeadTailProperties
<1>. QED  BY <1>1, <1>3 DEF Arg

LEMMA WalkIs ==
    ASSUME Ways, walk # <<>>
    PROVE  Head(walk) \in Paths /\ Tail(walk) \in Seq(Paths)
<1>1. walk \in Seq(Paths)
  BY DEF Ways
<1>. QED  BY <1>1, HeadTailProperties

\* What such a step leaves as it is, and what it may do.
Leaves ==
    /\ UNCHANGED <<job, cache, todo, copying, archive, size, seen, gone, spoiled>>
    /\ todo = <<>> \/ pc' = "done"
DiskMoves ==
    \/ disk' = disk
    \/ \E state \in {"closed", "open", "fatal"}, d \in {disk, Closed} : disk' = [d EXCEPT !.state = state]
ArgsMove ==
    /\ argv' = argv \/ (argv' = Tail(argv) /\ argv # <<>>)
    /\ walk' = walk \/ walk' = <<>> \/ (walk' = Arg.paths /\ argv # <<>>)
SmallMoves ==
    /\ pc' \in {"args", "walk", "append", "flush", "close", "done"} /\ (Fault \/ NoFault)
    /\ return_value' \in {0, 1} /\ status' \in {-1, 0, 1}

LEMMA MovesLeave ==
    ASSUME Typed, Waiting, Moves
    PROVE  Leaves /\ DiskMoves /\ ArgsMove /\ SmallMoves
<1>1. /\ pc \in {"args", "walk", "append", "flush", "close", "done"} /\ return_value \in {0, 1} /\ status \in {-1, 0, 1}
      /\ (pc \in {"args", "close"} => todo = <<>>)
  BY DEF Typed, Small, Waiting
<1>. DEFINE Goal == Leaves /\ DiskMoves /\ ArgsMove /\ SmallMoves
<1>2. CASE OpenPath
  BY <1>1, <1>2 DEF OpenPath, AtArgument, NextArg, KeepFiles, history, Leaves, DiskMoves, ArgsMove, SmallMoves
<1>3. CASE OpenPathFails
  BY <1>1, <1>3 DEF OpenPathFails, DiskOpenFails, AtArgument, NextArg, KeepFiles, history, Leaves, DiskMoves, ArgsMove, SmallMoves
<1>4. CASE OpenArchive
  BY <1>1, <1>4 DEF OpenArchive, AtArgument, NextArg, KeepFiles, history, Leaves, DiskMoves, ArgsMove, SmallMoves
<1>5. CASE OpenArchiveFails
  BY <1>1, <1>5 DEF OpenArchiveFails, AtArgument, NextArg, KeepFiles, history, Leaves, DiskMoves, ArgsMove, SmallMoves
<1>6. CASE ChangeDir
  BY <1>1, <1>6 DEF ChangeDir, AtArgument, NextArg, KeepFiles, history, Leaves, DiskMoves, ArgsMove, SmallMoves
<1>7. CASE ChdirFails
  BY <1>1, <1>7 DEF ChdirFails, Dies, history, Leaves, DiskMoves, ArgsMove, SmallMoves
<1>8. CASE MissingDir
  BY <1>1, <1>8 DEF MissingDir, Dies, history, Leaves, DiskMoves, ArgsMove, SmallMoves
<1>9. CASE EndOfArguments
  BY <1>1, <1>9 DEF EndOfArguments, KeepFiles, history, Leaves, DiskMoves, ArgsMove, SmallMoves
<1>10. CASE NextFileFails
  BY <1>1, <1>10 DEF NextFileFails, KeepFiles, history, Leaves, DiskMoves, ArgsMove, SmallMoves
<1>11. CASE EndOfWalk
  BY <1>1, <1>11 DEF EndOfWalk, CloseDisk, KeepFiles, history, Leaves, DiskMoves, ArgsMove, SmallMoves
<1>12. CASE AppendFails
  BY <1>1, <1>12 DEF AppendFails, KeepFiles, history, Leaves, DiskMoves, ArgsMove, SmallMoves
<1>13. CASE EndOfAppend
  BY <1>1, <1>13 DEF EndOfAppend, KeepFiles, history, Leaves, DiskMoves, ArgsMove, SmallMoves
<1>14. CASE HeaderFatal
  BY <1>1, <1>14 DEF HeaderFatal, Dies, history, Leaves, DiskMoves, ArgsMove, SmallMoves
<1>15. CASE CopyFails
  BY <1>1, <1>15 DEF CopyFails, Dies, history, Leaves, DiskMoves, ArgsMove, SmallMoves
<1>16. CASE EndOfFlush
  BY <1>1, <1>16 DEF EndOfFlush, KeepFiles, history, Leaves, DiskMoves, ArgsMove, SmallMoves
<1>17. CASE Close
  BY <1>1, <1>17 DEF Close, KeepFiles, history, Leaves, DiskMoves, ArgsMove, SmallMoves
<1>. QED
  BY <1>2, <1>3, <1>4, <1>5, <1>6, <1>7, <1>8, <1>9, <1>10, <1>11, <1>12, <1>13, <1>14, <1>15, <1>16, <1>17 DEF Moves

\* A step that leaves all this alone keeps the invariant.
LEMMA LeavesKeeps ==
    ASSUME IInv, Leaves, Small', Ways'
    PROVE  IInv'
<1>1. UNCHANGED <<job, cache, todo, copying, archive, size, seen, gone, spoiled>>
  BY DEF Leaves
<1>2. /\ UNCHANGED job /\ cache' = cache /\ todo' = todo /\ copying' = copying /\ archive' = archive /\ size' = size
      /\ seen' = seen /\ gone' = gone /\ spoiled' = spoiled
  BY <1>1
<1>3. work' = work /\ Paths' = Paths /\ Inodes' = Inodes /\ Archived' = Archived
  BY <1>2, JobStays
<1>4. Typed'
  <2>1. Typed
    BY DEF IInv
  <2>2. Counts' /\ ArchiveIs'
    BY <1>2, <1>3, <2>1, Zenon DEF Typed, Counts, ArchiveIs
  <2>3. Table(cache') /\ Queued(todo')
    BY <1>2, <2>1, Zenon DEF Typed
  <2>. QED  BY <1>2, <2>1, <2>2, <2>3, TypedStep
<1>5. Waiting'
  <2>1. Waiting /\ (todo = <<>> \/ pc' = "done")
    BY DEF IInv, Leaves
  <2>2. CASE todo = <<>>
    <3>1. todo' = <<>> /\ ~copying' /\ Len(<<>>) <= 1
      BY <1>2, <2>1, <2>2 DEF Waiting
    <3>. QED  BY <3>1, Zenon DEF Waiting
  <2>3. CASE pc' = "done"
    <3>1. copying' => /\ todo' # <<>> /\ archive' # <<>>
                      /\ archive[Last].path = Entry.path /\ archive[Last].ino = Entry.ino
                      /\ archive[Last].size = Entry.size /\ archive[Last].link = Entry.link
      BY <1>2, <2>1, Zenon DEF Waiting
    <3>2. Last' = Last /\ Entry' = Entry
      BY <1>2 DEF Last, Entry
    <3>. QED  BY <1>2, <2>3, <3>1, <3>2 DEF Waiting
  <2>. QED  BY <2>1, <2>2, <2>3
<1>6. Balance'
  <2>1. Pending' = Pending
    BY <1>2 DEF Pending
  <2>2. Balance
    BY DEF IInv
  <2>. QED  BY <1>2, <1>3, <2>1, <2>2, Zenon DEF Balance
<1>7. DataIsItsOwn'
  <2>1. DataIsItsOwn
    BY DEF IInv
  <2>. QED  BY <1>2, <2>1, Zenon DEF DataIsItsOwn
<1>. QED  BY <1>4, <1>5, <1>6, <1>7, Zenon DEF IInv

LEMMA MovesKeep ==
    ASSUME IInv, Moves
    PROVE  IInv'
<1>1. Typed /\ Waiting
  BY DEF IInv
<1>2. Leaves /\ DiskMoves /\ ArgsMove /\ SmallMoves
  BY <1>1, MovesLeave
<1>3. Small /\ Ways
  BY <1>1, Zenon DEF Typed
<1>4. Small'
  <2>1. copying' \in BOOLEAN
    BY <1>2, <1>3 DEF Leaves, Small
  <2>2. faults' \in 0 .. MaxFaults
    BY <1>2, <1>3, FaultIs DEF SmallMoves
  <2>. QED  BY <1>2, <2>1, <2>2, Zenon DEF Small, SmallMoves
<1>5. Ways'
  <2>1. Paths' = Paths
    BY <1>2, JobStays DEF Leaves
  <2>2. argv' \in Seq([kind : Kinds, paths : Seq(Paths)])
    BY <1>2, <1>3, ArgIs DEF ArgsMove, Ways
  <2>3. walk' \in Seq(Paths)
    <3>1. walk \in Seq(Paths) /\ <<>> \in Seq(Paths) /\ (argv # <<>> => Arg.paths \in Seq(Paths))
      BY <1>3, ArgIs DEF Ways
    <3>. QED  BY <1>2, <3>1, Zenon DEF ArgsMove
  <2>4. disk' \in [state : {"closed", "open", "data", "fatal"}, path : Paths \cup {NoLink}, left : Nat]
    <3>1. disk \in [state : {"closed", "open", "data", "fatal"}, path : Paths \cup {NoLink}, left : Nat]
      BY <1>3 DEF Ways
    <3>. QED  BY <1>2, <3>1 DEF DiskMoves, Closed
  <2>. QED  BY <2>1, <2>2, <2>3, <2>4, Zenon DEF Ways
<1>. QED  BY <1>2, <1>4, <1>5, LeavesKeeps

-----------------------------------------------------------------------------
(* The steps that read a file. *)

LEMMA NothingWaits ==
    ASSUME IInv, todo = <<>>
    PROVE  copying = FALSE /\ \A p \in Paths : seen[p] = Kept(cache, p) + Times(archive, p) + gone[p]
<1>1. copying = FALSE
  BY DEF IInv, Waiting, Typed, Small
<1>2. Pending = <<>>
  BY <1>1 DEF Pending
<1>3. ASSUME NEW p \in Paths PROVE seen[p] = Kept(cache, p) + Times(archive, p) + gone[p]
  <2>1. seen[p] = Times(Pending, p) + Kept(cache, p) + Times(archive, p) + gone[p]
    BY Zenon DEF IInv, Balance
  <2>2. Times(Pending, p) = 0
    BY <1>2, TimesShort
  <2>3. Kept(cache, p) \in Nat
    BY KeptIsNat, Zenon DEF IInv, Typed, Table
  <2>. QED  BY <2>1, <2>2, <2>3
<1>. QED  BY <1>1, <1>3

\* A file is read that linkify, or the other archive, makes these entries of.
LEMMA ReadKeeps ==
    ASSUME IInv, todo = <<>>, UNCHANGED <<job, copying, archive, size, gone>>, spoiled' \subseteq Inodes, Small', Ways',
           NEW q \in Paths, seen' = [seen EXCEPT ![q] = @ + 1],
           Table(cache'), Queued(todo'),
           \A p \in Paths : Kept(cache', p) + Times(todo', p) = Kept(cache, p) + (IF p = q THEN 1 ELSE 0),
           pc' = "walk" \/ (pc' = "append" /\ Len(todo') <= 1),
           pc' = "walk" => disk'.path = q /\ \A k \in 1 .. Len(todo') : todo'[k].ino = work.ino[q]
    PROVE  IInv'
<1>1. /\ UNCHANGED job /\ copying' = FALSE /\ archive' = archive /\ size' = size /\ gone' = gone
      /\ spoiled' \subseteq Inodes /\ copying = FALSE
  BY NothingWaits
<1>2. work' = work /\ Paths' = Paths /\ Inodes' = Inodes /\ Archived' = Archived
  BY <1>1, JobStays
<1>3. Typed
  BY DEF IInv
<1>4. Typed'
  <2>1. seen \in [Paths -> Nat]
    BY <1>3 DEF Typed, Counts
  <2>2. seen' \in [Paths -> Nat]
    BY <2>1
  <2>3. Counts'
    BY <1>1, <1>2, <1>3, <2>2, Zenon DEF Typed, Counts
  <2>4. ArchiveIs'
    BY <1>1, <1>2, <1>3, Zenon DEF Typed, ArchiveIs
  <2>. QED  BY <1>1, <1>3, <2>3, <2>4, TypedStep
<1>5. Waiting'
  BY <1>1, <1>2 DEF Waiting
<1>6. Balance'
  <2>1. ASSUME NEW p \in Paths
        PROVE  seen'[p] = Times(Pending', p) + Kept(cache', p) + Times(archive', p) + gone'[p]
    <3>1. seen[p] = Kept(cache, p) + Times(archive, p) + gone[p]
      BY NothingWaits
    <3>2. Kept(cache', p) + Times(todo', p) = Kept(cache, p) + (IF p = q THEN 1 ELSE 0)
      OBVIOUS
    <3>3. seen'[p] = seen[p] + (IF p = q THEN 1 ELSE 0) /\ seen[p] \in Nat /\ gone[p] \in Nat
      BY <1>3 DEF Typed, Counts
    <3>4. Kept(cache, p) \in Nat /\ Kept(cache', p) \in Nat
      BY <1>3, KeptIsNat, Zenon DEF Typed, Table
    <3>5. Times(todo', p) \in Nat
      BY TimesIsNat DEF Queued
    <3>6. Times(archive, p) \in Nat
      BY <1>3, TimesIsNat DEF Typed, ArchiveIs
    <3>7. Pending' = todo' /\ archive' = archive /\ gone' = gone
      BY <1>1 DEF Pending
    <3>8. seen'[p] = Times(todo', p) + Kept(cache', p) + Times(archive, p) + gone[p]
      BY <3>1, <3>2, <3>3, <3>4, <3>5, <3>6
    <3>. QED  BY <3>7, <3>8, Zenon
  <2>. QED  BY <1>2, <2>1, Zenon DEF Balance
<1>7. DataIsItsOwn'
  <2>1. DataIsItsOwn
    BY DEF IInv
  <2>. QED  BY <1>1, <2>1, Zenon DEF DataIsItsOwn
<1>. QED  BY <1>4, <1>5, <1>6, <1>7, Zenon DEF IInv

LEMMA NextFileKeeps ==
    ASSUME IInv, NextFile
    PROVE  IInv'
<1>1. Typed /\ Small /\ Ways /\ Counts /\ Table(cache) /\ work \in Works
  BY Zenon DEF IInv, Typed
<1>2. PICK q : q = Head(walk)
  OBVIOUS
<1>3. PICK e : e = EntryOf(q)
  OBVIOUS
<1>4. pc = "walk" /\ todo = <<>> /\ walk # <<>> /\ walk' = Tail(walk)
      /\ UNCHANGED <<job, argv, pc, copying, archive, return_value, status, size, gone, spoiled>>
  BY Zenon DEF NextFile
<1>5. q \in Paths /\ walk' \in Seq(Paths)
  BY <1>1, <1>2, <1>4, WalkIs
<1>6. IsOwn(e) /\ e.link = NoLink /\ e.path = q /\ e.ino = work.ino[q] /\ e.size \in Nat
  <2>1. size \in [Inodes -> Nat] /\ work.ino[q] \in Inodes
    BY <1>1, <1>5, WorkIs DEF Counts
  <2>2. size[work.ino[q]] \in Nat
    BY <2>1
  <2>. QED  BY <1>1, <1>3, <1>5, <2>1, <2>2, EntryIs, Zenon
<1>7. PICK memory \in BOOLEAN : /\ IF memory THEN NoFault ELSE Fault
                                /\ cache' = Linkify(strategy, cache, e, work.nlink[e.ino], memory).cache
                                /\ todo' = Linkify(strategy, cache, e, work.nlink[e.ino], memory).out
                                /\ disk' = [state |-> "data", path |-> e.path, left |-> e.size]
                                /\ seen' = [seen EXCEPT ![e.path] = @ + 1]
  BY <1>2, <1>3, Zenon DEF NextFile
<1>8. PICK r : r = Linkify(strategy, cache, e, work.nlink[e.ino], memory)
  OBVIOUS
<1>9. /\ Table(r.cache) /\ Queued(r.out) /\ \A k \in 1 .. Len(r.out) : r.out[k].ino = e.ino
      /\ \A p : Kept(r.cache, p) + Times(r.out, p) = Kept(cache, p) + One(e, p)
  <2>1. Table(cache) /\ work \in Works /\ IsOwn(e) /\ e.link = NoLink /\ memory \in BOOLEAN
    BY <1>1, <1>6
  <2>. QED  BY <2>1, <1>8, LinkifyKeeps
<1>10. cache' = r.cache /\ todo' = r.out
  BY <1>7, <1>8, Zenon
<1>11. Small'
  <2>1. faults' \in 0 .. MaxFaults
    BY <1>1, <1>7, FaultIs, Zenon
  <2>2. pc' = pc /\ copying' = copying /\ return_value' = return_value /\ status' = status
    BY <1>4
  <2>. QED  BY <1>1, <2>1, <2>2, Zenon DEF Small
<1>12. Ways'
  <2>1. disk' \in [state : {"closed", "open", "data", "fatal"}, path : Paths \cup {NoLink}, left : Nat]
    BY <1>5, <1>6, <1>7
  <2>2. argv' = argv /\ Paths' = Paths
    BY <1>4, JobStays
  <2>. QED  BY <1>1, <1>5, <2>1, <2>2, Zenon DEF Ways
<1>13. seen' = [seen EXCEPT ![q] = @ + 1] /\ disk'.path = q /\ pc' = "walk"
       /\ UNCHANGED <<job, copying, archive, size, gone, spoiled>>
  BY <1>4, <1>6, <1>7
<1>14. \A p \in Paths : Kept(cache', p) + Times(todo', p) = Kept(cache, p) + (IF p = q THEN 1 ELSE 0)
  <2>1. \A p : One(e, p) = IF p = q THEN 1 ELSE 0
    BY <1>6 DEF One
  <2>. QED  BY <1>9, <1>10, <2>1, Zenon
<1>15. Table(cache') /\ Queued(todo') /\ \A k \in 1 .. Len(todo') : todo'[k].ino = work.ino[q]
  BY <1>6, <1>9, <1>10, Zenon
<1>16. spoiled' \subseteq Inodes /\ UNCHANGED <<job, copying, archive, size, gone>>
  BY <1>1, <1>13 DEF Counts
<1>. QED  BY <1>4, <1>5, <1>11, <1>12, <1>13, <1>14, <1>15, <1>16, ReadKeeps, Zenon

\* What append_archive makes of an entry: its data is there, or it is skipped.
Appends(e) ==
    /\ pc = "append" /\ todo = <<>> /\ walk # <<>> /\ walk' = Tail(walk) /\ todo' = <<e>>
    /\ seen' = [seen EXCEPT ![Head(walk)] = @ + 1]
    /\ UNCHANGED <<job, argv, pc, disk, cache, copying, archive, return_value, status, size, gone>>
    /\ \/ e = EntryOf(Head(walk)) /\ NoFault /\ spoiled' = spoiled
       \/ e = WithoutData(EntryOf(Head(walk))) /\ Fault /\ spoiled' = spoiled \cup {e.ino}

LEMMA AppendedIs ==
    ASSUME AppendEntry \/ AppendUnsized
    PROVE  \E e : Appends(e)
<1>1. CASE AppendEntry
  BY <1>1, Zenon DEF AppendEntry, Appends
<1>2. CASE AppendUnsized
  <2>1. PICK e : e = WithoutData(EntryOf(Head(walk)))
    OBVIOUS
  <2>2. e.ino = EntryOf(Head(walk)).ino
    BY <2>1 DEF WithoutData, EntryOf
  <2>3. spoiled' = spoiled \cup {e.ino}
    BY <1>2, <2>2, Zenon DEF AppendUnsized, Spoil
  <2>4. /\ pc = "append" /\ todo = <<>> /\ walk # <<>> /\ walk' = Tail(walk) /\ todo' = <<e>> /\ Fault
        /\ seen' = [seen EXCEPT ![Head(walk)] = @ + 1]
        /\ UNCHANGED <<job, argv, pc, disk, cache, copying, archive, return_value, status, size, gone>>
    BY <1>2, <2>1, Zenon DEF AppendUnsized
  <2>. QED  BY <2>1, <2>3, <2>4, Zenon DEF Appends
<1>. QED  BY <1>1, <1>2

LEMMA AppendedEntryIs ==
    ASSUME IInv, NEW e, Appends(e)
    PROVE  /\ Head(walk) \in Paths /\ walk' \in Seq(Paths)
           /\ IsOwn(e) /\ e.path = Head(walk) /\ e.ino = work.ino[Head(walk)] /\ e.link = NoLink
           /\ spoiled' \subseteq Inodes
<1>1. Typed /\ Ways /\ Counts /\ work \in Works
  BY Zenon DEF IInv, Typed
<1>2. PICK q : q = Head(walk)
  OBVIOUS
<1>3. q \in Paths /\ walk' \in Seq(Paths)
  <2>1. walk # <<>> /\ walk' = Tail(walk)
    BY DEF Appends
  <2>. QED  BY <1>1, <1>2, <2>1, WalkIs
<1>4. PICK o : o = EntryOf(q)
  OBVIOUS
<1>5. IsOwn(o) /\ o.path = q /\ o.ino = work.ino[q] /\ o.link = NoLink
  <2>1. size \in [Inodes -> Nat]
    BY <1>1 DEF Counts
  <2>. QED  BY <1>1, <1>3, <1>4, <2>1, EntryIs, Zenon
<1>6. \/ e = o /\ spoiled' = spoiled
      \/ e = WithoutData(o) /\ spoiled' = spoiled \cup {e.ino}
  BY <1>2, <1>4, Zenon DEF Appends
<1>7. IsOwn(WithoutData(o)) /\ WithoutData(o).path = q /\ WithoutData(o).ino = o.ino /\ WithoutData(o).link = NoLink
  BY <1>5 DEF WithoutData, IsOwn, Entries
<1>8. e.ino \in Inodes
  <2>1. work.ino[q] \in Inodes
    BY <1>1, <1>3, WorkIs
  <2>. QED  BY <1>5, <1>6, <1>7, <2>1, Zenon
<1>9. spoiled' \subseteq Inodes
  <2>1. spoiled \subseteq Inodes
    BY <1>1 DEF Counts
  <2>. QED  BY <1>6, <1>8, <2>1
<1>. QED  BY <1>2, <1>3, <1>5, <1>6, <1>7, <1>9, Zenon

LEMMA AppendKeeps ==
    ASSUME IInv, NEW e, Appends(e)
    PROVE  IInv'
<1>1. Typed /\ Small /\ Ways /\ Counts /\ Table(cache) /\ work \in Works
  BY Zenon DEF IInv, Typed
<1>2. PICK q : q = Head(walk)
  OBVIOUS
<1>4. pc = "append" /\ todo = <<>> /\ walk' = Tail(walk) /\ todo' = <<e>> /\ seen' = [seen EXCEPT ![q] = @ + 1]
      /\ (NoFault \/ Fault) /\ UNCHANGED <<job, argv, pc, disk, cache, copying, archive, return_value, status, size, gone>>
  BY <1>2, Zenon DEF Appends
<1>5. q \in Paths /\ walk' \in Seq(Paths) /\ IsOwn(e) /\ e.path = q /\ spoiled' \subseteq Inodes
  BY <1>2, AppendedEntryIs, Zenon
<1>7. cache' = cache /\ pc' = "append" /\ argv' = argv /\ disk' = disk /\ Paths' = Paths
      /\ UNCHANGED <<job, copying, archive, size, gone>>
  BY <1>4, JobStays
<1>8. Small'
  <2>1. faults' \in 0 .. MaxFaults
    BY <1>1, <1>4, FaultIs, Zenon
  <2>2. pc' = pc /\ copying' = copying /\ return_value' = return_value /\ status' = status
    BY <1>4
  <2>. QED  BY <1>1, <2>1, <2>2, Zenon DEF Small
<1>9. Ways'
  BY <1>1, <1>5, <1>7, Zenon DEF Ways
<1>10. Queued(todo') /\ Len(todo') <= 1
  BY <1>4, <1>5, QueuedOne
<1>11. \A p \in Paths : Kept(cache', p) + Times(todo', p) = Kept(cache, p) + (IF p = q THEN 1 ELSE 0)
  <2>1. \A p : Times(<<e>>, p) = IF p = q THEN 1 ELSE 0
    BY <1>5, TimesShort DEF One
  <2>. QED  BY <1>4, <1>7, <2>1, Zenon
<1>12. Table(cache')
  BY <1>1, <1>7, Zenon
<1>13. "append" # "walk"
  OBVIOUS
<1>. QED  BY <1>4, <1>5, <1>7, <1>8, <1>9, <1>10, <1>11, <1>12, <1>13, ReadKeeps, Zenon

-----------------------------------------------------------------------------
(* The steps that write an entry. *)

LEMMA EntryToWrite ==
    ASSUME IInv, todo # <<>>, pc # "done"
    PROVE  /\ pc \in {"walk", "append", "flush"} /\ Entry = todo[1] /\ IsOwn(Entry)
           /\ (pc # "append" => disk.path \in Paths /\ work.ino[disk.path] = Entry.ino)
           /\ Queued(Tail(todo)) /\ \A p : Times(todo, p) = Times(Tail(todo), p) + One(Entry, p) /\ Times(Tail(todo), p) \in Nat
<1>1. Queued(todo) /\ Waiting
  BY Zenon DEF IInv, Typed
<1>2. pc \in {"walk", "append", "flush"}
  BY <1>1 DEF Waiting
<1>3. PICK a : IsOwn(a) /\ Head(todo) = a /\ todo[1] = a /\ Len(todo) \in {1, 2}
  BY <1>1, QueueIs
<1>4. 1 \in 1 .. Len(todo)
  BY <1>3
<1>5. pc # "append" => disk.path \in Paths /\ work.ino[disk.path] = todo[1].ino
  <2>1. pc # "append" => disk.path \in Paths /\ \A k \in 1 .. Len(todo) : todo[k].ino = work.ino[disk.path]
    BY <1>1, <1>2 DEF Waiting
  <2>. QED  BY <1>4, <2>1, Zenon
<1>6. Queued(Tail(todo))
  BY <1>1, TailIs
<1>7. ASSUME NEW p PROVE Times(todo, p) = Times(Tail(todo), p) + One(Entry, p) /\ Times(Tail(todo), p) \in Nat
  <2>1. Times(todo, p) = Times(Tail(todo), p) + One(Head(todo), p)
    BY <1>1, TimesTail
  <2>2. Times(Tail(todo), p) \in Nat
    BY <1>6, TimesIsNat DEF Queued
  <2>. QED  BY <2>1, <2>2 DEF Entry
<1>. QED  BY <1>2, <1>3, <1>5, <1>6, <1>7, Zenon DEF Entry

\* The numbers that Balance is about.
LEMMA BalanceIs ==
    ASSUME IInv, NEW p \in Paths
    PROVE  /\ seen[p] = Times(Pending, p) + Kept(cache, p) + Times(archive, p) + gone[p]
           /\ seen[p] \in Nat /\ Kept(cache, p) \in Nat /\ Times(archive, p) \in Nat /\ gone[p] \in Nat
<1>1. Typed
  BY DEF IInv
<1>2. seen[p] = Times(Pending, p) + Kept(cache, p) + Times(archive, p) + gone[p]
  BY Zenon DEF IInv, Balance
<1>3. seen[p] \in Nat /\ gone[p] \in Nat
  BY <1>1 DEF Typed, Counts
<1>4. Kept(cache, p) \in Nat
  BY <1>1, KeptIsNat, Zenon DEF Typed, Table
<1>5. Times(archive, p) \in Nat
  BY <1>1, TimesIsNat DEF Typed, ArchiveIs
<1>. QED  BY <1>2, <1>3, <1>4, <1>5

LEMMA WrittenWaits ==
    ASSUME IInv, todo # <<>>, pc # "done", Written, ~copying', UNCHANGED <<job, pc, argv, walk>>
    PROVE  Waiting' /\ Queued(todo') /\ Ways'
<1>1. Queued(todo) /\ Waiting /\ Ways /\ todo' = Tail(todo) /\ disk' = IF pc = "flush" THEN CloseDisk ELSE disk
  BY Zenon DEF IInv, Typed, Written
<1>2. work' = work /\ Paths' = Paths /\ pc' = pc /\ argv' = argv /\ walk' = walk
  BY JobStays
<1>3. /\ Queued(todo') /\ Len(todo') <= 1 /\ (Len(todo) <= 1 => todo' = <<>>)
      /\ (todo' # <<>> => todo'[1] = todo[2] /\ Len(todo) = 2)
  BY <1>1, TailIs
<1>4. pc \in {"walk", "append", "flush"}
  BY EntryToWrite
<1>5. ASSUME todo' # <<>> PROVE pc = "walk" /\ disk' = disk
  <2>1. ~(Len(todo) <= 1)
    BY <1>3, <1>5
  <2>2. pc \notin {"append", "flush"}
    BY <1>1, <2>1 DEF Waiting
  <2>. QED  BY <1>1, <1>4, <2>2
<1>6. ASSUME todo' # <<>> PROVE disk'.path \in Paths /\ \A k \in 1 .. Len(todo') : todo'[k].ino = work.ino[disk'.path]
  <2>1. pc = "walk" /\ disk' = disk /\ todo'[1] = todo[2] /\ Len(todo) = 2
    BY <1>3, <1>5, <1>6
  <2>2. disk.path \in Paths /\ \A k \in 1 .. Len(todo) : todo[k].ino = work.ino[disk.path]
    BY <1>1, <2>1 DEF Waiting
  <2>3. todo'[1].ino = work.ino[disk.path]
    <3>1. 2 \in 1 .. 2
      OBVIOUS
    <3>. QED  BY <2>1, <2>2, <3>1, Zenon
  <2>4. \A k \in 1 .. Len(todo') : k = 1
    <3>1. Len(todo') \in Nat
      BY <1>3 DEF Queued
    <3>. QED  BY <1>3, <3>1
  <2>. QED  BY <2>1, <2>2, <2>3, <2>4, Zenon
<1>7. Waiting'
  BY <1>2, <1>3, <1>4, <1>6, Zenon DEF Waiting
<1>8. Ways'
  <2>1. disk' \in [state : {"closed", "open", "data", "fatal"}, path : Paths \cup {NoLink}, left : Nat]
    BY <1>1 DEF Ways, CloseDisk, Closed
  <2>. QED  BY <1>1, <1>2, <2>1, Zenon DEF Ways
<1>. QED  BY <1>3, <1>7, <1>8

\* What is left to show of a step that changes neither the resolver nor the counts.
LEMMA WriteKeeps ==
    ASSUME IInv, todo # <<>>, pc # "done", UNCHANGED <<job, cache, return_value, status, size, seen, pc>>,
           Fault \/ NoFault, copying' \in BOOLEAN,
           gone' \in [Paths -> Nat], spoiled' \subseteq Inodes,
           Waiting', Queued(todo'), Ways', ArchiveIs',
           \A p \in Paths : Times(Pending, p) + Times(archive, p) + gone[p]
                            = Times(Pending', p) + Times(archive', p) + gone'[p],
           \A p \in Paths : Times(Pending, p) \in Nat /\ Times(Pending', p) \in Nat,
           DataIsItsOwn'
    PROVE  IInv'
<1>1. work' = work /\ Paths' = Paths /\ Inodes' = Inodes /\ cache' = cache /\ UNCHANGED job
      /\ return_value' = return_value /\ status' = status /\ size' = size /\ seen' = seen /\ pc' = pc
  BY JobStays
<1>2. Typed
  BY DEF IInv
<1>3. Small'
  <2>1. Small
    BY <1>2 DEF Typed
  <2>2. faults' \in 0 .. MaxFaults
    BY <2>1, FaultIs
  <2>. QED  BY <1>1, <2>1, <2>2, Zenon DEF Small
<1>4. Counts'
  BY <1>1, <1>2, Zenon DEF Typed, Counts
<1>5. Typed'
  <2>1. Table(cache')
    BY <1>1, <1>2, Zenon DEF Typed
  <2>. QED  BY <1>1, <1>2, <1>3, <1>4, <2>1, TypedStep, Zenon
<1>6. Balance'
  <2>1. ASSUME NEW p \in Paths
        PROVE  seen'[p] = Times(Pending', p) + Kept(cache', p) + Times(archive', p) + gone'[p]
    <3>1. /\ seen[p] = Times(Pending, p) + Kept(cache, p) + Times(archive, p) + gone[p]
          /\ Kept(cache, p) \in Nat /\ Times(archive, p) \in Nat /\ gone[p] \in Nat
      BY BalanceIs
    <3>2. Times(archive', p) \in Nat /\ gone'[p] \in Nat
      BY TimesIsNat DEF ArchiveIs
    <3>3. /\ Times(Pending, p) \in Nat /\ Times(Pending', p) \in Nat
          /\ Times(Pending, p) + Times(archive, p) + gone[p] = Times(Pending', p) + Times(archive', p) + gone'[p]
      OBVIOUS
    <3>4. PICK a, b, c, d, e, f, k \in Nat : /\ a = Times(Pending, p) /\ b = Times(archive, p) /\ c = gone[p]
                                             /\ d = Times(Pending', p) /\ e = Times(archive', p) /\ f = gone'[p]
                                             /\ k = Kept(cache, p)
      BY <3>1, <3>2, <3>3, Zenon
    <3>5. seen[p] = Times(Pending', p) + Kept(cache, p) + Times(archive', p) + gone'[p]
      <4>1. a + b + c = d + e + f
        BY <3>3, <3>4, Zenon
      <4>2. seen[p] = a + k + b + c
        BY <3>1, <3>4, Zenon
      <4>3. a + k + b + c = d + k + e + f
        BY <4>1
      <4>. QED  BY <3>4, <4>2, <4>3, Zenon
    <3>. QED  BY <1>1, <3>5, Zenon
  <2>. QED  BY <1>1, <2>1, Zenon DEF Balance
<1>. QED  BY <1>5, <1>6, Zenon DEF IInv

LEMMA HeaderIsDataless ==
    ASSUME DataIsItsOwn, NEW S, archive \in Seq(S), NEW x \in S, x.data = <<>>, x.size \in Nat, archive' = Append(archive, x)
    PROVE  DataIsItsOwn'
<1>1. DOMAIN archive' = 1 .. Len(archive) + 1 /\ archive'[Len(archive) + 1] = x
      /\ DOMAIN archive = 1 .. Len(archive) /\ \A k \in 1 .. Len(archive) : archive'[k] = archive[k]
  OBVIOUS
<1>2. ASSUME NEW k \in DOMAIN archive'
      PROVE  /\ Len(archive'[k].data) <= archive'[k].size
             /\ \A n \in DOMAIN archive'[k].data : archive'[k].data[n] = archive'[k].ino
  <2>1. CASE k \in DOMAIN archive
    BY <1>1, <2>1, Zenon DEF DataIsItsOwn
  <2>2. CASE k = Len(archive) + 1
    <3>1. Len(<<>>) <= x.size /\ DOMAIN <<>> = {}
      OBVIOUS
    <3>. QED  BY <1>1, <2>2, <3>1, Zenon
  <2>3. k \in DOMAIN archive \/ k = Len(archive) + 1
    BY <1>1
  <2>. QED  BY <2>1, <2>2, <2>3
<1>. QED  BY <1>2 DEF DataIsItsOwn

LEMMA WriteHeaderKeeps ==
    ASSUME IInv, WriteHeader
    PROVE  IInv'
<1>1. Typed /\ Small /\ Ways /\ Counts /\ Queued(todo) /\ ArchiveIs /\ work \in Works /\ Waiting
  BY Zenon DEF IInv, Typed
<1>2. /\ pc # "done" /\ todo # <<>> /\ copying = FALSE
      /\ UNCHANGED <<job, argv, pc, walk, cache, return_value, status, size, seen>> /\ gone' = gone /\ spoiled' = spoiled
      /\ NoFault
      /\ IF Entry.size > 0 THEN copying' = TRUE /\ todo' = todo /\ disk' = disk ELSE Written /\ copying' = copying
  <2>1. copying \in BOOLEAN
    BY <1>1 DEF Small
  <2>. QED  BY <2>1 DEF WriteHeader, AtHeader, KeepFiles, history
<1>3. PICK x : x = [path |-> Entry.path, ino |-> Entry.ino, size |-> Entry.size, link |-> Entry.link, data |-> <<>>]
  OBVIOUS
<1>4. archive' = Append(archive, x)
  BY <1>3, Zenon DEF WriteHeader
<1>5. pc \in {"walk", "append", "flush"} /\ IsOwn(Entry) /\ Entry = todo[1]
  BY <1>2, EntryToWrite
<1>6. x \in Archived /\ x.ino = work.ino[x.path] /\ x.path = Entry.path /\ x.data = <<>> /\ x.size \in Nat
      /\ x.ino = Entry.ino /\ x.size = Entry.size /\ x.link = Entry.link
  BY <1>3, <1>5 DEF IsOwn, Entries, Archived
<1>7. work' = work /\ Archived' = Archived /\ Paths' = Paths
  BY <1>2, JobStays
<1>8. ArchiveIs' /\ archive' # <<>> /\ archive'[Len(archive')] = x
  <2>1. PICK S : S = Archived
    OBVIOUS
  <2>2. archive \in Seq(S) /\ x \in S /\ \A k \in 1 .. Len(archive) : archive[k].ino = work.ino[archive[k].path]
    BY <1>1, <1>6, <2>1 DEF ArchiveIs
  <2>3. /\ archive' \in Seq(S) /\ archive' # <<>> /\ Len(archive') = Len(archive) + 1
        /\ archive'[Len(archive')] = x /\ \A k \in 1 .. Len(archive') : k \in 1 .. Len(archive) \/ k = Len(archive')
        /\ \A k \in 1 .. Len(archive) : archive'[k] = archive[k]
    BY <1>4, <2>2
  <2>4. \A k \in 1 .. Len(archive') : archive'[k].ino = work.ino[archive'[k].path]
    BY <1>6, <2>2, <2>3, Zenon
  <2>. QED  BY <1>7, <2>1, <2>3, <2>4, Zenon DEF ArchiveIs
<1>9. \A p : Times(archive', p) = Times(archive, p) + One(Entry, p) /\ Times(archive, p) \in Nat
  <2>1. ASSUME NEW p PROVE Times(archive', p) = Times(archive, p) + One(x, p) /\ Times(archive, p) \in Nat
    BY <1>1, <1>4, <1>6, TimesAppend, TimesIsNat DEF ArchiveIs
  <2>2. \A p : One(x, p) = One(Entry, p)
    BY <1>6 DEF One
  <2>. QED  BY <2>1, <2>2, Zenon
<1>10. DataIsItsOwn'
  <2>1. DataIsItsOwn /\ archive \in Seq(Archived)
    BY <1>1, Zenon DEF IInv, ArchiveIs
  <2>. QED  BY <1>4, <1>6, <2>1, HeaderIsDataless, Zenon
<1>11. Pending = todo /\ Pending' = Tail(todo) /\ copying' \in BOOLEAN
  BY <1>2 DEF Pending, Written
<1>12. Queued(todo') /\ Waiting' /\ Ways'
  <2>1. CASE Entry.size > 0
    <3>1. copying' = TRUE /\ todo' = todo /\ disk' = disk /\ pc' = pc /\ argv' = argv /\ walk' = walk
      BY <1>2, <2>1
    <3>2. Last' = Len(archive') /\ Entry' = Entry
      BY <3>1 DEF Last, Entry
    <3>3. Waiting'
      BY <1>1, <1>2, <1>6, <1>7, <1>8, <3>1, <3>2, Zenon DEF Waiting
    <3>. QED  BY <1>1, <1>7, <3>1, <3>3, Zenon DEF Ways
  <2>2. CASE ~(Entry.size > 0)
    <3>1. Written /\ ~copying' /\ UNCHANGED <<job, pc, argv, walk>>
      BY <1>2, <2>2
    <3>. QED  BY <1>2, <3>1, WrittenWaits, Zenon
  <2>. QED  BY <2>1, <2>2
<1>13. ASSUME NEW p \in Paths
       PROVE  /\ Times(Pending, p) + Times(archive, p) + gone[p] = Times(Pending', p) + Times(archive', p) + gone'[p]
              /\ Times(Pending, p) \in Nat /\ Times(Pending', p) \in Nat
  <2>1. /\ Times(Pending, p) = Times(Pending', p) + One(Entry, p) /\ Times(Pending', p) \in Nat
        /\ Times(archive', p) = Times(archive, p) + One(Entry, p) /\ Times(archive, p) \in Nat /\ gone'[p] = gone[p]
    BY <1>2, <1>9, <1>11, EntryToWrite, Zenon
  <2>2. One(Entry, p) \in {0, 1} /\ gone[p] \in Nat
    BY OneIsNat, BalanceIs, Zenon
  <2>. QED  BY <2>1, <2>2
<1>14. gone' \in [Paths -> Nat] /\ spoiled' \subseteq Inodes
  BY <1>1, <1>2 DEF Counts
<1>. QED  BY <1>2, <1>8, <1>10, <1>11, <1>12, <1>13, <1>14, WriteKeeps

LEMMA HeaderRefusedKeeps ==
    ASSUME IInv, HeaderRefused
    PROVE  IInv'
<1>1. Typed /\ Small /\ Ways /\ Counts /\ Queued(todo) /\ ArchiveIs /\ work \in Works /\ Waiting
  BY Zenon DEF IInv, Typed
<1>2. /\ pc # "done" /\ todo # <<>> /\ copying = FALSE /\ copying' = FALSE
      /\ UNCHANGED <<job, argv, pc, walk, cache, return_value, status, size, seen>> /\ archive' = archive
      /\ Fault /\ Written /\ GiveUp(Entry)
  <2>1. copying \in BOOLEAN
    BY <1>1 DEF Small
  <2>. QED  BY <2>1 DEF HeaderRefused, AtHeader
<1>3. IsOwn(Entry) /\ Entry.path \in Paths /\ Entry.ino \in Inodes
  <2>1. IsOwn(Entry)
    BY <1>2, EntryToWrite
  <2>. QED  BY <2>1 DEF IsOwn, Entries
<1>4. gone' = [gone EXCEPT ![Entry.path] = @ + 1] /\ spoiled' = spoiled \cup {Entry.ino}
  BY <1>2, Zenon DEF GiveUp, Spoil
<1>5. gone' \in [Paths -> Nat] /\ spoiled' \subseteq Inodes /\ \A p \in Paths : gone'[p] = gone[p] + One(Entry, p)
  <2>1. gone \in [Paths -> Nat] /\ spoiled \subseteq Inodes
    BY <1>1 DEF Counts
  <2>. QED  BY <1>3, <1>4, <2>1 DEF One
<1>6. work' = work /\ Archived' = Archived
  BY <1>2, JobStays
<1>7. ArchiveIs' /\ DataIsItsOwn'
  BY <1>1, <1>2, <1>6, Zenon DEF IInv, ArchiveIs, DataIsItsOwn
<1>8. Pending = todo /\ Pending' = Tail(todo)
  BY <1>2 DEF Pending, Written
<1>9. Queued(todo') /\ Waiting' /\ Ways'
  <2>1. ~copying' /\ UNCHANGED <<job, pc, argv, walk>>
    BY <1>2
  <2>. QED  BY <1>2, <2>1, WrittenWaits, Zenon
<1>10. ASSUME NEW p \in Paths
       PROVE  /\ Times(Pending, p) + Times(archive, p) + gone[p] = Times(Pending', p) + Times(archive', p) + gone'[p]
              /\ Times(Pending, p) \in Nat /\ Times(Pending', p) \in Nat
  <2>1. /\ Times(Pending, p) = Times(Pending', p) + One(Entry, p) /\ Times(Pending', p) \in Nat
        /\ Times(archive', p) = Times(archive, p) /\ gone'[p] = gone[p] + One(Entry, p)
    BY <1>2, <1>5, <1>8, EntryToWrite, Zenon
  <2>2. One(Entry, p) \in {0, 1} /\ gone[p] \in Nat /\ Times(archive, p) \in Nat
    BY OneIsNat, BalanceIs, Zenon
  <2>. QED  BY <2>1, <2>2
<1>. QED  BY <1>2, <1>5, <1>7, <1>9, <1>10, WriteKeeps

\* One more block of the last entry.
LEMMA BlockIs ==
    ASSUME NEW S, NEW s \in Seq(S), s # <<>>, NEW d, NEW t, t = [s EXCEPT ![Len(s)].data = d]
    PROVE  /\ DOMAIN t = DOMAIN s /\ Len(s) \in DOMAIN s /\ t[Len(s)] = [s[Len(s)] EXCEPT !.data = d]
           /\ \A k \in DOMAIN s : k # Len(s) => t[k] = s[k]
<1>1. Len(s) \in DOMAIN s
  OBVIOUS
<1>. QED  BY <1>1

LEMMA TimesSame ==
    ASSUME NEW s, NEW t, NEW p, DOMAIN t = DOMAIN s, \A k \in DOMAIN s : t[k].path = s[k].path
    PROVE  Times(t, p) = Times(s, p)
<1>1. {k \in DOMAIN t : t[k].path = p} = {k \in DOMAIN s : s[k].path = p}
  OBVIOUS
<1>. QED  BY <1>1, Zenon DEF Times

\* What becomes of the last entry of the archive, and of the rest.
Block(l, a, b, d) ==
    /\ l = Last /\ l = Len(archive) /\ a = archive[l] /\ b = archive'[l]
    /\ archive \in Seq(Archived) /\ l \in DOMAIN archive /\ a \in Archived /\ b \in Archived
    /\ a.path = Entry.path /\ a.ino = Entry.ino /\ a.size = Entry.size /\ a.link = Entry.link
    /\ b.data = d /\ b.path = a.path /\ b.ino = a.ino /\ b.size = a.size /\ b.link = a.link
    /\ Len(d) = Len(a.data) + 1 /\ Len(a.data) \in Nat
    /\ DOMAIN d = 1 .. Len(d) /\ d[Len(d)] = a.ino /\ \A n \in 1 .. Len(a.data) : d[n] = a.data[n]
    /\ DOMAIN a.data = 1 .. Len(a.data)
    /\ archive' \in Seq(Archived) /\ Len(archive') = l /\ archive' # <<>>
    /\ DOMAIN archive' = DOMAIN archive /\ \A k \in DOMAIN archive : k # l => archive'[k] = archive[k]

LEMMA BlockCopied ==
    ASSUME IInv, CopyBlock
    PROVE  /\ pc # "done" /\ copying = TRUE /\ copying' = TRUE /\ Left > 0 /\ Fits /\ NoFault
           /\ UNCHANGED <<job, argv, pc, walk, cache, return_value, status, size, seen>> /\ todo' = todo
           /\ gone' = gone /\ spoiled' = spoiled
           /\ disk' = [disk EXCEPT !.left = IF pc = "append" THEN @ ELSE @ - 1]
           /\ todo # <<>> /\ archive # <<>> /\ pc \in {"walk", "append", "flush"}
           /\ Source = Entry.ino /\ Entry.ino \in Inodes /\ Entry.size \in Nat
           /\ \E l, a, b, d : Block(l, a, b, d)
<1>1. Typed /\ Small /\ Ways /\ Counts /\ Queued(todo) /\ ArchiveIs /\ work \in Works /\ Waiting /\ DataIsItsOwn
  BY Zenon DEF IInv, Typed
<1>2. /\ pc # "done" /\ copying = TRUE /\ copying' = TRUE /\ Left > 0 /\ Fits /\ NoFault
      /\ UNCHANGED <<job, argv, pc, walk, cache, return_value, status, size, seen>> /\ todo' = todo
      /\ gone' = gone /\ spoiled' = spoiled
      /\ disk' = [disk EXCEPT !.left = IF pc = "append" THEN @ ELSE @ - 1]
  <2>1. copying \in BOOLEAN
    BY <1>1 DEF Small
  <2>. QED  BY <2>1 DEF CopyBlock, AtData, KeepFiles, history
<1>3. /\ todo # <<>> /\ archive # <<>> /\ archive[Last].path = Entry.path /\ archive[Last].ino = Entry.ino
      /\ archive[Last].size = Entry.size /\ archive[Last].link = Entry.link
  BY <1>1, <1>2 DEF Waiting
<1>4. pc \in {"walk", "append", "flush"} /\ IsOwn(Entry) /\ (pc # "append" => work.ino[disk.path] = Entry.ino)
  BY <1>2, <1>3, EntryToWrite
<1>5. Source = Entry.ino /\ Entry.ino \in Inodes /\ Entry.size \in Nat
  BY <1>4 DEF Source, IsOwn, Entries
<1>6. PICK S, d, l, a : S = Archived /\ d = Append(archive[Last].data, Source) /\ l = Len(archive) /\ a = archive[l]
  OBVIOUS
<1>7. archive \in Seq(S) /\ Last = l /\ l \in DOMAIN archive /\ a \in S
  BY <1>1, <1>3, <1>6 DEF ArchiveIs, Last
<1>8. archive' = [archive EXCEPT ![Len(archive)].data = d]
  BY <1>6, Zenon DEF CopyBlock, Last
<1>9. /\ DOMAIN archive' = DOMAIN archive /\ archive'[l] = [a EXCEPT !.data = d]
      /\ \A k \in DOMAIN archive : k # l => archive'[k] = archive[k]
  BY <1>3, <1>6, <1>7, <1>8, BlockIs, Zenon
<1>10. /\ a.data \in Seq(Inodes) /\ a.path \in Paths /\ d \in Seq(Inodes) /\ Len(d) = Len(a.data) + 1 /\ Len(a.data) \in Nat
       /\ DOMAIN d = 1 .. Len(d) /\ d[Len(d)] = a.ino /\ \A n \in 1 .. Len(a.data) : d[n] = a.data[n]
  <2>1. a.data \in Seq(Inodes) /\ a.path \in Paths
    BY <1>6, <1>7 DEF Archived
  <2>2. d = Append(a.data, a.ino) /\ a.ino \in Inodes
    BY <1>3, <1>5, <1>6, <1>7
  <2>3. PICK u, v : u = a.data /\ v = a.ino
    OBVIOUS
  <2>4. u \in Seq(Inodes) /\ v \in Inodes /\ d = Append(u, v)
    BY <2>1, <2>2, <2>3
  <2>5. /\ d \in Seq(Inodes) /\ Len(d) = Len(u) + 1 /\ Len(u) \in Nat /\ DOMAIN d = 1 .. Len(d) /\ d[Len(d)] = v
        /\ \A n \in 1 .. Len(u) : d[n] = u[n]
    BY <2>4
  <2>. QED  BY <2>1, <2>3, <2>5, Zenon
<1>11. PICK b : b = archive'[l]
  OBVIOUS
<1>12. b \in S /\ b.data = d /\ b.path = a.path /\ b.ino = a.ino /\ b.size = a.size /\ b.link = a.link
  BY <1>6, <1>7, <1>9, <1>10, <1>11 DEF Archived
<1>13. archive' \in Seq(S) /\ Len(archive') = Len(archive) /\ archive' # <<>>
  <2>1. archive' = [archive EXCEPT ![l] = b]
    BY <1>6, <1>8, <1>7, <1>9, <1>11
  <2>2. archive \in Seq(S) /\ l \in 1 .. Len(archive) /\ b \in S
    BY <1>6, <1>7, <1>12
  <2>3. PICK s : s = archive
    OBVIOUS
  <2>4. [s EXCEPT ![l] = b] \in Seq(S) /\ Len([s EXCEPT ![l] = b]) = Len(s)
    BY <2>2, <2>3, ExceptSeq
  <2>5. archive' \in Seq(S) /\ Len(archive') = l
    BY <1>6, <2>1, <2>3, <2>4
  <2>6. l # 0
    BY <2>2
  <2>. QED  BY <1>6, <2>5, <2>6
<1>14. DOMAIN a.data = 1 .. Len(a.data)
  BY <1>10
<1>15. /\ Last = l /\ Len(archive') = l
       /\ a.path = Entry.path /\ a.ino = Entry.ino /\ a.size = Entry.size /\ a.link = Entry.link
  BY <1>3, <1>6, <1>7, <1>13
<1>16. Block(l, a, b, d)
  BY <1>6, <1>7, <1>9, <1>10, <1>11, <1>12, <1>13, <1>14, <1>15 DEF Block
<1>. QED  BY <1>2, <1>3, <1>4, <1>5, <1>16

LEMMA CopyBlockKeeps ==
    ASSUME IInv, CopyBlock
    PROVE  IInv'
<1>1. Typed /\ Small /\ Ways /\ Counts /\ Queued(todo) /\ ArchiveIs /\ work \in Works /\ Waiting /\ DataIsItsOwn
  BY Zenon DEF IInv, Typed
<1>2. /\ pc # "done" /\ copying = TRUE /\ copying' = TRUE /\ Left > 0 /\ Fits /\ NoFault
      /\ UNCHANGED <<job, argv, pc, walk, cache, return_value, status, size, seen>> /\ todo' = todo
      /\ gone' = gone /\ spoiled' = spoiled
      /\ disk' = [disk EXCEPT !.left = IF pc = "append" THEN @ ELSE @ - 1]
      /\ todo # <<>> /\ archive # <<>> /\ pc \in {"walk", "append", "flush"} /\ Entry.size \in Nat
  BY BlockCopied
<1>3. PICK l, a, b, d : Block(l, a, b, d)
  BY BlockCopied, Zenon
<1>4. work' = work /\ Archived' = Archived /\ Paths' = Paths
  BY <1>2, JobStays
<1>5. ArchiveIs'
  <2>1. DOMAIN archive' = 1 .. Len(archive') /\ DOMAIN archive = 1 .. Len(archive)
    BY <1>3 DEF Block
  <2>2. \A k \in DOMAIN archive : archive[k].ino = work.ino[archive[k].path]
    BY <1>1, <2>1, Zenon DEF ArchiveIs
  <2>3. \A k \in DOMAIN archive' : archive'[k].ino = work.ino[archive'[k].path]
    <3>1. archive'[l].ino = work.ino[archive'[l].path]
      BY <1>3, <2>2, Zenon DEF Block
    <3>. QED  BY <1>3, <2>2, <3>1, Zenon DEF Block
  <2>. QED  BY <1>3, <1>4, <2>1, <2>3, Zenon DEF ArchiveIs, Block
<1>6. \A p : Times(archive', p) = Times(archive, p)
  <2>1. \A k \in DOMAIN archive : archive'[k].path = archive[k].path
    BY <1>3, Zenon DEF Block
  <2>. QED  BY <1>3, <2>1, TimesSame, Zenon DEF Block
<1>7. DataIsItsOwn'
  <2>1. ASSUME NEW k \in DOMAIN archive'
        PROVE  Len(archive'[k].data) <= archive'[k].size /\ \A n \in DOMAIN archive'[k].data : archive'[k].data[n] = archive'[k].ino
    <3>1. CASE k # l
      <4>1. k \in DOMAIN archive /\ archive'[k] = archive[k]
        BY <1>3, <2>1, <3>1 DEF Block
      <4>. QED  BY <1>1, <4>1, Zenon DEF DataIsItsOwn
    <3>2. CASE k = l
      <4>1. Len(a.data) < a.size /\ a.size \in Nat
        BY <1>2, <1>3 DEF Fits, Block
      <4>2. Len(d) <= b.size
        BY <1>3, <4>1 DEF Block
      <4>3. \A n \in DOMAIN a.data : a.data[n] = a.ino
        BY <1>1, <1>3, Zenon DEF DataIsItsOwn, Block
      <4>4. DOMAIN a.data = 1 .. Len(a.data) /\ \A n \in DOMAIN d : n \in 1 .. Len(a.data) \/ n = Len(d)
        BY <1>3 DEF Block
      <4>5. \A n \in DOMAIN d : d[n] = a.ino
        <5>1. d[Len(d)] = a.ino /\ \A n \in 1 .. Len(a.data) : d[n] = a.data[n]
          BY <1>3 DEF Block
        <5>. QED  BY <4>3, <4>4, <5>1, Zenon
      <4>. QED  BY <1>3, <3>2, <4>2, <4>5, Zenon DEF Block
    <3>. QED  BY <3>1, <3>2
  <2>. QED  BY <2>1 DEF DataIsItsOwn
<1>8. Waiting' /\ Queued(todo') /\ Ways'
  <2>1. disk' \in [state : {"closed", "open", "data", "fatal"}, path : Paths \cup {NoLink}, left : Nat] /\ disk'.path = disk.path
    <3>1. disk \in [state : {"closed", "open", "data", "fatal"}, path : Paths \cup {NoLink}, left : Nat]
      BY <1>1 DEF Ways
    <3>2. pc # "append" => disk.left > 0
      BY <1>2 DEF Left
    <3>. QED  BY <1>2, <3>1, <3>2
  <2>2. Ways'
    BY <1>1, <1>2, <1>4, <2>1 DEF Ways
  <2>3. Last' = l /\ Entry' = Entry /\ pc' = pc /\ todo' = todo
    BY <1>2, <1>3 DEF Last, Entry, Block
  <2>4. /\ archive'[l].path = Entry.path /\ archive'[l].ino = Entry.ino
        /\ archive'[l].size = Entry.size /\ archive'[l].link = Entry.link
    BY <1>3, Zenon DEF Block
  <2>5. Waiting'
    <3>1. archive' # <<>> /\ todo # <<>> /\ work' = work /\ Paths' = Paths /\ copying = TRUE
      BY <1>2, <1>3, <1>4 DEF Block
    <3>. QED  BY <1>1, <2>1, <2>3, <2>4, <3>1, Zenon DEF Waiting
  <2>. QED  BY <1>1, <2>2, <2>3, <2>5, Zenon
<1>9. ASSUME NEW p \in Paths
       PROVE  /\ Times(Pending, p) + Times(archive, p) + gone[p] = Times(Pending', p) + Times(archive', p) + gone'[p]
              /\ Times(Pending, p) \in Nat /\ Times(Pending', p) \in Nat
  <2>1. Pending = Tail(todo) /\ Pending' = Tail(todo)
    BY <1>2 DEF Pending
  <2>2. Times(Tail(todo), p) \in Nat
    BY <1>2, <1>3, EntryToWrite DEF Block
  <2>. QED  BY <1>2, <1>6, <2>1, <2>2, Zenon
<1>10. gone' \in [Paths -> Nat] /\ spoiled' \subseteq Inodes
  BY <1>1, <1>2 DEF Counts
<1>. QED  BY <1>2, <1>3, <1>5, <1>7, <1>8, <1>9, <1>10, WriteKeeps DEF Block

\* wintar goes on behind the data of an entry, whether it was all there or not.
LEMMA DataEnds ==
    ASSUME IInv, CopyEnds \/ CopyStops
    PROVE  /\ pc # "done" /\ copying = TRUE /\ copying' = FALSE /\ Written /\ (NoFault \/ Fault)
           /\ UNCHANGED <<job, argv, pc, walk, cache, return_value, status, size, seen>> /\ archive' = archive
           /\ gone' = gone
           /\ \/ spoiled' = spoiled
              \/ spoiled' = spoiled \cup {Entry.ino} /\ Fault
<1>1. copying \in BOOLEAN
  BY DEF IInv, Typed, Small
<1>2. CASE CopyEnds
  BY <1>1, <1>2 DEF CopyEnds, AtData, KeepFiles, history
<1>3. CASE CopyStops
  BY <1>1, <1>3 DEF CopyStops, AtData, Spoil
<1>. QED  BY <1>2, <1>3

LEMMA CopyEndsKeeps ==
    ASSUME IInv, CopyEnds \/ CopyStops
    PROVE  IInv'
<1>1. Typed /\ Small /\ Counts /\ ArchiveIs /\ Waiting
  BY Zenon DEF IInv, Typed
<1>2. /\ pc # "done" /\ copying = TRUE /\ copying' = FALSE /\ Written /\ (NoFault \/ Fault)
      /\ UNCHANGED <<job, argv, pc, walk, cache, return_value, status, size, seen>> /\ archive' = archive
      /\ gone' = gone
      /\ (spoiled' = spoiled \/ spoiled' = spoiled \cup {Entry.ino})
  BY DataEnds, Zenon
<1>3. todo # <<>>
  BY <1>1, <1>2 DEF Waiting
<1>4. work' = work /\ Archived' = Archived
  BY <1>2, JobStays
<1>5. ArchiveIs' /\ DataIsItsOwn'
  BY <1>1, <1>2, <1>4, Zenon DEF IInv, ArchiveIs, DataIsItsOwn
<1>6. Queued(todo') /\ Waiting' /\ Ways'
  <2>1. ~copying' /\ UNCHANGED <<job, pc, argv, walk>>
    BY <1>2
  <2>. QED  BY <1>2, <1>3, <2>1, WrittenWaits, Zenon
<1>7. ASSUME NEW p \in Paths
       PROVE  /\ Times(Pending, p) + Times(archive, p) + gone[p] = Times(Pending', p) + Times(archive', p) + gone'[p]
              /\ Times(Pending, p) \in Nat /\ Times(Pending', p) \in Nat
  <2>1. Pending = Tail(todo) /\ Pending' = Tail(todo)
    BY <1>2 DEF Pending, Written
  <2>2. Times(Tail(todo), p) \in Nat
    BY <1>2, <1>3, EntryToWrite
  <2>. QED  BY <1>2, <2>1, <2>2, Zenon
<1>8. gone' \in [Paths -> Nat] /\ spoiled' \subseteq Inodes
  <2>1. Entry.ino \in Inodes
    <3>1. IsOwn(Entry)
      BY <1>2, <1>3, EntryToWrite, Zenon
    <3>. QED  BY <3>1 DEF IsOwn, Entries
  <2>. QED  BY <1>1, <1>2, <2>1 DEF Counts
<1>. QED  BY <1>2, <1>3, <1>5, <1>6, <1>7, <1>8, WriteKeeps

-----------------------------------------------------------------------------
(* The steps that take what the resolver holds back, and a file that changes. *)

LEMMA HeldBack ==
    ASSUME work \in Works, Table(cache), NEW i \in Deferred(cache)
    PROVE  /\ IsOwn(Held(i)) /\ Held(i).path \in Paths /\ Held(i).ino = i /\ i \in Inodes
           /\ Table(Without(cache, i)) /\ Kept(Without(cache, i), Held(i).path) \in Nat
           /\ \A p : Kept(cache, p) = Kept(Without(cache, i), p) + One(Held(i), p) /\ Kept(Without(cache, i), p) \in Nat
<1>1. i \in DOMAIN cache /\ cache[i].entry # <<>>
  BY DEF Deferred
<1>2. i \in Inodes /\ IsFiniteSet(DOMAIN cache)
  BY <1>1 DEF Table
<1>3. strategy = "new_cpio"
  BY <1>1, Zenon DEF Table, Cell
<1>4. PICK h : IsOwn(h) /\ h.ino = i /\ cache[i].entry = <<h>> /\ Head(cache[i].entry) = h
  BY <1>1, <1>3, HeldIs
<1>5. Held(i) = h /\ h.path \in Paths
  BY <1>4 DEF Held, IsOwn, Entries
<1>6. \A p : KeptAt(cache, i, p) = One(Held(i), p)
  BY <1>1, Zenon DEF KeptAt, One, Held
<1>7. ASSUME NEW p PROVE Kept(cache, p) = Kept(Without(cache, i), p) + One(Held(i), p) /\ Kept(Without(cache, i), p) \in Nat
  <2>1. Kept(cache, p) = Kept(Without(cache, i), p) + KeptAt(cache, i, p) /\ Kept(Without(cache, i), p) \in Nat
    BY <1>2, KeptWithout, Zenon
  <2>. QED  BY <1>6, <2>1, Zenon
<1>8. Table(Without(cache, i))
  BY WithoutIs
<1>. QED  BY <1>2, <1>4, <1>5, <1>7, <1>8, Zenon

\* An entry that was held back is the next to write, or is given up.
LEMMA TakeKeeps ==
    ASSUME IInv, pc = "flush", todo = <<>>, NEW i \in Deferred(cache), cache' = Without(cache, i),
           UNCHANGED <<job, argv, pc, walk, copying, archive, status, size, seen>>,
           return_value' \in {0, 1}, Fault \/ NoFault, Ways',
           \/ /\ todo' = <<Held(i)>> /\ disk'.path = Held(i).path /\ UNCHANGED <<gone, spoiled>>
           \/ todo' = <<>> /\ GiveUp(Held(i))
    PROVE  IInv'
<1>1. Typed /\ Small /\ Counts /\ Table(cache) /\ work \in Works /\ Queued(todo) /\ ArchiveIs /\ Waiting
  BY Zenon DEF IInv, Typed
<1>2. /\ UNCHANGED job /\ pc' = "flush" /\ copying' = FALSE /\ archive' = archive /\ status' = status /\ size' = size
      /\ seen' = seen /\ copying = FALSE
  BY NothingWaits
<1>3. work' = work /\ Paths' = Paths /\ Inodes' = Inodes /\ Archived' = Archived
  BY <1>2, JobStays
<1>4. PICK h : h = Held(i)
  OBVIOUS
<1>5. PICK d : d = Without(cache, i)
  OBVIOUS
<1>6. /\ IsOwn(h) /\ h.path \in Paths /\ h.ino = i /\ i \in Inodes /\ Table(d)
      /\ \A p : Kept(cache, p) = Kept(d, p) + One(h, p) /\ Kept(d, p) \in Nat
  BY <1>1, <1>4, <1>5, HeldBack, Zenon
<1>7. cache' = d
  BY <1>5
<1>8. \/ todo' = <<h>> /\ disk'.path = h.path /\ gone' = gone /\ spoiled' = spoiled
      \/ todo' = <<>> /\ gone' = [gone EXCEPT ![h.path] = @ + 1] /\ spoiled' = spoiled \cup {h.ino}
  BY <1>4 DEF GiveUp, Spoil
<1>9. gone \in [Paths -> Nat] /\ spoiled \subseteq Inodes
  BY <1>1 DEF Counts
<1>10. gone' \in [Paths -> Nat] /\ spoiled' \subseteq Inodes
  BY <1>6, <1>8, <1>9
<1>11. Queued(todo') /\ Len(todo') <= 1 /\ (todo' # <<>> => todo' = <<h>>)
  <2>1. Queued(<<h>>) /\ Len(<<h>>) = 1 /\ Queued(<<>>) /\ Len(<<>>) = 0
    BY <1>6, QueuedOne, QueuedNone, Zenon
  <2>2. todo' = <<h>> \/ todo' = <<>>
    BY <1>8, Zenon
  <2>3. 1 <= 1 /\ 0 <= 1
    OBVIOUS
  <2>. QED  BY <2>1, <2>2, <2>3, Zenon
<1>12. Small'
  <2>1. faults' \in 0 .. MaxFaults
    BY <1>1, FaultIs
  <2>. QED  BY <1>1, <1>2, <2>1 DEF Small
<1>13. Typed'
  <2>1. Counts'
    BY <1>1, <1>2, <1>3, <1>10, Zenon DEF Counts
  <2>2. ArchiveIs'
    BY <1>1, <1>2, <1>3, Zenon DEF ArchiveIs
  <2>. QED  BY <1>1, <1>2, <1>6, <1>7, <1>11, <1>12, <2>1, <2>2, TypedStep
<1>14. Waiting'
  <2>1. ASSUME todo' # <<>> PROVE disk'.path \in Paths /\ \A k \in 1 .. Len(todo') : todo'[k].ino = work.ino[disk'.path]
    <3>1. todo' = <<h>> /\ disk'.path = h.path
      BY <1>8, <1>11, <2>1
    <3>2. h.ino = work.ino[h.path]
      BY <1>6 DEF IsOwn
    <3>3. <<h>>[1] = h /\ Len(<<h>>) = 1 /\ \A k \in 1 .. 1 : k = 1
      OBVIOUS
    <3>. QED  BY <1>6, <3>1, <3>2, <3>3, Zenon
  <2>. QED  BY <1>2, <1>3, <1>11, <2>1, Zenon DEF Waiting
<1>15. Balance'
  <2>1. ASSUME NEW p \in Paths
        PROVE  seen'[p] = Times(Pending', p) + Kept(cache', p) + Times(archive', p) + gone'[p]
    <3>1. seen[p] = Kept(cache, p) + Times(archive, p) + gone[p]
      BY NothingWaits
    <3>2. Kept(cache, p) = Kept(d, p) + One(h, p) /\ Kept(d, p) \in Nat /\ One(h, p) \in {0, 1}
      BY <1>6, OneIsNat, Zenon
    <3>3. Times(archive, p) \in Nat /\ gone[p] \in Nat
      BY BalanceIs
    <3>4. \/ Times(todo', p) = One(h, p) /\ gone'[p] = gone[p]
          \/ Times(todo', p) = 0 /\ gone'[p] = gone[p] + One(h, p)
      <4>1. CASE todo' = <<h>> /\ gone' = gone
        BY <4>1, TimesShort, Zenon
      <4>2. CASE todo' = <<>> /\ gone' = [gone EXCEPT ![h.path] = @ + 1]
        <5>1. gone'[p] = gone[p] + One(h, p)
          BY <1>6, <1>9, <3>3, <4>2 DEF One
        <5>. QED  BY <4>2, <5>1, TimesShort, Zenon
      <4>. QED  BY <1>8, <4>1, <4>2
    <3>5. seen[p] = Times(todo', p) + Kept(d, p) + Times(archive, p) + gone'[p]
      BY <3>1, <3>2, <3>3, <3>4
    <3>6. Pending' = todo'
      BY <1>2 DEF Pending
    <3>. QED  BY <1>2, <1>7, <3>5, <3>6, Zenon
  <2>. QED  BY <1>3, <2>1, Zenon DEF Balance
<1>16. DataIsItsOwn'
  BY <1>2, Zenon DEF IInv, DataIsItsOwn
<1>. QED  BY <1>13, <1>14, <1>15, <1>16, Zenon DEF IInv

LEMMA FlushKeeps ==
    ASSUME IInv, FlushEntry \/ FlushFails \/ FlushVanished
    PROVE  IInv'
<1>1. Typed /\ Small /\ Ways /\ Counts /\ Table(cache) /\ work \in Works
  BY Zenon DEF IInv, Typed
<1>2. disk \in [state : {"closed", "open", "data", "fatal"}, path : Paths \cup {NoLink}, left : Nat] /\ return_value \in {0, 1}
      /\ size \in [Inodes -> Nat]
  BY <1>1 DEF Ways, Small, Counts
<1>3. ASSUME UNCHANGED <<job, argv, walk>>,
             disk' \in [state : {"closed", "open", "data", "fatal"}, path : Paths \cup {NoLink}, left : Nat]
      PROVE  Ways'
  <2>1. Paths' = Paths /\ argv' = argv /\ walk' = walk
    BY <1>3, JobStays
  <2>. QED  BY <1>1, <1>3, <2>1, Zenon DEF Ways
<1>4. CASE FlushEntry
  <2>1. PICK i \in Deferred(cache) :
            /\ Flushing(i) /\ disk' = [state |-> "data", path |-> Held(i).path, left |-> size[i]] /\ todo' = <<Held(i)>>
            /\ NoFault /\ KeepFiles /\ UNCHANGED <<argv, pc, walk, copying, archive, return_value, status>>
    BY <1>4, Zenon DEF FlushEntry
  <2>2. pc = "flush" /\ todo = <<>> /\ cache' = Without(cache, i)
    BY <2>1 DEF Flushing, Take
  <2>3. UNCHANGED <<job, argv, pc, walk, copying, archive, status, size, seen>> /\ UNCHANGED <<gone, spoiled>>
        /\ return_value' = return_value /\ UNCHANGED <<job, argv, walk>>
    BY <2>1 DEF KeepFiles, history
  <2>4. Held(i).path \in Paths /\ size[i] \in Nat
    BY <1>1, <1>2, HeldBack
  <2>5. Ways' /\ disk'.path = Held(i).path
    BY <1>3, <2>1, <2>3, <2>4
  <2>. QED  BY <1>2, <2>1, <2>2, <2>3, <2>5, TakeKeeps
<1>5. CASE FlushFails
  <2>1. PICK i \in Deferred(cache) :
            /\ Flushing(i) /\ DiskOpenFails /\ disk' = [disk EXCEPT !.state = "fatal"] /\ return_value' = 1
            /\ GiveUp(Held(i)) /\ UNCHANGED <<job, argv, pc, walk, todo, copying, archive, status, size, seen>>
    BY <1>5, Zenon DEF FlushFails
  <2>2. pc = "flush" /\ todo = <<>> /\ cache' = Without(cache, i)
    BY <2>1 DEF Flushing, Take
  <2>3. UNCHANGED <<job, argv, pc, walk, copying, archive, status, size, seen>> /\ todo' = <<>>
        /\ return_value' \in {0, 1} /\ UNCHANGED <<job, argv, walk>> /\ (Fault \/ NoFault)
    BY <2>1, <2>2 DEF DiskOpenFails
  <2>4. Ways'
    BY <1>2, <1>3, <2>1, <2>3
  <2>. QED  BY <2>1, <2>2, <2>3, <2>4, TakeKeeps
<1>6. CASE FlushVanished
  <2>1. PICK i \in Deferred(cache) :
            /\ Flushing(i) /\ Fault /\ disk' = CloseDisk
            /\ GiveUp(Held(i)) /\ UNCHANGED <<job, argv, pc, walk, todo, copying, archive, return_value, status, size, seen>>
    BY <1>6, Zenon DEF FlushVanished
  <2>2. pc = "flush" /\ todo = <<>> /\ cache' = Without(cache, i)
    BY <2>1 DEF Flushing, Take
  <2>3. UNCHANGED <<job, argv, pc, walk, copying, archive, status, size, seen>> /\ todo' = <<>>
        /\ return_value' \in {0, 1} /\ UNCHANGED <<job, argv, walk>>
    BY <1>2, <2>1, <2>2
  <2>4. Ways'
    BY <1>3, <2>1, <2>3 DEF CloseDisk, Closed
  <2>. QED  BY <2>1, <2>2, <2>3, <2>4, TakeKeeps
<1>. QED  BY <1>4, <1>5, <1>6

LEMMA ResizeKeeps ==
    ASSUME IInv, Resize \/ UNCHANGED vars
    PROVE  IInv'
<1>1. Typed /\ Small /\ Ways /\ Counts /\ ArchiveIs /\ Queued(todo) /\ Table(cache) /\ Waiting /\ Balance /\ DataIsItsOwn
  BY Zenon DEF IInv, Typed
<1>2. /\ UNCHANGED job /\ argv' = argv /\ pc' = pc /\ walk' = walk /\ disk' = disk /\ cache' = cache /\ todo' = todo
      /\ copying' = copying /\ archive' = archive /\ return_value' = return_value /\ status' = status
      /\ seen' = seen /\ gone' = gone /\ (Fault \/ NoFault)
  BY DEF Resize, vars, history, NoFault
<1>3. \/ \E i \in Inodes, s \in Sizes : size' = [size EXCEPT ![i] = s] /\ spoiled' = spoiled \cup {i}
      \/ size' = size /\ spoiled' = spoiled
  <2>1. CASE Resize
    BY <2>1, Zenon DEF Resize, Spoil
  <2>2. CASE UNCHANGED vars
    BY <2>2 DEF vars, history
  <2>. QED  BY <2>1, <2>2
<1>4. work' = work /\ Paths' = Paths /\ Inodes' = Inodes /\ Archived' = Archived
  BY <1>2, JobStays
<1>5. Sizes \subseteq Nat
  BY WorksAssumption DEF WorksAssumption
<1>6. size' \in [Inodes -> Nat] /\ spoiled' \subseteq Inodes
  BY <1>1, <1>3, <1>5 DEF Counts
<1>7. Typed'
  <2>1. Counts'
    BY <1>1, <1>2, <1>4, <1>6, Zenon DEF Counts
  <2>2. faults' \in 0 .. MaxFaults
    BY <1>1, <1>2, FaultIs
  <2>3. Small' /\ Ways' /\ ArchiveIs'
    BY <1>1, <1>2, <1>4, <2>2, Zenon DEF Small, Ways, ArchiveIs
  <2>4. Table(cache') /\ Queued(todo')
    BY <1>1, <1>2, Zenon
  <2>. QED  BY <1>1, <1>2, <2>1, <2>3, <2>4, TypedStep, Zenon
<1>8. Waiting'
  <2>1. Last' = Last /\ Entry' = Entry
    BY <1>2 DEF Last, Entry
  <2>. QED  BY <1>1, <1>2, <1>4, <2>1, Zenon DEF Waiting
<1>9. Balance'
  <2>1. Pending' = Pending
    BY <1>2 DEF Pending
  <2>. QED  BY <1>1, <1>2, <1>4, <2>1, Zenon DEF Balance
<1>10. DataIsItsOwn'
  BY <1>1, <1>2, Zenon DEF DataIsItsOwn
<1>. QED  BY <1>7, <1>8, <1>9, <1>10, Zenon DEF IInv
-----------------------------------------------------------------------------
THEOREM InvHolds == Spec => []IInv
<1>1. IInv /\ [Next]_vars => IInv'
  <2>. SUFFICES ASSUME IInv, [Next]_vars PROVE IInv'
    OBVIOUS
  <2>1. CASE Resize \/ UNCHANGED vars
    BY <2>1, ResizeKeeps
  <2>2. CASE Moves
    BY <2>2, MovesKeep
  <2>3. CASE NextFile
    BY <2>3, NextFileKeeps
  <2>4. CASE AppendEntry \/ AppendUnsized
    BY <2>4, AppendedIs, AppendKeeps, Zenon
  <2>5. CASE WriteHeader
    BY <2>5, WriteHeaderKeeps
  <2>6. CASE HeaderRefused
    BY <2>6, HeaderRefusedKeeps
  <2>7. CASE CopyBlock
    BY <2>7, CopyBlockKeeps
  <2>8. CASE CopyEnds \/ CopyStops
    BY <2>8, CopyEndsKeeps
  <2>9. CASE FlushEntry \/ FlushFails \/ FlushVanished
    BY <2>9, FlushKeeps
  <2>. QED
    BY <2>1, <2>2, <2>3, <2>4, <2>5, <2>6, <2>7, <2>8, <2>9, Zenon DEF Next, Step, Moves
<1>. QED  BY InitIs, <1>1, PTL DEF Spec

LEMMA TypesHold == IInv => TypeOK
<1>. SUFFICES ASSUME IInv PROVE TypeOK
  OBVIOUS
<1>1. Typed /\ Small /\ Ways /\ Counts /\ Table(cache) /\ Queued(todo) /\ ArchiveIs /\ Waiting
  BY Zenon DEF IInv, Typed
<1>2. work \in Works /\ format \in Formats
  BY <1>1, Zenon DEF Typed
<1>3. disk.state \in {"closed", "open", "data", "fatal"} /\ disk.path \in Paths \cup {NoLink} /\ disk.left \in Nat
  BY <1>1 DEF Ways
<1>4. DOMAIN cache \subseteq Inodes
      /\ \A i \in DOMAIN cache : /\ cache[i].canonical \in Paths /\ cache[i].links \in Nat \ {0}
                                 /\ Len(cache[i].entry) <= 1
  <2>1. ASSUME NEW i \in DOMAIN cache
        PROVE  cache[i].canonical \in Paths /\ cache[i].links \in Nat \ {0} /\ Len(cache[i].entry) <= 1
    <3>1. cache[i].canonical \in Paths /\ cache[i].links \in Nat \ {0}
      BY <1>1 DEF Table, CacheEntries
    <3>2. cache[i].entry = <<>> \/ \E h : cache[i].entry = <<h>>
      BY <1>1, Zenon DEF Table, Cell
    <3>3. Len(<<>>) <= 1 /\ \A h : Len(<<h>>) <= 1
      OBVIOUS
    <3>. QED  BY <3>1, <3>2, <3>3, Zenon
  <2>. QED  BY <1>1, <2>1 DEF Table
<1>5. \A k \in DOMAIN todo : todo[k] \in Entries
  <2>1. todo \in Seq(Entries)
    BY <1>1 DEF Queued
  <2>. QED  BY <2>1, ElementOfSeq
<1>6. \A k \in DOMAIN archive : archive[k] \in Archived
  <2>1. archive \in Seq(Archived)
    BY <1>1 DEF ArchiveIs
  <2>. QED  BY <2>1, ElementOfSeq
<1>7. copying => todo # <<>> /\ archive # <<>> /\ (pc \notin {"append", "done"} => disk.path \in Paths)
  BY <1>1, EntryToWrite DEF Waiting
<1>. QED
  BY <1>1, <1>2, <1>3, <1>4, <1>5, <1>6, <1>7, Zenon DEF TypeOK, Small, Ways, Counts

\* What wintar keeps has its type.
THEOREM TypeCorrect == Spec => []TypeOK
BY InvHolds, TypesHold, PTL

\* Every entry that was read is in one place, whatever linkify does with it, however many links
\* a file has and in which order its names come: it waits to be written, or the resolver holds
\* it back, or it is in the archive, or it was given up.
THEOREM NothingIsForgotten == Spec => []NoEntryIsForgotten
<1>1. IInv => NoEntryIsForgotten
  <2>. SUFFICES ASSUME IInv PROVE NoEntryIsForgotten
    OBVIOUS
  <2>1. TypeOK
    BY TypesHold
  <2>2. \A p : Kept(cache, p) = Cardinality({i \in Deferred(cache) : Held(i).path = p})
    BY DEF Kept, Held
  <2>3. Balance
    BY DEF IInv
  <2>. QED  BY <2>1, <2>2, <2>3, Zenon DEF Balance, NoEntryIsForgotten
<1>. QED  BY InvHolds, <1>1, PTL

\* The data of an entry is that of its own file, whatever else the disk reader was at before, and
\* no more of it than the header says.
THEOREM DataStaysItsOwn == Spec => []DataIsItsOwn
<1>1. IInv => DataIsItsOwn
  BY DEF IInv
<1>. QED  BY InvHolds, <1>1, PTL
-----------------------------------------------------------------------------
(* Exit code 0, in three parts: the arguments, the sizes, and where the data is. *)

\* A path that has been read or is about to be.
Met(read, left, p) == read[p] > 0 \/ p \in Range(left)
Staged ==
    /\ pc = "args" => walk = <<>>
    /\ pc \in {"flush", "close"} /\ return_value = 0 => argv = <<>> /\ walk = <<>>
    /\ pc = "close" => Deferred(cache) = {}
    /\ pc # "done" => status = -1
    /\ status = 0 => return_value = 0 /\ argv = <<>> /\ walk = <<>> /\ todo = <<>> /\ Deferred(cache) = {}
Given == Range(argv) \subseteq Range(work.args)

\* As long as nothing was reported, each argument is still to come or its paths are met.
Taken ==
    return_value = 0 =>
        \A a \in Range(work.args) : a \in Range(argv) \/ \A p \in Range(a.paths) : Met(seen, walk, p)
Copied == pc = "append" => \A p \in Range(walk) : work.nlink[work.ino[p]] = 1
Plan == Staged /\ Given /\ Taken /\ Copied

LEMMA PlanAtFirst == Init => Plan
<1>. SUFFICES ASSUME Init PROVE Plan
  OBVIOUS
<1>1. argv = work.args /\ pc = "args" /\ walk = <<>> /\ status = -1
  BY Zenon DEF Init
<1>. QED  BY <1>1 DEF Plan, Staged, Given, Taken, Copied

\* What the steps that only move wintar do with the arguments.
TakesArgument ==
    /\ pc = "args" /\ argv # <<>> /\ argv' = Tail(argv) /\ status' = status
    /\ \/ /\ walk' = Arg.paths /\ pc' \in {"walk", "append"} /\ return_value' = return_value
          /\ (pc' = "append" => Arg.kind = "archive")
       \/ walk' = walk /\ pc' = pc /\ return_value' = 1
       \/ walk' = walk /\ pc' = pc /\ return_value' = return_value /\ Arg.kind = "chdir"
GoesOn ==
    /\ argv' = argv /\ walk' = walk /\ status' = status /\ return_value' = return_value
    /\ \/ pc = "args" /\ argv = <<>> /\ pc' = "flush"
       \/ pc \in {"walk", "append"} /\ walk = <<>> /\ pc' = "args"
       \/ pc = "flush" /\ Deferred(cache) = {} /\ pc' = "close"
GivesUp == pc \in {"walk", "append"} /\ argv' = argv /\ walk' = <<>> /\ pc' \in {"args", "flush"} /\ return_value' = 1 /\ status' = status
Exits ==
    /\ argv' = argv /\ walk' = walk /\ pc # "done" /\ pc' = "done" /\ return_value' \in {return_value, 1}
    /\ status' = 1 \/ (pc = "close" /\ status' = return_value')

LEMMA MovesAre ==
    ASSUME Moves
    PROVE  TakesArgument \/ GoesOn \/ GivesUp \/ Exits
<1>1. CASE OpenPath
  BY <1>1 DEF OpenPath, AtArgument, NextArg, TakesArgument
<1>2. CASE OpenPathFails
  BY <1>2 DEF OpenPathFails, AtArgument, NextArg, TakesArgument
<1>3. CASE OpenArchive
  BY <1>3 DEF OpenArchive, AtArgument, NextArg, TakesArgument
<1>4. CASE OpenArchiveFails
  BY <1>4 DEF OpenArchiveFails, AtArgument, NextArg, TakesArgument
<1>5. CASE ChangeDir
  BY <1>5 DEF ChangeDir, AtArgument, NextArg, TakesArgument
<1>6. CASE ChdirFails
  BY <1>6 DEF ChdirFails, AtArgument, Dies, Exits
<1>7. CASE MissingDir
  BY <1>7 DEF MissingDir, AtArgument, Dies, Exits
<1>8. CASE EndOfArguments
  BY <1>8 DEF EndOfArguments, GoesOn
<1>9. CASE NextFileFails
  BY <1>9 DEF NextFileFails, GivesUp
<1>10. CASE EndOfWalk
  BY <1>10 DEF EndOfWalk, GoesOn
<1>11. CASE AppendFails
  BY <1>11 DEF AppendFails, GivesUp
<1>12. CASE EndOfAppend
  BY <1>12 DEF EndOfAppend, GoesOn
<1>13. CASE HeaderFatal
  BY <1>13 DEF HeaderFatal, AtHeader, Dies, Exits
<1>14. CASE CopyFails
  BY <1>14 DEF CopyFails, AtData, Dies, Exits
<1>15. CASE EndOfFlush
  BY <1>15 DEF EndOfFlush, GoesOn
<1>16. CASE Close
  BY <1>16 DEF Close, Exits
<1>. QED
  BY <1>1, <1>2, <1>3, <1>4, <1>5, <1>6, <1>7, <1>8, <1>9, <1>10, <1>11, <1>12, <1>13, <1>14, <1>15, <1>16 DEF Moves

\* The first of a sequence and the rest.
LEMMA RestIs ==
    ASSUME NEW S, NEW s \in Seq(S), s # <<>>
    PROVE  Head(s) \in S /\ Tail(s) \in Seq(S) /\ Range(s) = {Head(s)} \cup Range(Tail(s))
<1>1. Len(s) \in Nat /\ Len(s) # 0 /\ DOMAIN s = 1 .. Len(s)
  OBVIOUS
<1>2. Tail(s) \in Seq(S) /\ DOMAIN Tail(s) = 1 .. Len(s) - 1 /\ \A j \in 1 .. Len(s) - 1 : Tail(s)[j] = s[j + 1]
  OBVIOUS
<1>3. \A j \in 1 .. Len(s) - 1 : j + 1 \in 1 .. Len(s)
  BY <1>1
<1>4. \A i \in 1 .. Len(s) : i = 1 \/ (i - 1 \in 1 .. Len(s) - 1 /\ (i - 1) + 1 = i)
  BY <1>1
<1>5. Head(s) = s[1] /\ 1 \in DOMAIN s /\ Head(s) \in S
  BY <1>1
<1>6. ASSUME NEW i \in DOMAIN s, i # 1 PROVE \E j \in DOMAIN Tail(s) : Tail(s)[j] = s[i]
  BY <1>1, <1>2, <1>4, <1>6
<1>7. ASSUME NEW j \in DOMAIN Tail(s) PROVE \E i \in DOMAIN s : Tail(s)[j] = s[i]
  BY <1>1, <1>2, <1>3
<1>8. Range(s) \subseteq {Head(s)} \cup Range(Tail(s))
  BY <1>5, <1>6, Zenon DEF Range
<1>9. ASSUME NEW x \in Range(Tail(s)) PROVE x \in Range(s)
  <2>1. PICK j \in DOMAIN Tail(s) : x = Tail(s)[j]
    BY Zenon DEF Range
  <2>2. PICK i \in DOMAIN s : x = s[i]
    BY <1>7, <2>1, Zenon
  <2>. QED  BY <2>2, Zenon DEF Range
<1>10. Head(s) \in Range(s)
  <2>1. PICK h : h = Head(s)
    OBVIOUS
  <2>2. h = s[1]
    BY <1>5, <2>1, Zenon
  <2>3. h \in Range(s)
    BY <1>5, <2>2, Zenon DEF Range
  <2>. QED  BY <2>1, <2>3, Zenon
<1>. QED  BY <1>2, <1>5, <1>8, <1>9, <1>10, Zenon

LEMMA RangeOfNone == Range(<<>>) = {}
BY DEF Range

LEMMA PathsOfArguments ==
    ASSUME work \in Works, NEW a \in Range(work.args)
    PROVE  /\ a.paths \in Seq(Paths) /\ (a.kind = "chdir" => a.paths = <<>>)
           /\ a.kind = "archive" => \A p \in Range(a.paths) : work.nlink[work.ino[p]] = 1
           /\ Range(a.paths) \subseteq Paths
<1>1. PICK k \in DOMAIN work.args : a = work.args[k]
  BY DEF Range
<1>2. /\ work.args \in Seq([kind : Kinds, paths : Seq(Paths)])
      /\ a.kind \in {"chdir", "chdir_nowhere"} => a.paths = <<>>
      /\ a.kind = "archive" => \A n \in DOMAIN a.paths : work.nlink[work.ino[a.paths[n]]] = 1
  BY <1>1, WorkIs, Zenon
<1>3. a \in [kind : Kinds, paths : Seq(Paths)]
  <2>1. PICK S : S = [kind : Kinds, paths : Seq(Paths)]
    OBVIOUS
  <2>2. PICK s : s = work.args
    OBVIOUS
  <2>3. s \in Seq(S) /\ k \in DOMAIN s
    BY <1>1, <1>2, <2>1, <2>2, Zenon
  <2>4. s[k] \in S
    BY <2>3
  <2>. QED  BY <1>1, <2>1, <2>2, <2>4, Zenon
<1>4. a.paths \in Seq(Paths)
  BY <1>3
<1>5. \A n \in DOMAIN a.paths : a.paths[n] \in Paths
  BY <1>4
<1>. QED  BY <1>2, <1>4, <1>5, Zenon DEF Range


LEMMA MovesKeepPlan ==
    ASSUME IInv, Plan, Moves
    PROVE  Plan'
<1>1. Typed /\ Waiting /\ Small /\ Ways /\ work \in Works
  BY Zenon DEF IInv, Typed
<1>2. Leaves
  BY <1>1, MovesLeave
<1>3. work' = work /\ cache' = cache /\ todo' = todo /\ seen' = seen
  BY <1>2, JobStays DEF Leaves
<1>4. TakesArgument \/ GoesOn \/ GivesUp \/ Exits
  BY MovesAre
<1>5. Staged /\ Given /\ Taken /\ Copied
  BY DEF Plan
<1>6. return_value \in {0, 1} /\ (pc \in {"args", "close"} => todo = <<>>)
  BY <1>1 DEF Small, Waiting
<1>7. Staged'
  <2>1. CASE TakesArgument
    BY <1>3, <1>5, <2>1 DEF TakesArgument, Staged
  <2>2. CASE GoesOn
    BY <1>3, <1>5, <2>2 DEF GoesOn, Staged
  <2>3. CASE GivesUp
    BY <1>3, <1>5, <2>3 DEF GivesUp, Staged
  <2>4. CASE Exits
    BY <1>3, <1>5, <1>6, <2>4 DEF Exits, Staged
  <2>. QED  BY <1>4, <2>1, <2>2, <2>3, <2>4
<1>8. ASSUME argv # <<>>
      PROVE  Range(argv) = {Arg} \cup Range(Tail(argv)) /\ Arg \in Range(work.args)
  <2>1. PICK S : argv \in Seq(S)
    BY <1>1 DEF Ways
  <2>2. Range(argv) = {Head(argv)} \cup Range(Tail(argv))
    BY <1>8, <2>1, RestIs
  <2>. QED  BY <1>5, <2>2, Zenon DEF Arg, Given
<1>9. Range(argv') \subseteq Range(argv)
  <2>1. argv' = argv \/ (argv # <<>> /\ argv' = Tail(argv))
    BY <1>4 DEF TakesArgument, GoesOn, GivesUp, Exits
  <2>. QED  BY <1>8, <2>1, Zenon
<1>10. Given'
  BY <1>3, <1>5, <1>9, Zenon DEF Given
<1>11. Taken'
  <2>. SUFFICES ASSUME return_value' = 0, NEW a \in Range(work.args)
                PROVE  a \in Range(argv') \/ \A p \in Range(a.paths) : Met(seen', walk', p)
    BY <1>3, Zenon DEF Taken
  <2>1. return_value = 0 \/ TakesArgument
    BY <1>4, <1>6 DEF GoesOn, GivesUp, Exits
  <2>2. CASE TakesArgument
    <3>1. /\ return_value = 0 /\ walk = <<>> /\ argv # <<>> /\ argv' = Tail(argv)
          /\ walk' = Arg.paths \/ (walk' = walk /\ Arg.kind = "chdir")
      BY <1>5, <2>2 DEF TakesArgument, Staged
    <3>2. CASE a \in Range(argv) /\ a # Arg
      BY <1>8, <3>1, <3>2, Zenon
    <3>3. CASE \A p \in Range(a.paths) : Met(seen, walk, p)
      <4>1. Range(walk) = {}
        BY <3>1, RangeOfNone
      <4>2. \A p : Met(seen, walk, p) => Met(seen', walk', p)
        BY <1>3, <4>1 DEF Met
      <4>. QED  BY <3>3, <4>2, Zenon
    <3>4. CASE a = Arg /\ walk' = Arg.paths
      BY <3>4, Zenon DEF Met
    <3>5. CASE a = Arg /\ Arg.kind = "chdir"
      <4>1. a.paths = <<>>
        BY <1>1, <3>5, PathsOfArguments
      <4>. QED  BY <4>1, RangeOfNone
    <3>. QED  BY <1>5, <3>1, <3>2, <3>3, <3>4, <3>5, Zenon DEF Taken
  <2>3. CASE return_value = 0 /\ ~TakesArgument
    <3>1. argv' = argv /\ walk' = walk
      BY <1>4, <1>6, <2>3 DEF GoesOn, GivesUp, Exits
    <3>. QED  BY <1>3, <1>5, <2>3, <3>1, Zenon DEF Taken
  <2>. QED  BY <2>1, <2>2, <2>3
<1>12. Copied'
  <2>. SUFFICES ASSUME pc' = "append", NEW p \in Range(walk') PROVE work.nlink[work.ino[p]] = 1
    BY <1>3, Zenon DEF Copied
  <2>1. CASE TakesArgument
    <3>1. CASE walk' = Arg.paths
      <4>1. argv # <<>> /\ Arg.kind = "archive"
        BY <1>5, <2>1, <3>1 DEF TakesArgument
      <4>. QED  BY <1>1, <1>8, <3>1, <4>1, PathsOfArguments
    <3>2. CASE walk' # Arg.paths
      BY <2>1, <3>2 DEF TakesArgument
    <3>. QED  BY <3>1, <3>2
  <2>2. CASE ~TakesArgument
    BY <1>4, <2>2 DEF GoesOn, GivesUp, Exits
  <2>. QED  BY <2>1, <2>2
<1>. QED  BY <1>7, <1>10, <1>11, <1>12, Zenon DEF Plan

\* Reading a file takes it from the walk.
LEMMA ReadKeepsPlan ==
    ASSUME IInv, Plan, walk # <<>>, walk' = Tail(walk), seen' = [seen EXCEPT ![Head(walk)] = @ + 1],
           UNCHANGED <<job, argv, pc, return_value, status>>, pc \in {"walk", "append"}
    PROVE  Plan'
<1>1. Typed /\ Ways /\ Counts /\ Staged /\ Given /\ Taken /\ Copied
  BY Zenon DEF IInv, Typed, Plan
<1>2. work' = work /\ argv' = argv /\ pc' = pc /\ return_value' = return_value /\ status' = status
  BY JobStays
<1>3. walk \in Seq(Paths)
  BY <1>1 DEF Ways
<1>4. Range(walk) = {Head(walk)} \cup Range(walk') /\ Head(walk) \in Paths
  <2>1. PICK S : S = Paths
    OBVIOUS
  <2>2. Range(walk) = {Head(walk)} \cup Range(Tail(walk)) /\ Head(walk) \in S
    BY <1>3, <2>1, RestIs
  <2>. QED  BY <2>1, <2>2, Zenon
<1>5. Staged'
  BY <1>1, <1>2 DEF Staged
<1>6. ASSUME NEW p \in Paths, Met(seen, walk, p) PROVE Met(seen', walk', p)
  <2>1. CASE p = Head(walk)
    <3>1. seen'[p] = seen[p] + 1 /\ seen[p] \in Nat
      BY <1>1, <2>1 DEF Counts
    <3>. QED  BY <3>1 DEF Met
  <2>2. CASE p # Head(walk)
    <3>1. seen'[p] = seen[p]
      BY <1>1, <2>2 DEF Counts
    <3>. QED  BY <1>4, <1>6, <2>2, <3>1, Zenon DEF Met
  <2>. QED  BY <2>1, <2>2
<1>7. Taken'
  <2>1. \A a \in Range(work.args) : Range(a.paths) \subseteq Paths
    <3>1. work \in Works
      BY <1>1, Zenon DEF Typed
    <3>. QED  BY <3>1, PathsOfArguments
  <2>2. \A a \in Range(work.args) : \A p \in Range(a.paths) : Met(seen, walk, p) => Met(seen', walk', p)
    BY <1>6, <2>1, Zenon
  <2>. QED  BY <1>1, <1>2, <2>2, Zenon DEF Taken
<1>8. Given' /\ Copied'
  BY <1>1, <1>2, <1>4, Zenon DEF Given, Copied
<1>. QED  BY <1>5, <1>7, <1>8, Zenon DEF Plan

\* The other steps leave arguments and walk alone.
LEMMA OthersKeepPlan ==
    ASSUME IInv, Plan, UNCHANGED <<job, argv, pc, walk, status, seen>>, return_value' \in {return_value, 1},
           pc \in {"close", "done"} => cache' = cache /\ todo' = todo /\ return_value' = return_value
    PROVE  Plan'
<1>1. Staged /\ Given /\ Taken /\ Copied /\ return_value \in {0, 1}
  BY Zenon DEF IInv, Typed, Small, Plan
<1>2. work' = work /\ argv' = argv /\ pc' = pc /\ walk' = walk /\ status' = status /\ seen' = seen
  BY JobStays
<1>3. Staged'
  BY <1>1, <1>2 DEF Staged
<1>5. return_value' = 0 => return_value = 0
  BY <1>1
<1>6. Given' /\ Taken' /\ Copied'
  BY <1>1, <1>2, <1>5, Zenon DEF Given, Taken, Copied
<1>. QED  BY <1>3, <1>6, Zenon DEF Plan

LEMMA NextKeepsPlan ==
    ASSUME IInv, Plan, [Next]_vars
    PROVE  Plan'
<1>1. CASE UNCHANGED vars
  BY <1>1, OthersKeepPlan DEF vars, history
<1>2. CASE Moves
  BY <1>2, MovesKeepPlan
<1>3. CASE NextFile
  <2>1. walk # <<>> /\ walk' = Tail(walk) /\ pc = "walk" /\ UNCHANGED <<job, argv, pc, return_value, status>>
    BY <1>3 DEF NextFile
  <2>2. seen' = [seen EXCEPT ![Head(walk)] = @ + 1]
    BY <1>3 DEF NextFile, EntryOf
  <2>. QED  BY <2>1, <2>2, ReadKeepsPlan
<1>4. CASE AppendEntry \/ AppendUnsized
  <2>1. PICK e : Appends(e)
    BY <1>4, AppendedIs, Zenon
  <2>. QED  BY <2>1, ReadKeepsPlan DEF Appends
<1>5. CASE WriteHeader
  <2>1. UNCHANGED <<job, argv, pc, walk, status, seen>> /\ return_value' = return_value /\ pc # "done" /\ todo # <<>>
    BY <1>5 DEF WriteHeader, AtHeader, KeepFiles, history
  <2>2. pc # "close"
    BY <2>1 DEF IInv, Waiting
  <2>. QED  BY <2>1, <2>2, OthersKeepPlan
<1>6. CASE HeaderRefused
  <2>1. UNCHANGED <<job, argv, pc, walk, status, seen>> /\ return_value' = return_value /\ pc # "done" /\ todo # <<>>
    BY <1>6 DEF HeaderRefused, AtHeader
  <2>2. pc # "close"
    BY <2>1 DEF IInv, Waiting
  <2>. QED  BY <2>1, <2>2, OthersKeepPlan
<1>7. CASE CopyBlock
  <2>1. UNCHANGED <<job, argv, pc, walk, status, seen>> /\ return_value' = return_value /\ cache' = cache /\ todo' = todo
    BY <1>7 DEF CopyBlock, KeepFiles, history
  <2>. QED  BY <2>1, OthersKeepPlan
<1>8. CASE CopyEnds \/ CopyStops
  <2>1. UNCHANGED <<job, argv, pc, walk, status, seen>> /\ return_value' = return_value /\ pc # "done" /\ copying
    BY <1>8, DataEnds
  <2>2. pc # "close"
    BY <2>1 DEF IInv, Waiting
  <2>. QED  BY <2>1, <2>2, OthersKeepPlan
<1>9. CASE FlushEntry \/ FlushFails \/ FlushVanished
  <2>1. UNCHANGED <<job, argv, pc, walk, status, seen>> /\ return_value' \in {return_value, 1} /\ pc = "flush"
    BY <1>9 DEF FlushEntry, FlushFails, FlushVanished, Flushing, KeepFiles, history
  <2>. QED  BY <2>1, OthersKeepPlan
<1>10. CASE Resize
  <2>1. UNCHANGED <<job, argv, pc, walk, status, seen>> /\ return_value' = return_value /\ cache' = cache /\ todo' = todo
    BY <1>10 DEF Resize
  <2>. QED  BY <2>1, OthersKeepPlan
<1>. QED
  BY <1>1, <1>2, <1>3, <1>4, <1>5, <1>6, <1>7, <1>8, <1>9, <1>10, Zenon DEF Next, Step, Moves
-----------------------------------------------------------------------------
(* The sizes, and where the data is. *)

\* An entry with data is as large as its file was at first.
FullIn(sizes, bad, e) == e.link = NoLink /\ e.ino \notin bad => e.size = sizes[e.ino]
Sized ==
    /\ \A i \in Inodes \ spoiled : size[i] = work.size[i]
    /\ \A e \in Range(todo) : FullIn(work.size, spoiled, e)
    /\ \A i \in Deferred(cache) : FullIn(work.size, spoiled, Head(cache[i].entry))

\* The disk still has what is to be copied.
Done == IF copying THEN Len(archive[Last].data) ELSE 0
Room ==
    /\ Len(todo) = 2 => todo[1].size = 0
    /\ copying => Entry.size > 0
    /\ pc \in {"walk", "flush"} =>
        \A e \in Range(todo) : e.ino \notin spoiled /\ e.size > 0 => e.size = disk.left + Done

\* The data of each file that was met is somewhere.
WholeIn(sizes, a) == a.link = NoLink /\ a.data = [n \in 1 .. a.size |-> a.ino] /\ a.size = sizes[a.ino]
HasWhole(sizes, s, i) == \E a \in Range(s) : a.ino = i /\ WholeIn(sizes, a)
HasData(s, i) == \E e \in Range(s) : IsData(e, i)
Carries(sizes, s, t, c, i) == HasWhole(sizes, s, i) \/ HasData(t, i) \/ i \in Deferred(c)
Carried ==
    \A p \in Paths : seen[p] > 0 /\ work.ino[p] \notin spoiled => Carries(work.size, archive, todo, cache, work.ino[p])
CachedSeen == \A i \in DOMAIN cache : seen[cache[i].canonical] > 0
GoneSpoils == \A p \in Paths : gone[p] > 0 => work.ino[p] \in spoiled

Safe == Sized /\ Room /\ Carried /\ CachedSeen /\ GoneSpoils

LEMMA RangesAre ==
    /\ Range(<<>>) = {} /\ \A a : Range(<<a>>) = {a}
    /\ \A a, b : Range(<<a, b>>) = {a, b}
<1>1. ASSUME NEW a PROVE Range(<<a>>) = {a}
  <2>1. DOMAIN <<a>> = {1} /\ <<a>>[1] = a
    OBVIOUS
  <2>. QED  BY <2>1, Zenon DEF Range
<1>2. ASSUME NEW a, NEW b PROVE Range(<<a, b>>) = {a, b}
  <2>1. DOMAIN <<a, b>> = {1, 2} /\ <<a, b>>[1] = a /\ <<a, b>>[2] = b
    OBVIOUS
  <2>. QED  BY <2>1, Zenon DEF Range
<1>. QED  BY <1>1, <1>2, RangeOfNone, Zenon

LEMMA SafeAtFirst == Init => Safe
<1>. SUFFICES ASSUME Init PROVE Safe
  OBVIOUS
<1>1. /\ todo = <<>> /\ copying = FALSE /\ size = work.size /\ cache = [i \in {} |-> 0]
      /\ seen = [p \in Paths |-> 0] /\ gone = [p \in Paths |-> 0]
  BY Zenon DEF Init
<1>2. Range(todo) = {} /\ Len(todo) = 0 /\ DOMAIN cache = {} /\ Deferred(cache) = {}
  BY <1>1, RangeOfNone DEF Deferred
<1>3. (\A p \in Paths : seen[p] = 0 /\ gone[p] = 0) /\ ~(0 > 0) /\ 0 # 2
  BY <1>1
<1>. QED  BY <1>1, <1>2, <1>3, Zenon DEF Safe, Sized, Room, Carried, CachedSeen, GoneSpoils

\* Where two tables that differ in one file agree.
LEMMA SameElsewhere ==
    ASSUME NEW c, NEW d, NEW i, Without(c, i) = Without(d, i), NEW j, j # i
    PROVE  (j \in DOMAIN d <=> j \in DOMAIN c) /\ (j \in DOMAIN c => d[j] = c[j]) /\ (j \in Deferred(d) <=> j \in Deferred(c))
<1>1. DOMAIN Without(c, i) = DOMAIN c \ {i} /\ \A k \in DOMAIN c \ {i} : Without(c, i)[k] = c[k]
  BY DEF Without
<1>2. DOMAIN Without(d, i) = DOMAIN d \ {i} /\ \A k \in DOMAIN d \ {i} : Without(d, i)[k] = d[k]
  BY DEF Without
<1>3. j \in DOMAIN d <=> j \in DOMAIN c
  BY <1>1, <1>2
<1>4. j \in DOMAIN c => d[j] = c[j]
  BY <1>1, <1>2, <1>3
<1>. QED  BY <1>3, <1>4, Zenon DEF Deferred

\* How many entries of a file have its data.
DataAt(s, i) == Cardinality({k \in DOMAIN s : IsData(s[k], i)})
OneData(e, i) == IF IsData(e, i) THEN 1 ELSE 0

LEMMA DataIsNat ==
    ASSUME NEW S, NEW s \in Seq(S), NEW i
    PROVE  DataAt(s, i) \in Nat /\ IsFiniteSet({k \in DOMAIN s : IsData(s[k], i)})
<1>1. DOMAIN s = 1 .. Len(s) /\ Len(s) \in Nat
  OBVIOUS
<1>2. IsFiniteSet(DOMAIN s)
  BY <1>1, FS_Interval
<1>3. IsFiniteSet({k \in DOMAIN s : IsData(s[k], i)})
  BY <1>2, FS_Subset
<1>. QED  BY <1>3, FS_CardinalityType DEF DataAt

LEMMA DataAppend ==
    ASSUME NEW S, NEW s \in Seq(S), NEW e \in S, NEW i
    PROVE  DataAt(Append(s, e), i) = DataAt(s, i) + OneData(e, i)
<1>. DEFINE T == {k \in DOMAIN s : IsData(s[k], i)}
            U == {k \in DOMAIN Append(s, e) : IsData(Append(s, e)[k], i)}
            n == Len(s) + 1
<1>1. IsFiniteSet(T) /\ DataAt(s, i) \in Nat /\ DataAt(s, i) = Cardinality(T) /\ DataAt(Append(s, e), i) = Cardinality(U)
  BY DataIsNat, Zenon DEF DataAt
<1>2. DOMAIN Append(s, e) = DOMAIN s \cup {n} /\ Append(s, e)[n] = e /\ \A k \in DOMAIN s : Append(s, e)[k] = s[k]
  OBVIOUS
<1>3. n \notin T
  OBVIOUS
<1>4. U = IF IsData(e, i) THEN T \cup {n} ELSE T
  BY <1>2
<1>. HIDE DEF T, U, n
<1>5. Cardinality(T \cup {n}) = Cardinality(T) + 1
  BY <1>1, <1>3, FS_AddElement, Zenon
<1>. QED  BY <1>1, <1>4, <1>5 DEF OneData

LEMMA DataShort ==
    ASSUME NEW i
    PROVE  /\ DataAt(<<>>, i) = 0
           /\ \A a : DataAt(<<a>>, i) = OneData(a, i)
           /\ \A a, b : DataAt(<<a, b>>, i) = OneData(a, i) + OneData(b, i)
<1>1. DataAt(<<>>, i) = 0
  <2>1. {k \in DOMAIN <<>> : IsData(<<>>[k], i)} = {}
    OBVIOUS
  <2>. QED  BY <2>1, FS_EmptySet DEF DataAt
<1>2. ASSUME NEW a PROVE DataAt(<<a>>, i) = OneData(a, i)
  <2>1. <<>> \in Seq({a}) /\ Append(<<>>, a) = <<a>>
    OBVIOUS
  <2>2. DataAt(Append(<<>>, a), i) = DataAt(<<>>, i) + OneData(a, i)
    BY <2>1, DataAppend
  <2>. QED  BY <1>1, <2>1, <2>2 DEF OneData
<1>3. ASSUME NEW a, NEW b PROVE DataAt(<<a, b>>, i) = OneData(a, i) + OneData(b, i)
  <2>1. <<>> \in Seq({a, b}) /\ <<a>> \in Seq({a, b})
    OBVIOUS
  <2>2. Append(<<a>>, b) = <<a, b>>
    <3>1. PICK t : t = Append(<<a>>, b)
      OBVIOUS
    <3>2. t \in Seq({a, b}) /\ Len(t) = 2 /\ t[1] = a /\ t[2] = b
      BY <2>1, <3>1, AppendProperties
    <3>3. t = <<t[1], t[2]>>
      BY <3>2
    <3>. QED  BY <3>1, <3>2, <3>3
  <2>3. DataAt(Append(<<a>>, b), i) = DataAt(<<a>>, i) + OneData(b, i)
    BY <2>1, DataAppend
  <2>. QED  BY <1>2, <2>2, <2>3
<1>. QED  BY <1>1, <1>2, <1>3

\* What an entry becomes when it is read, in the table and in the queue.
Becomes(e, c, t) ==
    /\ Without(c, e.ino) = Without(cache, e.ino)
    /\ \A x \in Range(t) : x.ino = e.ino /\ x.size \in {0, e.size} /\ (x.link = NoLink => x = e)
    /\ \A x \in Range(t) : x.link # NoLink =>
        /\ e.ino \in DOMAIN cache /\ x.link = cache[e.ino].canonical
        /\ strategy = "new_cpio" => e.ino \in DOMAIN c \/ e \in Range(t)
    /\ Len(t) = 2 => t[1].size = 0 /\ t[1].link # NoLink
    /\ e.ino \in Deferred(c) => c = cache \/ Head(c[e.ino].entry) = e
    /\ e.ino \in DOMAIN c => IF e.ino \in DOMAIN cache THEN c[e.ino].canonical = cache[e.ino].canonical
                             ELSE c[e.ino].canonical = e.path /\ (strategy # "new_cpio" => e \in Range(t))
    /\ e \in Range(t) \/ e.ino \in Deferred(c) \/ e.ino \in DOMAIN cache \ Deferred(cache)

\* The names that are still to come pay for the data.
ToCome(c, i) == IF i \in DOMAIN c THEN c[i].links ELSE 0
HeldAt(c, i) == IF i \in Deferred(c) THEN 1 ELSE 0
Pays(e, c, t) ==
    \/ work.nlink[e.ino] = 1 /\ c = cache /\ DataAt(t, e.ino) = 1
    \/ /\ DataAt(t, e.ino) + HeldAt(c, e.ino) = HeldAt(cache, e.ino) + 1
       /\ ToCome(cache, e.ino) = 0 /\ e.ino \in DOMAIN c /\ ToCome(c, e.ino) = work.nlink[e.ino] - 1
    \/ /\ DataAt(t, e.ino) + HeldAt(c, e.ino) = HeldAt(cache, e.ino)
       /\ e.ino \in DOMAIN cache /\ ToCome(c, e.ino) = ToCome(cache, e.ino) - 1

LEMMA OneIs ==
    ASSUME NEW a, NEW i, NEW t, t = <<a>>
    PROVE  Range(t) = {a} /\ Len(t) # 2 /\ DataAt(t, i) = IF IsData(a, i) THEN 1 ELSE 0
<1>1. DataAt(<<a>>, i) = OneData(a, i)
  BY DataShort, Zenon
<1>2. Range(<<a>>) = {a}
  BY RangesAre, Zenon
<1>3. Len(<<a>>) # 2
  OBVIOUS
<1>. QED  BY <1>1, <1>2, <1>3, Zenon DEF OneData

LEMMA PassedBecomes ==
    ASSUME NEW e, e.link = NoLink, NEW c, c = cache, NEW t, t = <<e>>
    PROVE  Becomes(e, c, t) /\ (work.nlink[e.ino] = 1 => Pays(e, c, t))
<1>1. Range(t) = {e} /\ Len(t) # 2
  BY RangesAre
<1>2. Becomes(e, c, t)
  BY <1>1, Zenon DEF Becomes
<1>3. DataAt(t, e.ino) = 1
  BY DataShort DEF OneData, IsData
<1>. QED  BY <1>2, <1>3, Zenon DEF Pays

LEMMA LinkifyBecomes ==
    ASSUME work \in Works, Table(cache), NEW e, IsOwn(e), e.link = NoLink, NEW memory \in BOOLEAN,
           NEW r, r = Linkify(strategy, cache, e, work.nlink[e.ino], memory)
    PROVE  /\ Becomes(e, r.cache, r.out)
           /\ memory /\ strategy # "old_cpio" => Pays(e, r.cache, r.out)
<1>. DEFINE i == e.ino
<1>1. i \in Inodes /\ e.size \in Nat /\ NoLink \notin Paths /\ \A j \in DOMAIN cache : cache[j].canonical \in Paths
  BY WorkIs DEF IsOwn, Entries, Table, CacheEntries
<1>2. CASE Passed(r, e) /\ (work.nlink[e.ino] = 1 \/ strategy = "old_cpio" \/ (~memory /\ e.ino \notin DOMAIN cache))
  <2>1. r.cache = cache /\ r.out = <<e>>
    BY <1>2 DEF Passed
  <2>2. Becomes(e, r.cache, r.out) /\ (work.nlink[e.ino] = 1 => Pays(e, r.cache, r.out))
    BY <2>1, PassedBecomes
  <2>. QED  BY <1>2, <2>2, Zenon
<1>3. CASE work.nlink[e.ino] # 1 /\ First(r, e)
  <2>1. PICK held : held = <<>>
    OBVIOUS
  <2>2. strategy # "new_cpio" /\ i \notin DOMAIN cache /\ r.cache = Inserted(cache, e, work.nlink[i], held) /\ r.out = <<e>>
    BY <1>3, <2>1 DEF First
  <2>3. held = IF strategy = "new_cpio" THEN <<e>> ELSE <<>>
    BY <2>1, <2>2, Zenon
  <2>4. PICK c : c = Inserted(cache, e, work.nlink[i], held)
    OBVIOUS
  <2>5. /\ Without(c, i) = Without(cache, i) /\ DOMAIN c = DOMAIN cache \cup {i}
        /\ c[i] = [canonical |-> e.path, links |-> work.nlink[i] - 1, entry |-> held]
    BY <1>3, <2>2, <2>3, <2>4, InsertedIs, Zenon
  <2>6. c[i].canonical = e.path /\ c[i].entry = <<>> /\ c[i].links = work.nlink[i] - 1 /\ i \in DOMAIN c
    BY <2>1, <2>5
  <2>7. i \notin Deferred(c) /\ i \notin Deferred(cache)
    BY <2>2, <2>6, Zenon DEF Deferred
  <2>8. Range(r.out) = {e} /\ Len(r.out) # 2 /\ DataAt(r.out, i) = 1
    BY <2>2, OneIs DEF IsData
  <2>9. Becomes(e, c, r.out)
    BY <2>2, <2>5, <2>6, <2>7, <2>8, Zenon DEF Becomes
  <2>10. ToCome(cache, i) = 0 /\ ToCome(c, i) = work.nlink[i] - 1 /\ HeldAt(c, i) = 0 /\ HeldAt(cache, i) = 0
    BY <2>2, <2>6, <2>7, Zenon DEF ToCome, HeldAt
  <2>11. Pays(e, c, r.out)
    BY <2>6, <2>8, <2>10 DEF Pays
  <2>. QED  BY <2>2, <2>4, <2>9, <2>11, Zenon
<1>4. CASE work.nlink[e.ino] # 1 /\ Link(r, e)
  <2>1. PICK s \in {0, e.size} : r.out = <<[e EXCEPT !.link = cache[e.ino].canonical, !.size = s]>>
    BY <1>4 DEF Link
  <2>2. PICK l : l = [e EXCEPT !.link = cache[e.ino].canonical, !.size = s]
    OBVIOUS
  <2>3. strategy # "new_cpio" /\ i \in DOMAIN cache /\ r.cache = Found(cache, e) /\ s \in Nat
    BY <1>1, <1>4 DEF Link
  <2>4. l.ino = i /\ l.size = s /\ l.link # NoLink /\ l.link = cache[i].canonical
    <3>1. PICK q \in Paths : q = cache[i].canonical
      BY <1>1, <2>3
    <3>2. l = [e EXCEPT !.link = q, !.size = s]
      BY <2>2, <3>1, Zenon
    <3>3. l.ino = i /\ l.size = s /\ l.link = q
      BY <3>2 DEF IsOwn, Entries
    <3>. QED  BY <1>1, <3>1, <3>3
  <2>5. PICK c : c = Found(cache, e)
    OBVIOUS
  <2>6. /\ Table(c) /\ Without(c, i) = Without(cache, i)
        /\ cache[i].links = 1 => DOMAIN c = DOMAIN cache \ {i}
        /\ cache[i].links # 1 => c[i] = [cache[i] EXCEPT !.links = cache[i].links - 1]
    BY <2>3, <2>5, FoundIs, Zenon
  <2>7. /\ i \in DOMAIN c => c[i].canonical = cache[i].canonical
        /\ ToCome(c, i) = ToCome(cache, i) - 1
    <3>1. cache[i] \in CacheEntries
      BY <2>3 DEF Table
    <3>2. cache[i].links # 1 => /\ DOMAIN c = DOMAIN cache /\ c[i].canonical = cache[i].canonical
                                /\ c[i].links = cache[i].links - 1
      BY <2>3, <2>5, <2>6, <3>1, FoundIs DEF CacheEntries
    <3>3. cache[i].links = 1 => i \notin DOMAIN c
      BY <2>6
    <3>4. cache[i].links \in Nat
      BY <3>1 DEF CacheEntries
    <3>. QED  BY <2>3, <3>2, <3>3, <3>4 DEF ToCome
  <2>8. i \notin Deferred(c) /\ i \notin Deferred(cache)
    BY <2>3, <2>6, Zenon DEF Deferred, Table, Cell
  <2>9. r.out = <<l>> /\ Range(r.out) = {l} /\ Len(r.out) # 2 /\ DataAt(r.out, i) = 0
    <3>1. r.out = <<l>>
      BY <2>1, <2>2, Zenon
    <3>. QED  BY <2>4, <3>1, OneIs DEF IsData
  <2>10. r.cache = c
    BY <2>3, <2>5
  <2>11. Becomes(e, c, r.out)
    BY <2>3, <2>4, <2>6, <2>7, <2>8, <2>9, Zenon DEF Becomes
  <2>12. HeldAt(c, i) = 0 /\ HeldAt(cache, i) = 0
    BY <2>8 DEF HeldAt
  <2>13. Pays(e, c, r.out)
    BY <2>3, <2>7, <2>9, <2>12 DEF Pays
  <2>. QED  BY <2>10, <2>11, <2>13, Zenon
<1>5. CASE work.nlink[e.ino] # 1 /\ FirstHeld(r, e)
  <2>1. PICK held : held = <<e>>
    OBVIOUS
  <2>2. strategy = "new_cpio" /\ i \notin DOMAIN cache /\ r.cache = Inserted(cache, e, work.nlink[i], held) /\ r.out = <<>>
    BY <1>5, <2>1 DEF FirstHeld
  <2>3. held = IF strategy = "new_cpio" THEN <<e>> ELSE <<>>
    BY <2>1, <2>2, Zenon
  <2>4. PICK c : c = Inserted(cache, e, work.nlink[i], held)
    OBVIOUS
  <2>5. /\ Without(c, i) = Without(cache, i) /\ DOMAIN c = DOMAIN cache \cup {i}
        /\ c[i] = [canonical |-> e.path, links |-> work.nlink[i] - 1, entry |-> held]
    BY <1>5, <2>2, <2>3, <2>4, InsertedIs, Zenon
  <2>6. c[i].canonical = e.path /\ c[i].entry = <<e>> /\ c[i].links = work.nlink[i] - 1 /\ i \in DOMAIN c
    BY <2>1, <2>5
  <2>7. i \in Deferred(c) /\ Head(c[i].entry) = e /\ i \notin Deferred(cache)
    <3>1. <<e>> # <<>> /\ Head(<<e>>) = e
      OBVIOUS
    <3>. QED  BY <2>2, <2>6, <3>1 DEF Deferred
  <2>8. Range(r.out) = {} /\ Len(r.out) # 2 /\ DataAt(r.out, i) = 0
    <3>1. DataAt(<<>>, i) = 0
      BY DataShort, Zenon
    <3>2. Range(<<>>) = {} /\ Len(<<>>) # 2
      BY RangesAre
    <3>. QED  BY <2>2, <3>1, <3>2, Zenon
  <2>9. Becomes(e, c, r.out)
    BY <2>2, <2>5, <2>6, <2>7, <2>8, Zenon DEF Becomes
  <2>10. ToCome(cache, i) = 0 /\ ToCome(c, i) = work.nlink[i] - 1 /\ HeldAt(c, i) = 1 /\ HeldAt(cache, i) = 0
    BY <2>2, <2>6, <2>7, Zenon DEF ToCome, HeldAt
  <2>11. Pays(e, c, r.out)
    BY <2>6, <2>8, <2>10 DEF Pays
  <2>. QED  BY <2>2, <2>4, <2>9, <2>11, Zenon
<1>6. CASE work.nlink[e.ino] # 1 /\ NextHeld(r, e)
  <2>1. PICK f : f = Found(cache, e)
    OBVIOUS
  <2>2. PICK c : c = [f EXCEPT ![i].entry = <<e>>]
    OBVIOUS
  <2>3. strategy = "new_cpio" /\ i \in DOMAIN cache /\ cache[i].links # 1 /\ r.cache = c /\ r.out = <<Before(e)>>
    BY <1>6, <2>1, <2>2 DEF NextHeld
  <2>4. PICK b : b = Before(e)
    OBVIOUS
  <2>5. b.ino = i /\ b.size = 0 /\ b.link = cache[i].canonical
    BY <2>3, <2>4, BeforeIs
  <2>6. Table(f) /\ Without(f, i) = Without(cache, i) /\ DOMAIN f = DOMAIN cache
        /\ f[i] = [cache[i] EXCEPT !.links = cache[i].links - 1]
    BY <2>1, <2>3, FoundIs, Zenon
  <2>7. Without(c, i) = Without(f, i) /\ DOMAIN c = DOMAIN f /\ c[i] = [f[i] EXCEPT !.entry = <<e>>] /\ c[i].entry = <<e>>
    BY <2>2, <2>3, <2>6, ReplacedIs, Zenon
  <2>8. c[i].canonical = cache[i].canonical /\ ToCome(c, i) = ToCome(cache, i) - 1
    <3>1. cache[i] \in CacheEntries
      BY <2>3 DEF Table
    <3>2. f[i] \in CacheEntries /\ f[i].canonical = cache[i].canonical /\ f[i].links = cache[i].links - 1
      BY <2>3, <2>6, <3>1 DEF Table, CacheEntries
    <3>3. c[i].canonical = cache[i].canonical /\ c[i].links = cache[i].links - 1
      BY <2>7, <3>2 DEF CacheEntries
    <3>. QED  BY <2>3, <2>6, <2>7, <3>3 DEF ToCome
  <2>9. <<e>> # <<>> /\ Head(<<e>>) = e
    OBVIOUS
  <2>10. i \in Deferred(c) /\ Head(c[i].entry) = e /\ i \in Deferred(cache)
    <3>1. cache[i].entry # <<>>
      BY <2>3, HeldIs
    <3>. QED  BY <2>3, <2>6, <2>7, <2>9, <3>1 DEF Deferred
  <2>11. b.link # NoLink
    BY <1>1, <2>3, <2>5
  <2>12. Range(r.out) = {b} /\ Len(r.out) # 2 /\ DataAt(r.out, i) = 0
    <3>1. r.out = <<b>>
      BY <2>3, <2>4
    <3>. QED  BY <2>11, <3>1, OneIs DEF IsData
  <2>13. Becomes(e, c, r.out)
    BY <2>3, <2>5, <2>6, <2>7, <2>8, <2>10, <2>11, <2>12, Zenon DEF Becomes
  <2>14. HeldAt(c, i) = 1 /\ HeldAt(cache, i) = 1
    BY <2>10 DEF HeldAt
  <2>15. Pays(e, c, r.out)
    BY <2>3, <2>8, <2>12, <2>14 DEF Pays
  <2>. QED  BY <2>3, <2>13, <2>15, Zenon
<1>7. CASE work.nlink[e.ino] # 1 /\ LastHeld(r, e)
  <2>1. PICK b : b = Before(e)
    OBVIOUS
  <2>2. PICK c : c = Without(cache, i)
    OBVIOUS
  <2>3. strategy = "new_cpio" /\ i \in DOMAIN cache /\ r.cache = c /\ r.out = <<b, e>> /\ cache[i].links = 1
    BY <1>7, <2>1, <2>2 DEF LastHeld
  <2>4. b.ino = i /\ b.size = 0 /\ b.link # NoLink /\ b.link = cache[i].canonical
    BY <1>1, <2>1, <2>3, BeforeIs
  <2>5. DOMAIN c = DOMAIN cache \ {i} /\ \A j \in DOMAIN cache \ {i} : c[j] = cache[j]
    BY <2>2, WithoutIs, Zenon
  <2>6. Without(c, i) = Without(cache, i)
    BY <2>5, WithoutSame
  <2>7. i \notin DOMAIN c /\ i \notin Deferred(c)
    BY <2>5 DEF Deferred
  <2>8. Range(r.out) = {b, e} /\ r.out[1] = b /\ DataAt(r.out, i) = 1
    <3>1. Range(<<b, e>>) = {b, e} /\ <<b, e>>[1] = b
      BY RangesAre
    <3>2. DataAt(<<b, e>>, i) = OneData(b, i) + OneData(e, i)
      BY DataShort
    <3>3. OneData(b, i) = 0 /\ OneData(e, i) = 1
      BY <2>4, Zenon DEF OneData, IsData
    <3>. QED  BY <2>3, <3>1, <3>2, <3>3
  <2>9. Becomes(e, c, r.out)
    BY <2>3, <2>4, <2>6, <2>7, <2>8, Zenon DEF Becomes
  <2>10. ToCome(c, i) = 0 /\ ToCome(cache, i) = 1 /\ HeldAt(c, i) = 0
    BY <2>3, <2>7, Zenon DEF ToCome, HeldAt
  <2>11. HeldAt(cache, i) = 1
    <3>1. cache[i].entry # <<>>
      BY <2>3, HeldIs
    <3>. QED  BY <2>3, <3>1 DEF Deferred, HeldAt
  <2>12. Pays(e, c, r.out)
    BY <2>3, <2>8, <2>10, <2>11 DEF Pays
  <2>. QED  BY <2>3, <2>9, <2>12, Zenon
<1>. QED  BY <1>2, <1>3, <1>4, <1>5, <1>6, <1>7, LinkifyCases

LEMMA ReadKeepsSafe ==
    ASSUME IInv, Safe, todo = <<>>, UNCHANGED <<job, copying, archive, size, gone, spoiled>>,
           NEW q \in Paths, NEW e, e = EntryOf(q), seen' = [seen EXCEPT ![q] = @ + 1],
           Becomes(e, cache', todo'), pc' \in {"walk", "append"}, pc' = "walk" => disk'.left = e.size
    PROVE  Safe'
<1>1. Typed /\ Counts /\ Table(cache) /\ work \in Works /\ Sized /\ Room /\ Carried /\ CachedSeen /\ GoneSpoils
  BY Zenon DEF IInv, Typed, Safe
<1>2. work' = work /\ Paths' = Paths /\ Inodes' = Inodes /\ archive' = archive /\ size' = size /\ gone' = gone
      /\ spoiled' = spoiled /\ copying' = FALSE
  BY NothingWaits, JobStays
<1>3. IsOwn(e) /\ e.link = NoLink /\ e.path = q /\ e.ino = work.ino[q] /\ e.size = size[e.ino] /\ e.ino \in Inodes /\ e.size \in Nat
  <2>1. size \in [Inodes -> Nat]
    BY <1>1 DEF Counts
  <2>2. IsOwn(e) /\ e.link = NoLink /\ e.path = q /\ e.ino = work.ino[q] /\ e.size = size[e.ino]
    BY <1>1, <2>1, EntryIs, Zenon
  <2>. QED  BY <2>2 DEF IsOwn, Entries
<1>4. IsData(e, e.ino)
  BY <1>3 DEF IsData
<1>5. FullIn(work.size, spoiled, e)
  BY <1>1, <1>3, Zenon DEF FullIn, Sized
<1>6. ASSUME NEW j, j # e.ino
      PROVE  /\ j \in DOMAIN cache' <=> j \in DOMAIN cache
             /\ j \in DOMAIN cache => cache'[j] = cache[j]
             /\ j \in Deferred(cache') <=> j \in Deferred(cache)
  <2>1. PICK c : c = cache'
    OBVIOUS
  <2>2. Without(cache, e.ino) = Without(c, e.ino)
    BY <2>1, Zenon DEF Becomes
  <2>3. (j \in DOMAIN c <=> j \in DOMAIN cache) /\ (j \in DOMAIN cache => c[j] = cache[j])
        /\ (j \in Deferred(c) <=> j \in Deferred(cache))
    BY <1>6, <2>2, SameElsewhere
  <2>. QED  BY <2>1, <2>3
<1>7. ASSUME NEW i \in Deferred(cache') PROVE FullIn(work.size, spoiled, Head(cache'[i].entry))
  <2>1. CASE i = e.ino
    <3>1. cache' = cache \/ Head(cache'[i].entry) = e
      BY <1>7, <2>1, Zenon DEF Becomes
    <3>2. CASE cache' = cache
      <4>1. i \in Deferred(cache)
        BY <1>7, <3>2
      <4>. QED  BY <1>1, <3>2, <4>1, Zenon DEF Sized
    <3>. QED  BY <1>5, <3>1, <3>2, Zenon
  <2>2. CASE i # e.ino
    <3>1. i \in Deferred(cache) /\ i \in DOMAIN cache
      BY <1>6, <1>7, <2>2 DEF Deferred
    <3>2. cache'[i] = cache[i]
      BY <1>6, <2>2, <3>1
    <3>. QED  BY <1>1, <3>1, <3>2, Zenon DEF Sized
  <2>. QED  BY <2>1, <2>2
<1>8. Sized'
  <2>1. ASSUME NEW x \in Range(todo') PROVE FullIn(work.size, spoiled, x)
    <3>1. x.link = NoLink => x = e
      BY Zenon DEF Becomes
    <3>. QED  BY <1>5, <3>1, Zenon DEF FullIn
  <2>. QED  BY <1>1, <1>2, <1>7, <2>1, Zenon DEF Sized
<1>9. Room'
  <2>1. Done' = 0
    BY <1>2 DEF Done
  <2>2. ASSUME pc' \in {"walk", "flush"}, NEW x \in Range(todo'), x.size > 0 PROVE x.size = disk'.left + Done'
    <3>1. x.size \in {0, e.size} /\ ~(0 > 0)
      BY DEF Becomes
    <3>2. x.size = e.size /\ disk'.left = e.size
      BY <2>2, <3>1
    <3>. QED  BY <1>3, <2>1, <3>2
  <2>3. Len(todo') = 2 => todo'[1].size = 0
    BY Zenon DEF Becomes
  <2>. QED  BY <1>2, <2>2, <2>3, Zenon DEF Room
<1>10. ASSUME NEW p \in Paths PROVE seen'[p] = (IF p = q THEN seen[p] + 1 ELSE seen[p]) /\ seen[p] \in Nat
  BY <1>1 DEF Counts
<1>11. ASSUME NEW i, \E p \in Paths : seen[p] > 0 /\ work.ino[p] = i, i \notin spoiled
       PROVE  HasWhole(work.size, archive, i) \/ i \in Deferred(cache)
  <2>1. Carries(work.size, archive, todo, cache, i)
    BY <1>1, <1>11, Zenon DEF Carried
  <2>2. ~HasData(todo, i)
    BY RangeOfNone DEF HasData
  <2>. QED  BY <2>1, <2>2, Zenon DEF Carries
<1>12. ASSUME NEW p \in Paths, seen'[p] > 0, work.ino[p] \notin spoiled
       PROVE  Carries(work.size, archive, todo', cache', work.ino[p])
  <2>1. CASE work.ino[p] = e.ino
    <3>1. CASE e \in Range(todo')
      BY <1>4, <2>1, <3>1, Zenon DEF Carries, HasData
    <3>2. CASE e.ino \in Deferred(cache')
      BY <2>1, <3>2, Zenon DEF Carries
    <3>3. CASE e.ino \in DOMAIN cache \ Deferred(cache)
      <4>1. PICK c : c = cache[e.ino].canonical
        OBVIOUS
      <4>2. c \in Paths /\ work.ino[c] = e.ino
        BY <1>1, <3>3, <4>1 DEF Table, CacheEntries, Cell
      <4>3. seen[c] > 0
        BY <1>1, <3>3, <4>1, Zenon DEF CachedSeen
      <4>. QED  BY <1>11, <1>12, <2>1, <3>3, <4>2, <4>3 DEF Carries
    <3>. QED  BY <3>1, <3>2, <3>3, Zenon DEF Becomes
  <2>2. CASE work.ino[p] # e.ino
    <3>1. p # q
      BY <1>3, <2>2
    <3>2. seen[p] > 0
      BY <1>10, <1>12, <3>1
    <3>3. HasWhole(work.size, archive, work.ino[p]) \/ work.ino[p] \in Deferred(cache)
      BY <1>11, <1>12, <3>2
    <3>. QED  BY <1>6, <2>2, <3>3, Zenon DEF Carries
  <2>. QED  BY <2>1, <2>2
<1>13. Carried'
  BY <1>2, <1>12, Zenon DEF Carried
<1>14. CachedSeen'
  <2>1. \A p \in Paths : seen[p] > 0 => seen'[p] > 0
    BY <1>10
  <2>2. seen'[q] > 0
    BY <1>10
  <2>3. \A i \in DOMAIN cache : cache[i].canonical \in Paths /\ seen[cache[i].canonical] > 0
    BY <1>1 DEF Table, CacheEntries, CachedSeen
  <2>4. ASSUME NEW i \in DOMAIN cache' PROVE seen'[cache'[i].canonical] > 0
    <3>1. CASE i = e.ino
      <4>1. cache'[i].canonical = q \/ (i \in DOMAIN cache /\ cache'[i].canonical = cache[i].canonical)
        BY <1>3, <2>4, <3>1, Zenon DEF Becomes
      <4>. QED  BY <2>1, <2>2, <2>3, <4>1, Zenon
    <3>2. CASE i # e.ino
      <4>1. i \in DOMAIN cache /\ cache'[i] = cache[i]
        BY <1>6, <2>4, <3>2
      <4>. QED  BY <2>1, <2>3, <4>1, Zenon
    <3>. QED  BY <3>1, <3>2
  <2>. QED  BY <2>4, Zenon DEF CachedSeen
<1>15. GoneSpoils'
  BY <1>1, <1>2, Zenon DEF GoneSpoils
<1>. QED  BY <1>8, <1>9, <1>13, <1>14, <1>15, Zenon DEF Safe

\* What is read becomes entries as the resolver makes them.
LEMMA NextFileBecomes ==
    ASSUME IInv, NextFile
    PROVE  \E q, e, memory :
                /\ q \in Paths /\ memory \in BOOLEAN /\ q = Head(walk) /\ e = EntryOf(q) /\ seen' = [seen EXCEPT ![q] = @ + 1]
                /\ Becomes(e, cache', todo') /\ disk'.left = e.size
                /\ memory /\ strategy # "old_cpio" => Pays(e, cache', todo')
                /\ memory \/ Fault
<1>1. Typed /\ Small /\ Ways /\ Counts /\ Table(cache) /\ work \in Works
  BY Zenon DEF IInv, Typed
<1>2. PICK q : q = Head(walk)
  OBVIOUS
<1>3. PICK e : e = EntryOf(q)
  OBVIOUS
<1>4. q \in Paths
  <2>1. walk # <<>>
    BY DEF NextFile
  <2>. QED  BY <1>1, <1>2, <2>1, WalkIs
<1>5. IsOwn(e) /\ e.link = NoLink /\ e.path = q
  <2>1. size \in [Inodes -> Nat]
    BY <1>1 DEF Counts
  <2>. QED  BY <1>1, <1>3, <1>4, <2>1, EntryIs, Zenon
<1>6. PICK memory \in BOOLEAN : /\ IF memory THEN NoFault ELSE Fault
                                /\ cache' = Linkify(strategy, cache, e, work.nlink[e.ino], memory).cache
                                /\ todo' = Linkify(strategy, cache, e, work.nlink[e.ino], memory).out
                                /\ disk' = [state |-> "data", path |-> e.path, left |-> e.size]
                                /\ seen' = [seen EXCEPT ![e.path] = @ + 1]
  BY <1>2, <1>3, Zenon DEF NextFile
<1>7. PICK r : r = Linkify(strategy, cache, e, work.nlink[e.ino], memory)
  OBVIOUS
<1>8. Becomes(e, r.cache, r.out) /\ (memory /\ strategy # "old_cpio" => Pays(e, r.cache, r.out))
  BY <1>1, <1>5, <1>7, LinkifyBecomes, Zenon
<1>9. cache' = r.cache /\ todo' = r.out
  BY <1>6, <1>7, Zenon
<1>10. disk'.left = e.size
  BY <1>6
<1>11. memory \/ Fault
  BY <1>6
<1>. QED  BY <1>2, <1>3, <1>4, <1>5, <1>6, <1>8, <1>9, <1>10, <1>11, Zenon

LEMMA AppendBecomes ==
    ASSUME IInv, Plan, NEW e, Appends(e)
    PROVE  Becomes(e, cache', todo') /\ Pays(e, cache', todo')
<1>1. Typed /\ Ways /\ Copied
  BY Zenon DEF IInv, Typed, Plan
<1>2. PICK q : q = Head(walk)
  OBVIOUS
<1>3. pc = "append" /\ walk # <<>> /\ todo' = <<e>> /\ cache' = cache
  BY Zenon DEF Appends
<1>4. e.link = NoLink /\ e.ino = work.ino[q]
  BY <1>2, AppendedEntryIs, Zenon
<1>5. work.nlink[e.ino] = 1
  <2>1. walk \in Seq(Paths)
    BY <1>1 DEF Ways
  <2>2. q \in Range(walk)
    BY <1>2, <1>3, <2>1, RestIs
  <2>. QED  BY <1>1, <1>3, <1>4, <2>2, Zenon DEF Copied
<1>6. PICK c, t : c = cache' /\ t = todo'
  OBVIOUS
<1>7. c = cache /\ t = <<e>>
  BY <1>3, <1>6
<1>8. Becomes(e, c, t) /\ Pays(e, c, t)
  BY <1>4, <1>5, <1>7, PassedBecomes
<1>. QED  BY <1>6, <1>8

\* The counts of a step that gives nothing up.
LEMMA GoneStays ==
    ASSUME UNCHANGED <<job, gone>>, GoneSpoils, spoiled \subseteq spoiled'
    PROVE  GoneSpoils'
<1>1. work' = work /\ Paths' = Paths /\ gone' = gone
  BY JobStays
<1>2. \A p \in Paths : gone[p] > 0 => work.ino[p] \in spoiled'
  BY DEF GoneSpoils
<1>. QED  BY <1>1, <1>2, Zenon DEF GoneSpoils

\* An entry of another archive has its data with it, or is not asked for.
LEMMA AppendKeepsSafe ==
    ASSUME IInv, Safe, NEW e, Appends(e)
    PROVE  Safe'
<1>1. Typed /\ Counts /\ work \in Works /\ Sized /\ Carried /\ CachedSeen /\ GoneSpoils
  BY Zenon DEF IInv, Typed, Safe
<1>2. PICK q : q = Head(walk)
  OBVIOUS
<1>3. /\ work' = work /\ Paths' = Paths /\ Inodes' = Inodes /\ archive' = archive /\ size' = size /\ cache' = cache
      /\ UNCHANGED <<job, gone>> /\ todo = <<>> /\ todo' = <<e>> /\ pc' = "append" /\ seen' = [seen EXCEPT ![q] = @ + 1]
      /\ \/ e = EntryOf(q) /\ spoiled' = spoiled
         \/ spoiled' = spoiled \cup {e.ino}
  <2>1. /\ UNCHANGED <<job, archive, size, cache, gone, pc>> /\ pc = "append"
        /\ todo = <<>> /\ todo' = <<e>> /\ seen' = [seen EXCEPT ![q] = @ + 1]
        /\ \/ e = EntryOf(q) /\ spoiled' = spoiled
           \/ spoiled' = spoiled \cup {e.ino}
    BY <1>2, Zenon DEF Appends
  <2>. QED  BY <2>1, JobStays
<1>4. copying' = FALSE
  BY <1>3, NothingWaits DEF Appends
<1>5. q \in Paths /\ e.ino = work.ino[q] /\ e.link = NoLink
  BY <1>2, AppendedEntryIs, Zenon
<1>6. spoiled \subseteq spoiled'
  BY <1>3
<1>7. FullIn(work.size, spoiled', e)
  <2>1. CASE e = EntryOf(q) /\ spoiled' = spoiled
    <3>1. size \in [Inodes -> Nat] /\ e.ino \in Inodes
      BY <1>1, <1>5, WorkIs DEF Counts
    <3>2. e.size = size[e.ino]
      BY <1>1, <1>5, <2>1, <3>1, EntryIs, Zenon
    <3>. QED  BY <1>1, <2>1, <3>1, <3>2, Zenon DEF FullIn, Sized
  <2>2. CASE spoiled' = spoiled \cup {e.ino}
    BY <2>2 DEF FullIn
  <2>. QED  BY <1>3, <2>1, <2>2
<1>8. Range(todo') = {e} /\ Len(todo') # 2
  <2>1. Range(<<e>>) = {e} /\ Len(<<e>>) # 2
    BY RangesAre
  <2>. QED  BY <1>3, <2>1
<1>9. Sized'
  <2>1. \A i \in Inodes \ spoiled' : size[i] = work.size[i]
    BY <1>1, <1>6 DEF Sized
  <2>2. \A i \in Deferred(cache) : FullIn(work.size, spoiled', Head(cache[i].entry))
    BY <1>1, <1>6 DEF Sized, FullIn
  <2>3. \A x \in Range(todo') : FullIn(work.size, spoiled', x)
    BY <1>7, <1>8, Zenon
  <2>. QED  BY <1>3, <2>1, <2>2, <2>3, Zenon DEF Sized
<1>10. Room'
  <2>1. pc' \notin {"walk", "flush"}
    BY <1>3
  <2>. QED  BY <1>4, <1>8, <2>1, Zenon DEF Room
<1>11. seen'[q] = seen[q] + 1 /\ seen[q] \in Nat /\ \A p \in Paths : p # q => seen'[p] = seen[p]
  BY <1>1, <1>3, <1>5 DEF Counts
<1>12. ASSUME NEW p \in Paths, seen'[p] > 0, work.ino[p] \notin spoiled'
       PROVE  Carries(work.size, archive, todo', cache, work.ino[p])
  <2>1. CASE p = q
    <3>1. IsData(e, work.ino[p])
      BY <1>5, <2>1 DEF IsData
    <3>. QED  BY <1>8, <3>1 DEF Carries, HasData
  <2>2. CASE p # q
    <3>1. seen[p] > 0 /\ work.ino[p] \notin spoiled
      BY <1>6, <1>11, <1>12, <2>2
    <3>2. Carries(work.size, archive, todo, cache, work.ino[p])
      BY <1>1, <3>1, Zenon DEF Carried
    <3>3. ~HasData(todo, work.ino[p])
      BY <1>3, RangeOfNone DEF HasData
    <3>. QED  BY <3>2, <3>3, Zenon DEF Carries
  <2>. QED  BY <2>1, <2>2
<1>13. Carried'
  BY <1>3, <1>12, Zenon DEF Carried
<1>14. CachedSeen'
  <2>1. \A p : seen[p] > 0 => seen'[p] > 0
    BY <1>1, <1>3, <1>11 DEF Counts
  <2>. QED  BY <1>1, <1>3, <2>1, Zenon DEF CachedSeen
<1>15. GoneSpoils'
  BY <1>1, <1>3, <1>6, GoneStays
<1>. QED  BY <1>9, <1>10, <1>13, <1>14, <1>15, Zenon DEF Safe

LEMMA RangeAppend ==
    ASSUME NEW S, NEW s \in Seq(S), NEW x \in S
    PROVE  Range(Append(s, x)) = Range(s) \cup {x}
<1>1. PICK t, n : t = Append(s, x) /\ n = Len(s) + 1
  OBVIOUS
<1>2. DOMAIN t = DOMAIN s \cup {n} /\ t[n] = x /\ \A k \in DOMAIN s : t[k] = s[k]
  BY <1>1
<1>3. Range(t) = Range(s) \cup {x}
  BY <1>2, Zenon DEF Range
<1>. QED  BY <1>1, <1>3

LEMMA HasWholeAppend ==
    ASSUME NEW S, NEW s \in Seq(S), NEW x \in S, NEW sizes
    PROVE  /\ \A i : HasWhole(sizes, s, i) => HasWhole(sizes, Append(s, x), i)
           /\ WholeIn(sizes, x) => HasWhole(sizes, Append(s, x), x.ino)
<1>1. PICK t : t = Append(s, x)
  OBVIOUS
<1>2. Range(t) = Range(s) \cup {x}
  BY <1>1, RangeAppend
<1>3. /\ \A i : HasWhole(sizes, s, i) => HasWhole(sizes, t, i)
      /\ WholeIn(sizes, x) => HasWhole(sizes, t, x.ino)
  BY <1>2, Zenon DEF HasWhole
<1>. QED  BY <1>1, <1>3

\* The entry that is through is given up, or its data is in the archive now.
LEMMA WrittenKeepsSafe ==
    ASSUME IInv, Safe, todo # <<>>, pc # "done", Written, copying' = FALSE, UNCHANGED <<job, pc, cache, size, seen>>,
           spoiled \subseteq spoiled', GoneSpoils',
           \A i : HasWhole(work.size, archive, i) => HasWhole(work.size, archive', i),
           Entry.link = NoLink => Entry.ino \in spoiled' \/ HasWhole(work.size, archive', Entry.ino)
    PROVE  Safe'
<1>1. Typed /\ Small /\ Waiting /\ Queued(todo) /\ Sized /\ Room /\ Carried /\ CachedSeen
  BY Zenon DEF IInv, Typed, Safe
<1>2. work' = work /\ Paths' = Paths /\ Inodes' = Inodes /\ cache' = cache /\ size' = size /\ seen' = seen /\ pc' = pc
      /\ todo' = Tail(todo) /\ disk' = IF pc = "flush" THEN CloseDisk ELSE disk
  BY JobStays DEF Written
<1>3. Range(todo) = {Entry} \cup Range(todo')
  <2>1. todo \in Seq(Entries)
    BY <1>1 DEF Queued
  <2>. QED  BY <1>2, <2>1, RestIs DEF Entry
<1>4. Len(todo') # 2 /\ (todo' # <<>> => Len(todo) = 2)
  <2>1. Queued(Tail(todo)) /\ Len(Tail(todo)) <= 1 /\ (Tail(todo) # <<>> => Len(todo) = 2)
    BY <1>1, TailIs
  <2>2. Len(Tail(todo)) \in Nat
    BY <2>1 DEF Queued
  <2>3. Len(Tail(todo)) # 2
    <3>1. \A l \in Nat : l <= 1 => l # 2
      OBVIOUS
    <3>. QED  BY <2>1, <2>2, <3>1, Zenon
  <2>. QED  BY <1>2, <2>1, <2>3, Zenon
<1>5. Sized'
  <2>1. \A e \in Range(todo') : FullIn(work.size, spoiled', e)
    BY <1>1, <1>3 DEF Sized, FullIn
  <2>2. \A i \in Deferred(cache) : FullIn(work.size, spoiled', Head(cache[i].entry))
    BY <1>1 DEF Sized, FullIn
  <2>3. \A i \in Inodes \ spoiled' : size[i] = work.size[i]
    BY <1>1 DEF Sized
  <2>. QED  BY <1>2, <2>1, <2>2, <2>3, Zenon DEF Sized
<1>6. ASSUME pc' \in {"walk", "flush"}, NEW e \in Range(todo'), e.ino \notin spoiled', e.size > 0
      PROVE  e.size = disk'.left + Done'
  <2>1. todo' # <<>>
    BY <1>6, RangeOfNone
  <2>2. Len(todo) = 2 /\ ~(Len(todo) <= 1)
    BY <1>4, <2>1
  <2>3. disk' = disk /\ pc = "walk"
    BY <1>1, <1>2, <1>6, <2>2 DEF Waiting
  <2>4. Entry = todo[1]
    BY EntryToWrite
  <2>5. todo[1].size = 0 /\ ~(0 > 0)
    BY <1>1, <2>2 DEF Room
  <2>6. copying = FALSE
    BY <1>1, <2>4, <2>5, Zenon DEF Room, Small
  <2>7. Done = 0 /\ Done' = 0
    BY <2>6 DEF Done
  <2>8. e.size = disk.left + Done
    BY <1>1, <1>3, <1>6, <2>3 DEF Room
  <2>. QED  BY <2>3, <2>7, <2>8
<1>7. Room'
  BY <1>4, <1>6, Zenon DEF Room
<1>8. ASSUME NEW i, i \notin spoiled', Carries(work.size, archive, todo, cache, i)
      PROVE  Carries(work.size, archive', todo', cache', i)
  <2>1. CASE HasWhole(work.size, archive, i)
    BY <2>1, Zenon DEF Carries
  <2>2. CASE HasData(todo, i)
    <3>1. PICK e \in Range(todo) : IsData(e, i)
      BY <2>2 DEF HasData
    <3>2. CASE e \in Range(todo')
      BY <3>1, <3>2, Zenon DEF Carries, HasData
    <3>3. CASE e = Entry
      BY <1>8, <3>1, <3>3 DEF Carries, IsData
    <3>. QED  BY <1>3, <3>1, <3>2, <3>3
  <2>3. CASE i \in Deferred(cache)
    BY <1>2, <2>3, Zenon DEF Carries
  <2>. QED  BY <1>8, <2>1, <2>2, <2>3, Zenon DEF Carries
<1>9. Carried'
  <2>1. ASSUME NEW p \in Paths, seen[p] > 0, work.ino[p] \notin spoiled' PROVE Carries(work.size, archive', todo', cache', work.ino[p])
    <3>1. work.ino[p] \notin spoiled
      BY <2>1
    <3>. QED  BY <1>1, <1>8, <2>1, <3>1, Zenon DEF Carried
  <2>. QED  BY <1>2, <2>1, Zenon DEF Carried
<1>10. CachedSeen'
  BY <1>1, <1>2, Zenon DEF CachedSeen
<1>. QED  BY <1>5, <1>7, <1>9, <1>10, Zenon DEF Safe

LEMMA WriteHeaderKeepsSafe ==
    ASSUME IInv, Safe, WriteHeader
    PROVE  Safe'
<1>1. Typed /\ Small /\ Waiting /\ Queued(todo) /\ ArchiveIs /\ work \in Works /\ Sized /\ Room /\ Carried /\ CachedSeen /\ GoneSpoils
  BY Zenon DEF IInv, Typed, Safe
<1>2. /\ pc # "done" /\ todo # <<>> /\ copying = FALSE
      /\ UNCHANGED <<job, argv, pc, walk, cache, return_value, status, size, seen>> /\ gone' = gone /\ spoiled' = spoiled
      /\ IF Entry.size > 0 THEN copying' = TRUE /\ todo' = todo /\ disk' = disk ELSE Written /\ copying' = copying
  <2>1. copying \in BOOLEAN
    BY <1>1 DEF Small
  <2>. QED  BY <2>1 DEF WriteHeader, AtHeader, KeepFiles, history
<1>3. PICK x : x = [path |-> Entry.path, ino |-> Entry.ino, size |-> Entry.size, link |-> Entry.link, data |-> <<>>]
  OBVIOUS
<1>4. archive' = Append(archive, x)
  BY <1>3, Zenon DEF WriteHeader
<1>5. IsOwn(Entry) /\ Entry = todo[1]
  BY <1>2, EntryToWrite
<1>6. x \in Archived /\ x.data = <<>> /\ x.ino = Entry.ino /\ x.size = Entry.size /\ x.link = Entry.link /\ Entry.size \in Nat
  BY <1>3, <1>5 DEF IsOwn, Entries, Archived
<1>7. archive \in Seq(Archived)
  BY <1>1 DEF ArchiveIs
<1>8. /\ \A i : HasWhole(work.size, archive, i) => HasWhole(work.size, archive', i)
      /\ WholeIn(work.size, x) => HasWhole(work.size, archive', x.ino)
  BY <1>4, <1>6, <1>7, HasWholeAppend, Zenon
<1>9. GoneSpoils'
  <2>1. UNCHANGED <<job, gone>> /\ spoiled \subseteq spoiled'
    BY <1>2
  <2>. QED  BY <1>1, <2>1, GoneStays
<1>10. CASE ~(Entry.size > 0)
  <2>1. Written /\ copying' = FALSE /\ UNCHANGED <<job, pc, cache, size, seen>> /\ spoiled \subseteq spoiled'
    BY <1>2, <1>10
  <2>2. ASSUME Entry.link = NoLink, Entry.ino \notin spoiled' PROVE HasWhole(work.size, archive', Entry.ino)
    <3>1. Entry \in Range(todo)
      <4>1. todo \in Seq(Entries)
        BY <1>1 DEF Queued
      <4>. QED  BY <1>2, <4>1, RestIs DEF Entry
    <3>2. x.size = work.size[x.ino] /\ x.size = 0
      BY <1>1, <1>2, <1>6, <1>10, <2>2, <3>1 DEF Sized, FullIn
    <3>3. x.data = [n \in 1 .. x.size |-> x.ino]
      <4>1. 1 .. 0 = {}
        OBVIOUS
      <4>2. <<>> = [n \in {} |-> x.ino]
        OBVIOUS
      <4>. QED  BY <1>6, <3>2, <4>1, <4>2, Zenon
    <3>4. WholeIn(work.size, x)
      BY <1>6, <2>2, <3>2, <3>3, Zenon DEF WholeIn
    <3>. QED  BY <1>6, <1>8, <3>4, Zenon
  <2>. QED  BY <1>2, <1>8, <1>9, <2>1, <2>2, WrittenKeepsSafe
<1>11. CASE Entry.size > 0
  <2>1. copying' = TRUE /\ todo' = todo /\ disk' = disk /\ pc' = pc /\ cache' = cache /\ size' = size /\ seen' = seen
        /\ spoiled' = spoiled /\ work' = work /\ Paths' = Paths /\ Inodes' = Inodes
    BY <1>2, <1>11, JobStays
  <2>2. Sized'
    BY <1>1, <2>1, Zenon DEF Sized
  <2>3. Done = 0 /\ Done' = 0
    <3>1. archive'[Len(archive')] = x
      BY <1>4, <1>6, <1>7
    <3>2. Len(<<>>) = 0
      OBVIOUS
    <3>. QED  BY <1>2, <1>6, <2>1, <3>1, <3>2 DEF Done, Last
  <2>4. Entry' = Entry
    BY <2>1 DEF Entry
  <2>5. Room'
    BY <1>1, <1>11, <2>1, <2>3, <2>4, Zenon DEF Room
  <2>6. Carried'
    BY <1>1, <1>8, <2>1, Zenon DEF Carried, Carries
  <2>7. CachedSeen'
    BY <1>1, <2>1, Zenon DEF CachedSeen
  <2>. QED  BY <1>9, <2>2, <2>5, <2>6, <2>7, Zenon DEF Safe
<1>. QED  BY <1>10, <1>11

\* What is given up is not asked for.
LEMMA GivenUpSpoils ==
    ASSUME IInv, GoneSpoils, UNCHANGED job, NEW e, IsOwn(e), GiveUp(e)
    PROVE  GoneSpoils' /\ e.ino \in spoiled' /\ spoiled \subseteq spoiled'
<1>1. Counts
  BY Zenon DEF IInv, Typed
<1>2. e.path \in Paths /\ e.ino = work.ino[e.path]
  BY DEF IsOwn, Entries
<1>3. gone' = [gone EXCEPT ![e.path] = @ + 1] /\ spoiled' = spoiled \cup {e.ino}
  BY Zenon DEF GiveUp, Spoil
<1>4. work' = work /\ Paths' = Paths
  BY JobStays
<1>5. ASSUME NEW p \in Paths, gone'[p] > 0 PROVE work.ino[p] \in spoiled'
  <2>1. CASE p = e.path
    BY <1>2, <1>3, <2>1
  <2>2. CASE p # e.path
    <3>1. gone'[p] = gone[p]
      BY <1>1, <1>3, <2>2 DEF Counts
    <3>. QED  BY <1>3, <1>5, <3>1 DEF GoneSpoils
  <2>. QED  BY <2>1, <2>2
<1>. QED  BY <1>3, <1>4, <1>5, Zenon DEF GoneSpoils

LEMMA HeaderRefusedKeepsSafe ==
    ASSUME IInv, Safe, HeaderRefused
    PROVE  Safe'
<1>1. Typed /\ Small /\ GoneSpoils
  BY Zenon DEF IInv, Typed, Safe
<1>2. /\ pc # "done" /\ todo # <<>> /\ copying' = FALSE
      /\ UNCHANGED <<job, pc, cache, size, seen>> /\ archive' = archive /\ Written /\ GiveUp(Entry)
  <2>1. copying \in BOOLEAN
    BY <1>1 DEF Small
  <2>. QED  BY <2>1 DEF HeaderRefused, AtHeader
<1>3. IsOwn(Entry)
  BY <1>2, EntryToWrite
<1>4. GoneSpoils' /\ Entry.ino \in spoiled' /\ spoiled \subseteq spoiled'
  <2>1. PICK e : e = Entry
    OBVIOUS
  <2>2. UNCHANGED job /\ IsOwn(e) /\ GiveUp(e)
    BY <1>2, <1>3, <2>1
  <2>. QED  BY <1>1, <2>1, <2>2, GivenUpSpoils
<1>. QED  BY <1>2, <1>4, WrittenKeepsSafe

LEMMA CopyBlockKeepsSafe ==
    ASSUME IInv, Safe, CopyBlock
    PROVE  Safe'
<1>1. Typed /\ Ways /\ Sized /\ Room /\ Carried /\ CachedSeen /\ GoneSpoils
  BY Zenon DEF IInv, Typed, Safe
<1>2. /\ copying = TRUE /\ copying' = TRUE /\ Left > 0 /\ Fits
      /\ UNCHANGED <<job, argv, pc, walk, cache, return_value, status, size, seen>> /\ todo' = todo
      /\ gone' = gone /\ spoiled' = spoiled
      /\ disk' = [disk EXCEPT !.left = IF pc = "append" THEN @ ELSE @ - 1]
  BY BlockCopied
<1>3. PICK l, a, b, d : Block(l, a, b, d)
  BY BlockCopied
<1>4. work' = work /\ Paths' = Paths /\ Inodes' = Inodes /\ cache' = cache /\ size' = size /\ seen' = seen /\ pc' = pc
  BY <1>2, JobStays
<1>5. Sized'
  BY <1>1, <1>2, <1>4, Zenon DEF Sized
<1>6. Done = Len(a.data) /\ Done' = Len(a.data) + 1 /\ Len(a.data) \in Nat
  BY <1>2, <1>3 DEF Done, Last, Block
<1>7. Entry' = Entry
  BY <1>2 DEF Entry
<1>8. ASSUME pc \in {"walk", "flush"}, NEW n, n = disk.left + Done PROVE n = disk'.left + Done'
  <2>1. disk.left \in Nat /\ disk'.left = disk.left - 1
    BY <1>1, <1>2, <1>8 DEF Ways
  <2>2. PICK was, is, l0, l1 : was = Done /\ is = Done' /\ l0 = disk.left /\ l1 = disk'.left
    BY Zenon
  <2>3. was \in Nat /\ is = was + 1 /\ l0 \in Nat /\ l1 = l0 - 1
    BY <1>6, <2>1, <2>2
  <2>4. n = l0 + was
    BY <1>8, <2>2, Zenon
  <2>5. n = l1 + is
    BY <2>3, <2>4
  <2>. QED  BY <2>2, <2>5, Zenon
<1>9. Room'
  <2>1. ASSUME pc \in {"walk", "flush"}, NEW e \in Range(todo), e.ino \notin spoiled, e.size > 0
        PROVE  e.size = disk'.left + Done'
    BY <1>1, <1>8, <2>1, Zenon DEF Room
  <2>. QED  BY <1>1, <1>2, <1>4, <1>7, <2>1, Zenon DEF Room
<1>10. ASSUME NEW i, HasWhole(work.size, archive, i) PROVE HasWhole(work.size, archive', i)
  <2>1. PICK k \in DOMAIN archive : archive[k].ino = i /\ WholeIn(work.size, archive[k])
    BY <1>10, Zenon DEF HasWhole, Range
  <2>2. k # l
    <3>1. Len(a.data) < a.size /\ a = archive[l] /\ a.size \in Nat
      BY <1>2, <1>3 DEF Fits, Block, Archived
    <3>2. a.data # [n \in 1 .. a.size |-> a.ino]
      BY <3>1
    <3>. QED  BY <2>1, <3>1, <3>2, Zenon DEF WholeIn
  <2>3. k \in DOMAIN archive' /\ archive'[k] = archive[k]
    BY <1>3, <2>2 DEF Block
  <2>. QED  BY <2>1, <2>3, Zenon DEF HasWhole, Range
<1>11. Carried'
  <2>1. ASSUME NEW p \in Paths, seen[p] > 0, work.ino[p] \notin spoiled PROVE Carries(work.size, archive', todo, cache, work.ino[p])
    BY <1>1, <1>10, <2>1, Zenon DEF Carried, Carries
  <2>. QED  BY <1>2, <1>4, <2>1, Zenon DEF Carried
<1>12. CachedSeen' /\ GoneSpoils'
  BY <1>1, <1>2, <1>4, Zenon DEF CachedSeen, GoneSpoils
<1>. QED  BY <1>5, <1>9, <1>11, <1>12, Zenon DEF Safe

LEMMA CopyEndsKeepsSafe ==
    ASSUME IInv, Safe, CopyEnds
    PROVE  Safe'
<1>1. Typed /\ Small /\ Ways /\ Waiting /\ Queued(todo) /\ ArchiveIs /\ DataIsItsOwn /\ Sized /\ Room /\ GoneSpoils
  BY Zenon DEF IInv, Typed, Safe
<1>2. /\ pc # "done" /\ copying = TRUE /\ copying' = FALSE /\ Written /\ (Left = 0 \/ ~Fits)
      /\ UNCHANGED <<job, pc, cache, size, seen>> /\ archive' = archive /\ gone' = gone /\ spoiled' = spoiled
  <2>1. copying \in BOOLEAN
    BY <1>1 DEF Small
  <2>. QED  BY <2>1 DEF CopyEnds, AtData, KeepFiles, history
<1>3. /\ todo # <<>> /\ archive # <<>> /\ archive[Last].ino = Entry.ino
      /\ archive[Last].size = Entry.size /\ archive[Last].link = Entry.link
  BY <1>1, <1>2 DEF Waiting
<1>4. GoneSpoils'
  <2>1. UNCHANGED <<job, gone>> /\ spoiled \subseteq spoiled'
    BY <1>2
  <2>. QED  BY <1>1, <2>1, GoneStays
<1>5. Entry \in Range(todo) /\ Entry.size > 0 /\ Entry.size \in Nat /\ pc \in {"walk", "append", "flush"}
  <2>1. todo \in Seq(Entries)
    BY <1>1 DEF Queued
  <2>2. Entry \in Range(todo)
    BY <1>3, <2>1, RestIs DEF Entry
  <2>3. IsOwn(Entry) /\ pc \in {"walk", "append", "flush"}
    BY <1>2, <1>3, EntryToWrite
  <2>. QED  BY <1>1, <1>2, <2>2, <2>3 DEF IsOwn, Entries, Room
<1>6. PICK a : a = archive[Last]
  OBVIOUS
<1>7. /\ a \in Range(archive) /\ a.data \in Seq(Inodes) /\ Len(a.data) <= a.size
      /\ \A n \in DOMAIN a.data : a.data[n] = a.ino
  <2>1. archive \in Seq(Archived)
    BY <1>1 DEF ArchiveIs
  <2>2. Last \in DOMAIN archive
    BY <1>3, <2>1 DEF Last
  <2>3. a \in Archived
    BY <1>6, <2>1, <2>2
  <2>. QED  BY <1>1, <1>6, <2>2, <2>3 DEF Archived, DataIsItsOwn, Range
<1>8. ASSUME Entry.link = NoLink, Entry.ino \notin spoiled PROVE HasWhole(work.size, archive, Entry.ino)
  <2>1. a.size = Entry.size /\ a.ino = Entry.ino /\ a.link = NoLink
    BY <1>3, <1>6, <1>8
  <2>2. Len(a.data) \in Nat /\ DOMAIN a.data = 1 .. Len(a.data)
    BY <1>7
  <2>3. Len(a.data) = a.size
    <3>1. CASE ~Fits
      BY <1>5, <1>6, <1>7, <2>1, <2>2, <3>1 DEF Fits
    <3>2. CASE Left = 0 /\ pc = "append"
      BY <1>5, <1>6, <2>1, <2>2, <3>2 DEF Left
    <3>3. CASE Left = 0 /\ pc \in {"walk", "flush"}
      <4>1. disk.left = 0
        BY <3>3 DEF Left
      <4>2. Done = Len(a.data)
        BY <1>2, <1>6 DEF Done
      <4>3. Entry.size = disk.left + Done
        BY <1>1, <1>5, <1>8, <3>3, Zenon DEF Room
      <4>. QED  BY <2>1, <2>2, <4>1, <4>2, <4>3
    <3>. QED  BY <1>2, <1>5, <3>1, <3>2, <3>3
  <2>4. a.data = [n \in 1 .. a.size |-> a.ino]
    <3>1. DOMAIN a.data = 1 .. a.size
      BY <2>2, <2>3
    <3>2. a.data = [n \in DOMAIN a.data |-> a.data[n]]
      BY <1>7
    <3>. QED  BY <1>7, <3>1, <3>2
  <2>5. a.size = work.size[a.ino]
    BY <1>1, <1>5, <1>8, <2>1 DEF Sized, FullIn
  <2>. QED  BY <1>7, <2>1, <2>4, <2>5, Zenon DEF HasWhole, WholeIn
<1>. QED  BY <1>2, <1>3, <1>4, <1>8, WrittenKeepsSafe

\* The data that was left out is not asked for.
LEMMA CopyStopsKeepsSafe ==
    ASSUME IInv, Safe, CopyStops
    PROVE  Safe'
<1>1. /\ pc # "done" /\ copying = TRUE /\ copying' = FALSE /\ Written
      /\ UNCHANGED <<job, pc, cache, size, seen, gone>> /\ archive' = archive /\ spoiled' = spoiled \cup {Entry.ino}
  <2>1. copying \in BOOLEAN
    BY DEF IInv, Typed, Small
  <2>. QED  BY <2>1 DEF CopyStops, AtData, Spoil
<1>2. todo # <<>>
  BY <1>1 DEF IInv, Waiting
<1>3. spoiled \subseteq spoiled' /\ Entry.ino \in spoiled'
  BY <1>1
<1>4. GoneSpoils'
  BY <1>1, <1>3, GoneStays DEF Safe
<1>. QED  BY <1>1, <1>2, <1>3, <1>4, WrittenKeepsSafe

\* An entry that was held back has the data of its file.
LEMMA HeldHasData ==
    ASSUME work \in Works, Table(cache), NEW i \in Deferred(cache)
    PROVE  IsData(Held(i), i)
<1>1. i \in DOMAIN cache /\ cache[i].entry # <<>>
  BY DEF Deferred
<1>2. strategy = "new_cpio"
  BY <1>1, Zenon DEF Table, Cell
<1>3. PICK h : h.ino = i /\ h.link = NoLink /\ Head(cache[i].entry) = h
  BY <1>1, <1>2, HeldIs
<1>. QED  BY <1>3 DEF Held, IsData

LEMMA TakeKeepsSafe ==
    ASSUME IInv, Safe, pc = "flush", todo = <<>>, NEW i \in Deferred(cache), cache' = Without(cache, i),
           UNCHANGED <<job, pc, copying, archive, size, seen>>,
           \/ todo' = <<Held(i)>> /\ disk'.left = size[i] /\ UNCHANGED <<gone, spoiled>>
           \/ todo' = <<>> /\ GiveUp(Held(i))
    PROVE  Safe'
<1>1. Typed /\ Counts /\ Table(cache) /\ work \in Works /\ Sized /\ Room /\ Carried /\ CachedSeen /\ GoneSpoils
  BY Zenon DEF IInv, Typed, Safe
<1>2. work' = work /\ Paths' = Paths /\ Inodes' = Inodes /\ archive' = archive /\ size' = size /\ seen' = seen
      /\ copying' = FALSE /\ UNCHANGED job
  BY NothingWaits, JobStays
<1>3. PICK h : h = Held(i)
  OBVIOUS
<1>4. IsOwn(h) /\ h.ino = i /\ IsData(h, i) /\ i \in Inodes /\ h.size \in Nat /\ h.link = NoLink /\ h = Head(cache[i].entry)
  <2>1. IsOwn(h) /\ h.ino = i /\ i \in Inodes
    BY <1>1, <1>3, HeldBack, Zenon
  <2>2. IsData(h, i)
    BY <1>1, <1>3, HeldHasData, Zenon
  <2>. QED  BY <1>3, <2>1, <2>2 DEF IsOwn, Entries, IsData, Held
<1>5. /\ GoneSpoils' /\ spoiled \subseteq spoiled'
      /\ \/ todo' = <<h>> /\ disk'.left = size[i] /\ spoiled' = spoiled
         \/ todo' = <<>> /\ i \in spoiled'
  <2>1. CASE todo' = <<Held(i)>> /\ disk'.left = size[i] /\ UNCHANGED <<gone, spoiled>>
    <3>1. UNCHANGED <<job, gone>> /\ spoiled \subseteq spoiled'
      BY <1>2, <2>1
    <3>. QED  BY <1>1, <1>3, <2>1, <3>1, GoneStays
  <2>2. CASE todo' = <<>> /\ GiveUp(Held(i))
    <3>1. GiveUp(h)
      BY <1>3, <2>2
    <3>. QED  BY <1>1, <1>2, <1>4, <2>2, <3>1, GivenUpSpoils
  <2>. QED  BY <2>1, <2>2
<1>6. DOMAIN cache' = DOMAIN cache \ {i} /\ \A j \in DOMAIN cache' : cache'[j] = cache[j]
  BY <1>1, WithoutIs
<1>7. Deferred(cache') = Deferred(cache) \ {i}
  BY <1>6 DEF Deferred
<1>8. FullIn(work.size, spoiled, h)
  BY <1>1, <1>4, Zenon DEF Sized
<1>9. Range(todo') \subseteq {h} /\ (Range(todo') # {} => Range(todo') = {h} /\ disk'.left = size[i] /\ spoiled' = spoiled)
      /\ Len(todo') # 2
  <2>1. Range(<<>>) = {} /\ Range(<<h>>) = {h}
    BY RangesAre
  <2>2. Len(<<>>) # 2 /\ Len(<<h>>) # 2
    OBVIOUS
  <2>. QED  BY <1>5, <2>1, <2>2, Zenon
<1>10. Sized'
  <2>1. \A j \in Deferred(cache') : FullIn(work.size, spoiled', Head(cache'[j].entry))
    <3>1. ASSUME NEW j \in Deferred(cache') PROVE FullIn(work.size, spoiled', Head(cache'[j].entry))
      <4>1. j \in Deferred(cache) /\ cache'[j] = cache[j]
        BY <1>6, <1>7, <3>1 DEF Deferred
      <4>2. FullIn(work.size, spoiled, Head(cache[j].entry))
        BY <1>1, <4>1 DEF Sized
      <4>. QED  BY <1>5, <4>1, <4>2 DEF FullIn
    <3>. QED  BY <3>1
  <2>2. \A e \in Range(todo') : FullIn(work.size, spoiled', e)
    BY <1>5, <1>8, <1>9 DEF FullIn
  <2>3. \A j \in Inodes \ spoiled' : size[j] = work.size[j]
    BY <1>1, <1>5 DEF Sized
  <2>. QED  BY <1>2, <2>1, <2>2, <2>3, Zenon DEF Sized
<1>11. Room'
  <2>1. Done' = 0
    BY <1>2 DEF Done
  <2>2. ASSUME NEW e \in Range(todo'), e.ino \notin spoiled', e.size > 0 PROVE e.size = disk'.left + Done'
    <3>1. e = h /\ disk'.left = size[i] /\ spoiled' = spoiled
      BY <1>9
    <3>2. h.size = work.size[i] /\ size[i] = work.size[i]
      BY <1>1, <1>4, <1>8, <2>2, <3>1 DEF FullIn, Sized
    <3>. QED  BY <1>4, <2>1, <3>1, <3>2
  <2>. QED  BY <1>2, <1>9, <2>2, Zenon DEF Room
<1>12. ASSUME NEW p \in Paths, seen[p] > 0, work.ino[p] \notin spoiled'
       PROVE  Carries(work.size, archive, todo', cache', work.ino[p])
  <2>1. Carries(work.size, archive, todo, cache, work.ino[p])
    <3>1. work.ino[p] \notin spoiled
      BY <1>5, <1>12
    <3>. QED  BY <1>1, <1>12, <3>1, Zenon DEF Carried
  <2>2. ~HasData(todo, work.ino[p])
    BY RangeOfNone DEF HasData
  <2>3. CASE HasWhole(work.size, archive, work.ino[p])
    BY <2>3 DEF Carries
  <2>4. CASE work.ino[p] \in Deferred(cache) /\ work.ino[p] # i
    BY <1>7, <2>4 DEF Carries
  <2>5. CASE work.ino[p] = i
    <3>1. todo' = <<h>>
      BY <1>5, <1>12, <2>5
    <3>2. Range(todo') = {h}
      BY <3>1, RangesAre
    <3>. QED  BY <1>4, <2>5, <3>2 DEF Carries, HasData
  <2>. QED  BY <2>1, <2>2, <2>3, <2>4, <2>5 DEF Carries
<1>13. Carried'
  BY <1>2, <1>12, Zenon DEF Carried
<1>14. CachedSeen'
  BY <1>1, <1>2, <1>6 DEF CachedSeen
<1>. QED  BY <1>5, <1>10, <1>11, <1>13, <1>14, Zenon DEF Safe

LEMMA FlushKeepsSafe ==
    ASSUME IInv, Safe, FlushEntry \/ FlushFails \/ FlushVanished
    PROVE  Safe'
<1>1. CASE FlushEntry
  <2>1. PICK i \in Deferred(cache) :
            /\ Flushing(i) /\ disk' = [state |-> "data", path |-> Held(i).path, left |-> size[i]] /\ todo' = <<Held(i)>>
            /\ KeepFiles /\ UNCHANGED <<argv, pc, walk, copying, archive, return_value, status>>
    BY <1>1, Zenon DEF FlushEntry
  <2>2. pc = "flush" /\ todo = <<>> /\ cache' = Without(cache, i) /\ disk'.left = size[i]
    BY <2>1 DEF Flushing, Take
  <2>3. UNCHANGED <<job, pc, copying, archive, size, seen>> /\ UNCHANGED <<gone, spoiled>>
    BY <2>1 DEF KeepFiles, history
  <2>. QED  BY <2>1, <2>2, <2>3, TakeKeepsSafe
<1>2. CASE FlushFails \/ FlushVanished
  <2>1. PICK i \in Deferred(cache) : Flushing(i) /\ GiveUp(Held(i)) /\ UNCHANGED <<job, pc, todo, copying, archive, size, seen>>
    BY <1>2, Zenon DEF FlushFails, FlushVanished
  <2>2. pc = "flush" /\ todo = <<>> /\ cache' = Without(cache, i) /\ todo' = <<>>
    BY <2>1 DEF Flushing, Take
  <2>3. UNCHANGED <<job, pc, copying, archive, size, seen>>
    BY <2>1
  <2>. QED  BY <2>1, <2>2, <2>3, TakeKeepsSafe
<1>. QED  BY <1>1, <1>2

LEMMA MovesKeepSafe ==
    ASSUME IInv, Safe, Moves
    PROVE  Safe'
<1>1. Typed /\ Waiting /\ Sized /\ Room /\ Carried /\ CachedSeen /\ GoneSpoils
  BY Zenon DEF IInv, Safe
<1>2. Leaves
  BY <1>1, MovesLeave
<1>3. /\ cache' = cache /\ todo' = todo /\ copying' = copying /\ archive' = archive /\ size' = size /\ seen' = seen
      /\ gone' = gone /\ spoiled' = spoiled /\ work' = work /\ Paths' = Paths /\ Inodes' = Inodes
  BY <1>2, JobStays DEF Leaves
<1>4. Sized' /\ Carried' /\ CachedSeen' /\ GoneSpoils'
  BY <1>1, <1>3, Zenon DEF Sized, Carried, CachedSeen, GoneSpoils
<1>5. Room'
  <2>1. Entry' = Entry
    BY <1>3 DEF Entry
  <2>2. pc' \in {"walk", "flush"} => Range(todo') = {}
    BY <1>2, <1>3, RangeOfNone DEF Leaves
  <2>. QED  BY <1>1, <1>3, <2>1, <2>2, Zenon DEF Room
<1>. QED  BY <1>4, <1>5, Zenon DEF Safe

LEMMA ResizeKeepsSafe ==
    ASSUME IInv, Safe, Resize \/ UNCHANGED vars
    PROVE  Safe'
<1>1. Typed /\ Counts /\ Sized /\ Room /\ Carried /\ CachedSeen /\ GoneSpoils
  BY Zenon DEF IInv, Typed, Safe
<1>2. /\ UNCHANGED job /\ pc' = pc /\ disk' = disk /\ cache' = cache /\ todo' = todo
      /\ copying' = copying /\ archive' = archive /\ seen' = seen /\ gone' = gone
  BY DEF Resize, vars, history
<1>3. spoiled \subseteq spoiled' /\ \A i \in Inodes \ spoiled' : size'[i] = size[i]
  <2>1. CASE Resize
    <3>1. PICK i \in Inodes, s \in Sizes : size' = [size EXCEPT ![i] = s] /\ spoiled' = spoiled \cup {i}
      BY <2>1, Zenon DEF Resize, Spoil
    <3>. QED  BY <1>1, <3>1 DEF Counts
  <2>2. CASE UNCHANGED vars
    BY <2>2 DEF vars, history
  <2>. QED  BY <2>1, <2>2
<1>4. work' = work /\ Paths' = Paths /\ Inodes' = Inodes
  BY <1>2, JobStays
<1>5. Sized'
  <2>1. \A e : FullIn(work.size, spoiled, e) => FullIn(work.size, spoiled', e)
    BY <1>3 DEF FullIn
  <2>2. \A i \in Inodes \ spoiled' : size'[i] = work.size[i]
    BY <1>1, <1>3 DEF Sized
  <2>. QED  BY <1>1, <1>2, <1>4, <2>1, <2>2, Zenon DEF Sized
<1>6. Room'
  <2>1. Entry' = Entry /\ Done' = Done
    BY <1>2 DEF Entry, Done, Last
  <2>2. \A e : e.ino \notin spoiled' => e.ino \notin spoiled
    BY <1>3
  <2>. QED  BY <1>1, <1>2, <2>1, <2>2, Zenon DEF Room
<1>7. Carried'
  <2>1. \A p \in Paths : work.ino[p] \notin spoiled' => work.ino[p] \notin spoiled
    BY <1>3
  <2>. QED  BY <1>1, <1>2, <1>4, <2>1, Zenon DEF Carried
<1>8. CachedSeen'
  BY <1>1, <1>2, Zenon DEF CachedSeen
<1>9. GoneSpoils'
  <2>1. UNCHANGED <<job, gone>>
    BY <1>2
  <2>. QED  BY <1>1, <1>3, <2>1, GoneStays
<1>. QED  BY <1>5, <1>6, <1>7, <1>8, <1>9, Zenon DEF Safe

LEMMA NextKeepsSafe ==
    ASSUME IInv, Plan, Safe, [Next]_vars
    PROVE  Safe'
<1>1. CASE Resize \/ UNCHANGED vars
  BY <1>1, ResizeKeepsSafe
<1>2. CASE Moves
  BY <1>2, MovesKeepSafe
<1>3. CASE NextFile
  <2>1. todo = <<>> /\ UNCHANGED <<job, copying, archive, size, gone, spoiled>> /\ pc' = "walk"
    BY <1>3 DEF NextFile
  <2>2. PICK q, e : q \in Paths /\ e = EntryOf(q) /\ seen' = [seen EXCEPT ![q] = @ + 1] /\ Becomes(e, cache', todo') /\ disk'.left = e.size
    BY <1>3, NextFileBecomes, Zenon
  <2>. QED  BY <2>1, <2>2, ReadKeepsSafe
<1>4. CASE AppendEntry \/ AppendUnsized
  BY <1>4, AppendedIs, AppendKeepsSafe, Zenon
<1>5. CASE WriteHeader
  BY <1>5, WriteHeaderKeepsSafe
<1>6. CASE HeaderRefused
  BY <1>6, HeaderRefusedKeepsSafe
<1>7. CASE CopyBlock
  BY <1>7, CopyBlockKeepsSafe
<1>8. CASE CopyEnds
  BY <1>8, CopyEndsKeepsSafe
<1>10. CASE CopyStops
  BY <1>10, CopyStopsKeepsSafe
<1>9. CASE FlushEntry \/ FlushFails \/ FlushVanished
  BY <1>9, FlushKeepsSafe
<1>. QED
  BY <1>1, <1>2, <1>3, <1>4, <1>5, <1>6, <1>7, <1>8, <1>9, <1>10, Zenon DEF Next, Step, Moves

THEOREM SafeHolds == Spec => [](IInv /\ Plan /\ Safe)
<1>1. Init => Plan /\ Safe
  BY PlanAtFirst, SafeAtFirst
<1>2. IInv /\ Plan /\ Safe /\ [Next]_vars => Plan' /\ Safe'
  BY NextKeepsPlan, NextKeepsSafe
<1>. QED  BY InvHolds, <1>1, <1>2, PTL DEF Spec

\* How often a path is in a sequence, and that it is in it.
LEMMA TimesIsThere ==
    ASSUME NEW s, NEW p, Times(s, p) > 0
    PROVE  \E m \in DOMAIN s : s[m].path = p
<1>1. SUFFICES ASSUME \A m \in DOMAIN s : s[m].path # p PROVE FALSE
  OBVIOUS
<1>2. {k \in DOMAIN s : s[k].path = p} = {}
  BY <1>1
<1>3. Times(s, p) = 0
  BY <1>2, FS_EmptySet DEF Times
<1>. QED  BY <1>3

\* Exit code 0 means that every path given is in the archive, and for each file all its data,
\* however many links it has, but for what was refused, had vanished or has changed.
THEOREM ZeroIsArchived == Spec => []ZeroMeansArchived
<1>1. IInv /\ Plan /\ Safe => ZeroMeansArchived
  <2>. SUFFICES ASSUME IInv, Plan, Safe, status = 0,
                       NEW k \in DOMAIN work.args, NEW n \in DOMAIN work.args[k].paths,
                       work.ino[work.args[k].paths[n]] \notin spoiled
                PROVE  LET p == work.args[k].paths[n]
                           ino == work.ino[p]
                       IN  /\ \E m \in DOMAIN archive : archive[m].path = p
                           /\ \E m \in DOMAIN archive : archive[m].ino = ino /\ Whole(archive[m])
    BY Zenon DEF ZeroMeansArchived
  <2>. PICK p, ino : p = work.args[k].paths[n] /\ ino = work.ino[p]
    OBVIOUS
  <2>0. ino \notin spoiled
    BY Zenon
  <2>1. Typed /\ Counts /\ Waiting /\ Staged /\ Taken /\ Carried /\ GoneSpoils /\ work \in Works
    BY Zenon DEF IInv, Typed, Plan, Safe
  <2>2. return_value = 0 /\ argv = <<>> /\ walk = <<>> /\ todo = <<>> /\ Deferred(cache) = {}
    BY <2>1, Zenon DEF Staged
  <2>3. PICK a \in Range(work.args) : a = work.args[k]
    BY DEF Range
  <2>4. p \in Range(a.paths) /\ p \in Paths
    <3>1. p \in Range(a.paths)
      BY <2>3, Zenon DEF Range
    <3>. QED  BY <2>1, <3>1, PathsOfArguments
  <2>5. seen[p] > 0
    <3>1. Range(argv) = {} /\ Range(walk) = {}
      BY <2>2, RangeOfNone
    <3>2. Met(seen, walk, p)
      BY <2>1, <2>2, <2>4, <3>1, Zenon DEF Taken
    <3>. QED  BY <3>1, <3>2 DEF Met
  <2>6. gone[p] = 0
    <3>1. gone[p] \in Nat /\ ~(gone[p] > 0)
      BY <2>1, <2>4 DEF Counts, GoneSpoils
    <3>. QED  BY <3>1
  <2>7. Times(archive, p) > 0
    <3>1. seen[p] = Kept(cache, p) + Times(archive, p) + gone[p]
      BY <2>2, <2>4, NothingWaits
    <3>2. {i \in Deferred(cache) : Head(cache[i].entry).path = p} = {}
      BY <2>2
    <3>3. Kept(cache, p) = 0
      BY <3>2, FS_EmptySet DEF Kept
    <3>4. Times(archive, p) \in Nat
      BY <2>4, BalanceIs
    <3>. QED  BY <2>5, <2>6, <3>1, <3>3, <3>4
  <2>8. HasWhole(work.size, archive, ino)
    <3>1. Carries(work.size, archive, todo, cache, ino)
      BY <2>1, <2>4, <2>5, Zenon DEF Carried
    <3>2. ~HasData(todo, ino)
      BY <2>2, RangeOfNone DEF HasData
    <3>. QED  BY <2>2, <3>1, <3>2 DEF Carries
  <2>9. \E m \in DOMAIN archive : archive[m].ino = ino /\ Whole(archive[m])
    <3>1. \A x : WholeIn(work.size, x) <=> Whole(x)
      BY Zenon DEF WholeIn, Whole
    <3>2. PICK m \in DOMAIN archive : archive[m].ino = ino /\ WholeIn(work.size, archive[m])
      BY <2>8, Zenon DEF HasWhole, Range
    <3>. QED  BY <3>1, <3>2, Zenon
  <2>. QED  BY <2>7, <2>9, TimesIsThere, Zenon
<1>. QED  BY SafeHolds, <1>1, PTL
-----------------------------------------------------------------------------
(* The links, and the files they lead to. *)

\* An entry with data of the file i, under the name p.
Named(s, i, p) == \E e \in Range(s) : IsData(e, i) /\ e.path = p

\* What LinksHaveAFile says of the entry k of s, when t is to be written and c is cached.
DataBefore(s, k) == \E n \in 1 .. k - 1 : IsData(s[n], s[k].ino) /\ s[n].path = s[k].link
DataBehind(s, k, t, c) ==
    (\E n \in k + 1 .. Len(s) : IsData(s[n], s[k].ino)) \/ HasData(t, s[k].ino) \/ s[k].ino \in DOMAIN c
LinkIn(s, k, t, c, bad) ==
    s[k].link # NoLink /\ s[k].ino \notin bad =>
        IF strategy = "new_cpio" THEN DataBehind(s, k, t, c) ELSE DataBefore(s, k)

\* The same of an entry that is still to be written, and of the links that are still to be made.
LinkToCome(s, e, t, c, bad) ==
    e.link # NoLink /\ e.ino \notin bad =>
        IF strategy = "new_cpio" THEN HasData(t, e.ino) \/ e.ino \in DOMAIN c ELSE Named(s, e.ino, e.link)
FirstName(s, t, c, i) ==
    strategy # "new_cpio" => Named(s, i, c[i].canonical) \/ Named(t, i, c[i].canonical)

LinksOf(s, t, c, bad) ==
    /\ \A k \in 1 .. Len(s) : LinkIn(s, k, t, c, bad)
    /\ \A e \in Range(t) : LinkToCome(s, e, t, c, bad)
    /\ \A i \in DOMAIN c \ bad : FirstName(s, t, c, i)
OwnLinks(s) == \A e \in Range(s) : e.link # NoLink => work.ino[e.link] = e.ino

Links ==
    /\ LinksOf(archive, todo, cache, spoiled)
    /\ OwnLinks(archive) /\ OwnLinks(todo)
    /\ Len(todo) = 2 => todo[1].link # NoLink

LEMMA LinksAtFirst == Init => Links
<1>. SUFFICES ASSUME Init PROVE Links
  OBVIOUS
<1>1. archive = <<>> /\ todo = <<>> /\ cache = [i \in {} |-> 0]
  BY Zenon DEF Init
<1>2. Range(archive) = {} /\ Range(todo) = {} /\ DOMAIN cache = {} /\ Len(todo) # 2 /\ 1 .. Len(archive) = {}
  BY <1>1, RangeOfNone
<1>. QED  BY <1>2, Zenon DEF Links, LinksOf, OwnLinks

LEMMA LinksStep ==
    ASSUME UNCHANGED job, LinksOf(archive', todo', cache', spoiled'), OwnLinks(archive'), OwnLinks(todo'),
           Len(todo') = 2 => todo'[1].link # NoLink
    PROVE  Links'
<1>1. work' = work /\ strategy' = strategy
  BY JobStays
<1>. QED  BY <1>1, Zenon DEF Links, LinksOf, OwnLinks, LinkIn, LinkToCome, FirstName

\* Entries that say the same, whatever data they have by now.
Alike(s, u) ==
    /\ DOMAIN s = 1 .. Len(s) /\ DOMAIN u = DOMAIN s /\ Len(u) = Len(s) /\ Len(s) \in Nat
    /\ \A k \in DOMAIN s : u[k].path = s[k].path /\ u[k].ino = s[k].ino /\ u[k].link = s[k].link

LEMMA NamedAlike ==
    ASSUME NEW s, NEW u, NEW i, NEW p, Alike(s, u), Named(s, i, p)
    PROVE  Named(u, i, p)
<1>1. PICK k \in DOMAIN s : IsData(s[k], i) /\ s[k].path = p
  BY DEF Named, Range
<1>. QED  BY <1>1 DEF Named, Range, Alike, IsData

LEMMA LinksAlike ==
    ASSUME NEW s, NEW t, NEW c, NEW bad, LinksOf(s, t, c, bad), NEW u, Alike(s, u), NEW worse, bad \subseteq worse
    PROVE  LinksOf(u, t, c, worse) /\ (OwnLinks(s) => OwnLinks(u))
<1>1. \A k \in 1 .. Len(s) : u[k].path = s[k].path /\ u[k].ino = s[k].ino /\ u[k].link = s[k].link
  BY DEF Alike
<1>2. Len(u) = Len(s) /\ Len(s) \in Nat
  BY DEF Alike
<1>3. \A i, p : Named(s, i, p) => Named(u, i, p)
  BY NamedAlike
<1>4. ASSUME NEW k \in 1 .. Len(u) PROVE LinkIn(u, k, t, c, worse)
  <2>1. LinkIn(s, k, t, c, bad) /\ (u[k].ino \notin worse => s[k].ino \notin bad)
    BY <1>1, <1>2, <1>4 DEF LinksOf
  <2>2. \A n \in 1 .. Len(s) : \A i : IsData(s[n], i) => IsData(u[n], i)
    BY <1>1 DEF IsData
  <2>3. DataBehind(s, k, t, c) => DataBehind(u, k, t, c)
    <3>1. \A n \in k + 1 .. Len(s) : n \in 1 .. Len(s)
      BY <1>2, <1>4
    <3>. QED  BY <1>1, <1>2, <1>4, <2>2, <3>1 DEF DataBehind
  <2>4. DataBefore(s, k) => DataBefore(u, k)
    <3>1. \A n \in 1 .. k - 1 : n \in 1 .. Len(s)
      BY <1>2, <1>4
    <3>. QED  BY <1>1, <1>2, <1>4, <2>2, <3>1 DEF DataBefore
  <2>. QED  BY <1>1, <1>2, <1>4, <2>1, <2>3, <2>4, Zenon DEF LinkIn
<1>5. ASSUME NEW e \in Range(t) PROVE LinkToCome(u, e, t, c, worse)
  <2>1. LinkToCome(s, e, t, c, bad) /\ (e.ino \notin worse => e.ino \notin bad)
    BY DEF LinksOf
  <2>. QED  BY <1>3, <2>1, Zenon DEF LinkToCome
<1>6. ASSUME NEW i \in DOMAIN c \ worse PROVE FirstName(u, t, c, i)
  <2>1. FirstName(s, t, c, i)
    BY DEF LinksOf
  <2>. QED  BY <1>3, <2>1, Zenon DEF FirstName
<1>7. OwnLinks(s) => OwnLinks(u)
  <2>1. ASSUME OwnLinks(s), NEW e \in Range(u), e.link # NoLink PROVE work.ino[e.link] = e.ino
    <3>1. PICK k \in DOMAIN s : e = u[k]
      BY <2>1 DEF Range, Alike
    <3>2. s[k] \in Range(s) /\ s[k].link = e.link /\ s[k].ino = e.ino
      BY <3>1 DEF Range, Alike
    <3>. QED  BY <2>1, <3>2, Zenon DEF OwnLinks
  <2>. QED  BY <2>1, Zenon DEF OwnLinks
<1>. QED  BY <1>4, <1>5, <1>6, <1>7, Zenon DEF LinksOf

LEMMA AlikeItself ==
    ASSUME IInv, archive' = archive
    PROVE  Alike(archive, archive')
<1>1. archive \in Seq(Archived)
  BY Zenon DEF IInv, Typed, ArchiveIs
<1>. QED  BY <1>1 DEF Alike

\* The header that is written, of which the archive has the link then, or the data.
LEMMA LinksAppend ==
    ASSUME NEW S, NEW s \in Seq(S), NEW x \in S, NEW t, NEW c, NEW bad, LinksOf(s, t, c, bad),
           NEW e \in Range(t), x.path = e.path, x.ino = e.ino, x.link = e.link
    PROVE  LinksOf(Append(s, x), t, c, bad)
<1>1. PICK u, l : u = Append(s, x) /\ l = Len(s) + 1
  OBVIOUS
<1>2. Len(s) \in Nat /\ Len(u) = l /\ u[l] = x /\ \A k \in 1 .. Len(s) : u[k] = s[k]
  BY <1>1
<1>3. \A i, p : Named(s, i, p) => Named(u, i, p)
  <2>1. Range(u) = Range(s) \cup {x}
    BY <1>1, RangeAppend
  <2>. QED  BY <2>1, Zenon DEF Named
<1>4. ASSUME NEW k \in 1 .. Len(s) PROVE LinkIn(u, k, t, c, bad)
  <2>1. LinkIn(s, k, t, c, bad) /\ u[k] = s[k]
    BY <1>2, <1>4 DEF LinksOf
  <2>2. DataBehind(s, k, t, c) => DataBehind(u, k, t, c)
    <3>1. \A n \in k + 1 .. Len(s) : n \in 1 .. Len(s) /\ n \in k + 1 .. Len(u)
      BY <1>1, <1>2, <1>4
    <3>. QED  BY <1>2, <2>1, <3>1, Zenon DEF DataBehind
  <2>3. DataBefore(s, k) => DataBefore(u, k)
    <3>1. \A n \in 1 .. k - 1 : n \in 1 .. Len(s)
      BY <1>2, <1>4
    <3>. QED  BY <1>2, <2>1, <3>1, Zenon DEF DataBefore
  <2>. QED  BY <2>1, <2>2, <2>3, Zenon DEF LinkIn
<1>5. LinkIn(u, l, t, c, bad)
  <2>1. LinkToCome(s, e, t, c, bad)
    BY DEF LinksOf
  <2>2. ASSUME Named(s, e.ino, e.link) PROVE DataBefore(u, l)
    <3>1. PICK n \in DOMAIN s : IsData(s[n], e.ino) /\ s[n].path = e.link
      BY <2>2 DEF Named, Range
    <3>2. n \in 1 .. Len(s) /\ n \in 1 .. l - 1
      BY <1>1, <1>2, <3>1
    <3>. QED  BY <1>2, <3>1, <3>2 DEF DataBefore
  <2>3. ASSUME HasData(t, e.ino) \/ e.ino \in DOMAIN c PROVE DataBehind(u, l, t, c)
    BY <1>2, <2>3 DEF DataBehind
  <2>. QED  BY <1>2, <2>1, <2>2, <2>3, Zenon DEF LinkIn, LinkToCome
<1>6. \A y \in Range(t) : LinkToCome(u, y, t, c, bad)
  BY <1>3, Zenon DEF LinksOf, LinkToCome
<1>7. \A i \in DOMAIN c \ bad : FirstName(u, t, c, i)
  BY <1>3, Zenon DEF LinksOf, FirstName
<1>8. \A k \in 1 .. Len(u) : LinkIn(u, k, t, c, bad)
  <2>1. \A k \in 1 .. Len(u) : k \in 1 .. Len(s) \/ k = l
    BY <1>1, <1>2
  <2>. QED  BY <1>4, <1>5, <2>1, Zenon
<1>9. LinksOf(u, t, c, bad)
  BY <1>6, <1>7, <1>8, Zenon DEF LinksOf
<1>. QED  BY <1>1, <1>9

\* The first of the entries is through: the archive ends with it, or it was given up.
Through(s, e, bad) ==
    e.link = NoLink => e.ino \in bad \/ (s # <<>> /\ IsData(s[Len(s)], e.ino) /\ s[Len(s)].path = e.path)
FirstOf(e, t, rest) == Range(t) = {e} \cup Range(rest) /\ (e.link = NoLink => Range(rest) = {})

LEMMA LinksRest ==
    ASSUME NEW S, NEW s \in Seq(S), NEW t, NEW c, NEW bad, LinksOf(s, t, c, bad),
           NEW e, NEW rest, FirstOf(e, t, rest), NEW worse, bad \subseteq worse, Through(s, e, worse)
    PROVE  LinksOf(s, rest, c, worse)
<1>0. /\ Len(s) \in Nat /\ DOMAIN s = 1 .. Len(s)
      /\ Range(t) = {e} \cup Range(rest) /\ (e.link = NoLink => Range(rest) = {})
      /\ e.link = NoLink => e.ino \in worse \/ (s # <<>> /\ IsData(s[Len(s)], e.ino) /\ s[Len(s)].path = e.path)
  BY DEF Through, FirstOf
<1>1. ASSUME NEW i, i \notin worse, HasData(t, i)
      PROVE  HasData(rest, i) \/ (Len(s) \in 1 .. Len(s) /\ IsData(s[Len(s)], i))
  <2>1. PICK y \in Range(t) : IsData(y, i)
    BY <1>1 DEF HasData
  <2>2. CASE y \in Range(rest)
    BY <2>1, <2>2, Zenon DEF HasData
  <2>3. CASE y = e
    <3>1. e.link = NoLink /\ e.ino = i
      BY <2>1, <2>3 DEF IsData
    <3>2. s # <<>> /\ IsData(s[Len(s)], i)
      BY <1>0, <1>1, <3>1
    <3>. QED  BY <1>0, <3>2
  <2>. QED  BY <1>0, <2>1, <2>2, <2>3
<1>2. ASSUME NEW k \in 1 .. Len(s) PROVE LinkIn(s, k, rest, c, worse)
  <2>1. LinkIn(s, k, t, c, bad) /\ (s[k].ino \notin worse => s[k].ino \notin bad)
    BY <1>2 DEF LinksOf
  <2>2. ASSUME s[k].link # NoLink, s[k].ino \notin worse, DataBehind(s, k, t, c) PROVE DataBehind(s, k, rest, c)
    <3>1. CASE HasData(t, s[k].ino)
      <4>1. CASE HasData(rest, s[k].ino)
        BY <4>1 DEF DataBehind
      <4>2. CASE Len(s) \in 1 .. Len(s) /\ IsData(s[Len(s)], s[k].ino)
        <5>1. k # Len(s)
          BY <2>2, <4>2, Zenon DEF IsData
        <5>2. \A l \in Nat : \A m \in 1 .. l : m # l => l \in m + 1 .. l
          OBVIOUS
        <5>3. Len(s) \in k + 1 .. Len(s)
          BY <1>0, <1>2, <5>1, <5>2, Zenon
        <5>. QED  BY <4>2, <5>3, Zenon DEF DataBehind
      <4>. QED  BY <1>1, <2>2, <3>1, <4>1, <4>2
    <3>2. CASE ~HasData(t, s[k].ino)
      BY <2>2, <3>2 DEF DataBehind
    <3>. QED  BY <3>1, <3>2
  <2>. QED  BY <2>1, <2>2, Zenon DEF LinkIn
<1>3. ASSUME NEW y \in Range(rest) PROVE LinkToCome(s, y, rest, c, worse)
  <2>1. LinkToCome(s, y, t, c, bad) /\ (y.ino \notin worse => y.ino \notin bad)
    BY <1>0, <1>3 DEF LinksOf
  <2>2. e.link # NoLink
    BY <1>0, <1>3
  <2>3. HasData(t, y.ino) => HasData(rest, y.ino)
    BY <1>0, <2>2, Zenon DEF HasData, IsData
  <2>. QED  BY <2>1, <2>3, Zenon DEF LinkToCome
<1>4. ASSUME NEW i \in DOMAIN c \ worse PROVE FirstName(s, rest, c, i)
  <2>1. FirstName(s, t, c, i)
    BY DEF LinksOf
  <2>2. ASSUME Named(t, i, c[i].canonical) PROVE Named(s, i, c[i].canonical) \/ Named(rest, i, c[i].canonical)
    <3>1. PICK y \in Range(t) : IsData(y, i) /\ y.path = c[i].canonical
      BY <2>2 DEF Named
    <3>2. CASE y \in Range(rest)
      BY <3>1, <3>2, Zenon DEF Named
    <3>3. CASE y = e
      <4>1. e.link = NoLink /\ e.ino = i /\ i \notin worse
        BY <1>4, <3>1, <3>3 DEF IsData
      <4>2. s # <<>> /\ IsData(s[Len(s)], i) /\ s[Len(s)].path = c[i].canonical
        BY <1>0, <3>1, <3>3, <4>1
      <4>3. Len(s) \in DOMAIN s
        BY <1>0, <4>2
      <4>. QED  BY <4>2, <4>3, Zenon DEF Named, Range
    <3>. QED  BY <1>0, <3>1, <3>2, <3>3
  <2>. QED  BY <2>1, <2>2, Zenon DEF FirstName
<1>. QED  BY <1>2, <1>3, <1>4, Zenon DEF LinksOf

\* A file is read, and the entries that linkify makes of it are to be written.
LEMMA ReadKeepsLinks ==
    ASSUME IInv, Links, todo = <<>>, UNCHANGED <<job, archive>>, spoiled \subseteq spoiled',
           NEW e, IsOwn(e), e.link = NoLink, Becomes(e, cache', todo')
    PROVE  Links'
<1>1. Table(cache) /\ NoLink \notin Paths /\ work \in Works
  BY WorkIs, Zenon DEF IInv, Typed
<1>2. PICK c, t, i, bad : c = cache' /\ t = todo' /\ i = e.ino /\ bad = spoiled'
  OBVIOUS
<1>3. Becomes(e, c, t)
  BY <1>2
<1>4. Range(todo) = {} /\ (\A j : ~HasData(todo, j)) /\ \A j, p : ~Named(todo, j, p)
  BY RangeOfNone DEF HasData, Named
<1>5. ASSUME NEW j, j # i PROVE (j \in DOMAIN c <=> j \in DOMAIN cache) /\ (j \in DOMAIN cache => c[j] = cache[j])
  <2>1. Without(cache, i) = Without(c, i)
    BY <1>2, <1>3, Zenon DEF Becomes
  <2>. QED  BY <1>5, <2>1, SameElsewhere
<1>6. \A x \in Range(t) : x.ino = i /\ (x.link = NoLink => x = e)
  BY <1>2, <1>3, Zenon DEF Becomes
<1>7. ASSUME NEW x \in Range(t), x.link # NoLink
      PROVE  /\ i \in DOMAIN cache /\ x.link = cache[i].canonical
             /\ strategy = "new_cpio" => i \in DOMAIN c \/ e \in Range(t)
  BY <1>2, <1>3, <1>7, Zenon DEF Becomes
<1>8. e \in Range(t) => HasData(t, i)
  BY <1>2 DEF HasData, IsData
<1>9. LinksOf(archive, todo, cache, bad)
  <2>1. LinksOf(archive, todo, cache, spoiled) /\ spoiled \subseteq bad
    BY <1>2 DEF Links
  <2>2. Alike(archive, archive')
    BY AlikeItself
  <2>. QED  BY <2>1, <2>2, LinksAlike
<1>10. ASSUME NEW k \in 1 .. Len(archive) PROVE LinkIn(archive, k, t, c, bad)
  <2>1. LinkIn(archive, k, todo, cache, bad)
    BY <1>10, <1>9 DEF LinksOf
  <2>2. ASSUME strategy = "new_cpio", archive[k].ino \in DOMAIN cache
        PROVE  archive[k].ino \in DOMAIN c \/ HasData(t, archive[k].ino)
    <3>1. CASE archive[k].ino # i
      BY <1>5, <2>2, <3>1
    <3>2. CASE archive[k].ino = i
      <4>1. i \in Deferred(cache)
        <5>1. cache[i].entry # <<>>
          BY <1>1, <2>2, <3>2, HeldIs, Zenon
        <5>. QED  BY <2>2, <3>2, <5>1 DEF Deferred
      <4>2. e \in Range(t) \/ i \in Deferred(c)
        BY <1>2, <1>3, <4>1, Zenon DEF Becomes
      <4>. QED  BY <1>8, <3>2, <4>2 DEF Deferred
    <3>. QED  BY <3>1, <3>2
  <2>3. strategy = "new_cpio" /\ DataBehind(archive, k, todo, cache) => DataBehind(archive, k, t, c)
    BY <1>4, <2>2, Zenon DEF DataBehind
  <2>. QED  BY <2>1, <2>3, Zenon DEF LinkIn
<1>11. ASSUME NEW x \in Range(t) PROVE LinkToCome(archive, x, t, c, bad)
  <2>1. ASSUME x.link # NoLink, x.ino \notin bad, strategy # "new_cpio" PROVE Named(archive, x.ino, x.link)
    <3>1. x.ino = i /\ i \in DOMAIN cache /\ x.link = cache[i].canonical
      BY <1>6, <1>7, <2>1
    <3>2. FirstName(archive, todo, cache, i)
      BY <1>9, <2>1, <3>1 DEF LinksOf
    <3>. QED  BY <1>4, <2>1, <3>1, <3>2, Zenon DEF FirstName
  <2>2. ASSUME x.link # NoLink, strategy = "new_cpio" PROVE HasData(t, x.ino) \/ x.ino \in DOMAIN c
    BY <1>6, <1>7, <1>8, <2>2
  <2>. QED  BY <2>1, <2>2, Zenon DEF LinkToCome
<1>12. ASSUME NEW j \in DOMAIN c \ bad PROVE FirstName(archive, t, c, j)
  <2>1. ASSUME j \in DOMAIN cache, c[j].canonical = cache[j].canonical PROVE FirstName(archive, t, c, j)
    <3>1. FirstName(archive, todo, cache, j)
      BY <1>12, <1>9, <2>1 DEF LinksOf
    <3>. QED  BY <1>4, <2>1, <3>1, Zenon DEF FirstName
  <2>2. CASE j # i
    BY <1>5, <2>1, <2>2
  <2>3. CASE j = i /\ i \in DOMAIN cache
    <3>1. c[i].canonical = cache[i].canonical
      BY <1>2, <1>3, <1>12, <2>3, Zenon DEF Becomes
    <3>. QED  BY <2>1, <2>3, <3>1
  <2>4. CASE j = i /\ i \notin DOMAIN cache
    <3>1. c[i].canonical = e.path /\ (strategy # "new_cpio" => e \in Range(t))
      BY <1>2, <1>3, <1>12, <2>4, Zenon DEF Becomes
    <3>. QED  BY <1>2, <2>4, <3>1, Zenon DEF FirstName, Named, IsData
  <2>. QED  BY <2>2, <2>3, <2>4
<1>13. OwnLinks(t)
  <2>1. ASSUME NEW x \in Range(t), x.link # NoLink PROVE work.ino[x.link] = x.ino
    <3>1. i \in DOMAIN cache /\ x.link = cache[i].canonical /\ x.ino = i
      BY <1>6, <1>7, <2>1
    <3>. QED  BY <1>1, <3>1, Zenon DEF Table, Cell
  <2>. QED  BY <2>1, Zenon DEF OwnLinks
<1>14. Len(t) = 2 => t[1].link # NoLink
  BY <1>3, Zenon DEF Becomes
<1>15. archive' = archive /\ UNCHANGED job /\ OwnLinks(archive)
  BY DEF Links
<1>16. LinksOf(archive, t, c, bad)
  BY <1>10, <1>11, <1>12, Zenon DEF LinksOf
<1>. QED  BY <1>2, <1>13, <1>14, <1>15, <1>16, LinksStep, Zenon

\* Nothing is to be written, and what was held back of a file is, or is given up.
LEMMA TakeKeepsLinks ==
    ASSUME IInv, Links, todo = <<>>, NEW i \in Deferred(cache), cache' = Without(cache, i), UNCHANGED <<job, archive>>,
           \/ todo' = <<Held(i)>> /\ spoiled' = spoiled
           \/ todo' = <<>> /\ spoiled' = spoiled \cup {i}
    PROVE  Links'
<1>1. Table(cache) /\ work \in Works
  BY Zenon DEF IInv, Typed
<1>2. PICK c, t, h : c = Without(cache, i) /\ t = todo' /\ h = Held(i)
  OBVIOUS
<1>3. i \in DOMAIN cache /\ strategy = "new_cpio"
  BY <1>1, Zenon DEF Deferred, Table, Cell
<1>4. IsData(h, i)
  BY <1>1, <1>2, HeldHasData
<1>5. DOMAIN c = DOMAIN cache \ {i}
  BY <1>1, <1>2, WithoutIs
<1>6. spoiled \subseteq spoiled' /\ (HasData(t, i) \/ i \in spoiled')
  <2>1. CASE t = <<h>> /\ spoiled' = spoiled
    <3>1. Range(t) = {h}
      BY <2>1, RangesAre, Zenon
    <3>. QED  BY <1>4, <2>1, <3>1 DEF HasData
  <2>2. CASE t = <<>> /\ spoiled' = spoiled \cup {i}
    BY <2>2
  <2>. QED  BY <1>2, <2>1, <2>2
<1>7. \A j : ~HasData(todo, j)
  BY RangeOfNone DEF HasData
<1>8. ASSUME NEW k \in 1 .. Len(archive) PROVE LinkIn(archive, k, t, c, spoiled')
  <2>1. LinkIn(archive, k, todo, cache, spoiled) /\ (archive[k].ino \notin spoiled' => archive[k].ino \notin spoiled)
    BY <1>6, <1>8 DEF Links, LinksOf
  <2>2. ASSUME archive[k].ino \notin spoiled', DataBehind(archive, k, todo, cache) PROVE DataBehind(archive, k, t, c)
    <3>1. CASE archive[k].ino = i
      BY <1>6, <2>2, <3>1 DEF DataBehind
    <3>2. CASE archive[k].ino # i
      BY <1>5, <1>7, <2>2, <3>2 DEF DataBehind
    <3>. QED  BY <3>1, <3>2
  <2>. QED  BY <1>3, <2>1, <2>2, Zenon DEF LinkIn
<1>9. \A x \in Range(t) : x.link = NoLink
  <2>1. Range(<<>>) = {} /\ Range(<<h>>) = {h}
    BY RangesAre
  <2>. QED  BY <1>2, <1>4, <2>1 DEF IsData
<1>10. LinksOf(archive, t, c, spoiled')
  BY <1>3, <1>8, <1>9, Zenon DEF LinksOf, LinkToCome, FirstName
<1>11. OwnLinks(t) /\ Len(t) # 2
  <2>1. Len(<<h>>) # 2 /\ Len(<<>>) # 2
    OBVIOUS
  <2>. QED  BY <1>2, <1>9, <2>1 DEF OwnLinks
<1>12. archive' = archive /\ cache' = c /\ todo' = t /\ UNCHANGED job /\ OwnLinks(archive)
  BY <1>2 DEF Links
<1>. QED  BY <1>10, <1>11, <1>12, LinksStep, Zenon

\* A step of which the archive, the entries to come and the table say the same afterwards.
LEMMA StayKeepsLinks ==
    ASSUME IInv, Links, UNCHANGED <<job, cache, todo>>, Alike(archive, archive'), spoiled \subseteq spoiled'
    PROVE  Links'
<1>1. PICK u, worse : u = archive' /\ worse = spoiled'
  OBVIOUS
<1>2. LinksOf(u, todo, cache, worse) /\ OwnLinks(u)
  BY <1>1, LinksAlike, Zenon DEF Links
<1>3. OwnLinks(todo) /\ (Len(todo) = 2 => todo[1].link # NoLink)
  BY DEF Links
<1>4. cache' = cache /\ todo' = todo /\ UNCHANGED job
  OBVIOUS
<1>. QED  BY <1>1, <1>2, <1>3, <1>4, LinksStep, Zenon

\* The first entry is through: it is the last of the archive, or was given up.
LEMMA WrittenKeepsLinks ==
    ASSUME IInv, UNCHANGED <<job, cache>>, todo # <<>>, pc # "done", todo' = Tail(todo),
           LinksOf(archive', todo, cache, spoiled), OwnLinks(archive'), OwnLinks(todo), Len(todo) = 2 => todo[1].link # NoLink,
           archive' \in Seq(Archived), spoiled \subseteq spoiled',
           Entry.link = NoLink => \/ Entry.ino \in spoiled'
                                  \/ archive' # <<>> /\ IsData(archive'[Last'], Entry.ino) /\ archive'[Last'].path = Entry.path
    PROVE  Links'
<1>1. todo \in Seq(Entries) /\ Queued(todo)
  BY Zenon DEF IInv, Typed, Queued
<1>2. PICK s, t, e, worse : s = archive' /\ t = Tail(todo) /\ e = Entry /\ worse = spoiled'
  OBVIOUS
<1>3. Range(todo) = {e} \cup Range(t) /\ e = todo[1]
  <2>1. Entry = todo[1]
    BY EntryToWrite
  <2>. QED  BY <1>1, <1>2, <2>1, RestIs DEF Entry
<1>4. (t # <<>> => Len(todo) = 2) /\ Len(t) # 2
  <2>1. Queued(t) /\ Len(t) <= 1 /\ (t # <<>> => Len(todo) = 2)
    BY <1>1, <1>2, TailIs
  <2>2. Len(t) \in Nat
    BY <2>1 DEF Queued
  <2>3. \A l \in Nat : l <= 1 => l # 2
    OBVIOUS
  <2>. QED  BY <2>1, <2>2, <2>3, Zenon
<1>5. FirstOf(e, todo, t)
  BY <1>3, <1>4, RangeOfNone DEF FirstOf
<1>6. s \in Seq(Archived)
  BY <1>2
<1>7. Through(s, e, worse)
  BY <1>2, Zenon DEF Last, Through
<1>8. LinksOf(s, t, cache, worse)
  <2>1. LinksOf(s, todo, cache, spoiled) /\ spoiled \subseteq worse
    BY <1>2
  <2>. QED  BY <1>5, <1>6, <1>7, <2>1, LinksRest, Zenon
<1>9. OwnLinks(t)
  BY <1>3, Zenon DEF OwnLinks
<1>10. cache' = cache /\ UNCHANGED job
  OBVIOUS
<1>. QED  BY <1>2, <1>4, <1>8, <1>9, <1>10, LinksStep, Zenon

LEMMA WriteHeaderKeepsLinks ==
    ASSUME IInv, Links, WriteHeader
    PROVE  Links'
<1>1. Typed /\ Small /\ Queued(todo) /\ ArchiveIs /\ work \in Works
  BY Zenon DEF IInv, Typed
<1>2. /\ pc # "done" /\ todo # <<>> /\ UNCHANGED <<job, cache>> /\ spoiled' = spoiled
      /\ todo' = todo \/ todo' = Tail(todo)
  BY DEF WriteHeader, AtHeader, KeepFiles, history, Written
<1>3. PICK x : x = [path |-> Entry.path, ino |-> Entry.ino, size |-> Entry.size, link |-> Entry.link, data |-> <<>>]
  OBVIOUS
<1>4. archive' = Append(archive, x)
  BY <1>3, Zenon DEF WriteHeader
<1>5. IsOwn(Entry) /\ Entry \in Range(todo)
  <2>1. todo \in Seq(Entries)
    BY <1>1 DEF Queued
  <2>. QED  BY <1>2, <2>1, EntryToWrite, RestIs DEF Entry
<1>6. x \in Archived /\ x.path = Entry.path /\ x.ino = Entry.ino /\ x.link = Entry.link
  BY <1>3, <1>5 DEF IsOwn, Entries, Archived
<1>7. archive \in Seq(Archived)
  BY <1>1 DEF ArchiveIs
<1>8. PICK u : u = archive'
  OBVIOUS
<1>9. LinksOf(u, todo, cache, spoiled)
  <2>1. LinksOf(archive, todo, cache, spoiled)
    BY DEF Links
  <2>2. LinksOf(Append(archive, x), todo, cache, spoiled)
    BY <1>5, <1>6, <1>7, <2>1, LinksAppend
  <2>. QED  BY <1>4, <1>8, <2>2
<1>10. u \in Seq(Archived) /\ u # <<>> /\ u[Len(u)] = x /\ Range(u) = Range(archive) \cup {x}
  <2>1. Range(Append(archive, x)) = Range(archive) \cup {x}
    BY <1>6, <1>7, RangeAppend
  <2>. QED  BY <1>4, <1>6, <1>7, <1>8, <2>1
<1>11. OwnLinks(u)
  <2>1. Entry.link # NoLink => work.ino[Entry.link] = Entry.ino
    BY <1>5 DEF Links, OwnLinks
  <2>2. OwnLinks(archive)
    BY DEF Links
  <2>. QED  BY <1>6, <1>10, <2>1, <2>2, Zenon DEF OwnLinks
<1>12. CASE todo' = todo
  <2>1. OwnLinks(todo) /\ (Len(todo) = 2 => todo[1].link # NoLink)
    BY DEF Links
  <2>. QED  BY <1>2, <1>8, <1>9, <1>11, <1>12, <2>1, LinksStep, Zenon
<1>13. CASE todo' = Tail(todo)
  <2>1. OwnLinks(todo) /\ (Len(todo) = 2 => todo[1].link # NoLink) /\ spoiled \subseteq spoiled'
    BY <1>2 DEF Links
  <2>2. Entry.link = NoLink => archive' # <<>> /\ IsData(archive'[Last'], Entry.ino) /\ archive'[Last'].path = Entry.path
    <3>1. archive'[Last'] = x
      BY <1>8, <1>10 DEF Last
    <3>. QED  BY <1>6, <1>8, <1>10, <3>1, Zenon DEF IsData
  <2>3. LinksOf(archive', todo, cache, spoiled) /\ OwnLinks(archive') /\ archive' \in Seq(Archived)
    BY <1>8, <1>9, <1>10, <1>11
  <2>. QED  BY <1>2, <1>13, <2>1, <2>2, <2>3, WrittenKeepsLinks, Zenon
<1>. QED  BY <1>2, <1>12, <1>13

LEMMA OthersKeepLinks ==
    ASSUME IInv, Links, HeaderRefused \/ CopyEnds \/ CopyStops
    PROVE  Links'
<1>1. Typed /\ Small /\ Waiting /\ ArchiveIs
  BY Zenon DEF IInv, Typed
<1>2. pc # "done" /\ todo # <<>> /\ UNCHANGED <<job, cache>> /\ todo' = Tail(todo) /\ archive' = archive
  BY <1>1 DEF HeaderRefused, AtHeader, CopyEnds, CopyStops, AtData, Written, KeepFiles, Waiting
<1>3. /\ spoiled \subseteq spoiled'
      /\ Entry.link = NoLink => \/ Entry.ino \in spoiled'
                                \/ archive' # <<>> /\ IsData(archive'[Last'], Entry.ino) /\ archive'[Last'].path = Entry.path
  <2>1. CASE HeaderRefused
    BY <2>1 DEF HeaderRefused, GiveUp, Spoil
  <2>2. CASE CopyStops
    BY <2>2 DEF CopyStops, Spoil
  <2>3. CASE CopyEnds
    <3>1. copying /\ spoiled' = spoiled
      BY <2>3 DEF CopyEnds, AtData, KeepFiles, history
    <3>2. /\ archive # <<>> /\ archive[Last].path = Entry.path /\ archive[Last].ino = Entry.ino /\ archive[Last].link = Entry.link
      BY <1>1, <3>1 DEF Waiting
    <3>3. Last' = Last
      BY <1>2 DEF Last
    <3>. QED  BY <1>2, <3>1, <3>2, <3>3, Zenon DEF IsData
  <2>. QED  BY <2>1, <2>2, <2>3
<1>4. LinksOf(archive, todo, cache, spoiled) /\ OwnLinks(archive) /\ OwnLinks(todo) /\ (Len(todo) = 2 => todo[1].link # NoLink)
  BY DEF Links
<1>5. archive' \in Seq(Archived)
  BY <1>1, <1>2 DEF ArchiveIs
<1>. QED  BY <1>2, <1>3, <1>4, <1>5, WrittenKeepsLinks

LEMMA NextKeepsLinks ==
    ASSUME IInv, Plan, Links, [Next]_vars
    PROVE  Links'
<1>1. Typed /\ Waiting /\ work \in Works /\ Counts /\ Table(cache)
  BY Zenon DEF IInv, Typed
<1>2. CASE Resize \/ Moves \/ UNCHANGED vars
  <2>1. UNCHANGED <<job, cache, todo, archive>> /\ spoiled \subseteq spoiled'
    <3>1. CASE Moves
      <4>1. Leaves
        BY <1>1, <3>1, MovesLeave
      <4>. QED  BY <4>1 DEF Leaves
    <3>2. CASE Resize \/ UNCHANGED vars
      BY <3>2 DEF Resize, Spoil, vars, history
    <3>. QED  BY <1>2, <3>1, <3>2
  <2>. QED  BY <2>1, AlikeItself, StayKeepsLinks
<1>3. ASSUME NEW q \in Paths, NEW e, e = EntryOf(q) PROVE IsOwn(e) /\ e.link = NoLink
  <2>1. size \in [Inodes -> Nat]
    BY <1>1 DEF Counts
  <2>. QED  BY <1>1, <1>3, <2>1, EntryIs, Zenon
<1>4. CASE NextFile
  <2>1. todo = <<>> /\ UNCHANGED <<job, archive, spoiled>>
    BY <1>4 DEF NextFile
  <2>2. PICK q, e : q \in Paths /\ e = EntryOf(q) /\ Becomes(e, cache', todo')
    BY <1>4, NextFileBecomes, Zenon
  <2>. QED  BY <1>3, <2>1, <2>2, ReadKeepsLinks
<1>5. CASE AppendEntry \/ AppendUnsized
  <2>1. PICK e : Appends(e)
    BY <1>5, AppendedIs, Zenon
  <2>2. todo = <<>> /\ UNCHANGED <<job, archive>> /\ spoiled \subseteq spoiled'
    BY <2>1 DEF Appends
  <2>3. IsOwn(e) /\ e.link = NoLink
    BY <2>1, AppendedEntryIs, Zenon
  <2>4. Becomes(e, cache', todo')
    BY <2>1, AppendBecomes, Zenon
  <2>. QED  BY <2>2, <2>3, <2>4, ReadKeepsLinks
<1>6. CASE WriteHeader
  BY <1>6, WriteHeaderKeepsLinks
<1>7. CASE HeaderRefused \/ CopyEnds \/ CopyStops
  BY <1>7, OthersKeepLinks
<1>8. CASE CopyBlock
  <2>1. UNCHANGED <<job, cache, todo>> /\ spoiled \subseteq spoiled'
    BY <1>8, BlockCopied
  <2>2. PICK l, a, b, d : Block(l, a, b, d)
    BY <1>8, BlockCopied
  <2>3. Alike(archive, archive')
    <3>1. /\ l = Len(archive) /\ archive \in Seq(Archived) /\ l \in DOMAIN archive /\ archive[l] = a /\ archive'[l] = b
          /\ b.path = a.path /\ b.ino = a.ino /\ b.link = a.link /\ Len(archive') = l /\ DOMAIN archive' = DOMAIN archive
          /\ \A k \in DOMAIN archive : k # l => archive'[k] = archive[k]
      BY <2>2, Zenon DEF Block
    <3>2. DOMAIN archive = 1 .. Len(archive) /\ Len(archive) \in Nat
      BY <3>1
    <3>3. ASSUME NEW k \in DOMAIN archive
          PROVE  archive'[k].path = archive[k].path /\ archive'[k].ino = archive[k].ino /\ archive'[k].link = archive[k].link
      <4>1. CASE k = l
        BY <3>1, <4>1, Zenon
      <4>2. CASE k # l
        BY <3>1, <4>2, Zenon
      <4>. QED  BY <4>1, <4>2
    <3>. QED  BY <3>1, <3>2, <3>3, Zenon DEF Alike
  <2>. QED  BY <2>1, <2>3, StayKeepsLinks
<1>9. CASE FlushEntry \/ FlushFails \/ FlushVanished
  <2>1. PICK i \in Deferred(cache) :
            /\ Flushing(i) /\ UNCHANGED <<job, archive>>
            /\ \/ todo' = <<Held(i)>> /\ KeepFiles
               \/ todo' = todo /\ GiveUp(Held(i))
    BY <1>9, Zenon DEF FlushEntry, FlushFails, FlushVanished, KeepFiles
  <2>2. todo = <<>> /\ cache' = Without(cache, i) /\ UNCHANGED <<job, archive>>
    BY <2>1 DEF Flushing, Take
  <2>3. Held(i).ino = i
    BY <1>1, HeldBack, Zenon
  <2>4. \/ todo' = <<Held(i)>> /\ spoiled' = spoiled
        \/ todo' = <<>> /\ spoiled' = spoiled \cup {i}
    BY <2>1, <2>2, <2>3 DEF KeepFiles, history, GiveUp, Spoil
  <2>. QED  BY <2>2, <2>4, TakeKeepsLinks
<1>. QED
  BY <1>2, <1>4, <1>5, <1>6, <1>7, <1>8, <1>9, Zenon DEF Next, Step, Moves

-----------------------------------------------------------------------------
(* One copy for all the links of a file. *)

\* The times that the names of the file i were read.
SeenSet(read, i) == UNION {{p} \X (1 .. read[p]) : p \in Visits(i)}
Finitely(read) == \A i \in Inodes : IsFiniteSet(SeenSet(read, i))

\* The copies of the data of i that there are or will be, and what may be read yet for them.
Copies(s, t, c, i) == DataAt(s, i) + DataAt(t, i) + HeldAt(c, i)
Late(stage) == stage \in {"flush", "close", "done"}
StillFree(stage, c, i) == IF Late(stage) THEN work.nlink[i] - 1 ELSE ToCome(c, i)
Paid(s, t, c, stage, n, i) ==
    /\ ToCome(c, i) < work.nlink[i]
    /\ work.nlink[i] * Copies(s, t, c, i) <= n + StillFree(stage, c, i)
AllPaid(s, t, c, stage, read) == \A i \in Inodes : Paid(s, t, c, stage, Cardinality(SeenSet(read, i)), i)

Careful == faults = 0 /\ strategy \in {"tar", "new_cpio"}
Shared == Finitely(seen) /\ (Careful => AllPaid(archive, Pending, cache, pc, seen))

\* The path q is read once more.
OnceMore(read, q, later) ==
    read[q] \in Nat /\ later[q] = read[q] + 1 /\ \A p \in Paths : p # q => later[p] = read[p]

OneMoreIn(S, T) == \E x : x \notin S /\ T = S \cup {x}
Grown(read, q, later, i) ==
    IF work.ino[q] = i THEN OneMoreIn(SeenSet(read, i), SeenSet(later, i)) ELSE SeenSet(later, i) = SeenSet(read, i)

LEMMA SeenMore ==
    ASSUME NEW read, NEW q \in Paths, NEW later, OnceMore(read, q, later), NEW i
    PROVE  Grown(read, q, later, i)
<1>1. later[q] = read[q] + 1 /\ read[q] \in Nat /\ \A p \in Paths : p # q => later[p] = read[p]
  BY DEF OnceMore
<1>2. \A r, x : x \in SeenSet(r, i) <=> \E p \in Visits(i) : x \in {p} \X (1 .. r[p])
  BY DEF SeenSet
<1>3. \A p \in Visits(i) : p \in Paths /\ (p # q => {p} \X (1 .. later[p]) = {p} \X (1 .. read[p]))
  BY <1>1, Zenon DEF Visits
<1>4. work.ino[q] # i => SeenSet(later, i) = SeenSet(read, i)
  <2>1. work.ino[q] # i => \A p \in Visits(i) : p # q
    BY Zenon DEF Visits
  <2>2. ASSUME work.ino[q] # i, NEW x PROVE x \in SeenSet(later, i) <=> x \in SeenSet(read, i)
    <3>1. \A p \in Visits(i) : {p} \X (1 .. later[p]) = {p} \X (1 .. read[p])
      BY <1>3, <2>1, <2>2, Zenon
    <3>2. ASSUME x \in SeenSet(later, i) PROVE x \in SeenSet(read, i)
      <4>1. PICK p \in Visits(i) : x \in {p} \X (1 .. later[p])
        BY <1>2, <3>2, Zenon
      <4>. QED  BY <1>2, <3>1, <4>1, Zenon
    <3>3. ASSUME x \in SeenSet(read, i) PROVE x \in SeenSet(later, i)
      <4>1. PICK p \in Visits(i) : x \in {p} \X (1 .. read[p])
        BY <1>2, <3>3, Zenon
      <4>. QED  BY <1>2, <3>1, <4>1, Zenon
    <3>. QED  BY <3>2, <3>3
  <2>. QED  BY <2>2
<1>5. ASSUME work.ino[q] = i
      PROVE  OneMoreIn(SeenSet(read, i), SeenSet(later, i))
  <2>1. PICK m, x : m = read[q] + 1 /\ x = <<q, m>>
    OBVIOUS
  <2>2. q \in Visits(i)
    BY <1>5 DEF Visits
  <2>3. 1 .. later[q] = (1 .. read[q]) \cup {m} /\ m \notin 1 .. read[q]
    BY <1>1, <2>1
  <2>4. {q} \X (1 .. later[q]) = ({q} \X (1 .. read[q])) \cup {x}
    BY <2>1, <2>3
  <2>5. \A p \in Visits(i) : x \notin {p} \X (1 .. read[p])
    BY <2>1, <2>3
  <2>6. x \notin SeenSet(read, i)
    BY <1>2, <2>5, Zenon
  <2>7. \A y : y \in SeenSet(later, i) <=> y \in SeenSet(read, i) \/ y = x
    <3>1. ASSUME NEW y \in SeenSet(later, i) PROVE y \in SeenSet(read, i) \/ y = x
      <4>1. PICK p \in Visits(i) : y \in {p} \X (1 .. later[p])
        BY <1>2, <3>1, Zenon
      <4>2. y \in {p} \X (1 .. read[p]) \/ y = x
        <5>1. CASE p = q
          BY <2>4, <4>1, <5>1
        <5>2. CASE p # q
          BY <1>3, <4>1, <5>2, Zenon
        <5>. QED  BY <5>1, <5>2
      <4>. QED  BY <1>2, <4>2, Zenon
    <3>2. ASSUME NEW y \in SeenSet(read, i) PROVE y \in SeenSet(later, i)
      <4>1. PICK p \in Visits(i) : y \in {p} \X (1 .. read[p])
        BY <1>2, <3>2, Zenon
      <4>2. y \in {p} \X (1 .. later[p])
        <5>1. CASE p = q
          BY <2>4, <4>1, <5>1
        <5>2. CASE p # q
          BY <1>3, <4>1, <5>2, Zenon
        <5>. QED  BY <5>1, <5>2
      <4>. QED  BY <1>2, <4>2, Zenon
    <3>3. x \in SeenSet(later, i)
      <4>1. x \in {q} \X (1 .. later[q])
        BY <2>4
      <4>. QED  BY <1>2, <2>2, <4>1, Zenon
    <3>. QED  BY <3>1, <3>2, <3>3, Zenon
  <2>8. SeenSet(later, i) = SeenSet(read, i) \cup {x}
    BY <2>7
  <2>. QED  BY <2>6, <2>8 DEF OneMoreIn
<1>. QED  BY <1>4, <1>5 DEF Grown

LEMMA SeenGrows ==
    ASSUME Finitely(seen), seen \in [Paths -> Nat], NEW q \in Paths, seen' = [seen EXCEPT ![q] = @ + 1], NEW i \in Inodes
    PROVE  /\ IsFiniteSet(SeenSet(seen', i)) /\ Cardinality(SeenSet(seen, i)) \in Nat
           /\ Cardinality(SeenSet(seen', i)) = Cardinality(SeenSet(seen, i)) + (IF work.ino[q] = i THEN 1 ELSE 0)
<1>1. IsFiniteSet(SeenSet(seen, i)) /\ Cardinality(SeenSet(seen, i)) \in Nat
  BY FS_CardinalityType DEF Finitely
<1>2. PICK read, later : read = seen /\ later = seen'
  OBVIOUS
<1>3. IF work.ino[q] = i THEN OneMoreIn(SeenSet(read, i), SeenSet(later, i)) ELSE SeenSet(later, i) = SeenSet(read, i)
  <2>1. OnceMore(read, q, later)
    BY <1>2 DEF OnceMore
  <2>2. Grown(read, q, later, i)
    BY <2>1, SeenMore, Zenon
  <2>. QED  BY <2>2, Zenon DEF Grown
<1>4. CASE work.ino[q] # i
  BY <1>1, <1>2, <1>3, <1>4
<1>5. CASE work.ino[q] = i
  <2>1. PICK x : x \notin SeenSet(read, i) /\ SeenSet(later, i) = SeenSet(read, i) \cup {x}
    BY <1>3, <1>5 DEF OneMoreIn
  <2>2. IsFiniteSet(SeenSet(read, i) \cup {x}) /\ Cardinality(SeenSet(read, i) \cup {x}) = Cardinality(SeenSet(read, i)) + 1
    BY <1>1, <1>2, <2>1, FS_AddElement
  <2>. QED  BY <1>1, <1>2, <1>5, <2>1, <2>2
<1>. QED  BY <1>4, <1>5

\* The numbers that Paid is about.
LEMMA NumbersAre ==
    ASSUME work \in Works, NEW c, Table(c), NEW i \in Inodes
    PROVE  work.nlink[i] \in Nat \ {0} /\ ToCome(c, i) \in Nat /\ HeldAt(c, i) \in {0, 1}
<1>1. work.nlink[i] \in Nat \ {0}
  BY WorkIs
<1>2. ToCome(c, i) \in Nat
  BY DEF Table, CacheEntries, ToCome
<1>. QED  BY <1>1, <1>2 DEF HeldAt

LEMMA SharedAtFirst == Init => Shared
<1>. SUFFICES ASSUME Init PROVE Shared
  OBVIOUS
<1>1. /\ archive = <<>> /\ todo = <<>> /\ copying = FALSE /\ cache = [i \in {} |-> 0] /\ pc = "args"
      /\ seen = [p \in Paths |-> 0] /\ work \in Works
  BY Zenon DEF Init
<1>2. ASSUME NEW i \in Inodes PROVE SeenSet(seen, i) = {}
  <2>1. \A p \in Visits(i) : {p} \X (1 .. seen[p]) = {}
    BY <1>1 DEF Visits
  <2>. QED  BY <2>1, Zenon DEF SeenSet
<1>3. Finitely(seen)
  BY <1>2, FS_EmptySet DEF Finitely
<1>4. ASSUME NEW i \in Inodes PROVE Paid(archive, Pending, cache, pc, Cardinality(SeenSet(seen, i)), i)
  <2>1. DataAt(archive, i) = 0 /\ DataAt(Pending, i) = 0
    BY <1>1, DataShort, Zenon DEF Pending
  <2>2. HeldAt(cache, i) = 0 /\ ToCome(cache, i) = 0
    BY <1>1 DEF HeldAt, ToCome, Deferred
  <2>3. Copies(archive, Pending, cache, i) = 0
    BY <2>1, <2>2 DEF Copies
  <2>4. StillFree(pc, cache, i) = 0
    BY <1>1, <2>2 DEF StillFree, Late
  <2>5. work.nlink[i] \in Nat \ {0}
    BY <1>1, WorkIs
  <2>6. Cardinality(SeenSet(seen, i)) = 0
    BY <1>2, FS_EmptySet
  <2>7. work.nlink[i] * 0 = 0
    BY <2>5
  <2>. QED  BY <2>2, <2>3, <2>4, <2>5, <2>6, <2>7 DEF Paid
<1>. QED  BY <1>3, <1>4 DEF Shared, AllPaid

LEMMA CarefulStays ==
    ASSUME Small, UNCHANGED job
    PROVE  (Fault => ~Careful') /\ (NoFault => Careful' = Careful)
<1>1. strategy' = strategy
  BY JobStays
<1>2. faults \in Nat
  BY WorksAssumption DEF Small, WorksAssumption
<1>3. Fault => faults' # 0
  BY <1>2 DEF Fault
<1>. QED  BY <1>1, <1>3 DEF Careful, NoFault

LEMMA SharedStep ==
    ASSUME UNCHANGED job, Finitely(seen'), Careful' => AllPaid(archive', Pending', cache', pc', seen')
    PROVE  Shared'
<1>1. work' = work /\ Inodes' = Inodes /\ Paths' = Paths
  BY JobStays
<1>2. Finitely(seen)'
  BY <1>1, Zenon DEF Finitely, SeenSet, Visits
<1>3. AllPaid(archive', Pending', cache', pc', seen') => AllPaid(archive, Pending, cache, pc, seen)'
  BY <1>1, Zenon DEF AllPaid, Paid, StillFree, SeenSet, Visits
<1>. QED  BY <1>2, <1>3, Zenon DEF Shared

\* A file is read, and pays for the copy of its data or is one of the links that do.
LEMMA ReadKeepsShared ==
    ASSUME IInv, Shared, todo = <<>>, UNCHANGED <<job, archive, copying, pc>>, Fault \/ NoFault, ~Late(pc),
           NEW q \in Paths, seen' = [seen EXCEPT ![q] = @ + 1], Table(cache'), Queued(todo'),
           NEW e, e.ino = work.ino[q], Becomes(e, cache', todo'),
           NoFault /\ strategy # "old_cpio" => Pays(e, cache', todo')
    PROVE  Shared'
<1>1. Small /\ Counts /\ Table(cache) /\ ArchiveIs /\ work \in Works
  BY Zenon DEF IInv, Typed
<1>2. seen \in [Paths -> Nat] /\ Finitely(seen)
  BY <1>1 DEF Counts, Shared
<1>3. copying = FALSE /\ Pending = todo /\ Pending' = todo'
  BY NothingWaits DEF Pending
<1>4. Finitely(seen')
  <2>1. ASSUME NEW i \in Inodes PROVE IsFiniteSet(SeenSet(seen', i))
    BY <1>2, SeenGrows
  <2>. QED  BY <2>1 DEF Finitely
<1>5. ASSUME Careful' PROVE AllPaid(archive', Pending', cache', pc', seen')
  <2>1. Careful /\ NoFault /\ strategy # "old_cpio"
    BY <1>1, <1>5, CarefulStays DEF Careful
  <2>2. AllPaid(archive, Pending, cache, pc, seen)
    BY <2>1, Zenon DEF Shared
  <2>3. Pays(e, cache', todo')
    BY <2>1
  <2>4. ASSUME NEW i \in Inodes PROVE Paid(archive', Pending', cache', pc', Cardinality(SeenSet(seen', i)), i)
    <3>1. PICK n, m, l, a, t, c, z : /\ n = Cardinality(SeenSet(seen, i)) /\ m = Cardinality(SeenSet(seen', i))
                                     /\ l = work.nlink[i] /\ a = DataAt(archive, i) /\ t = DataAt(todo', i)
                                     /\ c = HeldAt(cache, i) /\ z = HeldAt(cache', i)
      BY Zenon
    <3>2. PICK v, w : v = ToCome(cache, i) /\ w = ToCome(cache', i)
      BY Zenon
    <3>3. n \in Nat /\ m = n + (IF work.ino[q] = i THEN 1 ELSE 0)
      BY <1>2, <3>1, SeenGrows
    <3>4. l \in Nat \ {0} /\ c \in {0, 1} /\ v \in Nat
      BY <1>1, <3>1, <3>2, NumbersAre
    <3>5. z \in {0, 1} /\ w \in Nat
      BY <1>1, <3>1, <3>2, NumbersAre
    <3>6. a \in Nat /\ t \in Nat
      <4>1. archive \in Seq(Archived) /\ todo' \in Seq(Entries)
        BY <1>1 DEF ArchiveIs, Queued
      <4>. QED  BY <3>1, <4>1, DataIsNat
    <3>7. v < l /\ l * (a + c) <= n + v
      <4>1. DataAt(todo, i) = 0
        BY DataShort
      <4>2. Paid(archive, todo, cache, pc, n, i)
        BY <1>3, <2>2, <3>1 DEF AllPaid
      <4>3. a + 0 + c = a + c
        BY <3>4, <3>6
      <4>4. StillFree(pc, cache, i) = v
        BY <3>2, Zenon DEF StillFree
      <4>. QED  BY <3>1, <3>2, <4>1, <4>2, <4>3, <4>4, Zenon DEF Paid, Copies
    <3>8. w < l /\ l * (a + t + z) <= m + w
      <4>1. CASE i # e.ino
        <5>1. t = 0
          <6>1. \A x \in Range(todo') : x.ino = e.ino
            BY Zenon DEF Becomes
          <6>2. {k \in DOMAIN todo' : IsData(todo'[k], i)} = {}
            BY <4>1, <6>1 DEF IsData, Range
          <6>. QED  BY <3>1, <6>2, FS_EmptySet DEF DataAt
        <5>2. (i \in DOMAIN cache' <=> i \in DOMAIN cache) /\ (i \in DOMAIN cache => cache'[i] = cache[i])
              /\ (i \in Deferred(cache') <=> i \in Deferred(cache))
          <6>1. PICK d, j : d = cache' /\ j = e.ino
            OBVIOUS
          <6>2. Without(cache, j) = Without(d, j) /\ i # j
            BY <4>1, <6>1, Zenon DEF Becomes
          <6>. QED  BY <6>1, <6>2, SameElsewhere
        <5>3. w = v /\ z = c
          BY <3>1, <3>2, <5>2, Zenon DEF ToCome, HeldAt
        <5>4. m = n
          BY <3>3, <4>1
        <5>. QED  BY <3>4, <3>6, <3>7, <5>1, <5>3, <5>4
      <4>2. CASE i = e.ino
        <5>1. m = n + 1
          BY <3>3, <4>2
        <5>2. \/ l = 1 /\ cache' = cache /\ t = 1
              \/ t + z = c + 1 /\ v = 0 /\ w = l - 1
              \/ t + z = c /\ w = v - 1
          BY <2>3, <3>1, <3>2, <4>2, Zenon DEF Pays
        <5>3. l * (a + c + 1) = l * (a + c) + l
          BY <3>4, <3>6
        <5>4. CASE l = 1 /\ cache' = cache /\ t = 1
          <6>1. w = v /\ z = c
            BY <3>1, <3>2, <5>4
          <6>2. a + t + z = a + c + 1
            BY <3>4, <3>6, <5>4, <6>1
          <6>3. PICK x, y \in Nat : x = l * (a + c) /\ y = l * (a + c + 1)
            BY <3>4, <3>6
          <6>4. y = x + 1 /\ x <= n + v
            BY <3>7, <5>3, <5>4, <6>3
          <6>5. y <= m + w
            BY <3>3, <3>4, <5>1, <6>1, <6>3, <6>4
          <6>. QED  BY <3>7, <6>1, <6>2, <6>3, <6>5
        <5>5. CASE t + z = c + 1 /\ v = 0 /\ w = l - 1
          <6>1. a + t + z = a + c + 1
            BY <3>4, <3>5, <3>6, <5>5
          <6>. QED  BY <3>3, <3>4, <3>6, <3>7, <5>1, <5>3, <5>5, <6>1
        <5>6. CASE t + z = c /\ w = v - 1
          <6>1. a + t + z = a + c
            BY <3>4, <3>5, <3>6, <5>6
          <6>. QED  BY <3>3, <3>4, <3>6, <3>7, <5>1, <5>6, <6>1
        <5>. QED  BY <5>2, <5>4, <5>5, <5>6
      <4>. QED  BY <4>1, <4>2
    <3>9. StillFree(pc, cache', i) = w
      BY <3>2, Zenon DEF StillFree
    <3>10. pc' = pc /\ archive' = archive
      OBVIOUS
    <3>. QED  BY <1>3, <3>1, <3>2, <3>8, <3>9, <3>10, Zenon DEF Paid, Copies
  <2>. QED  BY <2>4, Zenon DEF AllPaid
<1>. QED  BY <1>4, <1>5, SharedStep

LEMMA ProductGrows ==
    ASSUME NEW l \in Nat, NEW a \in Nat, NEW b \in Nat, b <= a
    PROVE  l * b <= l * a
<1>1. PICK d \in Nat : a = b + d
  <2>1. a - b \in Nat /\ a = b + (a - b)
    OBVIOUS
  <2>. QED  BY <2>1
<1>2. l * a = l * b + l * d
  BY <1>1
<1>3. l * d \in Nat /\ l * b \in Nat
  OBVIOUS
<1>. QED  BY <1>2, <1>3

\* Nothing is read: what there is of the data is no more than before, and the rest of the names may
\* be left out of the count only when no more are read.
LEMMA NothingReadKeepsShared ==
    ASSUME IInv, Shared, UNCHANGED <<job, seen>>, Fault \/ NoFault, Table(cache'),
           \A i \in Inodes : /\ Copies(archive', Pending', cache', i) \in Nat /\ Copies(archive, Pending, cache, i) \in Nat
                             /\ Copies(archive', Pending', cache', i) <= Copies(archive, Pending, cache, i),
           Late(pc) => Late(pc'),
           \A i \in Inodes : ToCome(cache', i) = ToCome(cache, i) \/ (ToCome(cache', i) = 0 /\ Late(pc))
    PROVE  Shared'
<1>1. Small /\ Table(cache) /\ work \in Works
  BY Zenon DEF IInv, Typed
<1>2. ASSUME Careful' PROVE AllPaid(archive', Pending', cache', pc', seen')
  <2>1. AllPaid(archive, Pending, cache, pc, seen)
    BY <1>1, <1>2, CarefulStays DEF Shared
  <2>2. ASSUME NEW i \in Inodes PROVE Paid(archive', Pending', cache', pc', Cardinality(SeenSet(seen', i)), i)
    <3>1. PICK n, l, a, b, v, w : /\ n = Cardinality(SeenSet(seen, i)) /\ l = work.nlink[i]
                                  /\ a = Copies(archive, Pending, cache, i) /\ b = Copies(archive', Pending', cache', i)
                                  /\ v = ToCome(cache, i) /\ w = ToCome(cache', i)
      BY Zenon
    <3>2. PICK f, g : f = StillFree(pc, cache, i) /\ g = StillFree(pc', cache', i)
      OBVIOUS
    <3>3. l \in Nat \ {0} /\ v \in Nat
      BY <1>1, <3>1, NumbersAre
    <3>4. n \in Nat
      BY <3>1, FS_CardinalityType DEF Shared, Finitely
    <3>5. v < l /\ l * a <= n + f
      BY <2>1, <3>1, <3>2, Zenon DEF AllPaid, Paid
    <3>6. w = v \/ (w = 0 /\ Late(pc))
      BY <3>1, Zenon
    <3>7. f = (IF Late(pc) THEN l - 1 ELSE v) /\ g = IF Late(pc') THEN l - 1 ELSE w
      BY <3>1, <3>2, Zenon DEF StillFree
    <3>8. f \in Nat /\ g \in Nat /\ f <= g /\ w < l
      <4>1. v < l
        BY <3>5
      <4>2. CASE Late(pc)
        <5>1. Late(pc')
          BY <4>2
        <5>2. f = l - 1 /\ g = l - 1
          BY <3>7, <4>2, <5>1, Zenon
        <5>. QED  BY <3>3, <3>6, <4>1, <5>2
      <4>3. CASE ~Late(pc)
        <5>1. w = v /\ f = v
          BY <3>6, <3>7, <4>3, Zenon
        <5>2. g = l - 1 \/ g = v
          BY <3>7, <5>1, Zenon
        <5>. QED  BY <3>3, <4>1, <5>1, <5>2
      <4>. QED  BY <4>2, <4>3
    <3>9. a \in Nat /\ b \in Nat /\ b <= a
      BY <3>1, Zenon
    <3>10. l * b <= l * a
      BY <3>3, <3>9, ProductGrows
    <3>11. l * a \in Nat /\ l * b \in Nat
      BY <3>3, <3>9
    <3>12. l * b <= n + g
      BY <3>4, <3>5, <3>8, <3>10, <3>11
    <3>13. seen' = seen
      OBVIOUS
    <3>. QED  BY <3>1, <3>2, <3>8, <3>12, <3>13, Zenon DEF Paid
  <2>. QED  BY <2>2, Zenon DEF AllPaid
<1>3. Finitely(seen')
  BY DEF Shared
<1>. QED  BY <1>2, <1>3, SharedStep


LEMMA DataTail ==
    ASSUME NEW s, Queued(s), s # <<>>, NEW i
    PROVE  DataAt(s, i) = DataAt(Tail(s), i) + OneData(Head(s), i) /\ OneData(Head(s), i) \in {0, 1}
<1>1. PICK a : /\ Head(s) = a
               /\ \/ s = <<a>> /\ Tail(s) = <<>>
                  \/ \E b : s = <<a, b>> /\ Tail(s) = <<b>>
  BY QueueIs
<1>2. \A e : OneData(e, i) \in {0, 1}
  BY DEF OneData
<1>3. CASE s = <<a>> /\ Tail(s) = <<>>
  <2>1. DataAt(<<a>>, i) = OneData(a, i) /\ DataAt(<<>>, i) = 0 /\ OneData(a, i) \in {0, 1}
    BY <1>2, DataShort, Zenon
  <2>2. DataAt(s, i) = OneData(a, i) /\ DataAt(Tail(s), i) = 0 /\ OneData(Head(s), i) = OneData(a, i)
    BY <1>1, <1>3, <2>1
  <2>. QED  BY <2>1, <2>2
<1>4. ASSUME NEW b, s = <<a, b>>, Tail(s) = <<b>> PROVE DataAt(s, i) = DataAt(Tail(s), i) + OneData(Head(s), i)
  <2>1. DataAt(<<a, b>>, i) = OneData(a, i) + OneData(b, i) /\ DataAt(<<b>>, i) = OneData(b, i)
    BY DataShort, Zenon
  <2>2. DataAt(s, i) = OneData(a, i) + OneData(b, i) /\ DataAt(Tail(s), i) = OneData(b, i) /\ OneData(Head(s), i) = OneData(a, i)
    BY <1>1, <1>4, <2>1
  <2>3. OneData(a, i) \in {0, 1} /\ OneData(b, i) \in {0, 1}
    BY <1>2, Zenon
  <2>. QED  BY <2>2, <2>3
<1>. QED  BY <1>1, <1>2, <1>3, <1>4

LEMMA CopiesAre ==
    ASSUME NEW S, NEW s \in Seq(S), NEW T, NEW t \in Seq(T), NEW c, NEW i
    PROVE  DataAt(s, i) \in Nat /\ DataAt(t, i) \in Nat /\ HeldAt(c, i) \in Nat /\ Copies(s, t, c, i) \in Nat
<1>1. DataAt(s, i) \in Nat /\ DataAt(t, i) \in Nat
  BY DataIsNat
<1>2. HeldAt(c, i) \in Nat
  BY DEF HeldAt
<1>. QED  BY <1>1, <1>2 DEF Copies

LEMMA PendingIs ==
    ASSUME IInv
    PROVE  /\ Pending \in Seq(Entries) /\ archive \in Seq(Archived) /\ Table(cache) /\ Queued(todo)
           /\ pc \in {"args", "walk", "append", "flush", "close", "done"} /\ faults \in Nat
<1>1. Small /\ Queued(todo) /\ ArchiveIs /\ Waiting /\ Table(cache)
  BY Zenon DEF IInv, Typed
<1>2. Queued(Pending)
  BY <1>1, TailIs DEF Pending, Waiting, Small
<1>3. faults \in Nat
  BY <1>1, WorksAssumption DEF Small, WorksAssumption
<1>. QED  BY <1>1, <1>2, <1>3 DEF Queued, ArchiveIs, Small

\* The data stays where it is.
LEMMA StayKeepsShared ==
    ASSUME IInv, Shared, UNCHANGED <<job, seen, cache>>, Fault \/ NoFault, Late(pc) => Late(pc'),
           Pending' = Pending, \A i \in Inodes : DataAt(archive', i) = DataAt(archive, i)
    PROVE  Shared'
<1>1. cache' = cache /\ Table(cache') /\ UNCHANGED <<job, seen>>
  BY PendingIs
<1>2. ASSUME NEW i \in Inodes
      PROVE  /\ Copies(archive', Pending', cache', i) \in Nat /\ Copies(archive, Pending, cache, i) \in Nat
             /\ Copies(archive', Pending', cache', i) <= Copies(archive, Pending, cache, i)
  <2>1. Copies(archive', Pending', cache', i) = Copies(archive, Pending, cache, i)
    BY <1>1, Zenon DEF Copies
  <2>2. Copies(archive, Pending, cache, i) \in Nat
    BY PendingIs, CopiesAre
  <2>. QED  BY <2>1, <2>2
<1>3. \A i \in Inodes : ToCome(cache', i) = ToCome(cache, i)
  BY <1>1
<1>. QED  BY <1>1, <1>2, <1>3, NothingReadKeepsShared

\* The first entry is written, or given up.
LEMMA WrittenKeepsShared ==
    ASSUME IInv, Shared, UNCHANGED <<job, seen, cache, pc>>, Fault \/ NoFault, todo # <<>>, Pending = todo, Pending' = Tail(todo),
           NEW x \in Archived, x.ino = Entry.ino, x.link = Entry.link,
           archive' = archive \/ archive' = Append(archive, x)
    PROVE  Shared'
<1>1. cache' = cache /\ pc' = pc /\ Table(cache') /\ UNCHANGED <<job, seen>>
  BY PendingIs
<1>2. ASSUME NEW i \in Inodes
      PROVE  /\ Copies(archive', Pending', cache', i) \in Nat /\ Copies(archive, Pending, cache, i) \in Nat
             /\ Copies(archive', Pending', cache', i) <= Copies(archive, Pending, cache, i)
  <2>1. PICK a, b, t, u, o, h : /\ a = DataAt(archive, i) /\ b = DataAt(archive', i) /\ t = DataAt(todo, i)
                                /\ u = DataAt(Tail(todo), i) /\ o = OneData(Entry, i) /\ h = HeldAt(cache, i)
    BY Zenon
  <2>2. a \in Nat /\ t \in Nat /\ h \in Nat
    BY <2>1, PendingIs, CopiesAre
  <2>3. t = u + o /\ o \in {0, 1}
    BY <2>1, PendingIs, DataTail, Zenon DEF Entry
  <2>4. u \in Nat
    <3>1. Tail(todo) \in Seq(Entries)
      BY PendingIs, TailIs DEF Queued
    <3>. QED  BY <2>1, <3>1, DataIsNat
  <2>5. b = a \/ b = a + o
    <3>1. DataAt(Append(archive, x), i) = DataAt(archive, i) + OneData(x, i)
      BY PendingIs, DataAppend
    <3>2. OneData(x, i) = OneData(Entry, i)
      BY Zenon DEF OneData, IsData
    <3>. QED  BY <2>1, <3>1, <3>2
  <2>6. b + u + h \in Nat /\ a + t + h \in Nat /\ b + u + h <= a + t + h
    <3>1. CASE o = 0
      BY <2>2, <2>3, <2>4, <2>5, <3>1
    <3>2. CASE o = 1
      BY <2>2, <2>3, <2>4, <2>5, <3>2
    <3>. QED  BY <2>3, <3>1, <3>2
  <2>7. Copies(archive', Pending', cache', i) = b + u + h /\ Copies(archive, Pending, cache, i) = a + t + h
    BY <1>1, <2>1, Zenon DEF Copies
  <2>. QED  BY <2>6, <2>7
<1>3. \A i \in Inodes : ToCome(cache', i) = ToCome(cache, i)
  BY <1>1
<1>4. Late(pc) => Late(pc')
  BY <1>1
<1>. QED  BY <1>1, <1>2, <1>3, <1>4, NothingReadKeepsShared

\* The entry that was held back of i is the next to write, or is given up.
LEMMA TakeKeepsShared ==
    ASSUME IInv, Shared, UNCHANGED <<job, seen, archive, copying, pc>>, Fault \/ NoFault, pc = "flush", todo = <<>>,
           NEW i \in Deferred(cache), cache' = Without(cache, i), todo' = <<>> \/ todo' = <<Held(i)>>
    PROVE  Shared'
<1>1. Table(cache) /\ archive \in Seq(Archived) /\ copying = FALSE /\ UNCHANGED <<job, seen>> /\ pc' = "flush" /\ archive' = archive
  BY PendingIs, NothingWaits
<1>2. Pending = <<>> /\ Pending' = todo'
  BY <1>1 DEF Pending
<1>3. PICK c, t, h : c = cache' /\ t = todo' /\ h = Held(i)
  OBVIOUS
<1>4. Table(c) /\ DOMAIN c = DOMAIN cache \ {i} /\ \A j \in DOMAIN cache \ {i} : c[j] = cache[j]
  BY <1>1, <1>3, WithoutIs
<1>5. i \in DOMAIN cache /\ i \in Deferred(cache) /\ i \notin Deferred(c) /\ \A j : j # i => (j \in Deferred(c) <=> j \in Deferred(cache))
  BY <1>4 DEF Deferred
<1>6. h.ino = i
  <2>1. IsData(Held(i), i)
    <3>1. work \in Works
      BY Zenon DEF IInv, Typed
    <3>. QED  BY <1>1, <3>1, HeldHasData, Zenon
  <2>. QED  BY <1>3, <2>1 DEF IsData
<1>7. ASSUME NEW j \in Inodes
      PROVE  /\ Copies(archive', Pending', cache', j) \in Nat /\ Copies(archive, Pending, cache, j) \in Nat
             /\ Copies(archive', Pending', cache', j) <= Copies(archive, Pending, cache, j)
  <2>1. PICK a, u, g, k : a = DataAt(archive, j) /\ u = DataAt(t, j) /\ g = HeldAt(c, j) /\ k = HeldAt(cache, j)
    BY Zenon
  <2>2. a \in Nat
    BY <1>1, <2>1, DataIsNat
  <2>3. DataAt(<<>>, j) = 0 /\ DataAt(<<h>>, j) = OneData(h, j)
    BY DataShort, Zenon
  <2>4. (t = <<>> /\ u = 0) \/ (t = <<h>> /\ u = OneData(h, j))
    BY <1>3, <2>1, <2>3
  <2>5. u \in {0, 1} /\ g \in {0, 1} /\ k \in {0, 1} /\ u + g <= k
    <3>1. CASE j = i
      <4>1. g = 0 /\ k = 1
        BY <1>5, <2>1, <3>1 DEF HeldAt
      <4>2. u \in {0, 1}
        BY <2>4 DEF OneData
      <4>. QED  BY <4>1, <4>2
    <3>2. CASE j # i
      <4>1. g = k /\ k \in {0, 1}
        BY <1>5, <2>1, <3>2 DEF HeldAt
      <4>2. u = 0
        BY <1>6, <2>4, <3>2 DEF OneData, IsData
      <4>. QED  BY <4>1, <4>2
    <3>. QED  BY <3>1, <3>2
  <2>6. a + u + g \in Nat /\ a + 0 + k \in Nat /\ a + u + g <= a + 0 + k
    BY <2>2, <2>5
  <2>7. Copies(archive', Pending', cache', j) = a + u + g
    BY <1>1, <1>2, <1>3, <2>1, Zenon DEF Copies
  <2>8. Copies(archive, Pending, cache, j) = a + 0 + k
    BY <1>2, <2>1, <2>3, Zenon DEF Copies
  <2>. QED  BY <2>6, <2>7, <2>8
<1>8. Late(pc) /\ Late(pc')
  BY <1>1 DEF Late
<1>9. ASSUME NEW j \in Inodes PROVE ToCome(cache', j) = ToCome(cache, j) \/ (ToCome(cache', j) = 0 /\ Late(pc))
  <2>1. CASE j = i
    BY <1>3, <1>4, <1>8, <2>1 DEF ToCome
  <2>2. CASE j # i
    BY <1>3, <1>4, <2>2 DEF ToCome
  <2>. QED  BY <2>1, <2>2
<1>10. Table(cache')
  BY <1>3, <1>4
<1>. QED  BY <1>1, <1>7, <1>8, <1>9, <1>10, NothingReadKeepsShared

\* What the invariant says after a step, of the work before it.
LEMMA TypedLater ==
    ASSUME UNCHANGED job, IInv'
    PROVE  Table(cache') /\ Queued(todo')
<1>1. /\ work' = work /\ strategy' = strategy /\ Paths' = Paths /\ Inodes' = Inodes /\ Entries' = Entries
      /\ CacheEntries' = CacheEntries
  BY JobStays
<1>2. Table(cache)' /\ Queued(todo)'
  BY Zenon DEF IInv, Typed
<1>3. \A e : IsOwn(e)' <=> IsOwn(e)
  BY <1>1 DEF IsOwn
<1>4. ASSUME NEW i \in DOMAIN cache', Cell(cache, i)' PROVE Cell(cache', i)
  BY <1>1, <1>4 DEF Cell, IsOwn
<1>5. Table(cache')
  BY <1>1, <1>2, <1>4 DEF Table
<1>6. Queued(todo')
  BY <1>1, <1>2 DEF Queued, IsOwn
<1>. QED  BY <1>5, <1>6

LEMMA CopyBlockKeepsShared ==
    ASSUME IInv, Shared, CopyBlock
    PROVE  Shared'
<1>1. /\ UNCHANGED <<job, seen, cache, pc>> /\ NoFault /\ copying = TRUE /\ copying' = TRUE /\ todo' = todo
  BY BlockCopied
<1>2. PICK l, a, b, d : Block(l, a, b, d)
  BY BlockCopied, Zenon
<1>3. DOMAIN archive' = DOMAIN archive /\ \A k \in DOMAIN archive : archive'[k].ino = archive[k].ino /\ archive'[k].link = archive[k].link
  BY <1>2, Zenon DEF Block
<1>4. ASSUME NEW i PROVE DataAt(archive', i) = DataAt(archive, i)
  <2>1. {k \in DOMAIN archive' : IsData(archive'[k], i)} = {k \in DOMAIN archive : IsData(archive[k], i)}
    BY <1>3 DEF IsData
  <2>. QED  BY <2>1, Zenon DEF DataAt
<1>5. Pending' = Pending
  BY <1>1 DEF Pending
<1>. QED  BY <1>1, <1>4, <1>5, StayKeepsShared

LEMMA HeaderKeepsShared ==
    ASSUME IInv, Shared, WriteHeader \/ HeaderRefused
    PROVE  Shared'
<1>1. /\ todo # <<>> /\ copying = FALSE /\ UNCHANGED <<job, seen, cache, pc>> /\ (Fault \/ NoFault) /\ pc # "done"
      /\ \/ copying' = TRUE /\ todo' = todo
         \/ copying' = FALSE /\ todo' = Tail(todo)
  <2>1. copying \in BOOLEAN
    BY DEF IInv, Typed, Small
  <2>. QED  BY <2>1 DEF WriteHeader, HeaderRefused, AtHeader, KeepFiles, history, Written
<1>2. Pending = todo /\ Pending' = Tail(todo)
  BY <1>1 DEF Pending
<1>3. PICK x : x = [path |-> Entry.path, ino |-> Entry.ino, size |-> Entry.size, link |-> Entry.link, data |-> <<>>]
  OBVIOUS
<1>4. archive' = archive \/ archive' = Append(archive, x)
  BY <1>3, Zenon DEF WriteHeader, HeaderRefused
<1>5. x \in Archived /\ x.ino = Entry.ino /\ x.link = Entry.link
  <2>1. IsOwn(Entry)
    BY <1>1, EntryToWrite
  <2>. QED  BY <1>3, <2>1 DEF IsOwn, Entries, Archived
<1>. QED  BY <1>1, <1>2, <1>4, <1>5, WrittenKeepsShared

LEMMA NextFileKeepsShared ==
    ASSUME IInv, Shared, NextFile, IInv'
    PROVE  Shared'
<1>1. /\ todo = <<>> /\ UNCHANGED job /\ pc = "walk" /\ UNCHANGED <<job, archive, copying, pc>> /\ (Fault \/ NoFault)
  BY DEF NextFile
<1>2. PICK q, e, memory : /\ q \in Paths /\ e = EntryOf(q) /\ seen' = [seen EXCEPT ![q] = @ + 1]
                          /\ Becomes(e, cache', todo') /\ (memory /\ strategy # "old_cpio" => Pays(e, cache', todo'))
                          /\ memory \/ Fault
  BY NextFileBecomes, Zenon
<1>3. NoFault => memory
  <2>1. faults \in Nat
    BY PendingIs
  <2>2. ~(Fault /\ NoFault)
    BY <2>1 DEF Fault, NoFault
  <2>. QED  BY <1>2, <2>2
<1>4. Table(cache') /\ Queued(todo')
  BY <1>1, TypedLater
<1>5. e.ino = work.ino[q] /\ ~Late(pc)
  BY <1>1, <1>2 DEF EntryOf, Late
<1>6. NoFault /\ strategy # "old_cpio" => Pays(e, cache', todo')
  BY <1>2, <1>3, Zenon
<1>. QED  BY <1>1, <1>2, <1>4, <1>5, <1>6, ReadKeepsShared

LEMMA AppendKeepsShared ==
    ASSUME IInv, Plan, Shared, NEW e, Appends(e), IInv'
    PROVE  Shared'
<1>1. PICK q : q = Head(walk)
  OBVIOUS
<1>2. /\ todo = <<>> /\ pc = "append" /\ UNCHANGED <<job, archive, copying, pc>> /\ (Fault \/ NoFault)
      /\ seen' = [seen EXCEPT ![q] = @ + 1]
  BY <1>1, Zenon DEF Appends
<1>3. q \in Paths /\ e.ino = work.ino[q]
  BY <1>1, AppendedEntryIs, Zenon
<1>4. Becomes(e, cache', todo') /\ Pays(e, cache', todo')
  BY AppendBecomes, Zenon
<1>5. Table(cache') /\ Queued(todo') /\ ~Late(pc)
  BY <1>2, TypedLater DEF Late
<1>. QED  BY <1>2, <1>3, <1>4, <1>5, ReadKeepsShared

LEMMA NextKeepsShared ==
    ASSUME IInv, Plan, Shared, [Next]_vars, IInv'
    PROVE  Shared'
<1>1. Typed /\ Waiting
  BY DEF IInv
<1>2. CASE Moves \/ Resize \/ UNCHANGED vars
  <2>1. UNCHANGED <<job, seen, cache, todo, copying, archive>> /\ (Fault \/ NoFault) /\ (Late(pc) => Late(pc'))
    <3>1. CASE Moves
      <4>1. Leaves /\ SmallMoves
        BY <1>1, <3>1, MovesLeave
      <4>2. Late(pc) => Late(pc')
        BY <3>1, MovesAre DEF TakesArgument, GoesOn, GivesUp, Exits, Late
      <4>. QED  BY <4>1, <4>2 DEF Leaves, SmallMoves
    <3>2. CASE Resize \/ UNCHANGED vars
      BY <3>2 DEF Resize, vars, history, NoFault
    <3>. QED  BY <1>2, <3>1, <3>2
  <2>2. Pending' = Pending /\ \A i \in Inodes : DataAt(archive', i) = DataAt(archive, i)
    BY <2>1 DEF Pending
  <2>. QED  BY <2>1, <2>2, StayKeepsShared
<1>3. CASE NextFile
  BY <1>3, NextFileKeepsShared
<1>4. CASE AppendEntry \/ AppendUnsized
  BY <1>4, AppendedIs, AppendKeepsShared, Zenon
<1>5. CASE WriteHeader \/ HeaderRefused
  BY <1>5, HeaderKeepsShared
<1>6. CASE CopyBlock
  BY <1>6, CopyBlockKeepsShared
<1>7. CASE CopyEnds \/ CopyStops
  <2>1. UNCHANGED <<job, seen, cache, pc, archive>> /\ (Fault \/ NoFault) /\ copying = TRUE /\ copying' = FALSE /\ todo' = Tail(todo)
    BY <1>7, DataEnds DEF Written
  <2>2. Pending' = Pending /\ \A i \in Inodes : DataAt(archive', i) = DataAt(archive, i)
    BY <2>1 DEF Pending
  <2>. QED  BY <2>1, <2>2, StayKeepsShared
<1>8. CASE FlushEntry \/ FlushFails \/ FlushVanished
  <2>1. PICK i \in Deferred(cache) :
            /\ Flushing(i) /\ UNCHANGED <<job, seen, archive, copying, pc>> /\ (Fault \/ NoFault)
            /\ todo' = <<Held(i)>> \/ todo' = todo
    <3>1. CASE FlushEntry
      BY <3>1, Zenon DEF FlushEntry, KeepFiles, history
    <3>2. CASE FlushFails
      BY <3>2, Zenon DEF FlushFails, DiskOpenFails
    <3>3. CASE FlushVanished
      BY <3>3, Zenon DEF FlushVanished
    <3>. QED  BY <1>8, <3>1, <3>2, <3>3
  <2>2. pc = "flush" /\ todo = <<>> /\ cache' = Without(cache, i)
    BY <2>1 DEF Flushing, Take
  <2>. QED  BY <2>1, <2>2, TakeKeepsShared
<1>. QED
  BY <1>2, <1>3, <1>4, <1>5, <1>6, <1>7, <1>8, Zenon DEF Next, Step, Moves

LEMMA NextKeepsInv ==
    ASSUME IInv, Plan, Links, Shared, [Next]_vars, IInv'
    PROVE  Plan' /\ Links' /\ Shared'
BY NextKeepsPlan, NextKeepsLinks, NextKeepsShared

THEOREM SharedHolds == Spec => [](IInv /\ Plan /\ Links /\ Shared)
<1>1. Init => Plan /\ Links /\ Shared
  BY PlanAtFirst, LinksAtFirst, SharedAtFirst
<1>2. IInv /\ IInv' /\ Plan /\ Links /\ Shared /\ [Next]_vars => Plan' /\ Links' /\ Shared'
  BY NextKeepsInv
<1>. QED  BY InvHolds, <1>1, <1>2, PTL DEF Spec

LEMMA LinksLead == IInv /\ Links => LinksHaveAFile
<1>. SUFFICES ASSUME IInv, Links PROVE LinksHaveAFile
  OBVIOUS
<1>. SUFFICES ASSUME NEW k \in DOMAIN archive, archive[k].link # NoLink, archive[k].ino \notin spoiled
              PROVE  /\ work.ino[archive[k].link] = archive[k].ino
                     /\ IF strategy = "new_cpio"
                        THEN \/ \E n \in k + 1 .. Len(archive) : IsData(archive[n], archive[k].ino)
                             \/ \E n \in DOMAIN todo : IsData(todo[n], archive[k].ino)
                             \/ archive[k].ino \in DOMAIN cache
                        ELSE \E n \in 1 .. k - 1 : IsData(archive[n], archive[k].ino) /\ archive[n].path = archive[k].link
  BY Zenon DEF LinksHaveAFile
<1>1. work.ino[archive[k].link] = archive[k].ino
  BY DEF Links, OwnLinks, Range
<1>2. LinkIn(archive, k, todo, cache, spoiled)
  <2>1. k \in 1 .. Len(archive)
    BY PendingIs
  <2>. QED  BY <2>1 DEF Links, LinksOf
<1>3. HasData(todo, archive[k].ino) => \E n \in DOMAIN todo : IsData(todo[n], archive[k].ino)
  BY Zenon DEF HasData, Range
<1>. QED  BY <1>1, <1>2, <1>3, Zenon DEF LinkIn, DataBefore, DataBehind

\* As many copies as there are names for them.
LEMMA CopiesArePaid == IInv /\ Shared => DataIsNotRepeated
<1>. SUFFICES ASSUME IInv, Shared, faults = 0, strategy \in {"tar", "new_cpio"}, NEW i \in Inodes
              PROVE  work.nlink[i] * (DataAt(archive, i) - 1) < SeenOf(i)
  BY Zenon DEF DataIsNotRepeated, DataAt
<1>1. PICK l, a, b, n, v : /\ l = work.nlink[i] /\ a = DataAt(archive, i) /\ b = Copies(archive, Pending, cache, i)
                           /\ n = Cardinality(SeenSet(seen, i)) /\ v = StillFree(pc, cache, i)
  BY Zenon
<1>2. ToCome(cache, i) < l /\ l * b <= n + v
  BY <1>1, Zenon DEF Shared, Careful, AllPaid, Paid
<1>3. l \in Nat \ {0} /\ ToCome(cache, i) \in Nat
  <2>1. work \in Works /\ Table(cache)
    BY Zenon DEF IInv, Typed
  <2>. QED  BY <1>1, <2>1, NumbersAre
<1>4. v \in Nat /\ v <= l - 1
  BY <1>1, <1>2, <1>3 DEF StillFree
<1>5. a \in Nat /\ b \in Nat /\ a <= b
  <2>1. DataAt(archive, i) \in Nat /\ DataAt(Pending, i) \in Nat /\ HeldAt(cache, i) \in Nat
    BY PendingIs, CopiesAre
  <2>. QED  BY <1>1, <2>1 DEF Copies
<1>6. n \in Nat
  BY <1>1, FS_CardinalityType DEF Shared, Finitely
<1>7. l * a <= l * b /\ l * a \in Nat /\ l * b \in Nat /\ l * (a - 1) = l * a - l
  BY <1>3, <1>5, ProductGrows
<1>8. l * (a - 1) < n
  <2>1. PICK x, y : x = l * a /\ y = l * b
    OBVIOUS
  <2>2. x - l < n
    BY <1>2, <1>3, <1>4, <1>6, <1>7, <2>1
  <2>. QED  BY <1>7, <2>1, <2>2
<1>9. SeenOf(i) = n
  BY <1>1, Zenon DEF SeenOf, SeenSet
<1>. QED  BY <1>1, <1>8, <1>9

\* The data of a file is in the archive once for all its links, every link leads to it, and
\* each entry has its own: whatever the order of the names and the failures.
THEOREM LinksShare == Spec => []LinksShareOneCopy
<1>1. IInv /\ Links /\ Shared => LinksShareOneCopy
  BY LinksLead, CopiesArePaid DEF IInv, LinksShareOneCopy
<1>. QED  BY SharedHolds, <1>1, PTL
=============================================================================
