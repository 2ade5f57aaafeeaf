--------------------------- MODULE FlattenProofs ---------------------------
(***************************************************************************)
(* Theorems about Flatten, for every set of inodes, every tree over them,  *)
(* every bound on the depth and every number of failing calls.             *)
(***************************************************************************)
EXTENDS Flatten, FiniteSetTheorems, WellFoundedInduction, TLAPS

\* The inductive invariant behind the theorems of FlattenProofs.
\* The directories walked into lead from d to current; until flat is found the
\* tree is as Init left it and current is the last of its inodes they reach.
Walking ==
    /\ pc \in {"start", "walk"} => todo = {} /\ unmoved = {}
    /\ pc \in {"start", "walk"} => UniqueNames /\ \A x \in live \ {Root} : parent[x] < x
    /\ pc = "start" => walked = {} /\ depth1 = None /\ current = Root
    /\ pc = "walk" =>
         /\ Root \in live /\ current \in walked \cup {Root}
         /\ current = Root <=> depth1 = None
         /\ walked = {} <=> depth1 = None
         /\ \A w \in walked : w <= current
         /\ \A x \in live \ {Root} : parent[x] \in (walked \cup {Root}) \ {current} => x \in walked
         /\ depth1 # None => Children(Root) = {depth1}

\* Every directory walked into is below depth1, through directories walked into.
Chained ==
    pc # "done" =>
        /\ walked \subseteq live \ {Root}
        /\ depth1 # None => depth1 \in walked
        /\ \A S \in SUBSET live :
             depth1 \in S /\ (\A x \in walked : parent[x] \in S => x \in S) => walked \subseteq S

\* Once flat is found d holds depth1 and the entries moved so far, flat holds
\* the others, and nothing else changes.
Moving ==
    pc \in {"open", "move", "remove"} =>
        /\ Root \in live /\ flat \in walked /\ depth1 # None
        /\ content = live \ (walked \cup {Root})
        /\ hoisted \subseteq content /\ todo \subseteq hoisted /\ unmoved \subseteq hoisted
        /\ todo \cap unmoved = {}
        /\ pc = "open" => todo = {} /\ unmoved = {}
        /\ pc = "remove" => todo = {}
        /\ Children(flat) = (IF pc = "open" THEN hoisted ELSE todo \cup unmoved)
        /\ Children(Root) = {depth1} \cup (hoisted \ Children(flat))
        /\ \A x \in live \ {Root} : parent[x] \in walked \ {flat} => x \in walked
        /\ \A x, y \in hoisted : name[x] = name[y] => x = y
        /\ faults = 0 =>
             /\ \A u \in unmoved : name[u] = name[depth1]
             /\ ~\E c \in live : hoisted = {c} /\ kind[c] = "dir" /\ name[c] # Bin

IInv == TypeOK /\ Walking /\ Chained /\ Moving

-----------------------------------------------------------------------------
(* What lies below an inode. *)

\* n lies below itself, and Below(n) has everything under its members.
LEMMA BelowIsClosed ==
    ASSUME NEW n \in live
    PROVE  n \in Below(n) /\ Closed(Below(n))
<1>1. n \in Below(n)
  BY DEF Below
<1>2. ASSUME NEW x \in live \ {Root}, parent[x] \in Below(n)
      PROVE  x \in Below(n)
  BY <1>2 DEF Below, Closed
<1>. QED  BY <1>1, <1>2 DEF Closed

\* Below(n) is inside every closed set that has n.
LEMMA BelowIsLeast ==
    ASSUME NEW n \in live, NEW S \in SUBSET live, n \in S, Closed(S)
    PROVE  Below(n) \subseteq S
BY DEF Below

\* What remove_all deletes: directories walked into and what lies under the
\* entries that were not moved.
LEMMA Leftovers ==
    ASSUME IInv, pc = "remove"
    PROVE  Below(depth1) \subseteq walked \cup UNION {Below(u) : u \in unmoved}
<1>. DEFINE S == walked \cup UNION {Below(u) : u \in unmoved}
<1>1. S \in SUBSET live /\ depth1 \in live /\ depth1 \in S
  <2>1. walked \subseteq live /\ depth1 \in walked
    BY DEF IInv, Chained, Moving
  <2>2. \A u : Below(u) \subseteq live
    BY DEF Below
  <2>. QED  BY <2>1, <2>2
<1>2. unmoved \subseteq live
  BY DEF IInv, Moving
<1>3. ASSUME NEW x \in live \ {Root}, parent[x] \in S
      PROVE  x \in S
  <2>1. CASE parent[x] \in walked \ {flat}
    BY <2>1 DEF IInv, Moving
  <2>2. CASE parent[x] = flat
    <3>1. x \in Children(flat)
      BY <2>2 DEF Children
    <3>2. x \in unmoved
      BY <3>1 DEF IInv, Moving
    <3>. QED  BY <3>2, <1>2, BelowIsClosed
  <2>3. CASE \E u \in unmoved : parent[x] \in Below(u)
    BY <2>3, <1>2, BelowIsClosed DEF Closed
  <2>. QED  BY <1>3, <2>1, <2>2, <2>3
<1>4. Closed(S)
  BY <1>3 DEF Closed
<1>. HIDE DEF S
<1>5. Below(depth1) \subseteq S
  BY <1>1, <1>4, BelowIsLeast
<1>. QED  BY <1>5 DEF S

\* remove_all reaches every directory that was walked into.
LEMMA WalkedIsBelow ==
    ASSUME IInv, pc = "remove"
    PROVE  walked \subseteq Below(depth1)
<1>1. walked \subseteq live \ {Root}
  BY DEF IInv, Chained
<1>2. ASSUME NEW S \in SUBSET live, depth1 \in S, Closed(S)
      PROVE  walked \subseteq S
  <2>1. \A x \in walked : parent[x] \in S => x \in S
    BY <1>1, <1>2 DEF Closed
  <2>. QED  BY <1>2, <2>1 DEF IInv, Chained
<1>. QED  BY <1>1, <1>2 DEF Below
-----------------------------------------------------------------------------
(* Type correctness. *)

LEMMA TypeInit == Init => TypeOK
<1>. SUFFICES ASSUME Init PROVE TypeOK
  OBVIOUS
<1>1. live \subseteq Nodes
  BY DEF Init
<1>2. faults \in 0 .. MaxFaults
  BY BoundsAssumption DEF Init
<1>. QED  BY <1>1, <1>2, NodesAssumption DEF Init, TypeOK

LEMMA TypeNext == TypeOK /\ [Next]_vars => TypeOK'
<1>. SUFFICES ASSUME TypeOK, [Next]_vars PROVE TypeOK'
  OBVIOUS
<1>. USE NodesAssumption, BoundsAssumption DEF TypeOK
<1>1. CASE Start
  <2>1. faults' = faults \/ (faults < MaxFaults /\ faults' = faults + 1)
    BY <1>1, Zenon DEF Start, Fault
  <2>2. faults' \in 0 .. MaxFaults
    BY <2>1
  <2>. QED  BY <1>1, <2>2 DEF Start, Return, fs, history
<1>2. ASSUME NEW c \in Nodes, Walk(c) PROVE TypeOK'
  BY <1>2 DEF Walk, fs
<1>3. CASE StopAt
  <2>1. faults' \in 0 .. MaxFaults
    BY <1>3 DEF StopAt, Fault
  <2>. QED  BY <1>3, <2>1 DEF StopAt, Return, Children, fs
<1>4. CASE TooDeep
  BY <1>4 DEF TooDeep, Return, fs, history
<1>5. CASE Open
  <2>1. Children(flat) \subseteq Nodes
    BY DEF Children
  <2>2. faults' \in 0 .. MaxFaults
    BY <1>5 DEF Open, Fault
  <2>. QED  BY <1>5, <2>1, <2>2 DEF Open, fs
<1>6. ASSUME NEW c \in Nodes, Rename(c) PROVE TypeOK'
  BY <1>6 DEF Rename, history
<1>7. ASSUME NEW c \in Nodes, RenameFails(c) PROVE TypeOK'
  <2>1. faults' \in 0 .. MaxFaults
    BY <1>7 DEF RenameFails, Fault
  <2>. QED  BY <1>7, <2>1 DEF RenameFails, fs
<1>8. CASE EndOfDirectory
  BY <1>8 DEF EndOfDirectory, fs, history
<1>9. CASE RemoveAll
  <2>1. faults' \in 0 .. MaxFaults
    BY <1>9 DEF RemoveAll, Fault
  <2>2. live' \subseteq live
    BY <1>9 DEF RemoveAll, Below
  <2>. QED  BY <1>9, <2>1, <2>2 DEF RemoveAll, Return, history
<1>10. CASE UNCHANGED vars
  BY <1>10 DEF vars, fs, history
<1>. QED
  BY <1>1, <1>2, <1>3, <1>4, <1>5, <1>6, <1>7, <1>8, <1>9, <1>10 DEF Next, Terminated

\* Every variable keeps its type, and once there is something to move flat and
\* depth1 are set.
THEOREM TypeCorrect == Spec => []TypeOK
BY TypeInit, TypeNext, PTL DEF Spec
-----------------------------------------------------------------------------
(* The inductive invariant. *)

LEMMA InvInit == Init => IInv
<1>. SUFFICES ASSUME Init PROVE IInv
  OBVIOUS
<1>1. TypeOK
  BY TypeInit
<1>2. Walking
  BY NodesAssumption DEF Init, Walking
<1>3. Chained
  BY NodesAssumption DEF Init, Chained
<1>4. Moving
  BY DEF Init, Moving
<1>. QED  BY <1>1, <1>2, <1>3, <1>4 DEF IInv

\* Going into the only child keeps the way from d to current a chain.
LEMMA WalkKeepsInv ==
    ASSUME IInv, NEW c \in Nodes, Walk(c)
    PROVE  Walking' /\ Chained' /\ Moving'
<1>. USE NodesAssumption DEF IInv, TypeOK
<1>1. /\ pc = "walk" /\ pc' = "walk" /\ current' = c /\ c \in live \ {Root}
      /\ parent[c] = current /\ c \in Children(current)
      /\ \A x \in live \ {Root} : parent[x] = current => x = c
      /\ walked' = walked \cup {c} /\ c # None
      /\ depth1' = IF depth1 = None THEN c ELSE depth1
      /\ UNCHANGED <<live, parent, name, kind, todo, unmoved>>
  BY DEF Walk, OnlyChildDir, Children, fs
<1>2. /\ todo = {} /\ unmoved = {} /\ UniqueNames /\ \A x \in live \ {Root} : parent[x] < x
      /\ Root \in live /\ current \in walked \cup {Root}
      /\ current = Root <=> depth1 = None
      /\ walked = {} <=> depth1 = None
      /\ \A w \in walked : w <= current
      /\ \A x \in live \ {Root} : parent[x] \in (walked \cup {Root}) \ {current} => x \in walked
      /\ depth1 # None => Children(Root) = {depth1}
  BY <1>1 DEF Walking
<1>3. UniqueNames' /\ \A x \in live' \ {Root} : parent'[x] < x
  BY <1>1, <1>2 DEF UniqueNames
<1>4. \A w \in walked' : w <= current'
  <2>1. current < c /\ current \in Nat /\ c \in Nat
    BY <1>1, <1>2
  <2>. QED  BY <1>1, <1>2, <2>1
<1>5. \A x \in live' \ {Root} : parent'[x] \in (walked' \cup {Root}) \ {current'} => x \in walked'
  BY <1>1, <1>2
<1>6. depth1' # None /\ Children(Root)' = {depth1'}
  BY <1>1, <1>2 DEF OnlyChildDir, Children, Walk
<1>7. Walking'
  BY <1>1, <1>2, <1>3, <1>4, <1>5, <1>6 DEF Walking
<1>8. Chained'
  <2>1. walked' \subseteq live' \ {Root} /\ depth1' \in walked'
    BY <1>1, <1>2 DEF Chained
  <2>2. ASSUME NEW S \in SUBSET live, depth1' \in S, \A x \in walked' : parent[x] \in S => x \in S
        PROVE  walked' \subseteq S
    <3>1. CASE depth1 = None
      BY <1>1, <1>2, <2>2, <3>1
    <3>2. CASE depth1 # None
      <4>1. walked \subseteq S
        BY <1>1, <2>2, <3>2 DEF Chained
      <4>. QED  BY <1>1, <1>2, <2>2, <3>2, <4>1
    <3>. QED  BY <3>1, <3>2
  <2>. QED  BY <1>1, <2>1, <2>2 DEF Chained
<1>9. Moving'
  BY <1>1 DEF Moving
<1>. QED  BY <1>7, <1>8, <1>9

\* Where the walk stops, everything else is inside flat.
LEMMA StopKeepsInv ==
    ASSUME IInv, StopAt
    PROVE  Walking' /\ Chained' /\ Moving'
<1>. USE NodesAssumption DEF IInv, TypeOK
<1>1. /\ pc = "walk" /\ pc' \in {"open", "done"} /\ flat' = current
      /\ content' = live \ (walked \cup {Root}) /\ hoisted' = Children(current)
      /\ UNCHANGED <<live, parent, name, kind, current, depth1, todo, walked, unmoved>>
      /\ pc' = "open" => current # Root
  BY DEF StopAt, Return, fs
<1>2. Walking'
  BY <1>1 DEF Walking
<1>3. Chained'
  BY <1>1 DEF Chained
<1>4. Moving'
  <2>. SUFFICES ASSUME pc' = "open" PROVE Moving'
    BY <1>1 DEF Moving
  <2>1. /\ Root \in live /\ current \in walked /\ depth1 # None /\ current # Root
        /\ \A x, y \in live \ {Root} : parent[x] = parent[y] /\ name[x] = name[y] => x = y
        /\ \A x \in live \ {Root} : parent[x] < x
        /\ \A w \in walked : w <= current
        /\ \A x \in live \ {Root} : parent[x] \in (walked \cup {Root}) \ {current} => x \in walked
        /\ Children(Root) = {depth1} /\ walked \subseteq live \ {Root}
    BY <1>1 DEF Walking, Chained, UniqueNames
  <2>2. \A x \in hoisted' : x \in live \ {Root} /\ parent[x] = current /\ current < x /\ x \in Nat /\ current \in Nat
    BY <1>1, <2>1 DEF Children
  <2>3. hoisted' \subseteq content'
    BY <1>1, <2>1, <2>2
  <2>4. Children(flat)' = hoisted' /\ Children(Root)' = {depth1'}
    BY <1>1, <2>1 DEF Children
  <2>5. \A x, y \in hoisted' : name'[x] = name'[y] => x = y
    BY <1>1, <2>1, <2>2
  <2>6. \A x \in live \ {Root} : parent[x] \in walked \ {flat'} => x \in walked
    BY <1>1, <2>1
  <2>7. todo = {} /\ unmoved = {}
    BY <1>1 DEF Walking
  <2>8. faults' = 0 => ~\E c \in live : hoisted' = {c} /\ kind[c] = "dir" /\ name[c] # Bin
    BY <1>1 DEF StopAt, Fault, Wrapper, OnlyChildDir
  <2>. QED  BY <1>1, <2>1, <2>3, <2>4, <2>5, <2>6, <2>7, <2>8 DEF Moving
<1>. QED  BY <1>2, <1>3, <1>4

\* What Moving says, when there is something to move.
LEMMA MovingFacts ==
    ASSUME IInv, pc \in {"open", "move", "remove"}
    PROVE  /\ Root \in live /\ flat \in walked /\ depth1 # None /\ depth1 \in walked
           /\ walked \subseteq live \ {Root} /\ walked \cap content = {}
           /\ content = live \ (walked \cup {Root})
           /\ hoisted \subseteq content /\ todo \subseteq hoisted /\ unmoved \subseteq hoisted
           /\ Children(flat) = (IF pc = "open" THEN hoisted ELSE todo \cup unmoved)
           /\ Children(Root) = {depth1} \cup (hoisted \ Children(flat))
           /\ \A x \in live \ {Root} : parent[x] \in walked \ {flat} => x \in walked
BY DEF IInv, Chained, Moving

LEMMA OpenKeepsInv ==
    ASSUME IInv, Open
    PROVE  Walking' /\ Chained' /\ Moving'
<1>1. /\ pc = "open" /\ pc' = "move"
      /\ UNCHANGED <<live, parent, name, kind, current, depth1, flat, walked, content, hoisted>>
      /\ \/ todo' = Children(flat) /\ faults' = faults /\ unmoved' = unmoved
         \/ faults' = faults + 1 /\ todo' = {} /\ unmoved' = Children(flat)
  BY DEF Open, Fault, fs
<1>2. Children(flat) = hoisted /\ todo = {} /\ unmoved = {}
  BY <1>1 DEF IInv, Moving
<1>3. Children(flat)' = Children(flat) /\ Children(Root)' = Children(Root)
  BY <1>1 DEF Children
<1>4. Walking'
  BY <1>1 DEF Walking
<1>5. Chained'
  BY <1>1 DEF IInv, Chained
<1>6. faults' = 0 => faults = 0 /\ unmoved' = unmoved
  BY <1>1 DEF IInv, TypeOK
<1>7. Moving'
  BY <1>1, <1>2, <1>3, <1>6 DEF IInv, Moving
<1>. QED  BY <1>4, <1>5, <1>7

LEMMA RenameKeepsInv ==
    ASSUME IInv, NEW c \in Nodes, Rename(c)
    PROVE  Walking' /\ Chained' /\ Moving'
<1>. USE DEF IInv, TypeOK
<1>1. /\ pc = "move" /\ pc' = "move" /\ c \in todo /\ todo' = todo \ {c}
      /\ parent' = [parent EXCEPT ![c] = Root]
      /\ UNCHANGED <<live, name, kind, current, depth1, flat, faults, walked, content, hoisted, unmoved>>
      /\ \A x \in Children(Root) : name[x] # name[c]
  BY DEF Rename, NameTaken, history
<1>2. c \in live \ {Root} /\ c \notin walked /\ c \in Children(flat) /\ flat # Root
  BY <1>1, MovingFacts
<1>3. \A x \in Nodes : parent'[x] = IF x = c THEN Root ELSE parent[x]
  BY <1>1
<1>4. Children(flat)' = Children(flat) \ {c} /\ Children(Root)' = Children(Root) \cup {c}
  BY <1>1, <1>2, <1>3 DEF Children
<1>5. Walking'
  BY <1>1 DEF Walking
<1>6. Chained'
  BY <1>1, <1>2, <1>3 DEF Chained
<1>7. c \notin unmoved /\ c \in hoisted /\ c \notin Children(Root)
  BY <1>1, <1>2 DEF Moving, Children
<1>8. Children(flat)' = todo' \cup unmoved'
  BY <1>1, <1>4, <1>7, MovingFacts
<1>9. Children(Root)' = {depth1'} \cup (hoisted' \ Children(flat)')
  BY <1>1, <1>4, <1>7, <1>2, MovingFacts
<1>10. \A x \in live' \ {Root} : parent'[x] \in walked' \ {flat'} => x \in walked'
  BY <1>1, <1>2, <1>3, MovingFacts
<1>11. Moving'
  BY <1>1, <1>8, <1>9, <1>10 DEF Moving
<1>. QED  BY <1>5, <1>6, <1>11

\* Without a fault only a taken name stops a rename, and the name taken is that
\* of depth1: the entries already moved have other names.
LEMMA RenameFailsKeepsInv ==
    ASSUME IInv, NEW c \in Nodes, RenameFails(c)
    PROVE  Walking' /\ Chained' /\ Moving'
<1>. USE DEF IInv, TypeOK
<1>1. /\ pc = "move" /\ pc' = "move" /\ c \in todo /\ todo' = todo \ {c}
      /\ unmoved' = unmoved \cup {c}
      /\ UNCHANGED <<live, parent, name, kind, current, depth1, flat, walked, content, hoisted>>
      /\ (faults' = faults /\ NameTaken(c)) \/ faults' = faults + 1
  BY DEF RenameFails, Fault, fs
<1>2. Walking'
  BY <1>1 DEF Walking
<1>3. Chained'
  BY <1>1 DEF Chained
<1>4. Children(flat)' = Children(flat) /\ Children(Root)' = Children(Root)
  BY <1>1 DEF Children
<1>5. ASSUME faults' = 0 PROVE faults = 0 /\ name[c] = name[depth1]
  <2>1. faults = 0 /\ NameTaken(c)
    BY <1>1, <1>5
  <2>2. PICK x \in Children(Root) : name[x] = name[c]
    BY <2>1 DEF NameTaken
  <2>3. CASE x = depth1
    BY <2>1, <2>2, <2>3
  <2>4. CASE x \in hoisted \ Children(flat)
    <3>1. x = c
      BY <1>1, <2>2, <2>4 DEF Moving
    <3>. QED  BY <1>1, <2>4, <3>1, MovingFacts
  <2>. QED  BY <1>1, <2>2, <2>3, <2>4, MovingFacts
<1>6. Moving'
  BY <1>1, <1>4, <1>5 DEF Moving
<1>. QED  BY <1>2, <1>3, <1>6

LEMMA NextKeepsInv == IInv /\ [Next]_vars => IInv'
<1>. SUFFICES ASSUME IInv, [Next]_vars PROVE Walking' /\ Chained' /\ Moving'
  BY TypeNext DEF IInv
<1>1. CASE Start
  BY <1>1, NodesAssumption
     DEF Start, Return, fs, history, IInv, Walking, Chained, Moving, UniqueNames, IsDir
<1>2. ASSUME NEW c \in Nodes, Walk(c) PROVE Walking' /\ Chained' /\ Moving'
  BY <1>2, WalkKeepsInv
<1>3. CASE StopAt
  BY <1>3, StopKeepsInv
<1>4. CASE TooDeep
  BY <1>4 DEF TooDeep, Return, fs, history, IInv, Walking, Chained, Moving
<1>5. CASE Open
  BY <1>5, OpenKeepsInv
<1>6. ASSUME NEW c \in Nodes, Rename(c) PROVE Walking' /\ Chained' /\ Moving'
  BY <1>6, RenameKeepsInv
<1>7. ASSUME NEW c \in Nodes, RenameFails(c) PROVE Walking' /\ Chained' /\ Moving'
  BY <1>7, RenameFailsKeepsInv
<1>8. CASE EndOfDirectory
  BY <1>8 DEF EndOfDirectory, fs, history, IInv, Walking, Chained, Moving, Children
<1>9. CASE RemoveAll
  BY <1>9 DEF RemoveAll, Return, Walking, Chained, Moving
<1>10. CASE UNCHANGED vars
  BY <1>10 DEF vars, fs, history, IInv, Walking, Chained, Moving, UniqueNames, Children
<1>. QED
  BY <1>1, <1>2, <1>3, <1>4, <1>5, <1>6, <1>7, <1>8, <1>9, <1>10 DEF Next, Terminated

THEOREM InvHolds == Spec => []IInv
BY InvInit, NextKeepsInv, PTL DEF Spec
-----------------------------------------------------------------------------
(* What MakeFlattened does to the files. *)

\* When remove_all succeeds after a run without a fault or a collision, it
\* deletes exactly the directories that were walked into.
LEMMA RemoveAllWithoutFault ==
    ASSUME IInv, RemoveAll, faults' = 0, ~Collision
    PROVE  live' = content \cup {Root} /\ Children(Root)' = hoisted
<1>1. /\ pc = "remove" /\ faults = 0 /\ live' = live \ Below(depth1)
      /\ UNCHANGED <<parent, hoisted>>
  BY DEF RemoveAll, Fault, IInv, TypeOK, history
<1>2. unmoved = {} /\ todo = {}
  BY <1>1 DEF Collision, IInv, Moving
<1>3. Below(depth1) = walked
  BY <1>1, <1>2, Leftovers, WalkedIsBelow
<1>4. live' = content \cup {Root}
  BY <1>1, <1>3, MovingFacts
<1>5. Children(Root)' = Children(Root) \ walked
  BY <1>1, <1>3 DEF Children
<1>6. Children(Root) = {depth1} \cup hoisted
  BY <1>1, <1>2, MovingFacts
<1>. QED  BY <1>1, <1>4, <1>5, <1>6, MovingFacts

LEMMA ResultInit == Init => ContentIsHoisted /\ FlatteningIsIdempotent
BY DEF Init, ContentIsHoisted, FlatteningIsIdempotent

LEMMA ResultNext ==
    IInv /\ ContentIsHoisted /\ FlatteningIsIdempotent /\ [Next]_vars
      => (ContentIsHoisted /\ FlatteningIsIdempotent)'
<1>. SUFFICES ASSUME IInv, ContentIsHoisted, FlatteningIsIdempotent, [Next]_vars,
                     pc' = "done", ret', faults' = 0, ~Collision'
              PROVE  /\ flat' # Root => live' = content' \cup {Root} /\ Children(Root)' = hoisted'
                     /\ ~Wrapper(Root)'
  BY DEF ContentIsHoisted, FlatteningIsIdempotent
<1>1. CASE StopAt
  BY <1>1 DEF StopAt, Return, Fault, IInv, TypeOK, fs, Wrapper, OnlyChildDir, Children
<1>2. CASE RemoveAll
  <2>1. UNCHANGED <<flat, content, hoisted, depth1, name, kind>> /\ faults = 0 /\ pc = "remove"
    BY <1>2 DEF RemoveAll, Fault, IInv, TypeOK, history
  <2>2. ~Collision
    BY <2>1 DEF Collision
  <2>3. live' = content \cup {Root} /\ Children(Root)' = hoisted
    BY <1>2, <2>2, RemoveAllWithoutFault
  <2>4. ~\E c \in live : hoisted = {c} /\ kind[c] = "dir" /\ name[c] # Bin
    BY <2>1 DEF IInv, Moving
  <2>5. live' \subseteq live
    BY <2>1, <2>3, MovingFacts
  <2>. QED  BY <2>1, <2>3, <2>4, <2>5 DEF Wrapper, OnlyChildDir
<1>3. CASE UNCHANGED vars
  BY <1>3 DEF vars, fs, history, ContentIsHoisted, FlatteningIsIdempotent, Collision, Wrapper,
              OnlyChildDir, Children
<1>4. CASE Start \/ TooDeep
  BY <1>4 DEF Start, TooDeep, Return
<1>5. ASSUME NEW c \in Nodes, Walk(c) \/ Rename(c) \/ RenameFails(c) PROVE FALSE
  BY <1>5 DEF Walk, Rename, RenameFails, fs
<1>6. CASE Open \/ EndOfDirectory
  BY <1>6 DEF Open, EndOfDirectory
<1>. QED  BY <1>1, <1>2, <1>3, <1>4, <1>5, <1>6 DEF Next, Terminated

\* Without a failing call and without a collision of names, flattening moves all
\* of flat into d and leaves nothing else there.
THEOREM HoistingIsComplete == Spec => []ContentIsHoisted
<1>1. Spec => [](ContentIsHoisted /\ FlatteningIsIdempotent)
  BY ResultInit, ResultNext, InvHolds, PTL DEF Spec
<1>. QED  BY <1>1, PTL

\* Under the same conditions a second flattening would find nothing to do.
THEOREM Idempotence == Spec => []FlatteningIsIdempotent
<1>1. Spec => [](ContentIsHoisted /\ FlatteningIsIdempotent)
  BY ResultInit, ResultNext, InvHolds, PTL DEF Spec
<1>. QED  BY <1>1, PTL

\* Whatever fails, nothing is deleted but the directories walked through and
\* what lies under an entry that stayed behind.
THEOREM DeletionIsConfined == Spec => OnlyLeftoversAreDeleted
<1>1. IInv /\ [Next]_vars =>
        [live \ live' \subseteq walked \cup UNION {Below(u) : u \in unmoved}]_vars
  <2>. SUFFICES ASSUME IInv, Next
                PROVE  live \ live' \subseteq walked \cup UNION {Below(u) : u \in unmoved}
    OBVIOUS
  <2>1. CASE RemoveAll
    <3>1. pc = "remove" /\ live \ live' \subseteq Below(depth1)
      BY <2>1 DEF RemoveAll
    <3>. QED  BY <3>1, Leftovers
  <2>2. ASSUME NEW c \in Nodes, Walk(c) \/ Rename(c) \/ RenameFails(c) PROVE live' = live
    BY <2>2 DEF Walk, Rename, RenameFails, fs
  <2>3. CASE Start \/ StopAt \/ TooDeep \/ Open \/ EndOfDirectory \/ Terminated
    BY <2>3 DEF Start, StopAt, TooDeep, Open, EndOfDirectory, Terminated, vars, fs
  <2>. QED  BY <2>1, <2>2, <2>3 DEF Next
<1>. QED  BY <1>1, InvHolds, PTL DEF Spec, OnlyLeftoversAreDeleted
-----------------------------------------------------------------------------
(* The directory that is found. *)

\* Until flat is found parents come before their children.  Every directory passed is a wrapper;
\* where the walk stops without a fault, the last one is not.  It gives up at the limit or at once.
Deep ==
    /\ IsFiniteSet(walked) /\ Cardinality(walked) <= MaxDepth
    /\ pc \in {"start", "walk", "open"} => \A x \in live \ {Root} : parent[x] < x /\ parent[x] \in live
    /\ pc \in {"walk", "open"} => \A w \in (walked \cup {Root}) \ {current} : Wrapper(w)
    /\ pc = "open" => flat = current /\ (faults = 0 => ~Wrapper(flat))
    /\ pc = "done" /\ ~ret /\ IsDir(Root) =>
         (walked = {} /\ faults > 0) \/ (Wrapper(Root) /\ Cardinality(walked) = MaxDepth)

\* Numbers do not descend for ever.
LEMMA LeastOne ==
    ASSUME NEW S \in SUBSET Nat, S # {}
    PROVE  \E x \in S : \A y \in S : ~(y < x)
<1>1. PICK x \in S : \A y \in S : ~(<<y, x>> \in OpToRel(<, Nat))
  BY NatLessThanWellFounded, WFMin, Zenon
<1>2. ASSUME NEW y \in S, y < x PROVE FALSE
  <2>1. <<y, x>> \in Nat \X Nat /\ <<y, x>>[1] = y /\ <<y, x>>[2] = x
    OBVIOUS
  <2>2. <<y, x>> \in OpToRel(<, Nat)
    BY <1>2, <2>1, Zenon DEF OpToRel
  <2>. QED  BY <1>1, <2>2, Zenon
<1>. QED  BY <1>2, Zenon

LEMMA DeepInit == Init => Deep
<1>. SUFFICES ASSUME Init PROVE Deep
  OBVIOUS
<1>1. IsFiniteSet(walked) /\ Cardinality(walked) = 0
  BY FS_EmptySet DEF Init
<1>2. \A x \in live \ {Root} : parent[x] < x /\ parent[x] \in live
  BY NodesAssumption DEF Init, IsDir
<1>. QED  BY <1>1, <1>2, BoundsAssumption DEF Init, Deep

\* Going on makes the directory a wrapper, for it has the next one as its only child.
LEMMA WalkKeepsDeep ==
    ASSUME IInv, Deep, NEW c \in Nodes, Walk(c)
    PROVE  Deep'
<1>1. /\ pc = "walk" /\ pc' = "walk" /\ current' = c /\ OnlyChildDir(current, c)
      /\ walked' = walked \cup {c} /\ Cardinality(walked) < MaxDepth
      /\ UNCHANGED <<live, parent, name, kind>>
  BY DEF Walk, fs
<1>2. IsFiniteSet(walked') /\ Cardinality(walked') <= MaxDepth
  <2>1. IsFiniteSet(walked) /\ Cardinality(walked) \in Nat
    BY FS_CardinalityType DEF Deep
  <2>2. /\ IsFiniteSet(walked \cup {c})
        /\ Cardinality(walked \cup {c}) = IF c \in walked THEN Cardinality(walked) ELSE Cardinality(walked) + 1
    BY <2>1, FS_AddElement, Zenon
  <2>3. IsFiniteSet(walked \cup {c}) /\ Cardinality(walked \cup {c}) \in Nat
    BY <2>2, FS_CardinalityType
  <2>. QED  BY <1>1, <2>1, <2>2, <2>3, BoundsAssumption
<1>3. Wrapper(current) /\ \A w \in (walked \cup {Root}) \ {current} : Wrapper(w)
  BY <1>1 DEF Wrapper, OnlyChildDir, Children, Deep
<1>4. \A w : Wrapper(w)' = Wrapper(w)
  BY <1>1 DEF Wrapper, OnlyChildDir, Children
<1>5. \A w \in (walked' \cup {Root}) \ {current'} : Wrapper(w)'
  BY <1>1, <1>3, <1>4
<1>6. \A x \in live' \ {Root} : parent'[x] < x /\ parent'[x] \in live'
  BY <1>1 DEF Deep
<1>. QED  BY <1>1, <1>2, <1>5, <1>6 DEF Deep

LEMMA NextKeepsDeep == IInv /\ Deep /\ [Next]_vars => Deep'
<1>. SUFFICES ASSUME IInv, Deep, [Next]_vars PROVE Deep'
  OBVIOUS
<1>. DEFINE same == UNCHANGED <<live, parent, name, kind, walked>>
<1>1. ASSUME same
      PROVE  /\ IsDir(Root)' = IsDir(Root)
             /\ \A w : Wrapper(w)' = Wrapper(w)
             /\ IsFiniteSet(walked') /\ Cardinality(walked') <= MaxDepth /\ Cardinality(walked') = Cardinality(walked)
             /\ pc \in {"start", "walk", "open"} => \A x \in live' \ {Root} : parent'[x] < x /\ parent'[x] \in live'
  BY <1>1 DEF Wrapper, OnlyChildDir, Children, IsDir, Deep
<1>2. CASE Start
  <2>1. same /\ pc = "start" /\ UNCHANGED <<current, walked>> /\ walked = {} /\ current = Root
    BY <1>2 DEF Start, fs, history, IInv, Walking
  <2>2. pc' = "walk" \/ (pc' = "done" /\ (~IsDir(Root) \/ faults' > 0))
    BY <1>2 DEF Start, Return, Fault, IInv, TypeOK
  <2>. QED  BY <1>1, <2>1, <2>2 DEF Deep
<1>3. ASSUME NEW c \in Nodes, Walk(c) PROVE Deep'
  BY <1>3, WalkKeepsDeep
<1>4. CASE StopAt
  <2>1. same /\ pc = "walk" /\ UNCHANGED current /\ flat' = current
        /\ (pc' = "open" \/ (pc' = "done" /\ ret'))
        /\ (faults' = 0 => ~Wrapper(current))
    BY <1>4 DEF StopAt, Return, fs, Fault, IInv, TypeOK
  <2>2. Wrapper(flat)' = Wrapper(current)
    BY <2>1 DEF Wrapper, OnlyChildDir, Children
  <2>3. \A w \in (walked' \cup {Root}) \ {current'} : Wrapper(w)'
    BY <1>1, <2>1 DEF Deep
  <2>. QED  BY <1>1, <2>1, <2>2, <2>3 DEF Deep
<1>5. CASE TooDeep
  <2>1. same /\ pc = "walk" /\ pc' = "done" /\ Cardinality(walked) >= MaxDepth
    BY <1>5 DEF TooDeep, Return, fs, history
  <2>2. Cardinality(walked) = MaxDepth
    BY <2>1, FS_CardinalityType, BoundsAssumption DEF Deep
  <2>3. walked # {}
    BY <2>2, FS_EmptySet, BoundsAssumption
  <2>4. current # Root
    BY <2>1, <2>3 DEF IInv, Walking
  <2>5. Wrapper(Root)
    BY <2>1, <2>4 DEF Deep
  <2>. QED  BY <1>1, <2>1, <2>2, <2>5 DEF Deep
<1>6. CASE Open \/ EndOfDirectory \/ \E c \in Nodes : RenameFails(c)
  <2>1. same /\ pc' \in {"move", "remove"}
    BY <1>6 DEF Open, EndOfDirectory, RenameFails, fs, history
  <2>. QED  BY <1>1, <2>1 DEF Deep
<1>7. ASSUME NEW c \in Nodes, Rename(c) PROVE Deep'
  <2>1. pc' = "move" /\ walked' = walked
    BY <1>7 DEF Rename, history
  <2>. QED  BY <2>1 DEF Deep
<1>8. CASE RemoveAll
  <2>1. pc' = "done" /\ ret' /\ walked' = walked
    BY <1>8 DEF RemoveAll, Return, history
  <2>. QED  BY <2>1 DEF Deep
<1>9. CASE UNCHANGED vars
  <2>1. same /\ UNCHANGED <<pc, current, flat, faults, ret>>
    BY <1>9 DEF vars, fs, history
  <2>2. /\ pc' \in {"walk", "open"} => \A w \in (walked' \cup {Root}) \ {current'} : Wrapper(w)'
        /\ pc' = "open" => flat' = current' /\ (faults' = 0 => ~Wrapper(flat)')
    <3>1. Wrapper(flat)' = Wrapper(flat)
      BY <2>1 DEF Wrapper, OnlyChildDir, Children
    <3>. QED  BY <1>1, <2>1, <3>1 DEF Deep
  <2>3. pc' = "done" /\ ~ret' /\ IsDir(Root)' =>
          (walked' = {} /\ faults' > 0) \/ (Wrapper(Root)' /\ Cardinality(walked') = MaxDepth)
    BY <1>1, <2>1 DEF Deep
  <2>. QED  BY <1>1, <2>1, <2>2, <2>3 DEF Deep
<1>. QED  BY <1>2, <1>3, <1>4, <1>5, <1>6, <1>7, <1>8, <1>9 DEF Next, Terminated

\* What is not on the way is inside flat: otherwise, of what is not, the first has a parent that
\* is on the way, and is the next directory on it.
LEMMA ContentIsInside ==
    ASSUME IInv, Deep, pc = "open"
    PROVE  Below(flat) = content \cup {flat}
<1>1. /\ Root \in live /\ flat \in walked /\ depth1 \in walked
      /\ walked \subseteq live \ {Root} /\ content = live \ (walked \cup {Root})
      /\ Children(Root) = {depth1} /\ Children(flat) = hoisted /\ hoisted \subseteq content
      /\ \A x \in live \ {Root} : parent[x] \in walked \ {flat} => x \in walked
  BY MovingFacts
<1>7. depth1 # None
  BY MovingFacts
<1>2. \A x \in live \ {Root} : parent[x] < x /\ parent[x] \in live
  BY DEF Deep
<1>3. live \subseteq Nat
  BY NodesAssumption DEF IInv, TypeOK
<1>4. Below(flat) \subseteq content \cup {flat}
  <2>1. \A x \in walked : parent[x] \in walked \cup {Root}
    <3>. DEFINE S == {x \in walked : parent[x] \in walked \cup {Root}}
    <3>1. S \in SUBSET live /\ depth1 \in S /\ \A x \in walked : parent[x] \in S => x \in S
      BY <1>1 DEF Children
    <3>2. walked \subseteq S
      BY <1>1, <1>7, <3>1 DEF IInv, Chained
    <3>. QED  BY <3>2
  <2>2. Closed(content \cup {flat})
    <3>1. ASSUME NEW x \in live \ {Root}, parent[x] \in content \cup {flat}, x \notin content \cup {flat}
          PROVE  FALSE
      <4>1. x \in walked \ {flat} /\ parent[x] \in live
        BY <1>1, <1>2, <3>1
      <4>2. parent[x] = flat
        BY <1>1, <2>1, <3>1, <4>1
      <4>3. x \in hoisted
        BY <1>1, <4>1, <4>2 DEF Children
      <4>. QED  BY <1>1, <4>1, <4>3
    <3>. QED  BY <3>1 DEF Closed
  <2>3. flat \in live /\ content \cup {flat} \in SUBSET live
    BY <1>1
  <2>. QED  BY <2>2, <2>3, BelowIsLeast
<1>5. ASSUME NEW S \in SUBSET live, flat \in S, Closed(S)
      PROVE  content \subseteq S
  <2>. SUFFICES ASSUME content \ S # {} PROVE FALSE
    OBVIOUS
  <2>1. PICK x \in content \ S : \A y \in content \ S : ~(y < x)
    BY <1>1, <1>3, LeastOne
  <2>2. x \in live \ {Root} /\ x \notin walked /\ parent[x] \in live /\ parent[x] < x
    BY <1>1, <1>2, <2>1
  <2>3. parent[x] \notin content \ S
    BY <2>1, <2>2
  <2>4. parent[x] \notin S
    BY <1>5, <2>1, <2>2 DEF Closed
  <2>5. parent[x] = Root
    BY <1>1, <1>5, <2>2, <2>3, <2>4
  <2>6. x \in Children(Root)
    BY <2>2, <2>5 DEF Children
  <2>. QED  BY <1>1, <2>2, <2>6
<1>6. content \cup {flat} \subseteq Below(flat)
  BY <1>1, <1>5 DEF Below
<1>. QED  BY <1>4, <1>6

\* The walk of flattened_internal ends in the first directory that is no wrapper, everything else
\* is inside it, and without an answer it ends only after MaxDepth directories, or before the first
\* of them, when it could not find out whether d is a directory.
THEOREM FlatIsFound == Spec => []FlatIsTheDeepest
<1>1. IInv /\ Deep => FlatIsTheDeepest
  BY ContentIsInside DEF FlatIsTheDeepest, Deep
<1>. QED  BY <1>1, InvHolds, DeepInit, NextKeepsDeep, PTL DEF Spec
=============================================================================
