------------------------------ MODULE Flatten ------------------------------
(***************************************************************************)
(* lib/fs.cc: MakeFlattened(d, ec), which uncia runs on the destination    *)
(* after an extraction.  It walks down from d while a directory holds one  *)
(* directory and nothing else (and that directory is not called "bin"),    *)
(* moves the entries of the last directory reached, flat, up into d, and   *)
(* deletes depth1, the first of the directories it walked through.         *)
(*                                                                         *)
(* The file system is a table of inodes.  parent, name and kind describe a *)
(* tree over the inodes in live; a rename changes the parent of one inode. *)
(* Names stand for classes of names equal up to case, which is how Windows *)
(* compares them.  The std::error_code every call gets is never looked at: *)
(* a failing call is a Fault, of which there are at most MaxFaults.        *)
(***************************************************************************)
EXTENDS Naturals, FiniteSets

CONSTANTS
    Nodes,      \* inodes; naturals, so that Init can name trees parent first
    Root,       \* the inode of d
    None,       \* no inode
    Names,      \* names of directory entries
    Bin,        \* the name "bin"
    MaxDepth,   \* the bound of the loop in flattened_internal, 20 in the code
    MaxFaults   \* how many file-system calls may fail in one behaviour

ASSUME NodesAssumption == Nodes \subseteq Nat /\ Root \in Nodes /\ None \notin Nodes
ASSUME BoundsAssumption == MaxDepth \in Nat \ {0} /\ MaxFaults \in Nat

VARIABLES
    live, parent, name, kind,   \* the file system
    pc,         \* where MakeFlattened is
    current,    \* the directory flattened_recursive looks at
    depth1,     \* the first directory walked into
    flat,       \* the directory whose entries are moved
    todo,       \* what the directory iterator over flat has yet to produce
    ret,        \* what MakeFlattened returns
    faults,     \* failing calls so far
    walked,     \* history: the directories walked into
    content,    \* history: everything inside flat when it was found
    hoisted,    \* history: the entries of flat when it was found
    unmoved     \* history: those of them that were not moved

fs == <<live, parent, name, kind>>
history == <<walked, content, hoisted, unmoved>>
vars == <<fs, pc, current, depth1, flat, todo, ret, faults, history>>

TypeOK ==
    /\ live \subseteq Nodes
    /\ parent \in [Nodes -> Nodes]
    /\ name \in [Nodes -> Names]
    /\ kind \in [Nodes -> {"dir", "file"}]
    /\ pc \in {"start", "walk", "open", "move", "remove", "done"}
    /\ current \in Nodes
    /\ depth1 \in Nodes \cup {None}
    /\ flat \in Nodes \cup {None}
    /\ todo \subseteq Nodes
    /\ pc \in {"open", "move", "remove"} => flat # None
    /\ ret \in BOOLEAN
    /\ faults \in 0 .. MaxFaults
    /\ walked \subseteq Nodes
    /\ content \subseteq Nodes
    /\ hoisted \subseteq Nodes
    /\ unmoved \subseteq Nodes
-----------------------------------------------------------------------------
(* The file system. *)

IsDir(n) == n \in live /\ kind[n] = "dir"

Children(n) == {c \in live \ {Root} : parent[c] = n}

\* S has everything that lies under one of its members.
Closed(S) == \A x \in live \ {Root} : parent[x] \in S => x \in S

\* n and everything that lies under it.
Below(n) == {m \in live : \A S \in SUBSET live : n \in S /\ Closed(S) => m \in S}

\* The only thing in n is c, a directory with another name than "bin".
OnlyChildDir(n, c) == Children(n) = {c} /\ kind[c] = "dir" /\ name[c] # Bin

Wrapper(n) == \E c \in live : OnlyChildDir(n, c)

\* One more call fails.
Fault == faults < MaxFaults /\ faults' = faults + 1

UniqueNames ==
    \A x, y \in live \ {Root} : parent[x] = parent[y] /\ name[x] = name[y] => x = y

\* d does not exist, is a file, or is the root of a tree in which every inode
\* comes after its parent.  The inodes not in use all look alike.
Init ==
    /\ live = {} \/ \E n \in Nodes : live = {m \in Nodes : m <= n}
    /\ parent \in {p \in [Nodes -> Nodes] : p[Root] = Root /\ \A x \in Nodes \ {Root} : p[x] < x}
    /\ kind \in [Nodes -> {"dir", "file"}]
    /\ \A x \in live \ {Root} : IsDir(parent[x])
    /\ \A x \in Nodes \ live : parent[x] = Root /\ kind[x] = "file"
    /\ name \in [Nodes -> Names]
    /\ \A x \in (Nodes \ live) \cup {Root} : name[x] = Bin
    /\ UniqueNames
    /\ pc = "start"
    /\ current = Root
    /\ depth1 = None
    /\ flat = None
    /\ todo = {}
    /\ ret = FALSE
    /\ faults = 0
    /\ walked = {}
    /\ content = {}
    /\ hoisted = {}
    /\ unmoved = {}
-----------------------------------------------------------------------------
(* Finding flat. *)

Return(r) == pc' = "done" /\ ret' = r

\* std::filesystem::is_directory(d, e), which is false as well when it fails.
Start ==
    /\ pc = "start"
    /\ \/ IsDir(Root) /\ pc' = "walk" /\ UNCHANGED <<ret, faults>>
       \/ ~IsDir(Root) /\ Return(FALSE) /\ faults' = faults
       \/ IsDir(Root) /\ Return(FALSE) /\ Fault
    /\ UNCHANGED <<fs, current, depth1, flat, todo, history>>

\* Mutant: goes into any directory, whatever else is there.
WalkIntoAnyDir(c) ==
    /\ pc = "walk"
    /\ Cardinality(walked) < MaxDepth
    /\ c \in Children(current) /\ kind[c] = "dir"
    /\ current' = c
    /\ depth1' = IF depth1 = None THEN c ELSE depth1
    /\ walked' = walked \cup {c}
    /\ UNCHANGED <<fs, pc, flat, todo, ret, faults, content, hoisted, unmoved>>

\* Mutant: remembers the directory it leaves instead of the one it enters.
WalkRemembersParent(c) ==
    /\ pc = "walk"
    /\ Cardinality(walked) < MaxDepth
    /\ OnlyChildDir(current, c)
    /\ current' = c
    /\ depth1' = IF depth1 = None THEN current ELSE depth1
    /\ walked' = walked \cup {c}
    /\ UNCHANGED <<fs, pc, flat, todo, ret, faults, content, hoisted, unmoved>>

\* One iteration of the loop, of which there have been Cardinality(walked):
\* flattened_recursive goes into the only child.
Walk(c) ==
    /\ pc = "walk"
    /\ Cardinality(walked) < MaxDepth
    /\ OnlyChildDir(current, c)
    /\ current' = c
    /\ depth1' = IF depth1 = None THEN c ELSE depth1
    /\ walked' = walked \cup {c}
    /\ UNCHANGED <<fs, pc, flat, todo, ret, faults, content, hoisted, unmoved>>

\* flattened_recursive stops at current.  When it cannot read the directory
\* it sees no entry or no directory in it, and stops there as well.
StopAt ==
    /\ pc = "walk"
    /\ Cardinality(walked) < MaxDepth
    /\ IF Wrapper(current) THEN Fault ELSE faults' = faults
    /\ flat' = current
    /\ IF current = Root THEN Return(TRUE) ELSE pc' = "open" /\ ret' = ret
    /\ content' = live \ (walked \cup {Root})
    /\ hoisted' = Children(current)
    /\ UNCHANGED <<fs, current, depth1, todo, walked, unmoved>>

\* The loop ends without a decision.
TooDeep ==
    /\ pc = "walk"
    /\ Cardinality(walked) >= MaxDepth
    /\ Return(FALSE)
    /\ UNCHANGED <<fs, current, depth1, flat, todo, faults, history>>
-----------------------------------------------------------------------------
(* Moving the entries and deleting what is left. *)

Open ==
    /\ pc = "open"
    /\ pc' = "move"
    /\ \/ todo' = Children(flat) /\ UNCHANGED <<faults, unmoved>>
       \/ Fault /\ todo' = {} /\ unmoved' = Children(flat)
    /\ UNCHANGED <<fs, current, depth1, flat, ret, walked, content, hoisted>>

NameTaken(c) == \E x \in Children(Root) : name[x] = name[c]

\* rename(entry.path(), d / filename).  The only entry d has on its own is
\* depth1, and nothing is renamed onto a directory.
Rename(c) ==
    /\ pc = "move"
    /\ c \in todo
    /\ todo' = todo \ {c}
    /\ ~NameTaken(c)
    /\ parent' = [parent EXCEPT ![c] = Root]
    /\ UNCHANGED <<live, name, kind, pc, current, depth1, flat, ret, faults, history>>

RenameFails(c) ==
    /\ pc = "move"
    /\ c \in todo
    /\ todo' = todo \ {c}
    /\ IF NameTaken(c) THEN faults' = faults ELSE Fault
    /\ unmoved' = unmoved \cup {c}
    /\ UNCHANGED <<fs, pc, current, depth1, flat, ret, walked, content, hoisted>>

EndOfDirectory ==
    /\ pc = "move"
    /\ todo = {}
    /\ pc' = "remove"
    /\ UNCHANGED <<fs, current, depth1, flat, todo, ret, faults, history>>

\* Mutant: deletes flat instead of depth1.
RemoveFlat ==
    /\ pc = "remove"
    /\ Return(TRUE)
    /\ live' = live \ Below(flat)
    /\ UNCHANGED <<parent, name, kind, current, depth1, flat, todo, faults, history>>

\* Mutant: leaves depth1 where it is.
RemoveNothing ==
    /\ pc = "remove"
    /\ Return(TRUE)
    /\ UNCHANGED <<fs, current, depth1, flat, todo, faults, history>>

\* remove_all(depth1, e) deletes bottom up, and stops where it fails.
RemoveAll ==
    /\ pc = "remove"
    /\ Return(TRUE)
    /\ \/ live' = live \ Below(depth1) /\ UNCHANGED faults
       \/ /\ Fault
          /\ \E kept \in SUBSET Below(depth1) :
                /\ depth1 \in kept
                /\ \A k \in kept \ {depth1} : parent[k] \in kept
                /\ live' = (live \ Below(depth1)) \cup kept
    /\ UNCHANGED <<parent, name, kind, current, depth1, flat, todo, history>>

Terminated == pc = "done" /\ UNCHANGED vars

Next ==
    \/ Start
    \/ \E c \in Nodes : Walk(c)
    \/ StopAt
    \/ TooDeep
    \/ Open
    \/ \E c \in Nodes : Rename(c)
    \/ \E c \in Nodes : RenameFails(c)
    \/ EndOfDirectory
    \/ RemoveAll
    \/ Terminated

Spec == Init /\ [][Next]_vars
-----------------------------------------------------------------------------
(* Properties. *)

\* An entry of flat has the name of the directory it would have to replace.
Collision == \E c \in hoisted : depth1 # None /\ name[c] = name[depth1]

\* The walk ends in the directory it is meant to find: every directory passed
\* on the way holds nothing but the next one, flat is not such a directory,
\* and so everything that is not on the way is inside flat.  It gives up on a
\* directory only at the limit on its depth, or at once, when the question
\* whether d is a directory fails: no other failure makes it give up.
FlatIsTheDeepest ==
    /\ pc = "open" /\ faults = 0 =>
        /\ ~Wrapper(flat)
        /\ \A w \in (walked \cup {Root}) \ {flat} : Wrapper(w)
        /\ Below(flat) = content \cup {flat}
    /\ pc = "done" /\ ~ret /\ IsDir(Root) =>
        \/ walked = {} /\ faults > 0
        \/ Wrapper(Root) /\ Cardinality(walked) = MaxDepth

\* When no call failed and no entry of flat has the name of depth1, MakeFlattened
\* returns true with d holding exactly what flat held: nothing is lost and
\* the directories in between are gone.
ContentIsHoisted ==
    pc = "done" /\ ret /\ flat # Root /\ faults = 0 /\ ~Collision =>
        live = content \cup {Root} /\ Children(Root) = hoisted

\* Flattening what has just been flattened changes nothing: under the same
\* conditions d is not a directory the walk would leave again.
FlatteningIsIdempotent ==
    pc = "done" /\ ret /\ faults = 0 /\ ~Collision => ~Wrapper(Root)

\* Whatever fails, a step deletes only directories that were walked through
\* and what lies under an entry that was not moved.
OnlyLeftoversAreDeleted ==
    [][live \ live' \subseteq walked \cup UNION {Below(u) : u \in unmoved}]_vars

\* What the name and the comment promise (include/archive.hpp:8, "MakeFlattened:
\* Flatten directories"): the directories are flattened, so what they contain
\* is still there when no call failed.  The code breaks it.
FlatteningLosesNothing ==
    pc = "done" /\ ret /\ faults = 0 => content \subseteq live
=============================================================================
