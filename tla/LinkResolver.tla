---------------------------- MODULE LinkResolver ----------------------------
(***************************************************************************)
(* lib/libarchive/archive_entry_link_resolver.c: which names of one file   *)
(* become hard links in an archive and which of them carries the data, in  *)
(* the way the format wants it.  The resolver counts the names of a file   *)
(* it has not seen yet; a format of the newer cpio gets the data with the  *)
(* last name, so each name is held back until the next one is there.       *)
(*                                                                         *)
(* An entry is [path, ino, size, link], where size is 0 for an entry       *)
(* without data and link is the path it is a hard link to, or NoLink.      *)
(* The cache is a function from the files that are cached; the hash table  *)
(* is left out but for the order in which held entries come out, which is  *)
(* any.                                                                    *)
(***************************************************************************)
EXTENDS Naturals, Sequences

CONSTANT NoLink     \* of an entry that is no hard link

\* archive_entry_linkresolver_set_strategy: zip, 7zip and ar are treated like an old cpio.
Strategy(format) ==
    CASE format \in {"iso9660", "shar", "tar", "xar"} -> "tar"
      [] format = "mtree" -> "mtree"
      [] format \in {"cpio_svr4_nocrc", "cpio_svr4_crc"} -> "new_cpio"
      [] OTHER -> "old_cpio"

Cached(cache, e) == e.ino \in DOMAIN cache
Without(cache, ino) == [i \in DOMAIN cache \ {ino} |-> cache[i]]

\* Mutant: forgets the file one name too early.
FoundEarly(cache, e) ==
    IF cache[e.ino].links <= 2 THEN Without(cache, e.ino)
    ELSE [cache EXCEPT ![e.ino].links = @ - 1]

\* find_entry: one name less is to come, and after the last one the file is forgotten.
Found(cache, e) ==
    IF cache[e.ino].links = 1 THEN Without(cache, e.ino)
    ELSE [cache EXCEPT ![e.ino].links = @ - 1]

\* insert_entry, with the entry that is held back, if any.
Inserted(cache, e, nlink, held) ==
    [i \in DOMAIN cache \cup {e.ino} |->
        IF i = e.ino THEN [canonical |-> e.path, links |-> nlink - 1, entry |-> held] ELSE cache[i]]

\* A hard link to the first name that was seen.
Linked(cache, e) == [e EXCEPT !.link = cache[e.ino].canonical]
WithoutData(e) == [e EXCEPT !.size = 0]

LinkifyLikeTar(cache, e, nlink, memory, size) ==
    IF Cached(cache, e) THEN [cache |-> Found(cache, e), out |-> <<[Linked(cache, e) EXCEPT !.size = size]>>]
    ELSE [cache |-> IF memory THEN Inserted(cache, e, nlink, <<>>) ELSE cache, out |-> <<e>>]

\* Mutant: leaves the last name behind.
LinkifyOneForOne(cache, e, nlink, memory) ==
    IF ~Cached(cache, e)
    THEN IF memory THEN [cache |-> Inserted(cache, e, nlink, <<e>>), out |-> <<>>]
         ELSE [cache |-> cache, out |-> <<e>>]
    ELSE LET before == WithoutData(Linked(cache, Head(cache[e.ino].entry)))
             found == Found(cache, e)
         IN  IF e.ino \in DOMAIN found
             THEN [cache |-> [found EXCEPT ![e.ino].entry = <<e>>], out |-> <<before>>]
             ELSE [cache |-> found, out |-> <<before>>]

\* The entry held back comes out for the new one, and the last one of the file as well.
LinkifyLikeNewCpio(cache, e, nlink, memory) ==
    IF ~Cached(cache, e)
    THEN IF memory THEN [cache |-> Inserted(cache, e, nlink, <<e>>), out |-> <<>>]
         ELSE [cache |-> cache, out |-> <<e>>]
    ELSE LET before == WithoutData(Linked(cache, Head(cache[e.ino].entry)))
             found == Found(cache, e)
         IN  IF e.ino \in DOMAIN found
             THEN [cache |-> [found EXCEPT ![e.ino].entry = <<e>>], out |-> <<before>>]
             ELSE [cache |-> found, out |-> <<before, e>>]

\* archive_entry_linkify: the cache and the entries that are to be archived now.
Linkify(strategy, cache, e, nlink, memory) ==
    CASE nlink = 1 \/ strategy = "old_cpio" -> [cache |-> cache, out |-> <<e>>]
      [] nlink # 1 /\ strategy = "tar" -> LinkifyLikeTar(cache, e, nlink, memory, 0)
      [] nlink # 1 /\ strategy = "mtree" -> LinkifyLikeTar(cache, e, nlink, memory, e.size)
      [] nlink # 1 /\ strategy = "new_cpio" -> LinkifyLikeNewCpio(cache, e, nlink, memory)

\* next_entry: the files of which an entry is held back.
Deferred(cache) == {i \in DOMAIN cache : cache[i].entry # <<>>}
=============================================================================
