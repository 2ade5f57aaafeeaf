----------------------------- MODULE MCTarRead -----------------------------
(* A group of headers and a file, with different ends; a group behind any    *)
(* group; and a group and a file that are cut off anywhere.                  *)
EXTENDS TarRead

Header0 == [flag |-> "reg", size |-> 0, body |-> 0, gnu |-> FALSE, malformed |-> FALSE, resize |-> -1,
            version |-> "no", map |-> <<>>, mapsize |-> 0, inner |-> <<>>]
Of(flag, size, body) == [Header0 EXCEPT !.flag = flag, !.size = size, !.body = body]
File(n) == Of("reg", n, n)
Pax == Of("pax", 1, 1)
Null == Of("null", 0, 0)

\* Those that come behind others, too, and more of each sort.
Plain == {<<File(1)>>, <<File(3)>>}
MorePlain == {<<Of("bare", 3, 0)>>}
Named0 == {
    <<Of("longname", 1, 1), Of("longlink", 2, 2), File(1)>>,
    <<Of("longlink", 0, 0), [Pax EXCEPT !.malformed = TRUE], File(2)>>,
    <<Of("volume", 0, 0), Of("global", 1, 1), File(1)>>,
    <<Of("longname", 1, 1)>>, <<Of("longname", 1, 1), Of("damaged", 0, 0)>>,
    <<Pax, Pax, Pax, Pax, File(1)>>}
MoreNamed == {
    <<Pax, Of("longname", 3, 3), File(1)>>,
    <<Of("longname", 5, 5), File(1)>>,
    <<Of("volume", 0, 0)>>, <<Of("global", 1, 1)>>,
    <<Pax, Pax, Pax, File(1)>>,
    <<Of("longname", 1, 1), Null>>,
    <<[Pax EXCEPT !.version = "1.0", !.resize = 5, !.mapsize = 1], Pax, Pax, File(1)>>}
Sparse == {
    <<[Pax EXCEPT !.map = <<Piece(0, 1, TRUE), Piece(1, 2, FALSE)>>], File(3)>>,
    <<[Pax EXCEPT !.version = "1.0", !.mapsize = 1, !.inner = <<Piece(2, 1, FALSE), Piece(5, 2, FALSE)>>], File(5)>>,
    <<[Pax EXCEPT !.version = "other"], File(1)>>}
MoreSparse == {
    <<[Pax EXCEPT !.resize = 3], Of("reg", 1, 3)>>,
    <<[Pax EXCEPT !.map = <<Piece(1, 1, FALSE), Piece(4, 2, FALSE)>>], File(3)>>,
    <<[Pax EXCEPT !.map = <<Piece(1, 1, FALSE), Piece(4, 1, FALSE)>>], File(3)>>,
    <<[Pax EXCEPT !.map = <<Piece(0, 4, FALSE)>>], File(3)>>,
    <<[Pax EXCEPT !.version = "1.0", !.mapsize = 3], File(3)>>,
    <<[Pax EXCEPT !.resize = 5], [Pax EXCEPT !.version = "1.0", !.mapsize = 1, !.inner = <<Piece(2, 3, FALSE)>>], File(5)>>,
    <<[Pax EXCEPT !.map = <<Piece(3, 2, FALSE)>>], [Pax EXCEPT !.map = <<Piece(0, 1, FALSE)>>], File(3)>>}
Links == {<<Of("link", 2, 0)>>, <<Pax, Of("link", 2, 2)>>, <<Of("slash", 2, 2)>>}
MoreLinks == {<<Of("link", 2, 2)>>, <<[Of("link", 2, 0) EXCEPT !.gnu = TRUE]>>, <<Of("slash", 0, 0)>>}
Followers == Plain \cup Named0 \cup Sparse \cup Links \cup {<<Of("damaged", 0, 0)>>}
Groups == Followers \cup MorePlain \cup MoreNamed \cup MoreSparse \cup MoreLinks
Ends == {<<>>, <<Null>>, <<Null, Null>>, <<Null, File(1)>>}

StartsOf(ms) ==
    LET starts[i \in 1 .. Len(ms) + 1] ==
            IF i = 1 THEN 0 ELSE starts[i - 1] + Record + Padded(ms[i - 1].body)
    IN  starts
Tape(ms, cut) == LET s == StartsOf(ms) IN [members |-> ms, starts |-> s, size |-> s[Len(s)] - cut]

MCTapes ==
    {Tape(g \o <<File(1)>> \o e, 0) : g \in Groups, e \in Ends}
    \cup {Tape(g \o h \o <<Null, Null>>, 0) : g \in Groups, h \in Followers}
    \cup {Tape(g \o <<File(3)>>, cut) : g \in Groups, cut \in 0 .. 8}
=============================================================================
