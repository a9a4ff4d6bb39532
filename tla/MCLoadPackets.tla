---------------------------- MODULE MCLoadPackets ----------------------------
EXTENDS LoadPackets, TLC

\* The structures are as long as a header, that of a main packet twice as long; lengths
\* are even.
MCPacketSize ==
  [main |-> 4, description |-> 2, verification |-> 2, recovery |-> 2, creator |-> 2]

\* Parts of a file: bytes, and packets of a recovery set that are intact, damaged
\* or claim a length that is not theirs.
Bytes(n) == [size |-> n, at |-> <<>>]
Header(set, p, length, valid) == [set |-> set, packet |-> p, length |-> length, valid |-> valid]
Good(set, p, n) == [size |-> n, at |-> (0 :> Header(set, p, n, TRUE))]
Bad(set, p, n) == [size |-> n, at |-> (0 :> Header(set, p, n, FALSE))]
Claims(set, p, n, length) == [size |-> n, at |-> (0 :> Header(set, p, length, FALSE))]
\* The hash is right for the header, which claims no length at all.
Empty(set, p, n) == [size |-> n, at |-> (0 :> Header(set, p, 0, TRUE))]
\* The data of the packet holds a packet of another set.
Nested(set, p, n) == [size |-> n, at |-> (0 :> Header(set, p, n, TRUE)) @@ (2 :> Header("B", p, 2, TRUE))]

Join(a, b) ==
  [size |-> a.size + b.size,
   at |-> [o \in DOMAIN a.at \cup {a.size + x : x \in DOMAIN b.at} |->
            IF o \in DOMAIN a.at THEN a.at[o] ELSE b.at[o - a.size]]]
File(parts) == FoldLeft(Join, Bytes(0), parts)

\* What a packet says besides what follows from its length.
Main(bs, rec, ids) == [type |-> "main", blocksize |-> bs, recoverable |-> rec, fileids |-> ids]
Desc(id, size) == [type |-> "description", fileid |-> id, filesize |-> size, sane |-> TRUE]
Verif(id) == [type |-> "verification", fileid |-> id]
Recv(e) == [type |-> "recovery", exponent |-> e]
Creator == [type |-> "creator"]
Unknown == [type |-> "unknown"]

\* A main packet with its file ids, a verification packet of n entries, the data of a
\* recovery packet.
GoodMain(set, bs, rec, ids) == Good(set, Main(bs, rec, ids), 4 + 2 * Len(ids))
GoodVerif(set, id, n) == Good(set, Verif(id), 2 + 2 * n)
GoodRecv(set, e, bs) == Good(set, Recv(e), 2 + bs)

\* Set A: two recoverable files of two blocks and one, and one other file.
MA == GoodMain("A", 2, 2, <<"f", "g", "o">>)
DF == Good("A", Desc("f", 3), 4)
DG == Good("A", Desc("g", 2), 4)
DO == Good("A", Desc("o", 1), 4)
\* Set C has more blocks than can be counted, in one file and in two.
C(d) == File(<<GoodMain("C", 2, 2, <<"p", "q">>), Good("C", Desc("p", d), 4), Good("C", Desc("q", 5), 4)>>)

\* Packets with a right hash that are refused: a block size that is not a multiple, half a
\* file id, a longer name than allowed, half an entry, no data, no description, an odd length.
Refused == {
  File(<<GoodMain("A", 3, 1, <<"f">>), DF, DG>>),
  File(<<Good("A", Main(2, 1, <<"f">>), 8), Good("A", Desc("f", 3), 8), DG>>),
  File(<<Good("A", Verif("f"), 3), Good("A", Recv(0), 2), Good("A", Creator, 2), DF, MA>>) }
ParFiles == {
  File(<<MA, DF, DG, DO>>),
  File(<<Bad("B", Main(2, 1, <<"f">>), 4), DF, MA, DO, Bytes(1)>>),
  File(<<Empty("A", Creator, 3), DF, Bytes(4), Good("A", Unknown, 2), Good("A", Creator, 4)>>),
  File(<<GoodMain("B", 4, 1, <<"h">>), MA>>),
  File(<<Bytes(1), DG, DF, Good("A", Main(0, 2, <<"f", "g">>), 8)>>),
  Bytes(0) }
Volume == File(<<GoodRecv("A", 0, 2), Bytes(4), DG, GoodVerif("A", "f", 2)>>)
VolFiles == {
  Volume,
  File(<<Nested("A", Recv(1), 4), Claims("A", Creator, 2, 8), MA, GoodRecv("A", 2, 4)>>),
  File(<<GoodVerif("A", "g", 2), DO, DG, Claims("A", Recv(0), 2, 4)>>) }
Short == File(<<DF, DG>>)
ExtraPars == {
  Short,
  File(<<Bytes(3), MA, GoodRecv("A", 0, 2), Good("A", [Desc("g", 2) EXCEPT !.sane = FALSE], 4)>>) }

MCPresents == {{"p", "v", "w", "x"}, {"v", "x"}}
MCExtra == <<"x">>
Disk(p, v, x) == "p" :> p @@ "v" :> v @@ "w" :> File(<<DO, GoodRecv("A", 1, 2)>>) @@ "x" :> x
MCDisks == {Disk(p, v, x) : p \in ParFiles, v \in VolFiles, x \in ExtraPars}
           \cup {Disk(p, Volume, Short) : p \in Refused \cup {C(5), C(9)}}
=============================================================================
