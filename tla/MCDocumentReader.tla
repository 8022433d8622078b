-------------------------- MODULE MCDocumentReader --------------------------
(* Files for TLC.  The first version has the root (1), a stream (2) whose  *)
(* length may be object 3, object 3 itself or in the object stream 4.  It  *)
(* may be updated once: object 2 or 3 is replaced or freed, by a table, a  *)
(* reference stream or a table with hidden entries; the tables may form a  *)
(* circle or end in nothing; an object may be damaged.                     *)
EXTENDS DocumentReader, TLC

Body(n, intact, length, members) ==
    [ref |-> <<n, 0>>, intact |-> intact, length |-> length, members |-> members]
Table(e, prev, stm) == [entries |-> e, prev |-> prev, stm |-> stm]

BaseEntries(inStream) ==
    (0 :> Free) @@ (1 :> Occupied(0, 11)) @@ (2 :> Occupied(0, 12)) @@
    IF inStream THEN (3 :> InObjectStream(4)) @@ (4 :> Occupied(0, 14))
                ELSE (3 :> Occupied(0, 13))

BaseBodies(inStream, length, damaged) ==
    (11 :> Body(1, damaged # 1, <<>>, {})) @@ (12 :> Body(2, damaged # 2, length, {})) @@
    IF inStream THEN (14 :> Body(4, damaged # 4, <<>>, {3}))
                ELSE (13 :> Body(3, damaged # 3, <<>>, {}))

Newer(n) == (20 + n) :> Body(n, TRUE, <<>>, {})

\* update -> the sections of the file and the bodies it adds; the first
\* section is at 100, that of an update at 200, hidden entries are at 300.
VersionsOf(e) ==
    [plain       |-> [start |-> 100, bodies |-> <<>>, sections |-> (100 :> Table(e, None, None))],
     circle      |-> [start |-> 200, bodies |-> Newer(2), sections |->
                        (100 :> Table(e, 200, None)) @@ (200 :> Table(2 :> Occupied(0, 22), 100, None))],
     broken      |-> [start |-> 200, bodies |-> Newer(2), sections |->
                        (200 :> Table(2 :> Occupied(0, 22), 400, None))],
     replaced    |-> [start |-> 200, bodies |-> Newer(3), sections |->
                        (100 :> Table(e, None, None)) @@ (200 :> Table(3 :> Occupied(0, 23), 100, None))],
     hidden      |-> [start |-> 200, bodies |-> Newer(2), sections |->
                        (100 :> Table(e, None, None)) @@ (200 :> Table(2 :> Free, 100, 300)) @@
                        (300 :> Table(2 :> Occupied(0, 22), None, None))]]

FreeingUpdate(e) ==
    [start |-> 200, bodies |-> <<>>, sections |->
        (100 :> Table(e, None, None)) @@ (200 :> Table(2 :> Free, 100, None))]

FileOf(u, inStream, length, damaged, encryption) ==
    [start |-> u.start, sections |-> u.sections, root |-> 1, encryption |-> encryption,
     bodies |-> BaseBodies(inStream, length, damaged) @@ u.bodies]

Damages == 0 .. 4

MCFiles ==
    {FileOf(VersionsOf(BaseEntries(s))[u], s, l, d, e) :
        u \in DOMAIN VersionsOf(<<>>), s \in BOOLEAN, l \in {<<>>, <<3, 0>>}, d \in Damages, e \in Encryptions}

MCFreeingFiles == {FileOf(FreeingUpdate(BaseEntries(s)), s, <<>>, 0, "none") : s \in BOOLEAN}
MCAllFiles == MCFiles \cup MCFreeingFiles
=============================================================================
