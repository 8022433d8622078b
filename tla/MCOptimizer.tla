---------------------------- MODULE MCOptimizer ----------------------------
(* Small documents for TLC.  Entry 0 is the head of the free list, entry 3 *)
(* is the root; entries 1, 2 and 4 may be free, a simple value, a page or  *)
(* another dictionary or a stream.  Entry 1 was reused once; entry 2 can   *)
(* not be used again once it is freed.  If the file has one of them free,  *)
(* it is read with generation 0, and references to it are later ones.  The *)
(* files have an older version.                                            *)
EXTENDS OptimizeTool

MCMaxGeneration == 2

Generation == <<1, 2, 0, 0>>
To(i) == Reference(i, Generation[i])
Stale == Reference(1, 0)
Older == Simple("offset")

Single(type, content, x) == Dictionary(type, content, [a |-> x])
Pair(type, x, y) == Dictionary(type, "none", [a |-> x, b |-> y])

Leaves == {Simple("x"), Single("Page", "none", Simple("x")), Single("Other", "loose", Simple("x"))}

First1 == Leaves \cup {Null, Single("Other", "none", To(2)), Single("Page", "none", To(4))}
Second2 == Leaves \cup {Null, Single("Other", "none", To(2)), Single("Other", "none", Null),
                        Single("Other", "none", To(4))}
Fourth4 == Leaves \cup {Null, Single("Other", "none", To(1)), Single("Page", "none", To(4)),
                        Single("Other", "none", Stale)}
Roots == {Pair("Other", x, y) : x \in {To(1), To(2)}, y \in {To(3), To(4), Stale, To(2)}}

\* A file with an update: the older table is at Older. Free rows keep the
\* generation of the entry.
File(o) ==
    [rows    |-> [i \in 0 .. 4 |-> [occupied |-> i # 0 /\ o[i] # Null,
                                    generation |-> IF i = 0 THEN 65535 ELSE Generation[i]]],
     bodies  |-> [i \in {i \in 1 .. 4 : o[i] # Null} |-> [header |-> To(i), object |-> o[i]]],
     trailer |-> Dictionary("Trailer", "none", [Root |-> To(3), Prev |-> Older]),
     older   |-> {Older}]
MCFiles ==
    {File(<<o1, o2, o3, o4>>) : o1 \in First1, o2 \in Second2, o3 \in Roots, o4 \in Fourth4}
MCDocuments == {ReadBack(f) : f \in MCFiles}

\* The selections of the tools (unite; delete, move and separate), everything,
\* and selections a user can make.
MCFlagSets ==
    {Operations,
     {"Dereference", "RemoveUnused", "Merge", "Shrink"},
     {"RemoveUnused", "Merge", "Shrink"},
     {"RemoveUnused", "Shrink"},
     {"RemoveNull", "Recompress"},
     {"Merge", "Shrink"}}
=============================================================================
