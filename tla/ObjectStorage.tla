--------------------------- MODULE ObjectStorage ---------------------------
(***************************************************************************)
(* PDFObjectStorage (pdfdocument.h/.cpp) and the functions of              *)
(* PDFObjectUtils that walk the references between its objects.            *)
(*                                                                         *)
(* A storage is an array of entries, each an object and a generation.  An  *)
(* object is null, a simple value or a dictionary; what a stream has       *)
(* besides its dictionary is its content.  Arrays and nested dictionaries  *)
(* are flattened: an entry of a dictionary is null, simple or a reference. *)
(* Objects are tuples that start with their type, a length for each type.  *)
(***************************************************************************)
EXTENDS Integers, FiniteSets

Null == <<"null">>
Simple(value) == <<"simple", value>>
Reference(number, generation) == <<"reference", number, generation>>
Dictionary(type, content, entries) == <<"dictionary", type, content, entries>>

isReference(x) == x[1] = "reference"
isDictionary(x) == x[1] = "dictionary"
Type(d) == d[2]
Content(d) == d[3]
Entries(d) == d[4]

\* The array is indexed from 0; its entries have fields object, generation.
Count(objects) == Cardinality(DOMAIN objects)

\* PDFObjectStorage::getObject: a reference of another generation is null.
getObject(objects, r) ==
    IF r[2] \in DOMAIN objects /\ objects[r[2]].generation = r[3]
    THEN objects[r[2]].object
    ELSE Null

ReferenceTo(objects, i) == Reference(i, objects[i].generation)

\* PDFAbstractVisitor on a dictionary: F(x) for every value of an entry.
Updated(o, F(_)) ==
    IF isDictionary(o)
    THEN Dictionary(Type(o), Content(o), [k \in DOMAIN Entries(o) |-> F(Entries(o)[k])])
    ELSE o

UpdateAll(objects, F(_)) ==
    [i \in DOMAIN objects |-> [objects[i] EXCEPT !.object = F(@)]]

\* PDFObjectUtils::getDirectReferences
getDirectReferences(o) ==
    IF isDictionary(o)
    THEN {Entries(o)[k] : k \in {k \in DOMAIN Entries(o) : isReference(Entries(o)[k])}}
    ELSE {}

\* PDFObjectUtils::getReferences: as many rounds as objects reach all of them.
getReferences(o, objects) ==
    LET round[n \in Nat] ==
            IF n = 0 THEN getDirectReferences(o)
            ELSE LET last == round[n - 1]
                 IN  last \cup UNION {getDirectReferences(getObject(objects, r)) : r \in last}
    IN  round[Count(objects)]

\* PDFObjectUtils::replaceReferences
replaceReferences(o, map) ==
    Updated(o, LAMBDA x : IF x \in DOMAIN map THEN map[x] ELSE x)

-----------------------------------------------------------------------------
(* A document still says what another one said if whoever reads them in    *)
(* parallel, following the same path of dictionary keys from the trailers  *)
(* through references, never sees a difference.  A null entry is a missing *)
(* one.  If there is a difference, it is found after as many steps as      *)
(* there are objects.  There is one exception: a key with a reference that *)
(* is later than the entry of its number leads nowhere, and may come to    *)
(* lead somewhere when the number is given to another object.              *)

Value(x, objects) == IF isReference(x) THEN getObject(objects, x) ELSE x
Keys(d, objects) == {k \in DOMAIN Entries(d) : Value(Entries(d)[k], objects) # Null}

\* The keys of d with references of a generation their entry has not reached.
Later(d, objects) ==
    {k \in DOMAIN Entries(d) :
        LET x == Entries(d)[k]
        IN  isReference(x) /\ x[2] \in DOMAIN objects /\ objects[x[2]].generation < x[3]}

\* A document is a record of its trailer and objects here.  What p[1] is in d
\* and p[2] in e is the same at this point of the path,
Agree(p, d, e, Decoded(_)) ==
    IF isDictionary(p[1]) /\ isDictionary(p[2])
    THEN /\ Type(p[1]) = Type(p[2])
         /\ Decoded(Content(p[1])) = Decoded(Content(p[2]))
         /\ Keys(p[1], d.objects) = Keys(p[2], e.objects) \ Later(p[1], d.objects)
    ELSE p[1] = p[2]

\* and what a key leads to from there.
Below(p, d, e) ==
    IF isDictionary(p[1]) /\ isDictionary(p[2])
    THEN {<<Value(Entries(p[1])[k], d.objects), Value(Entries(p[2])[k], e.objects)>> :
             k \in Keys(p[1], d.objects) \cap Keys(p[2], e.objects)}
    ELSE {}

SameMeaning(d, e, Decoded(_)) ==
    LET pairs[n \in Nat] ==
            IF n = 0 THEN {<<d.trailer, e.trailer>>}
            ELSE LET last == pairs[n - 1]
                 IN  last \cup UNION {Below(p, d, e) : p \in last}
    IN  \A p \in pairs[Count(d.objects) + Count(e.objects)] : Agree(p, d, e, Decoded)
=============================================================================
