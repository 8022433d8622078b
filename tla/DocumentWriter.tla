--------------------------- MODULE DocumentWriter ---------------------------
(***************************************************************************)
(* PDFDocumentWriter (pdfdocumentwriter.h/.cpp): the file that is written  *)
(* for a storage, and what PDFDocumentReader reads from such a file.       *)
(*                                                                         *)
(* A file has the rows of its reference table, the bodies they point to    *)
(* (each under a header that names its reference), a trailer, and the      *)
(* reference tables of older versions by their offset.                     *)
(***************************************************************************)
EXTENDS ObjectStorage

\* A storage as written to a device; documents are records as in SameMeaning.
LastGeneration == 65535     \* of the head of the list of free entries

RowOf(objects, i) ==
    [occupied |-> objects[i].object # Null,
     generation |-> IF i = 0 THEN LastGeneration ELSE objects[i].generation]

\* mutant: headers of objects as for a file that was never updated
FirstHeader(objects, i) == Reference(i, 0)
Header(objects, i) == ReferenceTo(objects, i)

\* The keys of the trailer that are written. Others describe how the file
\* that was read is built, above all where its older tables are (/Prev).
WrittenKeys == {"Root", "Encrypt", "Info", "ID"}
Restricted(t, keys) ==
    Dictionary(Type(t), Content(t), [k \in DOMAIN Entries(t) \cap keys |-> Entries(t)[k]])

WrittenTrailer(t) ==
    Restricted(t, {k \in WrittenKeys : k \in DOMAIN Entries(t) /\ Entries(t)[k] # Null})

Written(d) ==
    [rows    |-> [i \in DOMAIN d.objects |-> RowOf(d.objects, i)],
     bodies  |-> [i \in {i \in DOMAIN d.objects : d.objects[i].object # Null} |->
                     [header |-> Header(d.objects, i), object |-> d.objects[i].object]],
     trailer |-> WrittenTrailer(d.trailer),
     older   |-> {}]

-----------------------------------------------------------------------------
(* Reading a file back, strictly (see DocumentReader for the reader).      *)

OccupiedRows(file) == {i \in DOMAIN file.rows : file.rows[i].occupied}

\* Each occupied row leads to an object of its number and generation, and the
\* older table the trailer asks for is in the file.
Readable(file) ==
    /\ \A i \in OccupiedRows(file) :
           file.bodies[i].header = Reference(i, file.rows[i].generation)
    /\ "Prev" \in DOMAIN Entries(file.trailer) => Entries(file.trailer)["Prev"] \in file.older

\* A row that is free leaves its entry as it was created.
ReadBack(file) ==
    [objects |-> [i \in DOMAIN file.rows |->
                     IF file.rows[i].occupied
                     THEN [object |-> file.bodies[i].object, generation |-> file.rows[i].generation]
                     ELSE [object |-> Null, generation |-> 0]],
     trailer |-> file.trailer]
=============================================================================
