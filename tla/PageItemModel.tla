---------------------------- MODULE PageItemModel ----------------------------
(***************************************************************************)
(* The workspace of PageMaster (src/src/Pdf4QtPageMaster): the rows of     *)
(* page groups, the trash bin and the loaded sources, every operation of   *)
(* PageItemModel on them with its snapshot for undo, and what MainWindow   *)
(* builds on it: clipboard, checkpoints and workspace files.               *)
(*                                                                         *)
(* Everything runs in the main thread, an action is one operation.  Names, *)
(* captions, sizes and crop margins are left out; of a page's attributes   *)
(* the additional rotation stands for all of them.  Rows are counted from  *)
(* 1, "before" is the number of rows before an insertion.                  *)
(***************************************************************************)
EXTENDS Integers, FiniteSets, Sequences, SequencesExt, Bags

CONSTANTS
    Files,        \* the PDF files that can be inserted
    Counts,       \* Counts[f]: the page counts file f may have when it is read
    PageLists,    \* what the page import dialog returns; <<>> means all pages
    Outlines,     \* the sets of pages at which regroupOutline may split
    Workspaces,   \* the workspaces the model may start from
    MaxSteps,     \* MAX_UNDO_REDO_STEPS
    MaxRows,      \* bound: rows in the workspace
    MaxChanges,   \* bound: operations that may leave a snapshot
    MaxOperations \* bound: operations performed

ASSUME MaxStepsAssumption == MaxSteps \in Nat \ {0}

VARIABLES
    state,        \* m_pageGroupItems, m_trashBin, m_documents and m_images
    undo,         \* m_undoSteps, the newest last
    redo,         \* m_redoSteps, the newest last
    checkpoints,  \* MainWindow::m_checkpoints
    clipboard,    \* the rows cut or copied and m_dropAction
    project,      \* the workspace file: none, or the one written
    changes,      \* operations performed that may leave a snapshot
    operations    \* operations performed

vars == <<state, undo, redo, checkpoints, clipboard, project, changes, operations>>

---------------------------------------------------------------------------
(* What a workspace holds: rows of pages, none empty, that refer to the    *)
(* documents, each loaded once, and the images it has loaded.              *)

RowsOf(pages) == Seq(pages) \ {<<>>}

Pages == [type : {"document", "image", "empty"}, source : Int, page : Int, turn : Int]
PagesOf(documents, images) ==
    {p \in Pages :
        /\ p.type = "document" => p.source \in DOMAIN documents /\ p.page \in 1..documents[p.source].count
        /\ p.type = "image" => p.source \in 1..images}

Loaded == {documents \in Seq([file : Files, count : Nat]) :
              \A d, e \in DOMAIN documents : documents[d].file = documents[e].file => d = e}

Workspace ==
    {s \in [items : Seq(RowsOf(Pages)), trash : Seq(RowsOf(Pages)), documents : Loaded, images : Nat] :
        \A rows \in {s.items, s.trash} : rows \in Seq(RowsOf(PagesOf(s.documents, s.images)))}

ASSUME DataAssumption ==
    /\ Counts \in [Files -> SUBSET Nat]
    /\ PageLists \subseteq Seq(Int)
    /\ Workspaces \subseteq Workspace

---------------------------------------------------------------------------
(* Rows and pages.                                                         *)

Ascending(rows) ==
    [k \in 1..Cardinality(rows) |-> CHOOSE r \in rows : Cardinality({q \in rows : q <= r}) = k]
Descending(rows) == Reverse(Ascending(rows))

\* The elements of s at the given rows, in the order of the rows.
At(s, rows) == LET order == Ascending(rows) IN [k \in DOMAIN order |-> s[order[k]]]

DocumentPage(d, p) == [type |-> "document", source |-> d, page |-> p, turn |-> 0]
ImagePage(i) == [type |-> "image", source |-> i, page |-> -1, turn |-> 0]
EmptyPage(turn) == [type |-> "empty", source |-> -1, page |-> -1, turn |-> turn]

Splice(items, before, new) ==
    SubSeq(items, 1, before) \o new \o SubSeq(items, before + 1, Len(items))

\* mutant: rows are erased from the first to the last
ErasedAscending(items, rows) == FoldLeft(LAMBDA s, row : IF row \in DOMAIN s THEN RemoveAt(s, row) ELSE s,
                                         items, Ascending(rows))

\* Rows are erased one by one from the last to the first.
Erased(items, rows) == FoldLeft(RemoveAt, items, Descending(rows))

\* extractItems: the pages taken out, in the order of the rows.
Extracted(items, rows) == FoldLeft(LAMBDA pages, row : items[row] \o pages, <<>>, Descending(rows))

\* The orders that sort by the keys, whatever becomes of equal keys.
Sorting(keys, descending) ==
    {o \in [DOMAIN keys -> DOMAIN keys] :
        /\ ToSet(o) = DOMAIN keys
        /\ \A i, j \in DOMAIN keys : i < j =>
            IF descending THEN keys[o[i]] >= keys[o[j]] ELSE keys[o[i]] <= keys[o[j]]}

---------------------------------------------------------------------------
(* What the operations make of a workspace.                                *)

\* createDocumentGroup: one row with the pages that exist, each once.
WithDocumentGroup(s, d, before, pages) ==
    LET all == [p \in 1..s.documents[d].count |-> p]
        asked == IF pages = <<>> THEN all ELSE pages
        once == At(asked, {k \in DOMAIN asked : /\ asked[k] \in DOMAIN all
                                                /\ \A i \in 1..(k - 1) : asked[i] # asked[k]})
        group == [k \in DOMAIN once |-> DocumentPage(d, once[k])]
    IN  IF group = <<>> THEN s
        ELSE [s EXCEPT !.items = Splice(@, before, <<group>>)]

\* A file already loaded is used again if pages are chosen and refused otherwise.
WithDocument(s, file, count, before, pages) ==
    LET loaded == {d \in DOMAIN s.documents : s.documents[d].file = file}
        new == [s EXCEPT !.documents = Append(@, [file |-> file, count |-> count])]
    IN  CASE loaded = {} -> WithDocumentGroup(new, Len(new.documents), before, pages)
          [] loaded # {} /\ pages # <<>> -> WithDocumentGroup(s, CHOOSE d \in loaded : TRUE, before, pages)
          [] OTHER -> s

WithImage(s, before) ==
    [s EXCEPT !.images = @ + 1, !.items = Splice(@, before, <<<<ImagePage(s.images + 1)>>>>)]

\* An empty page after each row, from the last, like the last page of that row.
WithEmptyPages(items, rows) ==
    IF rows = {}
    THEN Append(items, <<EmptyPage(IF items = <<>> THEN 0 ELSE Last(Last(items)).turn)>>)
    ELSE FoldLeft(LAMBDA s, row : Splice(s, row, <<<<EmptyPage(Last(s[row]).turn)>>>>),
                  items, Descending(rows))

Grouped(items, rows) ==
    LET others == At(items, DOMAIN items \ rows)
        first == CHOOSE r \in rows : \A q \in rows : r <= q
    IN  Splice(others, first - 1, <<FlattenSeq(At(items, rows))>>)

Ungrouped(items, rows) ==
    FlattenSeq([r \in DOMAIN items |->
        IF r \in rows THEN [k \in DOMAIN items[r] |-> <<items[r][k]>>] ELSE <<items[r]>>])

\* The clones of the rows follow the last of them.
Cloned(items, rows) ==
    LET last == CHOOSE r \in rows : \A q \in rows : r >= q
    IN  Splice(items, last, At(items, rows))

Removed(s, rows) ==
    [s EXCEPT !.items = Erased(@, rows), !.trash = @ \o Reverse(At(s.items, rows))]

Restored(s) == [s EXCEPT !.items = @ \o s.trash, !.trash = <<>>]

Turned(items, rows, turn) ==
    [r \in DOMAIN items |->
        IF r \notin rows THEN items[r]
        ELSE [k \in DOMAIN items[r] |-> [items[r][k] EXCEPT !.turn = (@ + turn) % 4]]]

Unturned(items, rows) ==
    [r \in DOMAIN items |->
        IF r \notin rows THEN items[r]
        ELSE [k \in DOMAIN items[r] |-> [items[r][k] EXCEPT !.turn = 0]]]

\* mutant: the place of the insertion is not corrected for the rows taken away before it
DroppedUncorrected(items, rows, before, move) ==
    LET rest == IF move THEN Erased(items, rows) ELSE items
    IN  Splice(rest, IF before > Len(rest) THEN Len(rest) ELSE before, At(items, rows))

\* dropMimeData: rows moved or copied to a place.
Dropped(items, rows, before, move) ==
    IF move
    THEN Splice(Erased(items, rows), before - Cardinality({r \in rows : r <= before}), At(items, rows))
    ELSE Splice(items, before, At(items, rows))

\* reorderItems: the rows selected, or all of them if none is, keep their places.
Reorderable(items, rows) == IF rows = {} THEN DOMAIN items ELSE rows
Reordered(items, rows, new) ==
    [r \in DOMAIN items |->
        IF r \in rows THEN new[Cardinality({q \in rows : q <= r})] ELSE items[r]]

---------------------------------------------------------------------------
(* Regrouping: the pages of the rows become new rows at the end.           *)

Pairs(pages) ==
    [k \in 1..((Len(pages) + 1) \div 2) |-> At(pages, {2 * k - 1, 2 * k} \cap DOMAIN pages)]

\* The odd pages, then the others; a row for neither if there are none.
OddEven(pages) ==
    LET odd == {k \in DOMAIN pages : pages[k].page % 2 = 1}
        halves == <<At(pages, odd), At(pages, DOMAIN pages \ odd)>>
    IN  At(halves, {k \in 1..2 : halves[k] # <<>>})

\* A page opens a row or is put into the last one.
Opened(rows, page) == Append(rows, <<page>>)
Continued(rows, page) == Front(rows) \o <<Append(Last(rows), page)>>

\* The pages in rows, of which the first page and those at the places opening open one.
Divided(pages, opening) ==
    FoldLeftDomain(LAMBDA rows, i :
                IF rows = <<>> \/ i \in opening THEN Opened(rows, pages[i]) ELSE Continued(rows, pages[i]),
             <<>>, pages)

\* Ordered pages, split where the outline has an entry.
Chapters(pages, breaks) == Divided(pages, {i \in DOMAIN pages : pages[i].page \in breaks})

\* The pages of the first document and of the others by turns.
Alternating(pages, reversed) ==
    LET first == {k \in DOMAIN pages : pages[k].source = pages[1].source}
        one == At(pages, first)
        rest == At(pages, DOMAIN pages \ first)
        other == IF reversed THEN Reverse(rest) ELSE rest
    IN  <<FlattenSeq([k \in DOMAIN pages |->
            At(one, {k} \cap DOMAIN one) \o At(other, {k} \cap DOMAIN other)])>>

Sources(items, rows, type) ==
    {page.source : page \in {q \in ToSet(FlattenSeq(At(items, rows))) : q.type = type}}

\* SelectionInfo::isDocumentOnly: the rows hold document pages and nothing else.
DocumentOnly(items, rows) ==
    \A page \in ToSet(FlattenSeq(At(items, rows))) : page.type = "document"

---------------------------------------------------------------------------
(* What is exported: the pages of the rows, divided into documents.        *)

\* mutant: the pages after the last full document are lost
SplitEveryNFull(pages, n) ==
    [d \in 1..(Len(pages) \div n) |-> At(pages, ((d - 1) * n + 1)..(d * n))]

SplitEveryN(pages, n) ==
    [d \in 1..((Len(pages) + n - 1) \div n) |->
        At(pages, ((d - 1) * n + 1)..(d * n) \cap DOMAIN pages)]

SplitAtPositions(pages, positions) == Divided(pages, positions \ {1})

SplitAtPages(pages, breaks) ==
    Divided(pages, {i \in DOMAIN pages : pages[i].page > 1 /\ pages[i].page \in breaks})

Weight(pages, size) == FoldLeft(LAMBDA w, page : w + size[page.type], 0, pages)

\* By approximate size: a page opens a new document if it no longer fits the last one.
SplitBySize(pages, size, maximum) ==
    FoldLeft(LAMBDA documents, page :
                IF documents = <<>> \/ Weight(Append(Last(documents), page), size) > maximum
                THEN Opened(documents, page) ELSE Continued(documents, page),
             <<>>, pages)

\* The modes of getAssembledPages.
Unite(items) == LET pages == FlattenSeq(items) IN IF pages = <<>> THEN <<>> ELSE <<pages>>
Separate(items) == LET pages == FlattenSeq(items) IN [k \in DOMAIN pages |-> <<pages[k]>>]
SeparateGrouped(items) == At(items, {r \in DOMAIN items : items[r] # <<>>})

---------------------------------------------------------------------------
(* Snapshots.                                                              *)

\* updateUndoRedoSteps
Clamped(steps) ==
    IF Len(steps) > MaxSteps THEN SubSeq(steps, Len(steps) - MaxSteps + 1, Len(steps)) ELSE steps

\* mutant: what was undone can still be redone after a modification
ModifyKeepsRedo(new) ==
    /\ state' = new
    /\ IF new = state THEN UNCHANGED <<undo, redo>>
       ELSE undo' = Clamped(Append(undo, state)) /\ UNCHANGED redo

\* Modifier: an operation that changes something leaves a snapshot.
Modify(new) ==
    /\ state' = new
    /\ IF new = state THEN UNCHANGED <<undo, redo>>
       ELSE undo' = Clamped(Append(undo, state)) /\ redo' = <<>>

Rearrange(items) == Modify([state EXCEPT !.items = items])

\* setWorkspaceState, setWorkspaceData and clear: a new workspace without a history.
Replace(new) ==
    /\ state' = new
    /\ undo' = <<>>
    /\ redo' = <<>>

Rows == 1..Len(state.items)
Selections == SUBSET Rows

Operate ==
    /\ operations < MaxOperations
    /\ operations' = operations + 1

\* An operation on the rows alone, which adds a number of them.
Edit(added) ==
    /\ Operate
    /\ changes < MaxChanges
    /\ changes' = changes + 1
    /\ Len(state.items) + added <= MaxRows
    /\ UNCHANGED <<checkpoints, clipboard, project>>

---------------------------------------------------------------------------
(* The operations.                                                         *)

InsertDocument ==
    /\ Edit(1)
    /\ \E file \in Files, pages \in PageLists, before \in 0..Len(state.items) :
       \E count \in Counts[file] : Modify(WithDocument(state, file, count, before, pages))

InsertImage ==
    /\ Edit(1)
    /\ \E before \in 0..Len(state.items) : Modify(WithImage(state, before))

InsertEmptyPage == \E rows \in Selections :
    /\ Edit(IF rows = {} THEN 1 ELSE Cardinality(rows))
    /\ Rearrange(WithEmptyPages(state.items, rows))

Clone == \E rows \in Selections \ {{}} :
    /\ Edit(Cardinality(rows))
    /\ Rearrange(Cloned(state.items, rows))

Rotate == \E rows \in Selections \ {{}} :
    /\ Edit(0)
    /\ \/ \E turn \in {1, 3} : Rearrange(Turned(state.items, rows, turn))
       \/ Rearrange(Unturned(state.items, rows))

Group == \E rows \in Selections :
    /\ Cardinality(rows) > 1
    /\ Edit(0)
    /\ Rearrange(Grouped(state.items, rows))

Ungroup == \E rows \in Selections :
    /\ \E r \in rows : Len(state.items[r]) > 1
    /\ Edit(Len(FlattenSeq(At(state.items, rows))) - Cardinality(rows))
    /\ Rearrange(Ungrouped(state.items, rows))

RemoveSelection == \E rows \in Selections \ {{}} :
    /\ Edit(0)
    /\ Modify(Removed(state, rows))

RestoreRemovedItems ==
    /\ state.trash # <<>>
    /\ Edit(Len(state.trash))
    /\ Modify(Restored(state))

ReverseItems == \E rows \in Selections :
    LET places == Reorderable(state.items, rows) IN
    /\ Cardinality(places) > 1
    /\ Edit(0)
    /\ Rearrange(Reordered(state.items, places, Reverse(At(state.items, places))))

\* The mode PageNumber; the texts that order rows of the same page are left out.
SortItems == \E rows \in Selections, descending \in BOOLEAN :
    LET places == Reorderable(state.items, rows)
        moved == At(state.items, places)
    IN  /\ Cardinality(places) > 1
        /\ Edit(0)
        /\ \E o \in Sorting([k \in DOMAIN moved |-> moved[k][1].page], descending) :
              Rearrange(Reordered(state.items, places, [k \in DOMAIN moved |-> moved[o[k]]]))

RegroupedRows(items, rows) ==
    LET pages == Extracted(items, rows)
        Ordered == {[k \in DOMAIN pages |-> pages[o[k]]] :
                        o \in Sorting([k \in DOMAIN pages |-> pages[k].page], FALSE)}
        documents == Sources(items, rows, "document")
    IN  {Pairs(pages), <<Reverse(pages)>>}
        \cup (IF DocumentOnly(items, rows) THEN {OddEven(pages)} ELSE {})
        \cup (IF DocumentOnly(items, rows) /\ Cardinality(documents) = 1
              THEN {Chapters(pp, breaks) : pp \in Ordered, breaks \in Outlines} ELSE {})
        \cup (IF DocumentOnly(items, rows) /\ Cardinality(documents) = 2
              THEN {Alternating(pages, reversed) : reversed \in BOOLEAN} ELSE {})

Regroup == \E rows \in Selections \ {{}} : \E new \in RegroupedRows(state.items, rows) :
    /\ Edit(Len(new) - Cardinality(rows))
    /\ Rearrange(Erased(state.items, rows) \o new)

\* A drag within the view; the row dropped at, or the end.
Drop == \E rows \in Selections \ {{}}, before \in 0..Len(state.items), move \in BOOLEAN :
    /\ Edit(IF move THEN 0 ELSE Cardinality(rows))
    /\ Rearrange(Dropped(state.items, rows, before, move))

CutOrCopy == \E rows \in Selections \ {{}}, move \in BOOLEAN :
    /\ Operate
    /\ clipboard' = [rows |-> rows, move |-> move]
    /\ UNCHANGED <<state, undo, redo, checkpoints, project, changes>>

\* Pasted before the last selected row, or before the last of all; the rows of the clipboard
\* are those it was filled with, whatever happened to the workspace since.
Paste == \E row \in Rows \cup {0} :
    /\ clipboard.rows # {}
    /\ row = 0 => state.items = <<>>
    /\ Edit(IF clipboard.move THEN 0 ELSE Cardinality(clipboard.rows))
    /\ IF clipboard.rows \subseteq Rows
       THEN Rearrange(Dropped(state.items, clipboard.rows, row - 1, clipboard.move))
       ELSE UNCHANGED <<state, undo, redo>>

\* The file is inserted behind the selection, or is not: it cannot be read, its security forbids
\* it, it is loaded already.  The selection is removed in any case, as an operation of its own.
ReplaceSelection == \E rows \in Selections \ {{}}, file \in Files : \E count \in Counts[file] :
    \E s \in {state, WithDocument(state, file, count, CHOOSE r \in rows : \A q \in rows : q <= r, <<>>)} :
    /\ Edit(1)
    /\ state' = Removed(s, rows)
    /\ undo' = Clamped(undo \o IF s = state THEN <<state>> ELSE <<state, s>>)
    /\ redo' = <<>>

Undo ==
    /\ undo # <<>>
    /\ Operate
    /\ UNCHANGED <<checkpoints, clipboard, project, changes>>
    /\ state' = Last(undo)
    /\ undo' = Front(undo)
    /\ redo' = Clamped(Append(redo, state))

Redo ==
    /\ redo # <<>>
    /\ Operate
    /\ UNCHANGED <<checkpoints, clipboard, project, changes>>
    /\ state' = Last(redo)
    /\ redo' = Front(redo)
    /\ undo' = Clamped(Append(undo, state))

Clear ==
    /\ Operate
    /\ Replace([items |-> <<>>, trash |-> <<>>, documents |-> <<>>, images |-> 0])
    /\ checkpoints' = {}
    /\ UNCHANGED <<clipboard, project, changes>>

---------------------------------------------------------------------------
(* Checkpoints and workspace files hold rows that name their sources by    *)
(* index; they are read back into a workspace that may have other sources. *)

\* mutant: only the source is looked for, not the page in it
SourceFound(s, items) ==
    \A page \in ToSet(FlattenSeq(items)) :
        /\ page.type = "document" => page.source \in DOMAIN s.documents
        /\ page.type = "image" => page.source \in 1..s.images

\* The checks of restoreWorkspaceStateFromJson.
Restorable(s, items) ==
    \A page \in ToSet(FlattenSeq(items)) :
        /\ page.type = "document" =>
                page.source \in DOMAIN s.documents /\ page.page \in 1..s.documents[page.source].count
        /\ page.type = "image" => page.source \in 1..s.images

SaveCheckpoint ==
    /\ state.items # <<>>
    /\ Operate
    /\ checkpoints' = checkpoints \cup {state.items}
    /\ UNCHANGED <<state, undo, redo, clipboard, project, changes>>

LoadCheckpoint == \E items \in checkpoints :
    /\ Operate
    /\ UNCHANGED <<checkpoints, clipboard, project, changes>>
    /\ IF Restorable(state, items)
       THEN Replace([state EXCEPT !.items = items, !.trash = <<>>])
       ELSE UNCHANGED <<state, undo, redo>>

SaveWorkspace ==
    /\ state.items # <<>>
    /\ Operate
    /\ project' = {[state |-> state, checkpoints |-> checkpoints]}
    /\ UNCHANGED <<state, undo, redo, checkpoints, clipboard, changes>>

\* The sources are read anew, a file may have other pages than it had.  Once they are read the old
\* workspace is gone, also if the rows cannot be restored; the old checkpoints stay then.
OpenWorkspace == \E p \in project :
    \E counts \in [DOMAIN p.state.documents -> UNION {Counts[f] : f \in Files}] :
    LET documents == [d \in DOMAIN counts |-> [p.state.documents[d] EXCEPT !.count = counts[d]]]
        loaded == [p.state EXCEPT !.items = <<>>, !.trash = <<>>, !.documents = documents]
    IN  /\ \A d \in DOMAIN counts : counts[d] \in Counts[documents[d].file]
        /\ Operate
        /\ IF Restorable(loaded, p.state.items)
           THEN Replace([loaded EXCEPT !.items = p.state.items]) /\ checkpoints' = p.checkpoints
           ELSE Replace(loaded) /\ UNCHANGED checkpoints
        /\ UNCHANGED <<clipboard, project, changes>>

---------------------------------------------------------------------------
Init ==
    /\ state \in Workspaces
    /\ undo = <<>> /\ redo = <<>>
    /\ checkpoints = {}
    /\ clipboard = [rows |-> {}, move |-> FALSE]
    /\ project = {}
    /\ changes = 0 /\ operations = 0

\* The operations that move rows and pages about without making or losing any.
Rearranging ==
    \/ Group \/ Ungroup \/ Regroup
    \/ RemoveSelection \/ RestoreRemovedItems
    \/ ReverseItems \/ SortItems

Next ==
    \/ InsertDocument \/ InsertImage \/ InsertEmptyPage \/ Clone \/ Rotate
    \/ Rearranging
    \/ Drop \/ CutOrCopy \/ Paste \/ ReplaceSelection
    \/ Undo \/ Redo \/ Clear
    \/ SaveCheckpoint \/ LoadCheckpoint \/ SaveWorkspace \/ OpenWorkspace

Spec == Init /\ [][Next]_vars

---------------------------------------------------------------------------
(* Properties.                                                             *)

\* Every page shown, in the trash or in a snapshot refers to a page of a document or an image
\* that its own workspace has loaded (m_documents.at and m_images.at are called with it), and
\* no row is without a page (its last page is the template of an empty one): however insertions
\* are undone, checkpoints and workspace files loaded.
Resolvable ==
    \A s \in {state} \cup ToSet(undo) \cup ToSet(redo) :
        /\ \A page \in ToSet(FlattenSeq(s.items \o s.trash)) :
              CASE page.type = "document" ->
                        /\ page.source \in DOMAIN s.documents
                        /\ page.page \in 1..s.documents[page.source].count
                [] page.type = "image" -> page.source \in 1..s.images
                [] page.type = "empty" -> TRUE
        /\ \A row \in ToSet(s.items \o s.trash) : row # <<>>
        /\ \A d, e \in DOMAIN s.documents : s.documents[d].file = s.documents[e].file => d = e

AllPages(s) == ToBag(FlattenSeq(s.items \o s.trash))

\* Grouping, regrouping, ordering, removing and restoring keep every page, as often as it was
\* there; a move by drag or by cut and paste does too.
PagesKept ==
    [][(\/ Rearranging
        \/ (Drop \/ Paste) /\ Len(state'.items) = Len(state.items))
            => AllPages(state') = AllPages(state)]_vars

\* A drop leaves the rows not moved in their order, those before the place before it and those
\* behind it behind it, and the rows moved in between; a place within the rows moved as well.
DropIsSplice ==
    \A rows \in Selections \ {{}}, before \in 0..Len(state.items) :
        /\ Dropped(state.items, rows, before, TRUE) =
                At(state.items, {r \in Rows \ rows : r <= before}) \o At(state.items, rows)
                    \o At(state.items, {r \in Rows \ rows : r > before})
        /\ Extracted(state.items, rows) = FlattenSeq(At(state.items, rows))

\* Sizes of pages that differ by what they come from.
PageSizes == [document : 1..2, image : {2}, empty : {1}]

\* Whatever the split, the documents exported hold the selected pages once and in their order,
\* and none is empty; split by size, one is larger than asked for only if it is a single page,
\* and the page that opens the next one would not have fitted it.
SplitsPartition ==
    LET pages == FlattenSeq(state.items)
        splits == {SplitEveryN(pages, n) : n \in 1..3}
                    \cup {SplitAtPositions(pages, s) : s \in SUBSET (1..3)}
                    \cup {SplitAtPages(pages, s) : s \in SUBSET (1..3)}
                    \cup {Unite(state.items), Separate(state.items), SeparateGrouped(state.items)}
                    \cup {SplitBySize(pages, size, 3) : size \in PageSizes}
    IN  /\ \A split \in splits :
            /\ FlattenSeq(split) = pages
            /\ \A d \in DOMAIN split : split[d] # <<>>
        /\ \A size \in PageSizes :
            LET split == SplitBySize(pages, size, 3) IN
            \A d \in DOMAIN split :
                /\ Weight(split[d], size) > 3 => Len(split[d]) = 1
                /\ d > 1 => Weight(Append(split[d - 1], split[d][1]), size) > 3

\* Undo and redo walk along one line of workspaces, of which a modification forgets what is
\* after the present one and nothing is forgotten but what is beyond MAX_UNDO_REDO_STEPS.
Timeline == INSTANCE UndoTimeline WITH
    timeline <- undo \o <<state>> \o Reverse(redo),
    position <- Len(undo) + 1,
    undoLimit <- MaxSteps,
    redoLimit <- MaxSteps
ImplementsTimeline == Timeline!Spec
=============================================================================
