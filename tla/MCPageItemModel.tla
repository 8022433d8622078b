------------------------- MODULE MCPageItemModel -------------------------
(* A file whose second page may be gone when it is read again, a file of   *)
(* one page, and either nothing loaded or the rows of a workspace: the two *)
(* pages of the first file grouped and the page of the second.             *)
EXTENDS PageItemModel

MCCounts == [two |-> {1, 2}, one |-> {1}]
MCPageLists == {<<>>, <<2, 1, 2>>}
MCOutlines == {{2}}
MCWorkspaces ==
    {[items |-> <<>>, trash |-> <<>>, documents |-> <<>>, images |-> 0],
     [items |-> <<<<DocumentPage(1, 1), DocumentPage(1, 2)>>, <<DocumentPage(2, 1)>>>>,
      trash |-> <<>>,
      documents |-> <<[file |-> "two", count |-> 2], [file |-> "one", count |-> 1]>>,
      images |-> 0]}
=============================================================================
