--------------------------- MODULE MCLibrarySync ---------------------------
(***************************************************************************)
(* LibrarySync for a library of a few documents on two workers.            *)
(***************************************************************************)
EXTENDS LibrarySync

\* Two documents on two pages, of which the first has a file.
MCListing == <<"d1", "d2">>
MCFilesOf == [d1 |-> <<"p1">>, d2 |-> <<>>, d3 |-> <<>>]
=============================================================================
