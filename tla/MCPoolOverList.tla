--------------------------- MODULE MCPoolOverList ---------------------------
(***************************************************************************)
(* getLibrary on a small pool over the real list.  With a library of two   *)
(* documents the backlog stays within four initial places; with one of     *)
(* four documents it can exceed two.                                       *)
(***************************************************************************)
EXTENDS PoolOverList

CONSTANT main

LibraryRoots == [c \in Client |-> <<"lib", "self", "file", "check">>]
SmallJobs == {"lib", "file", "check", "self", "doc1", "doc2"}
SmallSpawn == [j \in Job |-> IF j = "lib" THEN <<"doc1", "doc2">> ELSE <<>>]

LargeJobs == SmallJobs \cup {"doc3", "doc4"}
LargeSpawn == [j \in Job |->
  IF j = "lib" THEN <<"doc1", "doc2", "doc3", "doc4">> ELSE <<>>]
=============================================================================
