---------------------------- MODULE MCThreadPool ----------------------------
(***************************************************************************)
(* Small pools for TLC.  main is the plugin's main thread, other a second  *)
(* thread that dispatches.  The job "lib" is getLibrary: it dispatches     *)
(* the job of each document from the worker it runs on.                    *)
(***************************************************************************)
EXTENDS ThreadPool

CONSTANTS main, other

\* Two threads dispatch more than the queue and the worker can hold.
FloodJobs == {"a1", "a2", "a3", "b1", "b2"}
FloodRoots == [c \in Client |-> IF c = main THEN <<"a1", "a2", "a3">>
                                ELSE <<"b1", "b2">>]
NoSpawn == [j \in Job |-> <<>>]

\* A library with more documents than a pool of one has room for.
BigLibraryJobs == {"lib", "doc1", "doc2", "doc3", "doc4"}
BigLibraryRoots == [c \in Client |-> <<"lib">>]
BigLibrarySpawn == [j \in Job |->
  IF j = "lib" THEN <<"doc1", "doc2", "doc3", "doc4">> ELSE <<>>]

\* Two threads and three jobs that dispatch nothing.
FewJobs == {"a", "b", "c"}
FewRoots == [c \in Client |-> IF c = main THEN <<"a", "b">> ELSE <<"c">>]
=============================================================================
