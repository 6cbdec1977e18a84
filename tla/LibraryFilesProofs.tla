------------------------ MODULE LibraryFilesProofs ------------------------
(***************************************************************************)
(* Proofs about the files of the library, about what getLibrary lists, and *)
(* that everything arrives, for any library, any number of workers and any *)
(* bound on what happens.                                                  *)
(***************************************************************************)
EXTENDS LibrarySyncProofs, FunctionTheorems, FiniteSetTheorems

-----------------------------------------------------------------------------
(* Files.                                                                  *)
(*                                                                         *)
(* For a path whose checks and fetches all asked for one version there is  *)
(* always something that makes the file whole: a fetch that is queued or   *)
(* about to open it, a checkFile that is about to remove it, or a writer   *)
(* for each block that does not hold the version yet.  A writer whose file *)
(* was unlinked does not count, but then the file was queued again.        *)

Stale(p) == ui # None /\ ui.stale /\ Head(ui.todo) = p
Queued(p) == {j \in ToSet(queue) : j \in FetchJobs /\ j.path = p}
Busy(p, what) == {w \in Worker : Doing(w, what) /\ active[w].path = p}
Writes(p, what) == {w \in Busy(p, what) : active[w].linked}

\* p is being made whole, or is.
Wanted(p) ==
  /\ \A j \in Queued(p) : j.content = want[p]
  /\ \A w \in Busy(p, "file") \cup Writes(p, "write") \cup Writes(p, "close") :
       active[w].content = want[p]
  /\ Stale(p) => want[p] = ui.version
  /\ \/ Queued(p) # {} \/ Busy(p, "file") # {} \/ Stale(p)
     \/ /\ file[p] # NoFile
        /\ Writes(p, "write") # {} \/ file[p][1] = want[p]
        /\ \/ Writes(p, "write") # {} \/ Writes(p, "close") # {}
           \/ file[p][2] = want[p]

FilesInv == \A p \in trusted : Wanted(p)

LEMMA FilesInit == Init => FilesInv
  BY DEF Init, FilesInv

\* Jobs that are queued, and the work that a worker turns to.
LEMMA QueuedAppend ==
  ASSUME TypeOK, NEW j \in QueuedJob, queue' = Append(queue, j), NEW p
  PROVE  Queued(p)' = Queued(p)
           \cup (IF j \in FetchJobs /\ j.path = p THEN {j} ELSE {})
<1>1. ToSet(queue') = ToSet(queue) \cup {j}
  BY ToSetAppend DEF TypeOK
<1>. QED
  BY <1>1 DEF Queued

LEMMA BusyBecome ==
  ASSUME TypeOK, NEW w \in Worker, NEW j, Become(w, j), NEW p, NEW what
  PROVE  /\ Busy(p, what)' = IF j # None /\ j.do = what /\ j.path = p
                             THEN Busy(p, what) \cup {w} ELSE Busy(p, what) \ {w}
         /\ Writes(p, what)' =
              IF j # None /\ j.do = what /\ j.path = p /\ j.linked
              THEN Writes(p, what) \cup {w} ELSE Writes(p, what) \ {w}
         /\ active'[w] = j /\ \A u \in Worker \ {w} : active'[u] = active[u]
<1>1. active'[w] = j /\ \A u \in Worker \ {w} : active'[u] = active[u]
  BY DEF Become, TypeOK
<1>2. Busy(p, what)' = IF j # None /\ j.do = what /\ j.path = p
                       THEN Busy(p, what) \cup {w} ELSE Busy(p, what) \ {w}
  BY <1>1 DEF Busy, Doing
<1>3. Writes(p, what)' = IF j # None /\ j.do = what /\ j.path = p /\ j.linked
                         THEN Writes(p, what) \cup {w} ELSE Writes(p, what) \ {w}
  BY <1>1 DEF Writes, Busy, Doing
<1>. QED
  BY <1>1, <1>2, <1>3

\* A step that does nothing to p or about it.
LEMMA WantedSame ==
  ASSUME NEW p, Wanted(p), Queued(p)' = Queued(p),
         Busy(p, "file")' = Busy(p, "file"),
         Writes(p, "write")' = Writes(p, "write"),
         Writes(p, "close")' = Writes(p, "close"),
         \A w \in Busy(p, "file") \cup Writes(p, "write") \cup Writes(p, "close") :
           active'[w].content = active[w].content,
         file'[p] = file[p], want'[p] = want[p],
         Stale(p)' <=> Stale(p), Stale(p) => ui'.version = ui.version
  PROVE  Wanted(p)'
  BY DEF Wanted

\* The work of a worker that is not at a file, nor will be.
LEMMA NoFileWork ==
  ASSUME TypeOK, NEW w \in Worker,
         \/ GetLibraryPage(w) \/ DispatchDocument(w) \/ GetDocument(w)
         \/ GetDocumentFails(w) \/ CallPushDocument(w)
  PROVE  /\ ~Doing(w, "file") /\ ~Doing(w, "write") /\ ~Doing(w, "close")
         /\ \E j : Become(w, j) /\ (j = None \/ j.do \notin FileJobs)
<1>1. ~Doing(w, "file") /\ ~Doing(w, "write") /\ ~Doing(w, "close")
  BY DEF GetLibraryPage, DispatchDocument, GetDocument, GetDocumentFails,
         CallPushDocument, Doing
<1>2. CASE GetLibraryPage(w)
  <2>1. active[w] \in LibraryJobs
    BY <1>2, JobKinds DEF GetLibraryPage
  <2> DEFINE ids == active[w].ids \o PageIds(active[w].page)
             over == [do |-> "dispatch", ids |-> ids]
             more == [active[w] EXCEPT !.page = @ + 1, !.ids = ids,
                        !.size = ArraySize(active[w]),
                        !.stayed = IF active[w].page = 0 THEN ToSet(listing)
                                   ELSE @]
  <2>2. over.do = "dispatch" /\ more.do = "library"
    BY <2>1 DEF LibraryJobs
  <2>3. Become(w, over) \/ Become(w, more)
    BY <1>2 DEF GetLibraryPage
  <2> HIDE DEF over, more
  <2>. QED
    BY <1>1, <2>2, <2>3 DEF FileJobs
<1>3. CASE DispatchDocument(w)
  <2>1. active[w] \in DispatchJobs
    BY <1>3, JobKinds DEF DispatchDocument
  <2>2. [active[w] EXCEPT !.ids = Front(active[w].ids)].do = "dispatch"
    BY <2>1 DEF DispatchJobs
  <2>. QED
    BY <1>1, <1>3, <2>2 DEF DispatchDocument, FileJobs
<1>4. CASE GetDocument(w)
  <2>1. Become(w, [do |-> "push", doc |-> active[w].doc,
                   version |-> version[active[w].doc]])
    BY <1>4 DEF GetDocument
  <2>. QED
    BY <1>1, <2>1 DEF FileJobs
<1>5. CASE GetDocumentFails(w) \/ CallPushDocument(w)
  BY <1>1, <1>5 DEF GetDocumentFails, CallPushDocument
<1>. QED
  BY <1>2, <1>3, <1>4, <1>5

\* Jobs and handlers that have nothing to do with files.
LEMMA FilesOtherSteps ==
  ASSUME TypeOK, FilesInv,
         \/ \E d \in Doc : EditDocument(d)
         \/ ChangeListing \/ RefreshView \/ RequestFails \/ ServeRequest
         \/ PushDocument \/ MergeDocument \/ MergeSucceeded \/ UNCHANGED vars
         \/ \E w \in Worker :
              \/ GetLibraryPage(w) \/ DispatchDocument(w) \/ GetDocument(w)
              \/ GetDocumentFails(w) \/ CallPushDocument(w)
  PROVE  FilesInv'
<1> USE DEF service, plugin, clearing, database, bounds, fileHistory, history
<1>1. file' = file /\ want' = want /\ trusted' = trusted
  BY DEF EditDocument, ChangeListing, RefreshView, RequestFails, ServeRequest,
         PushDocument, MergeDocument, MergeSucceeded, vars, GetLibraryPage,
         DispatchDocument, GetDocument, GetDocumentFails, CallPushDocument
<1>2. \A p : Queued(p)' = Queued(p)
  <2>1. queue' = queue
          \/ \E j \in QueuedJob \ FetchJobs : queue' = Append(queue, j)
    <3>1. CASE RefreshView
      <4>1. LibraryJob \in QueuedJob \ FetchJobs
        BY DEF LibraryJob, QueuedJob, FetchJobs
      <4>. QED
        BY <3>1, <4>1 DEF RefreshView
    <3>2. ASSUME NEW w \in Worker, DispatchDocument(w)
          PROVE  queue' = queue
                   \/ \E j \in QueuedJob \ FetchJobs : queue' = Append(queue, j)
      <4>1. active[w] \in DispatchJobs
        BY <3>2, JobKinds DEF DispatchDocument
      <4>2. CASE active[w].ids # <<>>
        <5> DEFINE e == Last(active[w].ids)
        <5>1. e \in Doc
          <6>1. active[w].ids \in Seq(Doc) /\ Len(active[w].ids) \in Nat \ {0}
            BY <4>1, <4>2, EmptySeq, LenProperties DEF DispatchJobs
          <6>. QED
            BY <6>1, ElementOfSeq DEF Last
        <5>2. queue' = Append(queue, DocumentJob(e))
          BY <3>2, <4>2 DEF DispatchDocument
        <5> HIDE DEF e
        <5>3. DocumentJob(e) \in QueuedJob \ FetchJobs
          BY <5>1 DEF DocumentJob, QueuedJob, DocumentJobs, FetchJobs
        <5>. QED
          BY <5>2, <5>3
      <4>3. CASE active[w].ids = <<>>
        BY <3>2, <4>3 DEF DispatchDocument
      <4>. QED
        BY <4>2, <4>3
    <3>3. CASE ~RefreshView /\ ~\E w \in Worker : DispatchDocument(w)
      BY <3>3 DEF EditDocument, ChangeListing, RequestFails, ServeRequest,
         PushDocument, MergeDocument, MergeSucceeded, vars, GetLibraryPage,
         GetDocument, GetDocumentFails, CallPushDocument
    <3>. QED
      BY <3>1, <3>2, <3>3
  <2>2. CASE queue' = queue
    BY <2>2 DEF Queued
  <2>3. ASSUME NEW j \in QueuedJob \ FetchJobs, queue' = Append(queue, j)
        PROVE  \A p : Queued(p)' = Queued(p)
    BY <2>3, QueuedAppend
  <2>. QED
    BY <2>1, <2>2, <2>3
<1>3. \A u \in Worker :
        \/ active'[u] = active[u]
        \/ /\ \A what \in FileJobs : ~Doing(u, what) /\ ~Doing(u, what)'
  <2>1. CASE ChangeListing
    <3> SUFFICES ASSUME NEW u \in Worker
                 PROVE  \/ active'[u] = active[u]
                        \/ /\ \A what \in FileJobs :
                                ~Doing(u, what) /\ ~Doing(u, what)'
      OBVIOUS
    <3>1. CASE Paging(u)
      <4>1. active[u] \in LibraryJobs /\ Doing(u, "library")
        BY <3>1, JobKinds DEF Paging
      <4>2. [active[u] EXCEPT !.stayed = {}].do = "library"
        BY <4>1 DEF LibraryJobs
      <4>3. \/ active' = active
            \/ active'[u] = [active[u] EXCEPT !.stayed = {}]
        BY <2>1, <3>1 DEF ChangeListing
      <4>. QED
        BY <4>1, <4>2, <4>3 DEF Doing, FileJobs
    <3>2. CASE ~Paging(u)
      BY <2>1, <3>2 DEF ChangeListing
    <3>. QED
      BY <3>1, <3>2
  <2>2. ASSUME NEW w \in Worker,
               \/ GetLibraryPage(w) \/ DispatchDocument(w) \/ GetDocument(w)
               \/ GetDocumentFails(w) \/ CallPushDocument(w)
        PROVE  \A u \in Worker :
                 \/ active'[u] = active[u]
                 \/ /\ \A what \in FileJobs : ~Doing(u, what) /\ ~Doing(u, what)'
    <3>1. PICK j : Become(w, j) /\ (j = None \/ j.do \notin FileJobs)
      BY <2>2, NoFileWork
    <3>2. ~Doing(w, "file") /\ ~Doing(w, "write") /\ ~Doing(w, "close")
      BY <2>2, NoFileWork
    <3>3. active'[w] = j /\ \A u \in Worker \ {w} : active'[u] = active[u]
      BY <3>1 DEF Become, TypeOK
    <3>. QED
      BY <3>1, <3>2, <3>3 DEF Doing, FileJobs
  <2>3. CASE ~ChangeListing /\ ~\E w \in Worker :
               \/ GetLibraryPage(w) \/ DispatchDocument(w) \/ GetDocument(w)
               \/ GetDocumentFails(w) \/ CallPushDocument(w)
    BY <2>3 DEF EditDocument, RefreshView, RequestFails, ServeRequest,
         PushDocument, MergeDocument, MergeSucceeded, vars
  <2>. QED
    BY <2>1, <2>2, <2>3
<1>4. \A p : (Stale(p)' <=> Stale(p)) /\ (Stale(p) => ui'.version = ui.version)
  <2>1. CASE ui' = ui
    BY <2>1 DEF Stale
  <2>2. CASE PushDocument
    <3>1. ui = None /\ ~ui'.stale
      BY <2>2 DEF PushDocument
    <3>. QED
      BY <3>1 DEF Stale
  <2>3. CASE MergeDocument
    BY <2>3 DEF MergeDocument, Stale, TypeOK
  <2>4. ui' = ui \/ PushDocument \/ MergeDocument
    BY DEF EditDocument, ChangeListing, RefreshView, RequestFails, ServeRequest,
         MergeSucceeded, vars, GetLibraryPage,
         DispatchDocument, GetDocument, GetDocumentFails, CallPushDocument
  <2>. QED
    BY <2>1, <2>2, <2>3, <2>4
<1>5. ASSUME NEW p \in trusted PROVE Wanted(p)'
  <2>1. /\ \A what \in FileJobs : /\ Busy(p, what)' = Busy(p, what)
                                  /\ Writes(p, what)' = Writes(p, what)
        /\ \A what \in FileJobs :
             \A w \in Busy(p, what) : active'[w].content = active[w].content
    BY <1>3 DEF Busy, Writes, Doing
  <2>2. Wanted(p)
    BY DEF FilesInv
  <2>3. \A w \in Busy(p, "file") \cup Writes(p, "write") \cup Writes(p, "close") :
           active'[w].content = active[w].content
    BY <2>1 DEF Writes, FileJobs
  <2>4. /\ Busy(p, "file")' = Busy(p, "file")
        /\ Writes(p, "write")' = Writes(p, "write")
        /\ Writes(p, "close")' = Writes(p, "close")
    BY <2>1 DEF FileJobs
  <2>. QED
    BY <1>1, <1>2, <1>4, <2>2, <2>3, <2>4, WantedSame
<1>. QED
  BY <1>1, <1>5 DEF FilesInv

\* A worker takes a job: one that fetches a file moves from the queue to it.
LEMMA FilesTakeStep ==
  ASSUME TypeOK, FilesInv, NEW w \in Worker, TakeJob(w)
  PROVE  FilesInv'
<1> USE DEF service, plugin, clearing, database, bounds, fileHistory, history
<1>0. PICK j \in QueuedJob : j = Head(queue)
  BY HeadTailProperties DEF TakeJob, TypeOK
<1>1. /\ active[w] = None /\ queue # <<>> /\ Become(w, j) /\ queue' = Tail(queue)
      /\ file' = file /\ ui' = ui /\ want' = want /\ trusted' = trusted
  BY <1>0 DEF TakeJob
<1>2. /\ j # None /\ j.do \notin {"write", "close"}
      /\ j.do = "file" <=> j \in FetchJobs
  <2>1. j \in RunningJob
    BY TakenJobRuns
  <2>. QED
    BY <2>1, NoneAssumption
       DEF QueuedJob, LibraryJob, DocumentJobs, FetchJobs
<1>3. ToSet(queue) = ToSet(queue') \cup {j}
  BY <1>0, <1>1, ToSetTail DEF TypeOK
<1>4. /\ active'[w] = j /\ \A u \in Worker \ {w} : active'[u] = active[u]
      /\ \A p, what : Busy(p, what)' = IF j # None /\ j.do = what /\ j.path = p
                                       THEN Busy(p, what) \cup {w}
                                       ELSE Busy(p, what) \ {w}
      /\ \A p, what :
           Writes(p, what)' = IF j # None /\ j.do = what /\ j.path = p /\ j.linked
                              THEN Writes(p, what) \cup {w}
                              ELSE Writes(p, what) \ {w}
  BY <1>1, BusyBecome
<1>5. \A p, what : w \notin Busy(p, what) /\ w \notin Writes(p, what)
  BY <1>1 DEF Busy, Writes, Doing
<1>6. ASSUME NEW p \in trusted PROVE Wanted(p)'
  <2>1. /\ Writes(p, "write")' = Writes(p, "write")
        /\ Writes(p, "close")' = Writes(p, "close")
        /\ Stale(p)' = Stale(p)
    BY <1>1, <1>2, <1>4, <1>5 DEF Stale
  <2>2. \A u \in Busy(p, "file") \cup Writes(p, "write") \cup Writes(p, "close") :
          active'[u] = active[u]
    <3>1. Busy(p, "file") \subseteq Worker \ {w}
          /\ Writes(p, "write") \subseteq Worker \ {w}
          /\ Writes(p, "close") \subseteq Worker \ {w}
      BY <1>5 DEF Busy, Writes
    <3>. QED
      BY <1>4, <3>1
  <2>3. CASE j \in FetchJobs /\ j.path = p
    <3>1. Queued(p) = Queued(p)' \cup {j} /\ Busy(p, "file")' = Busy(p, "file") \cup {w}
      BY <1>2, <1>3, <1>4, <2>3 DEF Queued
    <3>2. Wanted(p)
      BY DEF FilesInv
    <3>3. /\ active'[w].content = want[p] /\ Busy(p, "file")' # {}
          /\ \A k \in Queued(p)' : k.content = want[p]
          /\ Stale(p) => want[p] = ui.version
      BY <1>4, <3>1, <3>2 DEF Wanted
    <3>4. \A u \in Busy(p, "file")' \cup Writes(p, "write")' \cup Writes(p, "close")' :
            active'[u].content = want[p]
      BY <2>1, <2>2, <3>1, <3>2, <3>3 DEF Wanted
    <3>. QED
      BY <1>1, <2>1, <3>3, <3>4 DEF Wanted
  <2>4. CASE ~(j \in FetchJobs /\ j.path = p)
    <3>1. Queued(p)' = Queued(p) /\ Busy(p, "file")' = Busy(p, "file")
      BY <1>2, <1>3, <1>4, <1>5, <2>4 DEF Queued
    <3>2. Wanted(p)
      BY DEF FilesInv
    <3>. QED
      BY <1>1, <2>1, <2>2, <3>1, <3>2, WantedSame
  <2>. QED
    BY <2>3, <2>4
<1>. QED
  BY <1>1, <1>6 DEF FilesInv

\* fetchFile opens the file, which then is there, and becomes its writer.
LEMMA FilesFetchStep ==
  ASSUME TypeOK, FilesInv, NEW w \in Worker, FetchFile(w) \/ FetchFileFails(w)
  PROVE  FilesInv'
<1> USE DEF service, plugin, clearing, database, bounds, fileHistory, history
<1>0. PICK q \in Path, v \in Version : q = active[w].path /\ v = active[w].content
  BY JobKinds DEF FetchFile, FetchFileFails, FetchJobs
<1>1. /\ Doing(w, "file") /\ queue' = queue /\ ui' = ui /\ want' = want
      /\ trusted' \subseteq trusted
  BY DEF FetchFile, FetchFileFails
<1>2. PICK j : /\ Become(w, j)
               /\ \/ /\ j = None /\ trusted' = trusted \ {q} /\ file' = file
                  \/ /\ j # None /\ j.do = "write" /\ j.path = q /\ j.linked
                     /\ q \in trusted' => j.content = v
                     /\ file' = [file EXCEPT ![q] = Empty]
  <2>1. CASE FetchFileFails(w)
    BY <1>0, <2>1 DEF FetchFileFails
  <2>2. CASE FetchFile(w)
    <3>1. PICK content \in {v, None} :
            /\ Become(w, [do |-> "write", path |-> q, content |-> content,
                          linked |-> TRUE])
            /\ content = None => trusted' = trusted \ {q}
      BY <1>0, <2>2 DEF FetchFile
    <3>2. file' = [file EXCEPT ![q] = Empty]
      BY <1>0, <2>2 DEF FetchFile
    <3>3. q \in trusted' => content = v
      BY <3>1
    <3> DEFINE job == [do |-> "write", path |-> q, content |-> content,
                       linked |-> TRUE]
    <3>4. job # None
      <4>1. job \in WriteJobs
        BY DEF WriteJobs
      <4>. QED
        BY <4>1, NoneAssumption DEF RunningJob
    <3>. QED
      BY <3>1, <3>2, <3>3, <3>4
  <2>. QED
    BY <2>1, <2>2
<1>3. /\ active'[w] = j /\ \A u \in Worker \ {w} : active'[u] = active[u]
      /\ \A p, what : Busy(p, what)' = IF j # None /\ j.do = what /\ j.path = p
                                       THEN Busy(p, what) \cup {w}
                                       ELSE Busy(p, what) \ {w}
      /\ \A p, what :
           Writes(p, what)' = IF j # None /\ j.do = what /\ j.path = p /\ j.linked
                              THEN Writes(p, what) \cup {w}
                              ELSE Writes(p, what) \ {w}
  BY <1>2, BusyBecome
<1>4. \A p : /\ w \notin Writes(p, "write") /\ w \notin Writes(p, "close")
             /\ w \in Busy(p, "file") <=> p = q
  BY <1>0, <1>1 DEF Writes, Busy, Doing
<1>5. \A p : Queued(p)' = Queued(p) /\ Stale(p)' = Stale(p)
  BY <1>1 DEF Queued, Stale
<1>6. \A p : /\ \A u \in Writes(p, "write") \cup Writes(p, "close") :
                   active'[u] = active[u]
             /\ \A u \in Busy(p, "file") \ {w} : active'[u] = active[u]
  <2>1. \A p : /\ Busy(p, "file") \subseteq Worker
               /\ Writes(p, "write") \subseteq Worker \ {w}
               /\ Writes(p, "close") \subseteq Worker \ {w}
    BY <1>4 DEF Busy, Writes
  <2>. QED
    BY <1>3, <2>1
<1>7. ASSUME NEW p \in trusted', p # q PROVE Wanted(p)'
  <2>1. /\ Busy(p, "file")' = Busy(p, "file")
        /\ Writes(p, "write")' = Writes(p, "write")
        /\ Writes(p, "close")' = Writes(p, "close")
    <3>1. j = None \/ j.path # p
      BY <1>2, <1>7
    <3>2. \A what : Busy(p, what)' = Busy(p, what) \ {w}
                      /\ Writes(p, what)' = Writes(p, what) \ {w}
      BY <1>3, <3>1
    <3>3. w \notin Busy(p, "file")
      BY <1>4, <1>7
    <3>. QED
      BY <1>4, <3>2, <3>3
  <2>2. file'[p] = file[p] /\ Wanted(p)
    BY <1>1, <1>2, <1>7 DEF TypeOK, FilesInv
  <2>. QED
    BY <1>1, <1>4, <1>5, <1>6, <1>7, <2>1, <2>2, WantedSame
<1>8. ASSUME q \in trusted' PROVE Wanted(q)'
  <2>1. Wanted(q)
    BY <1>1, <1>8 DEF FilesInv
  <2>2. /\ j # None /\ j.do = "write" /\ j.path = q /\ j.linked /\ j.content = v
        /\ file'[q] = Empty
    BY <1>2, <1>8 DEF TypeOK
  <2>3. v = want[q]
    BY <1>0, <1>4, <2>1 DEF Wanted
  <2>4. /\ Busy(q, "file")' = Busy(q, "file") \ {w}
        /\ Writes(q, "write")' = Writes(q, "write") \cup {w}
        /\ Writes(q, "close")' = Writes(q, "close")
    BY <1>3, <1>4, <2>2
  <2>5. \A u \in Busy(q, "file")' \cup Writes(q, "write")' \cup Writes(q, "close")' :
          active'[u].content = want[q]
    BY <1>3, <1>6, <2>1, <2>2, <2>3, <2>4 DEF Wanted
  <2>6. Empty # NoFile
    BY DEF Empty, NoFile
  <2>7. /\ \A k \in Queued(q)' : k.content = want'[q]
        /\ Stale(q)' => want'[q] = ui'.version
    BY <1>1, <1>5, <2>1 DEF Wanted
  <2>. QED
    BY <1>1, <2>2, <2>4, <2>5, <2>6, <2>7 DEF Wanted
<1>. QED
  BY <1>7, <1>8 DEF FilesInv

\* A block is written: with the content that is wanted, if the file is the one
\* that has the name.
LEMMA FilesWriteStep ==
  ASSUME TypeOK, FilesInv, NEW w \in Worker, WriteFile(w) \/ CloseFile(w)
  PROVE  FilesInv'
<1> USE DEF service, plugin, clearing, database, bounds, fileHistory, history
<1>0. active[w] \in WriteJobs /\ (Doing(w, "write") \/ Doing(w, "close"))
  BY JobKinds DEF WriteFile, CloseFile
<1>1. PICK q \in Path, c \in Version \cup {None}, linked \in BOOLEAN :
        q = active[w].path /\ c = active[w].content /\ linked = active[w].linked
  BY <1>0 DEF WriteJobs
<1>2. queue' = queue /\ ui' = ui /\ want' = want /\ trusted' = trusted
  BY DEF WriteFile, CloseFile
<1>3. PICK i \in {1, 2} :
        /\ i = 1 => WriteFile(w) /\ Doing(w, "write")
        /\ i = 2 => CloseFile(w) /\ Doing(w, "close")
        /\ file' = IF linked THEN [file EXCEPT ![q][i] = c] ELSE file
  BY <1>1 DEF WriteFile, CloseFile, WriteBlock
<1>4. PICK j :
        /\ Become(w, j)
        /\ i = 1 => /\ j # None /\ j.do = "close" /\ j.path = q
                    /\ j.linked = linked /\ j.content = c
        /\ i = 2 => j = None
  <2>1. CASE i = 1
    <3> DEFINE j == [active[w] EXCEPT !.do = "close"]
    <3>1. /\ j.do = "close" /\ j.path = q /\ j.linked = linked /\ j.content = c
          /\ j # None
      <4>1. j \in WriteJobs /\ j.do = "close" /\ j.path = q
            /\ j.linked = linked /\ j.content = c
        BY <1>0, <1>1 DEF WriteJobs
      <4>. QED
        BY <4>1, NoneAssumption DEF RunningJob
    <3>2. Become(w, j)
      BY <1>3, <2>1 DEF WriteFile
    <3> HIDE DEF j
    <3>. QED
      BY <2>1, <3>1, <3>2
  <2>2. CASE i = 2
    BY <1>3, <2>2 DEF CloseFile
  <2>. QED
    BY <2>1, <2>2
<1>5. /\ active'[w] = j /\ \A u \in Worker \ {w} : active'[u] = active[u]
      /\ \A p, what : Busy(p, what)' = IF j # None /\ j.do = what /\ j.path = p
                                       THEN Busy(p, what) \cup {w}
                                       ELSE Busy(p, what) \ {w}
      /\ \A p, what :
           Writes(p, what)' = IF j # None /\ j.do = what /\ j.path = p /\ j.linked
                              THEN Writes(p, what) \cup {w}
                              ELSE Writes(p, what) \ {w}
  BY <1>4, BusyBecome
<1>6. \A p : Queued(p)' = Queued(p) /\ Stale(p)' = Stale(p)
  BY <1>2 DEF Queued, Stale
<1>7. \A p : /\ w \notin Busy(p, "file")
             /\ w \in Writes(p, "write") <=> i = 1 /\ p = q /\ linked
             /\ w \in Writes(p, "close") <=> i = 2 /\ p = q /\ linked
  BY <1>0, <1>1, <1>3 DEF Busy, Writes, Doing
<1>8. \A p : \A u \in (Busy(p, "file") \cup Writes(p, "write")
                         \cup Writes(p, "close")) \ {w} : active'[u] = active[u]
  BY <1>5 DEF Busy, Writes
<1>9. \A p : Busy(p, "file")' = Busy(p, "file")
  <2>1. \A p : Busy(p, "file")' = Busy(p, "file") \ {w}
    <3>1. j = None \/ j.do # "file"
      BY <1>4
    <3>. QED
      BY <1>5, <3>1
  <2>. QED
    BY <1>7, <2>1
<1>10. ASSUME NEW p \in trusted, p # q \/ ~linked PROVE Wanted(p)'
  <2>1. /\ Writes(p, "write")' = Writes(p, "write")
        /\ Writes(p, "close")' = Writes(p, "close")
    <3>1. w \notin Writes(p, "write") /\ w \notin Writes(p, "close")
      BY <1>7, <1>10
    <3>2. j = None \/ j.path # p \/ ~j.linked
      BY <1>4, <1>10
    <3>3. /\ Writes(p, "write")' = Writes(p, "write") \ {w}
          /\ Writes(p, "close")' = Writes(p, "close") \ {w}
      BY <1>5, <3>2
    <3>. QED
      BY <3>1, <3>3
  <2>2. file'[p] = file[p]
    BY <1>3, <1>10 DEF TypeOK
  <2>3. \A u \in Busy(p, "file") \cup Writes(p, "write") \cup Writes(p, "close") :
          active'[u].content = active[u].content
    <3>1. /\ w \notin Busy(p, "file") /\ w \notin Writes(p, "write")
          /\ w \notin Writes(p, "close")
      BY <1>7, <1>10
    <3>. QED
      BY <1>8, <3>1
  <2>4. Wanted(p)
    BY DEF FilesInv
  <2>. QED
    BY <1>2, <1>6, <1>9, <2>1, <2>2, <2>3, <2>4, WantedSame
<1>11. ASSUME q \in trusted, linked PROVE Wanted(q)'
  <2>1. Wanted(q)
    BY <1>11 DEF FilesInv
  <2>2. c = want[q]
    BY <1>1, <1>3, <1>7, <1>11, <2>1 DEF Wanted
  <2>3. file[q] # NoFile
    BY <1>0, <1>1, <1>11 DEF TypeOK
  <2>4. file[q] \in (Version \cup {None}) \X (Version \cup {None})
    BY <2>3 DEF TypeOK, FileState
  <2>5. file'[q] = [file[q] EXCEPT ![i] = c]
    BY <1>3, <1>11 DEF TypeOK
  <2>6. /\ file'[q] # NoFile
        /\ i = 1 => file'[q][1] = want[q]
        /\ i = 2 => file'[q][1] = file[q][1] /\ file'[q][2] = want[q]
    <3>1. PICK a, b : file[q] = <<a, b>>
      BY <2>4
    <3>2. i = 1 => file'[q] = <<c, b>>
      BY <2>5, <3>1
    <3>3. i = 2 => file'[q] = <<a, c>>
      BY <2>5, <3>1
    <3>. QED
      BY <2>2, <3>1, <3>2, <3>3 DEF NoFile
  <2>7. /\ i = 1 => /\ Writes(q, "write")' = Writes(q, "write") \ {w}
                    /\ Writes(q, "close")' = Writes(q, "close") \cup {w}
        /\ i = 2 => /\ Writes(q, "write")' = Writes(q, "write")
                    /\ Writes(q, "close")' = Writes(q, "close") \ {w}
    <3>1. CASE i = 1
      BY <1>4, <1>5, <1>11, <3>1
    <3>2. CASE i = 2
      BY <1>4, <1>5, <1>7, <3>2
    <3>. QED
      BY <3>1, <3>2
  <2>8. \A u \in Busy(q, "file")' \cup Writes(q, "write")' \cup Writes(q, "close")' :
          active'[u].content = want[q]
    <3>1. i = 1 => active'[w].content = want[q]
      BY <1>4, <1>5, <2>2
    <3>2. \A u \in (Busy(q, "file") \cup Writes(q, "write")
                      \cup Writes(q, "close")) \ {w} :
            active'[u].content = want[q]
      BY <1>8, <2>1 DEF Wanted
    <3>3. w \notin Busy(q, "file")
      BY <1>7
    <3>4. i = 2 => w \notin Writes(q, "write")
      BY <1>7
    <3>. QED
      BY <1>3, <1>9, <2>7, <3>1, <3>2, <3>3, <3>4
  <2>9. /\ \A k \in Queued(q)' : k.content = want'[q]
        /\ Stale(q)' => want'[q] = ui'.version
    BY <1>2, <1>6, <2>1 DEF Wanted
  <2>10. \/ Queued(q)' # {} \/ Busy(q, "file")' # {} \/ Stale(q)'
         \/ /\ Writes(q, "write")' # {} \/ file'[q][1] = want'[q]
            /\ \/ Writes(q, "write")' # {} \/ Writes(q, "close")' # {}
               \/ file'[q][2] = want'[q]
    <3>1. CASE Queued(q) # {} \/ Busy(q, "file") # {} \/ Stale(q)
      BY <1>6, <1>9, <3>1
    <3>2. CASE i = 1
      BY <1>2, <2>6, <2>7, <3>2
    <3>3. CASE i = 2 /\ (Writes(q, "write") # {} \/ file[q][1] = want[q])
      BY <1>2, <2>6, <2>7, <3>3
    <3>. QED
      BY <1>3, <2>1, <3>1, <3>2, <3>3 DEF Wanted
  <2>. QED
    BY <1>2, <2>6, <2>8, <2>9, <2>10 DEF Wanted
<1>. QED
  BY <1>2, <1>10, <1>11 DEF FilesInv

\* checkFile looks at the next file of the document that is pushed.  If nobody
\* fetches it, then from now on its fetches are for one version; if somebody
\* does, then it has to be for this one.
LEMMA FilesCheckStep ==
  ASSUME TypeOK, FilesInv, CheckFile
  PROVE  FilesInv'
<1> USE DEF service, plugin, clearing, database, bounds, fileHistory, history
<1>0. /\ ui # None /\ ui.todo # <<>> /\ ~ui.stale /\ ui \in Push
      /\ active' = active /\ file' = file
  BY DEF CheckFile, TypeOK
<1>1. PICK q \in Path, v \in Version : q = Head(ui.todo) /\ v = ui.version
  <2>1. ui.todo \in Seq(Path) /\ ui.version \in Version
    BY <1>0 DEF Push
  <2>. QED
    BY <1>0, <2>1, HeadTailProperties
<1>2. /\ want' = [want EXCEPT ![q] = v]
      /\ trusted' = IF ~Fetching(q) THEN trusted \cup {q}
                    ELSE IF want[q] = v THEN trusted ELSE trusted \ {q}
      /\ \/ file[q] = NoFile /\ FetchNext
         \/ file[q] = Whole(v) /\ ui' = [ui EXCEPT !.todo = Tail(@)]
              /\ queue' = queue
         \/ file[q] \notin {NoFile, Whole(v)}
              /\ ui' = [ui EXCEPT !.stale = TRUE] /\ queue' = queue
  BY <1>1 DEF CheckFile
<1>3. ui' # None /\ ui'.version = v
  BY <1>1, PushingSame
<1>4. /\ ui'.stale <=> file[q] \notin {NoFile, Whole(v)}
      /\ ui'.stale => Head(ui'.todo) = q
  BY <1>0, <1>1, <1>2 DEF FetchNext, Push
<1>5. /\ \A p : Queued(p) \subseteq Queued(p)'
      /\ \A p : p # q => Queued(p)' = Queued(p)
      /\ \A k \in Queued(q)' \ Queued(q) : k.content = v
      /\ file[q] = NoFile => Queued(q)' # {}
  <2>1. CASE file[q] = NoFile /\ FetchNext
    <3> DEFINE job == FileJob(q, v)
    <3>1. job \in FetchJobs /\ job.path = q /\ job.content = v
      BY DEF FileJob, FetchJobs
    <3>2. job \in QueuedJob /\ queue' = Append(queue, job)
      BY <1>1, <2>1, <3>1 DEF FetchNext, QueuedJob
    <3> HIDE DEF job
    <3>3. \A p : Queued(p)' = Queued(p)
             \cup (IF job \in FetchJobs /\ job.path = p THEN {job} ELSE {})
      BY <3>2, QueuedAppend
    <3>. QED
      BY <3>1, <3>3
  <2>2. CASE queue' = queue /\ file[q] # NoFile
    BY <2>2 DEF Queued
  <2>. QED
    BY <1>2, <2>1, <2>2 DEF NoFile, Whole
<1>6. \A p, what : Busy(p, what)' = Busy(p, what) /\ Writes(p, what)' = Writes(p, what)
  BY <1>0 DEF Busy, Writes, Doing
<1>7. \A p : Stale(p)' <=> ui'.stale /\ p = q
  BY <1>3, <1>4 DEF Stale
<1>8. ASSUME NEW p \in trusted', p # q PROVE Wanted(p)'
  <2>1. Wanted(p) /\ want'[p] = want[p] /\ file'[p] = file[p]
    BY <1>0, <1>2, <1>8 DEF FilesInv, TypeOK
  <2>2. ~Stale(p) /\ ~Stale(p)' /\ Queued(p)' = Queued(p)
    BY <1>0, <1>5, <1>7, <1>8 DEF Stale
  <2>. QED
    BY <1>0, <1>6, <2>1, <2>2, WantedSame
<1>9. ASSUME q \in trusted' PROVE Wanted(q)'
  <2>1. want'[q] = v
    BY <1>2 DEF TypeOK
  <2>2. /\ \A k \in Queued(q)' : k.content = v
        /\ \A w \in Busy(q, "file") \cup Writes(q, "write") \cup Writes(q, "close") :
             active[w].content = v
    <3>1. CASE Fetching(q)
      <4>1. q \in trusted /\ want[q] = v
        BY <1>2, <1>9, <3>1
      <4>2. Wanted(q)
        BY <4>1 DEF FilesInv
      <4>. QED
        BY <1>5, <4>1, <4>2 DEF Wanted
    <3>2. CASE ~Fetching(q)
      <4>1. Queued(q) = {}
        BY <3>2 DEF Fetching, Queued, FetchJobs, FileJobs
      <4>2. \A w \in Worker, what \in FileJobs :
              ~(Doing(w, what) /\ active[w].path = q)
        BY <3>2 DEF Fetching, Running, Doing
      <4>3. Busy(q, "file") = {} /\ Writes(q, "write") = {} /\ Writes(q, "close") = {}
        BY <4>2 DEF Busy, Writes, FileJobs
      <4>. QED
        BY <1>5, <4>1, <4>3
    <3>. QED
      BY <3>1, <3>2
  <2>3. \/ Queued(q)' # {} \/ Stale(q)'
        \/ file'[q] # NoFile /\ file'[q][1] = v /\ file'[q][2] = v
    <3>1. CASE file[q] = NoFile
      BY <1>5, <3>1
    <3>2. CASE file[q] = Whole(v)
      BY <1>0, <3>2 DEF Whole, NoFile
    <3>3. CASE file[q] \notin {NoFile, Whole(v)}
      BY <1>4, <1>7, <3>3
    <3>. QED
      BY <3>1, <3>2, <3>3
  <2>. QED
    BY <1>0, <1>3, <1>6, <2>1, <2>2, <2>3 DEF Wanted
<1>. QED
  BY <1>8, <1>9 DEF FilesInv

\* The file with the wrong hash is unlinked, whoever writes to it, and queued.
LEMMA FilesRemoveStep ==
  ASSUME TypeOK, FilesInv, RemoveFile
  PROVE  FilesInv'
<1> USE DEF service, plugin, clearing, database, bounds, fileHistory, history
<1>0. /\ ui # None /\ ui.todo # <<>> /\ ui.stale /\ ui \in Push
      /\ want' = want /\ trusted' = trusted /\ FetchNext
  BY DEF RemoveFile, TypeOK
<1>1. PICK q \in Path, v \in Version : q = Head(ui.todo) /\ v = ui.version
  <2>1. ui.todo \in Seq(Path) /\ ui.version \in Version
    BY <1>0 DEF Push
  <2>. QED
    BY <1>0, <2>1, HeadTailProperties
<1> DEFINE Open(w) == (Doing(w, "write") \/ Doing(w, "close"))
                        /\ active[w].path = q
           job == FileJob(q, v)
<1>2. /\ file' = [file EXCEPT ![q] = NoFile]
      /\ active' = [w \in Worker |-> IF Open(w)
                     THEN [active[w] EXCEPT !.linked = FALSE] ELSE active[w]]
      /\ queue' = Append(queue, job)
  BY <1>0, <1>1 DEF RemoveFile, UnlinkFile, FetchNext
<1>3. ~ui'.stale
  BY <1>0 DEF FetchNext, Push
<1>4. \A w \in Worker :
        IF Open(w) THEN ~active'[w].linked /\ active'[w] # None
                          /\ active'[w].do \in {"write", "close"}
                          /\ active'[w].path = q
        ELSE active'[w] = active[w]
  <2>1. ASSUME NEW w \in Worker, Open(w)
        PROVE  /\ ~[active[w] EXCEPT !.linked = FALSE].linked
               /\ [active[w] EXCEPT !.linked = FALSE] # None
               /\ [active[w] EXCEPT !.linked = FALSE].do \in {"write", "close"}
               /\ [active[w] EXCEPT !.linked = FALSE].path = q
    <3>1. active[w] \in WriteJobs
      BY <2>1, JobKinds
    <3>2. /\ [active[w] EXCEPT !.linked = FALSE] \in WriteJobs
          /\ ~[active[w] EXCEPT !.linked = FALSE].linked
          /\ [active[w] EXCEPT !.linked = FALSE].path = active[w].path
      BY <3>1 DEF WriteJobs
    <3>3. [active[w] EXCEPT !.linked = FALSE] # None
      BY <3>2, NoneAssumption DEF RunningJob
    <3>4. [active[w] EXCEPT !.linked = FALSE].do \in {"write", "close"}
      BY <3>2 DEF WriteJobs
    <3>. QED
      BY <2>1, <3>2, <3>3, <3>4
  <2>. QED
    BY <1>2, <2>1
<1>5. /\ Busy(q, "file")' = Busy(q, "file")
      /\ Writes(q, "write")' = {} /\ Writes(q, "close")' = {}
      /\ \A w \in Busy(q, "file") : active'[w] = active[w]
  <2>1. \A w \in Busy(q, "file") : ~Open(w)
    BY DEF Busy, Doing
  <2>2. Writes(q, "write")' = {} /\ Writes(q, "close")' = {}
    BY <1>4 DEF Writes, Busy, Doing
  <2>3. Busy(q, "file")' = Busy(q, "file")
    <3>1. \A w \in Worker : Open(w) => ~Doing(w, "file") /\ ~Doing(w, "file")'
      BY <1>4 DEF Doing
    <3>2. \A w \in Worker : ~Open(w) => active'[w] = active[w]
      BY <1>4
    <3> HIDE DEF Open
    <3>. QED
      BY <3>1, <3>2 DEF Busy, Doing
  <2>. QED
    BY <1>4, <2>1, <2>2, <2>3 DEF Busy
<1>6. ASSUME NEW p, p # q
      PROVE  /\ \A what : Busy(p, what)' = Busy(p, what)
                            /\ Writes(p, what)' = Writes(p, what)
             /\ \A what : \A w \in Busy(p, what) : active'[w] = active[w]
  <2>1. \A w \in Worker : \/ active'[w] = active[w]
                          \/ active[w].path = q /\ active'[w].path = q
    BY <1>4
  <2>. QED
    BY <1>6, <2>1 DEF Busy, Writes, Doing
<1>7. /\ job \in FetchJobs /\ job.path = q /\ job.content = v /\ job \in QueuedJob
  BY DEF FileJob, FetchJobs, QueuedJob
<1> HIDE DEF job, Open
<1>8. \A p : Queued(p)' = Queued(p) \cup (IF p = q THEN {job} ELSE {})
  <2>1. \A p : Queued(p)' = Queued(p)
           \cup (IF job \in FetchJobs /\ job.path = p THEN {job} ELSE {})
    BY <1>2, <1>7, QueuedAppend
  <2>. QED
    BY <1>7, <2>1
<1>9. \A p : ~Stale(p)' /\ (Stale(p) <=> p = q)
  BY <1>0, <1>1, <1>3 DEF Stale
<1>10. ASSUME NEW p \in trusted, p # q PROVE Wanted(p)'
  <2>1. Wanted(p) /\ want'[p] = want[p] /\ file'[p] = file[p]
    BY <1>0, <1>2, <1>10 DEF FilesInv, TypeOK
  <2>2. ~Stale(p) /\ ~Stale(p)' /\ Queued(p)' = Queued(p)
    <3>1. ~Stale(p) /\ ~Stale(p)'
      BY <1>9, <1>10
    <3>2. Queued(p)' = Queued(p)
      BY <1>8, <1>10
    <3>. QED
      BY <3>1, <3>2
  <2>3. /\ Busy(p, "file")' = Busy(p, "file")
        /\ Writes(p, "write")' = Writes(p, "write")
        /\ Writes(p, "close")' = Writes(p, "close")
        /\ \A w \in Busy(p, "file") \cup Writes(p, "write") \cup Writes(p, "close") :
             active'[w].content = active[w].content
    BY <1>6, <1>10 DEF Writes
  <2>. QED
    BY <2>1, <2>2, <2>3, WantedSame
<1>11. ASSUME q \in trusted PROVE Wanted(q)'
  <2>1. Wanted(q) /\ Stale(q)
    BY <1>9, <1>11 DEF FilesInv
  <2>2. v = want[q]
    BY <1>1, <2>1 DEF Wanted
  <2>3. Queued(q)' = Queued(q) \cup {job}
    BY <1>8
  <2>4. \A k \in Queued(q)' : k.content = want'[q]
    BY <1>0, <1>7, <2>1, <2>2, <2>3 DEF Wanted
  <2>5. \A w \in Busy(q, "file")' \cup Writes(q, "write")' \cup Writes(q, "close")' :
          active'[w].content = want'[q]
    BY <1>0, <1>5, <2>1 DEF Wanted
  <2>. QED
    BY <1>9, <2>3, <2>4, <2>5 DEF Wanted
<1>. QED
  BY <1>0, <1>10, <1>11 DEF FilesInv

\* A clear of the database has nothing to do with the files.
LEMMA FilesClearStep ==
  ASSUME FilesInv, Clearing
  PROVE  FilesInv'
<1>1. UNCHANGED <<file, want, trusted, queue, active, ui>>
  BY DEF Clearing, ClearDatabase, DeleteAll, DeleteRecord, service, plugin, history,
         fileHistory
<1>. QED
  BY <1>1 DEF FilesInv, Wanted, Queued, Busy, Writes, Stale, Doing

LEMMA FilesStep == TypeOK /\ FilesInv /\ [Next]_vars => FilesInv'
<1> SUFFICES ASSUME TypeOK, FilesInv, [Next]_vars PROVE FilesInv'
  OBVIOUS
<1>1. ASSUME NEW w \in Worker, RunJob(w) PROVE FilesInv'
  BY <1>1, FilesOtherSteps, FilesTakeStep, FilesFetchStep, FilesWriteStep
     DEF RunJob
<1>2. CASE HandleEvent
  BY <1>2, FilesOtherSteps, FilesCheckStep, FilesRemoveStep DEF HandleEvent
<1>3. CASE RefreshView \/ UNCHANGED vars \/ ServeRequest
  BY <1>3, FilesOtherSteps
<1>4. ASSUME PluginEnds PROVE FilesInv'
  BY <1>4 DEF PluginEnds, FilesInv
<1>5. CASE Environment
  BY <1>4, <1>5, FilesOtherSteps DEF Environment, Restart, OpenFails
<1>6. CASE Clearing
  BY <1>6, FilesClearStep
<1>. QED
  BY <1>1, <1>2, <1>3, <1>5, <1>6 DEF Next, Wait

\* A file whose checks and fetches asked for one version, and of which no fetch
\* failed, is whole and of that version when no fetch is under way, however
\* many workers write to it at once and whenever checkFile unlinks it.
THEOREM CheckedFilesAreWhole == Spec => []FilesWhole
<1>1. TypeOK /\ FilesInv => FilesWhole
  <2> SUFFICES ASSUME TypeOK, FilesInv, NEW p \in trusted, ~Fetching(p),
                      ~(ui # None /\ ui.stale /\ Head(ui.todo) = p)
               PROVE  file[p] = Whole(want[p])
    BY DEF FilesWhole
  <2>1. Queued(p) = {}
    BY DEF Fetching, Queued, FetchJobs, FileJobs
  <2>2. \A w \in Worker, what \in FileJobs : ~(Doing(w, what) /\ active[w].path = p)
    BY DEF Fetching, Running, Doing
  <2>3. Busy(p, "file") = {} /\ Writes(p, "write") = {} /\ Writes(p, "close") = {}
    BY <2>2 DEF Busy, Writes, FileJobs
  <2>4. file[p] # NoFile /\ file[p][1] = want[p] /\ file[p][2] = want[p]
    BY <2>1, <2>3 DEF FilesInv, Wanted, Stale
  <2>5. file[p] \in (Version \cup {None}) \X (Version \cup {None})
    BY <2>4 DEF TypeOK, FileState
  <2>6. PICK a, b : file[p] = <<a, b>>
    BY <2>5
  <2>. QED
    BY <2>4, <2>6 DEF Whole
<1>. QED
  BY <1>1, Types, FilesInit, FilesStep, PTL DEF Spec

-----------------------------------------------------------------------------
(* The pages of the listing.                                               *)

\* How far a worker is with the pages of the listing.
PagesSeen(job) ==
  LET end == job.page * PageSize
  IN /\ job.page = 0 => job.ids = <<>>
     /\ Len(job.ids) <= end
     /\ job.page > 0 =>
          /\ job.stayed \subseteq ToSet(listing)
          /\ Cardinality(job.stayed) <= job.size
          /\ \A i \in DOMAIN listing :
               listing[i] \in job.stayed => listing[i] \in ToSet(job.ids) \/ i > end
          /\ job.stayed # {} /\ job.stayed = ToSet(listing) =>
               job.ids = SubSeq(listing, 1, Min({end, Len(listing)}))

PagesInv == \A w \in Worker : Doing(w, "library") => PagesSeen(active[w])

\* The loop ends with the page that reaches the end of the listing.
LEMMA LastPageReaches ==
  ASSUME listing \in Seq(Doc), NEW page \in Nat, LastPage(page)
  PROVE  Len(listing) <= (page + 1) * PageSize
<1>1. PICK n \in Nat, p \in Nat \ {0} : n = Len(listing) /\ p = PageSize
  BY SyncAssumption, LenProperties
<1>2. PICK q \in Nat : q = (n + p - 1) \div p /\ n + p - 1 < p * q + p
  <2>1. n + p - 1 \in Nat
    BY <1>1
  <2>2. \A m \in Nat : m \div p \in Nat /\ m < p * (m \div p) + p
    BY <1>1
  <2>. QED
    BY <2>1, <2>2
<1>3. page + 1 >= q
  BY <1>1, <1>2 DEF LastPage, TotalPages
<1>4. n <= p * q /\ p * q <= p * (page + 1)
  <2>1. p * q \in Nat
    BY <1>1
  <2>. QED
    BY <1>1, <1>2, <1>3, <2>1
<1>5. n <= (page + 1) * p
  BY <1>4
<1>. QED
  BY <1>1, <1>5

\* What a page has: the part of the listing that begins where the pages before
\* it end.
LEMMA PageSpan ==
  ASSUME listing \in Seq(Doc), NEW page \in Nat
  PROVE  \E n, from, to \in Nat :
           /\ n = Len(listing) /\ DOMAIN listing = 1 .. n
           /\ from = page * PageSize /\ to = (page + 1) * PageSize
           /\ from <= to /\ (page = 0 => from = 0)
           /\ PageIds(page) = SubSeq(listing, from + 1, Min({to, n}))
           /\ Min({to, n}) = IF to <= n THEN to ELSE n
           /\ Min({from, n}) = IF from <= n THEN from ELSE n
<1>1. PICK n \in Nat : n = Len(listing) /\ DOMAIN listing = 1 .. n
  BY LenProperties
<1>2. PICK p \in Nat \ {0} : p = PageSize
  BY SyncAssumption
<1>3. \A a \in Nat : Min({a, n}) = IF a <= n THEN a ELSE n
  <2> SUFFICES ASSUME NEW a \in Nat PROVE Min({a, n}) = IF a <= n THEN a ELSE n
    OBVIOUS
  <2>1. \E x \in {a, n} : \A y \in {a, n} : x =< y
    BY <1>1
  <2>2. /\ Min({a, n}) \in {a, n}
        /\ \A y \in {a, n} : Min({a, n}) =< y
    BY <2>1 DEF Min
  <2>. QED
    BY <2>2
<1>4. /\ page * p \in Nat /\ (page + 1) * p \in Nat
      /\ page * p <= (page + 1) * p /\ (page = 0 => page * p = 0)
  <2>1. page * p \in Nat
    BY <1>2
  <2>2. (page + 1) * p = page * p + p
    BY <1>2
  <2>. QED
    BY <1>2, <2>1, <2>2
<1>5. PageIds(page) = SubSeq(listing, page * p + 1, Min({(page + 1) * p, n}))
  BY <1>1, <1>2 DEF PageIds
<1>. QED
  BY <1>1, <1>2, <1>3, <1>4, <1>5

\* The first elements of a sequence and those that follow them.
LEMMA SubSeqJoin ==
  ASSUME NEW T, NEW s \in Seq(T), NEW a \in Nat, NEW b \in Nat, a <= b,
         b <= Len(s)
  PROVE  SubSeq(s, 1, a) \o SubSeq(s, a + 1, b) = SubSeq(s, 1, b)
<1>1. PICK n \in Nat : n = Len(s)
  BY LenProperties
<1>2. \A i \in 1 .. n : s[i] \in T
  BY <1>1, ElementOfSeq
<1>3. /\ SubSeq(s, 1, a) \in Seq(T) /\ Len(SubSeq(s, 1, a)) = a
      /\ \A i \in 1 .. a : SubSeq(s, 1, a)[i] = s[i]
  BY <1>1, <1>2, SubSeqProperties
<1>4. /\ SubSeq(s, a + 1, b) \in Seq(T) /\ Len(SubSeq(s, a + 1, b)) = b - a
      /\ \A i \in 1 .. b - a : SubSeq(s, a + 1, b)[i] = s[a + i]
  BY <1>1, <1>2, SubSeqProperties
<1>5. /\ SubSeq(s, 1, b) \in Seq(T) /\ Len(SubSeq(s, 1, b)) = b
      /\ \A i \in 1 .. b : SubSeq(s, 1, b)[i] = s[i]
  BY <1>1, <1>2, SubSeqProperties
<1> DEFINE r == SubSeq(s, 1, a) \o SubSeq(s, a + 1, b)
<1>6. /\ r \in Seq(T) /\ Len(r) = a + (b - a)
      /\ \A i \in 1 .. a + (b - a) :
           r[i] = IF i <= a THEN SubSeq(s, 1, a)[i] ELSE SubSeq(s, a + 1, b)[i - a]
  BY <1>3, <1>4, ConcatProperties
<1> HIDE DEF r
<1>7. \A i \in 1 .. b : r[i] = s[i]
  <2> SUFFICES ASSUME NEW i \in 1 .. b PROVE r[i] = s[i]
    OBVIOUS
  <2>1. CASE i <= a
    BY <1>3, <1>6, <2>1
  <2>2. CASE ~(i <= a)
    <3>1. i - a \in 1 .. b - a /\ a + (i - a) = i
      BY <2>2
    <3>. QED
      BY <1>4, <1>6, <2>2, <3>1
  <2>. QED
    BY <2>1, <2>2
<1>8. r = SubSeq(s, 1, b)
  <2>1. Len(r) = b
    BY <1>6
  <2>. QED
    BY <1>5, <1>6, <1>7, <2>1, SeqEqual
<1>. QED
  BY <1>8 DEF r

LEMMA ListingSize ==
  ASSUME listing \in Seq(Doc)
  PROVE  IsFiniteSet(ToSet(listing)) /\ Cardinality(ToSet(listing)) <= Len(listing)
<1>1. PICK n \in Nat : n = Len(listing) /\ DOMAIN listing = 1 .. n
  BY LenProperties
<1>2. IsFiniteSet(1 .. n) /\ Cardinality(1 .. n) = n
  BY FS_Interval
<1>3. ToSet(listing) = {listing[i] : i \in 1 .. n}
  BY <1>1 DEF ToSet
<1> DEFINE f == [i \in 1 .. n |-> listing[i]]
<1>4. f \in Surjection(1 .. n, ToSet(listing))
  BY <1>3 DEF Surjection
<1>. QED
  BY <1>1, <1>2, <1>4, FS_Surjection

\* One page more: the ids that were got, and whom they leave out.
IdsRead(job, ids) == ids = job.ids \o PageIds(job.page)
StayedFor(job, stayed) ==
  stayed = IF job.page = 0 THEN ToSet(listing) ELSE job.stayed
EndOf(job, end) == end = (job.page + 1) * PageSize

LEMMA PageRead ==
  ASSUME TypeOK, NEW job \in LibraryJobs, PagesSeen(job),
         NEW ids, IdsRead(job, ids), NEW stayed, StayedFor(job, stayed),
         NEW end, EndOf(job, end)
  PROVE  /\ ids \in Seq(Doc) /\ Len(ids) <= end
         /\ ids = job.ids \/ Len(ids) <= Len(listing)
         /\ stayed \subseteq ToSet(listing)
         /\ Cardinality(stayed) <= ArraySize(job)
         /\ \A i \in DOMAIN listing :
              listing[i] \in stayed => listing[i] \in ToSet(ids) \/ i > end
         /\ stayed # {} /\ stayed = ToSet(listing) =>
              ids = SubSeq(listing, 1, Min({end, Len(listing)}))
<1>1. /\ job.page \in Nat /\ job.ids \in Seq(Doc) /\ job.size \in Nat
      /\ listing \in Seq(Doc)
  BY DEF LibraryJobs, TypeOK
<1>2. PICK n, from, to \in Nat :
        /\ n = Len(listing) /\ DOMAIN listing = 1 .. n
        /\ from = job.page * PageSize /\ to = (job.page + 1) * PageSize
        /\ from <= to /\ (job.page = 0 => from = 0)
        /\ PageIds(job.page) = SubSeq(listing, from + 1, Min({to, n}))
        /\ Min({to, n}) = IF to <= n THEN to ELSE n
        /\ Min({from, n}) = IF from <= n THEN from ELSE n
  BY <1>1, PageSpan
<1>0. job.page # 0 =>
        /\ \A i \in DOMAIN listing :
             listing[i] \in job.stayed => listing[i] \in ToSet(job.ids) \/ i > from
        /\ job.stayed # {} /\ job.stayed = ToSet(listing) =>
             job.ids = SubSeq(listing, 1, Min({from, n}))
  <2>1. job.page # 0 => job.page > 0
    BY <1>1
  <2> DEFINE start == job.page * PageSize
  <2>2. job.page > 0 =>
          /\ \A i \in DOMAIN listing :
               listing[i] \in job.stayed => listing[i] \in ToSet(job.ids) \/ i > start
          /\ job.stayed # {} /\ job.stayed = ToSet(listing) =>
               job.ids = SubSeq(listing, 1, Min({start, Len(listing)}))
    BY DEF PagesSeen
  <2>3. start = from /\ Len(listing) = n
    BY <1>2
  <2> HIDE DEF start
  <2>. QED
    BY <2>1, <2>2, <2>3
<1>3. PICK last \in Nat : last = IF to <= n THEN to ELSE n
  OBVIOUS
<1>4. PICK known \in Nat :
        known = Len(job.ids) /\ known <= from /\ (job.page = 0 => known = 0)
  <2>1. Len(job.ids) \in Nat /\ DOMAIN job.ids = 1 .. Len(job.ids)
    BY <1>1, LenProperties
  <2>2. Len(job.ids) <= from
    BY <1>2 DEF PagesSeen
  <2>3. job.page = 0 => Len(job.ids) = 0
    BY DEF PagesSeen
  <2>. QED
    BY <2>1, <2>2, <2>3
<1> DEFINE page == SubSeq(listing, from + 1, last)
<1>a. PICK more \in Nat : more = IF from < last THEN last - from ELSE 0
  <2>1. from < last => last - from \in Nat
    OBVIOUS
  <2>. QED
    BY <2>1
<1>b. /\ known + more <= to /\ (more # 0 => known + more <= n)
      /\ (more = 0 <=> last <= from) /\ (more # 0 => more = last - from)
  <2>1. from <= to
    BY <1>2
  <2>2. known <= from
    BY <1>4
  <2>. QED
    BY <1>3, <1>a, <2>1, <2>2
<1>5. ids = job.ids \o page
  BY <1>2, <1>3 DEF IdsRead
<1>6. \A i \in 1 .. n : listing[i] \in Doc
  BY <1>1, <1>2, ElementOfSeq
<1>7. /\ page \in Seq(Doc) /\ Len(page) = more
      /\ \A i \in 1 .. more : page[i] = listing[from + i]
  <2>1. CASE from < last
    <3>1. \A i \in from + 1 .. last : listing[i] \in Doc
      BY <1>3, <1>6
    <3>2. /\ page \in Seq(Doc) /\ Len(page) = last - from
          /\ \A i \in 1 .. last - from : page[i] = listing[from + i]
      <4>1. /\ page \in Seq(Doc)
            /\ Len(page) = IF from + 1 <= last THEN last - (from + 1) + 1 ELSE 0
            /\ \A i \in 1 .. last - (from + 1) + 1 : page[i] = listing[from + 1 + i - 1]
        BY <3>1, SubSeqProperties
      <4>2. last - (from + 1) + 1 = last - from
            /\ \A i \in 1 .. last - from : from + 1 + i - 1 = from + i
        BY <2>1
      <4>. QED
        BY <2>1, <4>1, <4>2
    <3>. QED
      BY <1>a, <2>1, <3>2
  <2>2. CASE ~(from < last)
    <3>1. \A i \in from + 1 .. last : listing[i] \in Doc
      BY <2>2
    <3>2. page \in Seq(Doc) /\ Len(page) = 0
      BY <2>2, <3>1, SubSeqProperties
    <3>. QED
      BY <1>a, <2>2, <3>2
  <2>. QED
    BY <2>1, <2>2
<1>8. /\ ids \in Seq(Doc) /\ Len(ids) = known + more
      /\ \A i \in 1 .. known + more :
           ids[i] = IF i <= known THEN job.ids[i] ELSE page[i - known]
  <2> HIDE DEF page
  <2>1. /\ job.ids \o page \in Seq(Doc)
        /\ Len(job.ids \o page) = Len(job.ids) + Len(page)
        /\ \A i \in 1 .. Len(job.ids) + Len(page) :
             (job.ids \o page)[i] = IF i <= Len(job.ids) THEN job.ids[i]
                                    ELSE page[i - Len(job.ids)]
    BY <1>1, <1>7, ConcatProperties
  <2>2. Len(job.ids) = known /\ Len(page) = more
    BY <1>4, <1>7
  <2>. QED
    BY <1>5, <2>1, <2>2
<1>9. DOMAIN ids = 1 .. known + more
  BY <1>8, LenProperties
<1> HIDE DEF page
<1>c. more = 0 => ids = job.ids
  <2> SUFFICES ASSUME more = 0 PROVE ids = job.ids
    OBVIOUS
  <2>1. known + more = known
    OBVIOUS
  <2>2. /\ Len(ids) = known
        /\ \A i \in 1 .. known : ids[i] = IF i <= known THEN job.ids[i]
                                       ELSE page[i - known]
    BY <1>8, <2>1
  <2>3. \A i \in 1 .. known : ids[i] = job.ids[i]
    BY <2>2
  <2>4. Len(job.ids) = known
    BY <1>4
  <2>. QED
    BY <1>1, <1>8, <2>2, <2>3, <2>4, SeqEqual
<1>d. /\ \A i \in 1 .. known : ids[i] = job.ids[i]
      /\ \A i \in 1 .. more : ids[known + i] = page[i]
  <2>1. ASSUME NEW i \in 1 .. known PROVE ids[i] = job.ids[i]
    <3>1. i \in 1 .. known + more /\ i <= known
      OBVIOUS
    <3>. QED
      BY <1>8, <3>1
  <2>2. ASSUME NEW i \in 1 .. more PROVE ids[known + i] = page[i]
    <3>1. /\ known + i \in 1 .. known + more /\ ~(known + i <= known)
          /\ known + i - known = i
      OBVIOUS
    <3>. QED
      BY <1>8, <3>1
  <2>. QED
    BY <2>1, <2>2
<1>10. ToSet(ids) = ToSet(job.ids) \cup {listing[i] : i \in from + 1 .. last}
  <2>1. DOMAIN job.ids = 1 .. known
    BY <1>1, <1>4, LenProperties
  <2>2. ASSUME NEW x \in ToSet(job.ids) PROVE x \in ToSet(ids)
    <3>1. PICK i \in 1 .. known : x = job.ids[i]
      BY <2>1, <2>2 DEF ToSet
    <3>2. ids[i] = x /\ i \in DOMAIN ids
      BY <1>9, <1>d, <3>1
    <3>. QED
      BY <3>2 DEF ToSet
  <2>3. ASSUME NEW i \in from + 1 .. last PROVE listing[i] \in ToSet(ids)
    <3>1. PICK k \in 1 .. more : k = i - from /\ from + k = i
      BY <1>a, <2>3
    <3>2. ids[known + k] = page[k] /\ page[k] = listing[from + k]
      BY <1>7, <1>d
    <3>3. known + k \in 1 .. known + more
      OBVIOUS
    <3>. QED
      BY <1>9, <3>1, <3>2, <3>3 DEF ToSet
  <2>4. ASSUME NEW k \in 1 .. known + more
        PROVE  ids[k] \in ToSet(job.ids) \cup {listing[i] : i \in from + 1 .. last}
    <3>1. CASE k <= known
      BY <1>d, <2>1, <3>1 DEF ToSet
    <3>2. CASE ~(k <= known)
      <4>1. PICK i \in 1 .. more : i = k - known /\ known + i = k
        BY <3>2
      <4>2. ids[known + i] = page[i] /\ page[i] = listing[from + i]
        BY <1>7, <1>d
      <4>3. from + i \in from + 1 .. last
        BY <1>a
      <4>. QED
        BY <4>1, <4>2, <4>3
    <3>. QED
      BY <3>1, <3>2
  <2>5. ToSet(ids) \subseteq ToSet(job.ids) \cup {listing[i] : i \in from + 1 .. last}
    BY <1>9, <2>4 DEF ToSet
  <2>. QED
    BY <2>2, <2>3, <2>5
<1>11. Len(ids) <= end
  <2>1. end = to
    BY <1>2 DEF EndOf
  <2>2. Len(ids) = known + more
    BY <1>8
  <2>. QED
    BY <1>b, <2>1, <2>2
<1>12. ids = job.ids \/ Len(ids) <= Len(listing)
  <2>1. CASE more = 0
    <3>. QED
      BY <1>c, <2>1
  <2>2. CASE more # 0
    <3>1. known + more <= n
      BY <1>b, <2>2
    <3>2. Len(ids) = known + more /\ Len(listing) = n
      BY <1>2, <1>8
    <3>. QED
      BY <3>1, <3>2
  <2>. QED
    BY <2>1, <2>2
<1>13. stayed \subseteq ToSet(listing) /\ Cardinality(stayed) <= ArraySize(job)
  BY <1>1, ListingSize DEF PagesSeen, ArraySize, LibraryJobs, StayedFor
<1>14. ASSUME NEW i \in DOMAIN listing, listing[i] \in stayed
       PROVE  listing[i] \in ToSet(ids) \/ i > end
  <2>1. i \in 1 .. n /\ end = to
    BY <1>2 DEF EndOf
  <2>2. listing[i] \in ToSet(job.ids) \/ i > from
    <3>1. CASE job.page = 0
      BY <1>2, <2>1, <3>1
    <3>2. CASE job.page # 0
      BY <1>0, <1>14, <3>2 DEF StayedFor
    <3>. QED
      BY <3>1, <3>2
  <2>3. CASE i > from /\ i <= end
    <3>1. i \in from + 1 .. last
      BY <1>2, <1>3, <2>1, <2>3
    <3>. QED
      BY <1>10, <3>1
  <2>4. CASE ~(i <= end)
    BY <1>2, <2>1, <2>4
  <2>. QED
    BY <1>10, <2>2, <2>3, <2>4
<1>15. ASSUME stayed # {}, stayed = ToSet(listing)
       PROVE  ids = SubSeq(listing, 1, Min({end, Len(listing)}))
  <2>1. Min({end, Len(listing)}) = last
    BY <1>2, <1>3 DEF EndOf
  <2>2. job.ids = SubSeq(listing, 1, IF from <= n THEN from ELSE n)
    <3>1. CASE job.page = 0
      <4>1. job.ids = <<>> /\ from = 0
        BY <1>2, <3>1 DEF PagesSeen
      <4>2. SubSeq(listing, 1, 0) = <<>>
        BY <1>1, SubSeqProperties, EmptySeq
      <4>. QED
        BY <4>1, <4>2
    <3>2. CASE job.page # 0
      BY <1>0, <1>2, <1>15, <3>2 DEF StayedFor
    <3>. QED
      BY <3>1, <3>2
  <2>3. CASE from <= n
    <3>1. from <= last /\ last <= n
      BY <1>2, <1>3, <2>3
    <3>2. SubSeq(listing, 1, from) \o SubSeq(listing, from + 1, last)
            = SubSeq(listing, 1, last)
      BY <1>1, <1>2, <3>1, SubSeqJoin
    <3>. QED
      BY <1>5, <2>1, <2>2, <2>3, <3>2 DEF page
  <2>4. CASE ~(from <= n)
    <3>1. last = n /\ more = 0
      <4>1. from <= to
        BY <1>2
      <4>. QED
        BY <1>3, <1>a, <2>4, <4>1
    <3>2. ids = job.ids
      BY <1>c, <3>1
    <3>. QED
      BY <2>1, <2>2, <2>4, <3>1, <3>2
  <2>. QED
    BY <2>3, <2>4
<1>. QED
  BY <1>8, <1>11, <1>12, <1>13, <1>14, <1>15

\* A worker at the pages of the listing goes on with the next one or is left
\* alone, and the listing changes in no other way than ChangeListing.
LEMMA LibraryWork ==
  ASSUME TypeOK, [Next]_vars, NEW w \in Worker
  PROVE  /\ Doing(w, "library") =>
              \/ active'[w] = active[w] /\ listing' = listing
              \/ GetLibraryPage(w) \/ ChangeListing \/ active'[w] = None
         /\ Doing(w, "library")' =>
              \/ active'[w] = active[w] /\ listing' = listing
              \/ active'[w] = LibraryJob
              \/ GetLibraryPage(w) \/ ChangeListing
<1> USE DEF service, plugin, clearing, database, bounds, fileHistory, history
<1>1. CASE active' = active /\ listing' = listing
  BY <1>1
<1>2. CASE Restart \/ \E u \in Worker : OpenFails(u)
  BY <1>2 DEF Restart, OpenFails, PluginEnds, Doing
<1>3. CASE ChangeListing
  BY <1>3
<1>4. ASSUME NEW u \in Worker, RunJob(u), u # w
      PROVE  active'[w] = active[w] /\ listing' = listing
  <2>1. \E j : Become(u, j)
    BY <1>4 DEF RunJob, TakeJob, GetLibraryPage, DispatchDocument, GetDocument,
         GetDocumentFails, CallPushDocument, FetchFile, FetchFileFails,
         WriteFile, CloseFile
  <2>2. listing' = listing
    BY <1>4 DEF RunJob, TakeJob, GetLibraryPage, DispatchDocument, GetDocument,
         GetDocumentFails, CallPushDocument, FetchFile, FetchFileFails,
         WriteFile, CloseFile
  <2>. QED
    BY <1>4, <2>1, <2>2 DEF Become, TypeOK
<1>5. CASE TakeJob(w)
  <2>1. ~Doing(w, "library")
    BY <1>5 DEF TakeJob, Doing
  <2>2. Head(queue) \in QueuedJob /\ active'[w] = Head(queue)
    BY <1>5, HeadTailProperties DEF TakeJob, Become, TypeOK
  <2>3. Head(queue).do = "library" => Head(queue) = LibraryJob
    BY <2>2 DEF QueuedJob, DocumentJobs, FetchJobs
  <2>. QED
    BY <2>1, <2>2, <2>3 DEF Doing
<1>6. CASE \/ DispatchDocument(w) \/ GetDocument(w) \/ GetDocumentFails(w)
           \/ CallPushDocument(w) \/ FetchFile(w) \/ FetchFileFails(w)
           \/ WriteFile(w) \/ CloseFile(w)
  <2>1. ~Doing(w, "library")
    BY <1>6 DEF DispatchDocument, GetDocument, GetDocumentFails, CallPushDocument,
         FetchFile, FetchFileFails, WriteFile, CloseFile, Doing
  <2>2. \E j : Become(w, j) /\ (j = None \/ j.do # "library")
    <3>1. CASE DispatchDocument(w)
      <4>1. active[w] \in DispatchJobs
        BY <3>1, JobKinds DEF DispatchDocument
      <4>2. [active[w] EXCEPT !.ids = Front(active[w].ids)].do = "dispatch"
        BY <4>1 DEF DispatchJobs
      <4>. QED
        BY <3>1, <4>2 DEF DispatchDocument
    <3>2. CASE WriteFile(w)
      <4>1. active[w] \in WriteJobs
        BY <3>2, JobKinds DEF WriteFile
      <4>2. [active[w] EXCEPT !.do = "close"].do = "close"
        BY <4>1 DEF WriteJobs
      <4>. QED
        BY <3>2, <4>2 DEF WriteFile
    <3>3. CASE GetDocument(w)
      <4>1. Become(w, [do |-> "push", doc |-> active[w].doc,
                       version |-> version[active[w].doc]])
        BY <3>3 DEF GetDocument
      <4>. QED
        BY <4>1
    <3>4. CASE \/ GetDocumentFails(w) \/ CallPushDocument(w) \/ FetchFile(w)
               \/ FetchFileFails(w) \/ CloseFile(w)
      BY <3>4 DEF GetDocumentFails, CallPushDocument, FetchFile, FetchFileFails,
                  CloseFile
    <3>. QED
      BY <1>6, <3>1, <3>2, <3>3, <3>4
  <2>3. PICK j : Become(w, j) /\ (j = None \/ j.do # "library")
    BY <2>2
  <2>4. active'[w] = j
    BY <2>3 DEF Become, TypeOK
  <2>. QED
    BY <2>1, <2>3, <2>4 DEF Doing
<1>7. CASE RemoveFile
  <2>1. listing' = listing
    BY <1>7 DEF RemoveFile
  <2> DEFINE Open == (Doing(w, "write") \/ Doing(w, "close"))
                       /\ active[w].path = Head(ui.todo)
  <2>2. CASE Open
    <3>1. active[w] \in WriteJobs /\ (Doing(w, "write") \/ Doing(w, "close"))
      BY <2>2, JobKinds
    <3>2. [active[w] EXCEPT !.linked = FALSE].do \in {"write", "close"}
      BY <3>1 DEF WriteJobs
    <3>3. active'[w] = [active[w] EXCEPT !.linked = FALSE]
      BY <1>7, <2>2 DEF RemoveFile, UnlinkFile
    <3>. QED
      BY <3>1, <3>2, <3>3 DEF Doing
  <2>3. CASE ~Open
    BY <1>7, <2>1, <2>3 DEF RemoveFile, UnlinkFile
  <2>. QED
    BY <2>2, <2>3
<1>8. CASE \/ RefreshView \/ ServeRequest \/ UNCHANGED vars
           \/ RequestFails \/ \E d \in Doc : EditDocument(d)
           \/ PushDocument \/ CheckFile \/ MergeDocument \/ MergeSucceeded
           \/ Clearing
  BY <1>1, <1>8 DEF RefreshView, ServeRequest, vars, RequestFails, EditDocument,
     PushDocument, CheckFile, MergeDocument, MergeSucceeded, Clearing, ClearDatabase,
     DeleteAll, DeleteRecord
<1>9. CASE \E u \in Worker : RunJob(u)
  BY <1>4, <1>5, <1>6, <1>9 DEF RunJob
<1>. QED
  BY <1>2, <1>3, <1>7, <1>8, <1>9 DEF Next, HandleEvent, Environment, Wait

LEMMA PagesInit == Init => PagesInv
  BY DEF Init, PagesInv, Doing

\* A document that is added moves others to the next page at most, and then the
\* listing is no longer the one that was there.
LEMMA PagesChangeStep ==
  ASSUME TypeOK, PagesInv, ChangeListing
  PROVE  PagesInv'
<1> USE DEF service, plugin, clearing, database, bounds, fileHistory, history
<1>1. SUFFICES ASSUME NEW w \in Worker, Doing(w, "library")'
               PROVE  PagesSeen(active[w])'
  BY DEF PagesInv
<1>2. PICK n \in Nat : n = Len(listing) /\ DOMAIN listing = 1 .. n
  BY LenProperties DEF TypeOK
<1>3. \A k \in Nat : k * PageSize \in Nat
  BY SyncAssumption
<1>4. CASE \E d \in NewDoc \ ToSet(listing) :
             listing' \in {<<d>> \o listing, Append(listing, d)}
           /\ active' = active
  <2>1. PICK d \in NewDoc \ ToSet(listing) :
               listing' \in {<<d>> \o listing, Append(listing, d)}
    BY <1>4
  <2>2. active' = active
    BY <1>4
  <2>3. active[w] \in LibraryJobs /\ PagesSeen(active[w])
    BY <1>1, <2>2, JobKinds DEF Doing, PagesInv
  <2>4. PICK job \in LibraryJobs : job = active[w]
    BY <2>3
  <2>5. d \in Doc
    BY DEF Doc
  <2>6. PICK shift \in {0, 1} :
          /\ DOMAIN listing' = 1 .. n + 1
          /\ \A i \in 1 .. n : listing'[i + shift] = listing[i]
          /\ \A i \in 1 .. n + 1 : listing'[i] = d \/
               (i - shift \in 1 .. n /\ listing'[i] = listing[i - shift])
          /\ d \in ToSet(listing')
    <3>1. CASE listing' = <<d>> \o listing
      <4>1. <<d>> \in Seq(Doc) /\ Len(<<d>>) = 1 /\ <<d>>[1] = d
        BY <2>5
      <4>2. /\ listing' \in Seq(Doc) /\ Len(listing') = 1 + n
            /\ \A i \in 1 .. 1 + n :
                 listing'[i] = IF i <= 1 THEN <<d>>[i] ELSE listing[i - 1]
        BY <1>2, <3>1, <4>1, ConcatProperties DEF TypeOK
      <4>3. DOMAIN listing' = 1 .. n + 1
        BY <4>2, LenProperties
      <4>4. listing'[1] = d /\ \A i \in 2 .. n + 1 : listing'[i] = listing[i - 1]
        BY <4>1, <4>2
      <4>5. \A i \in 1 .. n : listing'[i + 1] = listing[i]
        <5>1. \A i \in 1 .. n : i + 1 \in 2 .. n + 1 /\ i + 1 - 1 = i
          OBVIOUS
        <5>. QED
          BY <4>4, <5>1
      <4>6. \A i \in 1 .. n + 1 : listing'[i] = d \/
              (i - 1 \in 1 .. n /\ listing'[i] = listing[i - 1])
        BY <4>4
      <4>7. d \in ToSet(listing')
        BY <4>3, <4>4 DEF ToSet
      <4>. QED
        BY <4>3, <4>5, <4>6, <4>7
    <3>2. CASE listing' = Append(listing, d)
      <4>1. /\ listing' \in Seq(Doc) /\ Len(listing') = n + 1
            /\ \A i \in 1 .. n : listing'[i] = listing[i]
            /\ listing'[n + 1] = d
        BY <1>2, <2>5, <3>2, AppendProperties DEF TypeOK
      <4>2. DOMAIN listing' = 1 .. n + 1
        BY <4>1, LenProperties
      <4>3. \A i \in 1 .. n : listing'[i + 0] = listing[i]
        BY <4>1
      <4>4. \A i \in 1 .. n + 1 : listing'[i] = d \/
              (i - 0 \in 1 .. n /\ listing'[i] = listing[i - 0])
        BY <4>1
      <4>5. d \in ToSet(listing')
        BY <4>1, <4>2 DEF ToSet
      <4>. QED
        BY <4>2, <4>3, <4>4, <4>5
    <3>. QED
      BY <2>1, <3>1, <3>2
  <2>7. PICK end \in Nat : end = job.page * PageSize
    BY <1>3, <2>4 DEF LibraryJobs
  <2>8. job.page > 0 => d \notin job.stayed
    BY <2>1, <2>3, <2>4 DEF PagesSeen
  <2>9. job.page > 0 => job.stayed \subseteq ToSet(listing')
    <3>1. ToSet(listing) \subseteq ToSet(listing')
      <4>1. ASSUME NEW i \in 1 .. n PROVE listing[i] \in ToSet(listing')
        <5>1. i + shift \in 1 .. n + 1
          BY <2>6
        <5>. QED
          BY <2>6, <5>1 DEF ToSet
      <4>. QED
        BY <1>2, <4>1 DEF ToSet
    <3>. QED
      BY <2>3, <2>4, <3>1 DEF PagesSeen
  <2>10. ASSUME job.page > 0, NEW i \in DOMAIN listing', listing'[i] \in job.stayed
         PROVE  listing'[i] \in ToSet(job.ids) \/ i > job.page * PageSize
    <3>1. i \in 1 .. n + 1 /\ listing'[i] # d
      BY <2>6, <2>8, <2>10
    <3>2. i - shift \in 1 .. n /\ listing'[i] = listing[i - shift]
      BY <2>6, <3>1
    <3>3. listing[i - shift] \in ToSet(job.ids) \/ i - shift > end
      BY <1>2, <2>3, <2>4, <2>7, <2>10, <3>2 DEF PagesSeen
    <3>4. i - shift > end => i > end
      BY <2>6, <3>1
    <3>. QED
      BY <2>7, <3>2, <3>3, <3>4
  <2>11. job.page > 0 => job.stayed # ToSet(listing')
    BY <2>6, <2>8
  <2>12. /\ job.page = 0 => job.ids = <<>>
         /\ Len(job.ids) <= job.page * PageSize
         /\ job.page > 0 => Cardinality(job.stayed) <= job.size
    BY <2>3, <2>4 DEF PagesSeen
  <2>13. active'[w] = job
    BY <2>2, <2>4
  <2>. QED
    BY <2>9, <2>10, <2>11, <2>12, <2>13 DEF PagesSeen
<1>5. CASE active' = [u \in Worker |-> IF Paging(u)
                       THEN [active[u] EXCEPT !.stayed = {}] ELSE active[u]]
  <2>1. CASE Paging(w)
    <3>1. active[w] \in LibraryJobs /\ PagesSeen(active[w]) /\ active[w].page > 0
      BY <2>1, JobKinds DEF Paging, PagesInv
    <3>2. PICK job \in LibraryJobs : job = active[w]
      BY <3>1
    <3>3. PICK next \in LibraryJobs :
            /\ active'[w] = next /\ next.page = job.page /\ next.ids = job.ids
            /\ next.size = job.size /\ next.stayed = {}
      <4> DEFINE next == [job EXCEPT !.stayed = {}]
      <4>1. /\ next \in LibraryJobs /\ next.page = job.page /\ next.ids = job.ids
            /\ next.size = job.size /\ next.stayed = {}
        BY DEF LibraryJobs
      <4>2. active'[w] = next
        BY <1>5, <2>1, <3>2
      <4>. QED
        BY <4>1, <4>2
    <3>4. Cardinality({}) = 0 /\ job.size \in Nat
      BY FS_EmptySet DEF LibraryJobs
    <3>. QED
      BY <3>1, <3>2, <3>3, <3>4 DEF PagesSeen
  <2>2. CASE ~Paging(w)
    <3>1. active'[w] = active[w] /\ Doing(w, "library")
      BY <1>1, <1>5, <2>2 DEF Doing
    <3>2. active[w] \in LibraryJobs /\ PagesSeen(active[w])
      BY <3>1, JobKinds DEF PagesInv
    <3>3. active[w].page = 0
      BY <2>2, <3>1, <3>2 DEF Paging, LibraryJobs
    <3>. QED
      BY <3>1, <3>2, <3>3 DEF PagesSeen
  <2>. QED
    BY <2>1, <2>2
<1>. QED
  BY <1>4, <1>5 DEF ChangeListing

LEMMA PagesStep == TypeOK /\ PagesInv /\ [Next]_vars => PagesInv'
<1> SUFFICES ASSUME TypeOK, PagesInv, [Next]_vars, NEW w \in Worker,
                    Doing(w, "library")'
             PROVE  PagesSeen(active[w])'
  BY DEF PagesInv
<1>1. CASE active'[w] = active[w] /\ listing' = listing
  <2>1. PagesSeen(active[w])
    BY <1>1 DEF PagesInv, Doing
  <2>. QED
    BY <1>1, <2>1 DEF PagesSeen
<1>2. CASE active'[w] = LibraryJob
  <2>1. Len(<<>>) <= 0 * PageSize
    BY SyncAssumption
  <2>. QED
    BY <1>2, <2>1 DEF LibraryJob, PagesSeen
<1>3. CASE ChangeListing
  BY <1>3, PagesChangeStep DEF PagesInv
<1>4. CASE GetLibraryPage(w)
  <2>1. PICK job \in LibraryJobs : job = active[w] /\ PagesSeen(job)
    BY <1>4, JobKinds DEF GetLibraryPage, PagesInv
  <2> DEFINE ids == job.ids \o PageIds(job.page)
             stayed == IF job.page = 0 THEN ToSet(listing) ELSE job.stayed
             next == [job EXCEPT !.page = @ + 1, !.ids = ids,
                        !.size = ArraySize(job), !.stayed = stayed]
             over == [do |-> "dispatch", ids |-> ids]
  <2>2. /\ active'[w] \in {next, over} /\ over.do # "library"
        /\ listing' = listing
    BY <1>4, <2>1 DEF GetLibraryPage, Become, TypeOK, service
  <2>3. active'[w] = next
    BY <2>2 DEF Doing
  <2>4. /\ next.page = job.page + 1 /\ next.ids = ids
        /\ next.size = ArraySize(job) /\ next.stayed = stayed
    BY DEF LibraryJobs
  <2>5. PICK k \in Nat : k = job.page + 1 /\ k > 0
    BY DEF LibraryJobs
  <2> DEFINE end == (job.page + 1) * PageSize
  <2>6. IdsRead(job, ids) /\ StayedFor(job, stayed) /\ EndOf(job, end)
    BY DEF IdsRead, StayedFor, EndOf
  <2>7. end = next.page * PageSize
    BY <2>4
  <2> HIDE DEF ids, stayed, end, next
  <2>8. /\ Len(ids) <= end /\ stayed \subseteq ToSet(listing)
        /\ Cardinality(stayed) <= ArraySize(job)
        /\ \A i \in DOMAIN listing :
             listing[i] \in stayed => listing[i] \in ToSet(ids) \/ i > end
        /\ stayed # {} /\ stayed = ToSet(listing) =>
             ids = SubSeq(listing, 1, Min({end, Len(listing)}))
    BY <2>1, <2>6, PageRead
  <2>9. next.page # 0
    BY <2>4, <2>5
  <2>. QED
    BY <2>2, <2>3, <2>4, <2>7, <2>8, <2>9 DEF PagesSeen
<1>. QED
  BY <1>1, <1>2, <1>3, <1>4, LibraryWork

\* A page of the listing that a worker gets, with the facts of PageRead.
LEMMA PageGot ==
  ASSUME TypeOK, PagesInv, NEW w \in Worker, GetLibraryPage(w)
  PROVE  \E job, ids, stayed, end :
           /\ job \in LibraryJobs /\ job = active[w] /\ PagesSeen(job)
           /\ IdsRead(job, ids) /\ StayedFor(job, stayed) /\ EndOf(job, end)
           /\ active'[w].ids = ids /\ listing' = listing
           /\ active'[w].do = "dispatch" => LastPage(job.page)
<1> USE DEF service
<1>1. PICK job \in LibraryJobs : job = active[w] /\ PagesSeen(job)
  BY JobKinds DEF GetLibraryPage, PagesInv
<1> DEFINE ids == job.ids \o PageIds(job.page)
           stayed == IF job.page = 0 THEN ToSet(listing) ELSE job.stayed
           end == (job.page + 1) * PageSize
           next == [job EXCEPT !.page = @ + 1, !.ids = ids,
                      !.size = ArraySize(job), !.stayed = stayed]
           over == [do |-> "dispatch", ids |-> ids]
<1>2. /\ active'[w] = IF LastPage(job.page) THEN over ELSE next
      /\ listing' = listing
  BY <1>1 DEF GetLibraryPage, Become, TypeOK
<1>3. next.do = "library" /\ next.ids = ids
  BY DEF LibraryJobs
<1>4. IdsRead(job, ids) /\ StayedFor(job, stayed) /\ EndOf(job, end)
  BY DEF IdsRead, StayedFor, EndOf
<1>5. over.ids = ids
  OBVIOUS
<1> HIDE DEF ids, stayed, end, next, over
<1>6. active'[w].ids = ids
  BY <1>2, <1>3, <1>5
<1>7. active'[w].do = "dispatch" => LastPage(job.page)
  BY <1>2, <1>3
<1>. QED
  BY <1>1, <1>2, <1>4, <1>6, <1>7

\* What was there on the first page and was not removed.
Stayed(w) == IF active[w].page = 0 THEN ToSet(listing) ELSE active[w].stayed

LEMMA ListsStep ==
  ASSUME TypeOK, PagesInv, [Next]_vars, NEW w \in Worker,
         Doing(w, "library"), Doing(w, "dispatch")'
  PROVE  /\ Stayed(w) \subseteq ToSet(active'[w].ids)
         /\ Stayed(w) # {} /\ Stayed(w) = ToSet(listing) =>
              active'[w].ids = listing
<1>1. GetLibraryPage(w)
  <2>1. active'[w] # active[w] /\ active'[w] # None
    BY DEF Doing
  <2>2. CASE ChangeListing
    <3>1. active'[w] = [active[w] EXCEPT !.stayed = {}]
      BY <2>1, <2>2 DEF ChangeListing, TypeOK
    <3>2. active[w] \in LibraryJobs
      BY JobKinds
    <3>3. active'[w].do = "library"
      BY <3>1, <3>2 DEF LibraryJobs
    <3>. QED
      BY <3>3 DEF Doing
  <2>. QED
    BY <2>1, <2>2, LibraryWork
<1>2. PICK job, ids, stayed, end :
         /\ job \in LibraryJobs /\ job = active[w] /\ PagesSeen(job)
         /\ IdsRead(job, ids) /\ StayedFor(job, stayed) /\ EndOf(job, end)
         /\ active'[w].ids = ids /\ listing' = listing
         /\ active'[w].do = "dispatch" => LastPage(job.page)
  BY <1>1, PageGot
<1>3. /\ stayed \subseteq ToSet(listing)
      /\ \A i \in DOMAIN listing :
           listing[i] \in stayed => listing[i] \in ToSet(ids) \/ i > end
      /\ stayed # {} /\ stayed = ToSet(listing) =>
           ids = SubSeq(listing, 1, Min({end, Len(listing)}))
  BY <1>2, PageRead
<1>4. PICK n, to \in Nat : /\ n = Len(listing) /\ DOMAIN listing = 1 .. n
                           /\ to = end /\ n <= to /\ Min({to, n}) = n
  <2>1. listing \in Seq(Doc) /\ job.page \in Nat /\ LastPage(job.page)
    BY <1>2 DEF TypeOK, LibraryJobs, Doing
  <2>2. PICK n, from, to \in Nat :
          /\ n = Len(listing) /\ DOMAIN listing = 1 .. n
          /\ to = (job.page + 1) * PageSize
          /\ Min({to, n}) = IF to <= n THEN to ELSE n
    BY <2>1, PageSpan
  <2>3. n <= to
    BY <2>1, <2>2, LastPageReaches
  <2>4. Min({to, n}) = n
    BY <2>2, <2>3
  <2>. QED
    BY <1>2, <2>2, <2>3, <2>4 DEF EndOf
<1>5. SubSeq(listing, 1, n) = listing
  <2>1. listing \in Seq(Doc) /\ \A i \in 1 .. n : listing[i] \in Doc
    BY <1>4, ElementOfSeq DEF TypeOK
  <2>2. /\ SubSeq(listing, 1, n) \in Seq(Doc) /\ Len(SubSeq(listing, 1, n)) = n
        /\ \A i \in 1 .. n : SubSeq(listing, 1, n)[i] = listing[i]
    BY <2>1, SubSeqProperties
  <2> DEFINE whole == SubSeq(listing, 1, n)
  <2>3. whole = listing
    <3> HIDE DEF whole
    <3>1. whole \in Seq(Doc) /\ Len(whole) = n
          /\ \A i \in 1 .. n : whole[i] = listing[i]
      BY <2>2 DEF whole
    <3>. QED
      BY <1>4, <2>1, <3>1, SeqEqual
  <2>. QED
    BY <2>3
<1>6. Stayed(w) = stayed /\ active'[w].ids = ids
  BY <1>2 DEF StayedFor, Stayed
<1>7. stayed \subseteq ToSet(ids)
  <2>1. ASSUME NEW d \in stayed PROVE d \in ToSet(ids)
    <3>1. PICK i \in 1 .. n : d = listing[i]
      BY <1>3, <1>4 DEF ToSet
    <3>2. ~(i > end)
      BY <1>4
    <3>. QED
      BY <1>3, <1>4, <3>1, <3>2
  <2>. QED
    BY <2>1
<1>8. stayed # {} /\ stayed = ToSet(listing) => ids = listing
  BY <1>3, <1>4, <1>5
<1>. QED
  BY <1>6, <1>7, <1>8

\* When getLibrary comes to the dispatch of the documents it has each document
\* that has been there since the first page, and just the listing if that did
\* not change, whatever is added or removed between two pages.
THEOREM ListsAll == Spec => ListedAll
<1>1. TypeOK /\ PagesInv /\ [Next]_vars =>
        [\A w \in Worker : Doing(w, "library") /\ Doing(w, "dispatch")' =>
           LET stayed == IF active[w].page = 0 THEN ToSet(listing)
                         ELSE active[w].stayed
               ids == active'[w].ids
           IN /\ stayed \subseteq ToSet(ids)
              /\ stayed # {} /\ stayed = ToSet(listing) => ids = listing]_vars
  BY ListsStep DEF Stayed
<1>. QED
  BY <1>1, Types, PagesInit, PagesStep, PTL DEF Spec, ListedAll

\* document_ids never overruns while the listing is no longer than it was on
\* the first page, or than the documents that have been there since.
THEOREM ArrayHasRoom == Spec => IdsFit
<1> DEFINE Fits(w) ==
       /\ Doing(w, "library") /\ (Doing(w, "library") \/ Doing(w, "dispatch"))'
       /\ active[w].page = 0 \/ NotLonger(active[w])
       /\ Len(active[w].ids) <= ArraySize(active[w])
       => Len(active'[w].ids) <= ArraySize(active[w])
<1>1. TypeOK /\ PagesInv /\ [Next]_vars => \A w \in Worker : Fits(w)
  <2> SUFFICES ASSUME TypeOK, PagesInv, [Next]_vars, NEW w \in Worker,
                      Doing(w, "library"), active'[w] # None,
                      active[w].page = 0 \/ NotLonger(active[w]),
                      Len(active[w].ids) <= ArraySize(active[w])
               PROVE  Len(active'[w].ids) <= ArraySize(active[w])
    BY DEF Doing
  <2>1. CASE active'[w] = active[w]
    BY <2>1
  <2>2. CASE ChangeListing
    <3>1. active'[w] \in {active[w], [active[w] EXCEPT !.stayed = {}]}
      BY <2>2 DEF ChangeListing, TypeOK
    <3>2. active[w] \in LibraryJobs
      BY JobKinds
    <3>3. [active[w] EXCEPT !.stayed = {}].ids = active[w].ids
      BY <3>2 DEF LibraryJobs
    <3>. QED
      BY <3>1, <3>3
  <2>3. CASE GetLibraryPage(w)
    <3>1. PICK job, ids, stayed, end :
             /\ job \in LibraryJobs /\ job = active[w] /\ PagesSeen(job)
             /\ IdsRead(job, ids) /\ StayedFor(job, stayed) /\ EndOf(job, end)
             /\ active'[w].ids = ids
      BY <2>3, PageGot
    <3>2. /\ ids \in Seq(Doc) /\ (ids = job.ids \/ Len(ids) <= Len(listing))
      BY <3>1, PageRead
    <3>3. CASE ids = job.ids
      BY <3>1, <3>3
    <3>4. CASE Len(ids) <= Len(listing)
      <4>1. Len(listing) \in Nat /\ Len(ids) \in Nat
        BY <3>2, LenProperties DEF TypeOK
      <4>2. Len(listing) <= ArraySize(job)
        <5>1. CASE job.page = 0
          BY <4>1, <5>1 DEF ArraySize
        <5>2. CASE job.page # 0
          <6>1. /\ NotLonger(job) /\ ArraySize(job) = job.size /\ job.size \in Nat
                /\ job.page > 0
            BY <3>1, <5>2 DEF ArraySize, LibraryJobs
          <6>2. /\ job.stayed \subseteq ToSet(listing)
                /\ Cardinality(job.stayed) <= job.size
            BY <3>1, <6>1 DEF PagesSeen
          <6>3. Cardinality(job.stayed) \in Nat
            BY <6>2, ListingSize, FS_Subset, FS_CardinalityType DEF TypeOK
          <6>. QED
            BY <4>1, <6>1, <6>2, <6>3 DEF NotLonger
        <5>. QED
          BY <5>1, <5>2
      <4>3. ArraySize(job) \in Nat
        BY <3>1, <4>1 DEF ArraySize, LibraryJobs
      <4>4. Len(ids) <= ArraySize(job)
        BY <3>4, <4>1, <4>2, <4>3
      <4>. QED
        BY <3>1, <4>4
    <3>. QED
      BY <3>2, <3>3, <3>4
  <2>. QED
    BY <2>1, <2>2, <2>3, LibraryWork
<1>2. TypeOK /\ PagesInv /\ [Next]_vars =>
        [\A w \in Worker :
           /\ Doing(w, "library") /\ (Doing(w, "library") \/ Doing(w, "dispatch"))'
           /\ active[w].page = 0 \/ NotLonger(active[w])
           /\ Len(active[w].ids) <= ArraySize(active[w])
           => Len(active'[w].ids) <= ArraySize(active[w])]_vars
  BY <1>1
<1>. QED
  BY <1>2, Types, PagesInit, PagesStep, PTL DEF Spec, IdsFit

-----------------------------------------------------------------------------
(* The library arrives.                                                    *)
(*                                                                         *)
(* If nothing fails, each document of the library is always somewhere on   *)
(* its way, from the job that lists it to its record, and each file of it  *)
(* is with its document, is waiting to be fetched, or is there.            *)

Leads(j, d) ==
  \/ j.do = "library"
  \/ j.do = "dispatch" /\ d \in ToSet(j.ids)
  \/ j.do \in {"document", "push"} /\ j.doc = d

\* A document that has not reached the UI.
Before(d) ==
  \/ \E j \in ToSet(queue) : Leads(j, d)
  \/ \E w \in Worker : active[w] # None /\ Leads(active[w], d)
  \/ \E c \in ToSet(calls) : c.doc = d
RecordComes(d) ==
  \/ Before(d) \/ Pushing(d)
  \/ \E r \in ToSet(requests) : r.doc = d
  \/ \E r \in ToSet(replies) : r.doc = d /\ r.count = 0
  \/ records[d] # <<>>
FileComes(d, p) ==
  \/ Before(d)
  \/ Pushing(d) /\ p \in ToSet(ui.todo)
  \/ Queued(p) # {} \/ Busy(p, "file") # {}
  \/ file[p] # NoFile
Comes(d) == RecordComes(d) /\ \A p \in ToSet(FilesOf[d]) : FileComes(d, p)

Calm == troubles = 0 /\ gone = {}
Heard == \A r \in ToSet(requests) : r.heard
NoneLeft ==
  /\ ToSet(Listing) \subseteq ToSet(listing)
  /\ \A w \in Worker : Paging(w) => ToSet(Listing) \subseteq active[w].stayed
ArriveInv ==
  Calm => Heard /\ NoneLeft /\ (refreshes > 0 => \A d \in ToSet(Listing) : Comes(d))

LEMMA ArriveInit == Init => ArriveInv
<1> SUFFICES ASSUME Init PROVE ArriveInv
  OBVIOUS
<1>1. ToSet(<<>>) = {}
  BY DEF ToSet
<1>. QED
  BY <1>1 DEF Init, ArriveInv, Heard, NoneLeft, Paging, Doing

\* Nothing that was counted as trouble, nor what a clear does later.
Untroubled ==
  ~Restart /\ ~RequestFails /\ ~Clearing /\ \A w \in Worker : ~OpenFails(w)

\* What fails, is cleared or is removed stays so.
LEMMA CalmStep ==
  ASSUME TypeOK, [Next]_vars, Calm'
  PROVE  Calm /\ ~Trouble /\ (ChangeListing => UNCHANGED active) /\ Untroubled
<1> USE DEF service, plugin, clearing, database, bounds, fileHistory, history
<1>1. troubles \in Nat
  BY SyncAssumption DEF TypeOK
<1>2. ~Trouble
  BY <1>1 DEF Trouble, Calm
<1>3. ASSUME ChangeListing PROVE Calm /\ UNCHANGED active
  <2>1. ~\E i \in DOMAIN listing : gone' = gone \cup {listing[i]}
    BY DEF Calm
  <2>. QED
    BY <1>3, <2>1 DEF ChangeListing, Calm
<1>4. ASSUME NEW w \in Worker, RunJob(w) PROVE Calm
  BY <1>2, <1>4 DEF RunJob, TakeJob, GetLibraryPage, DispatchDocument, GetDocument,
       GetDocumentFails, CallPushDocument, FetchFile, FetchFileFails, WriteFile,
       CloseFile, Calm
<1>5. ASSUME HandleEvent PROVE Calm
  BY <1>5 DEF HandleEvent, PushDocument, CheckFile, RemoveFile, MergeDocument,
       MergeSucceeded, Calm
<1>6. ASSUME \/ RefreshView \/ ServeRequest \/ UNCHANGED vars
             \/ \E d \in Doc : EditDocument(d)
      PROVE  Calm
  BY <1>6 DEF RefreshView, ServeRequest, vars, EditDocument, Calm
<1>7. ASSUME Clearing PROVE FALSE
  <2>1. clear \/ doomed # Spared
    <3>1. ~ClearDatabase
      BY <1>2 DEF ClearDatabase
    <3>2. ASSUME NEW d \in Doc, doomed[d] > 0 PROVE doomed # Spared
      <4>1. Spared[d] = 0
        BY DEF Spared
      <4>. QED
        BY <3>2, <4>1
    <3>. QED
      BY <1>7, <3>1, <3>2 DEF Clearing, DeleteAll, DeleteRecord
  <2>2. troubles > 0 /\ troubles' = troubles
    <3>1. troubles' = troubles
      BY <1>2, <1>7 DEF Clearing, ClearDatabase, DeleteAll, DeleteRecord
    <3>. QED
      BY <2>1, <3>1 DEF TypeOK, ClearOK
  <2>. QED
    BY <1>1, <2>2 DEF Calm
<1>8. Untroubled
  BY <1>2, <1>7 DEF Untroubled, Restart, RequestFails, OpenFails
<1>. QED
  BY <1>2, <1>3, <1>4, <1>5, <1>6, <1>8 DEF Next, Environment, Wait, Untroubled

\* Requests have a listener unless the app was restarted.
LEMMA HeardStep ==
  ASSUME TypeOK, [Next]_vars, Calm', Heard
  PROVE  Heard'
<1> USE DEF service, plugin, clearing, database, bounds, fileHistory, history
<1>1. Untroubled
  BY CalmStep
<1>2. CASE requests' = requests
  BY <1>2 DEF Heard
<1>3. CASE ServeRequest
  <2>1. ToSet(requests') \subseteq ToSet(requests)
    BY <1>3, ToSetTail DEF ServeRequest, TypeOK
  <2>. QED
    BY <2>1 DEF Heard
<1>4. ASSUME NEW r \in Request, requests' = Append(requests, r), r.heard
      PROVE  Heard'
  BY <1>4, ToSetAppend DEF Heard, TypeOK
<1>5. CASE MergeDocument
  <2> DEFINE r == [op |-> "merge", doc |-> ui.doc, version |-> ui.version, heard |-> TRUE]
  <2>1. r \in Request /\ r.heard
    BY <1>5 DEF MergeDocument, TypeOK, Push, Request
  <2>2. requests' = Append(requests, r)
    BY <1>5 DEF MergeDocument
  <2> HIDE DEF r
  <2>. QED
    BY <2>1, <2>2, <1>4
<1>6. CASE MergeSucceeded
  <2> DEFINE reply == Head(replies)
             r == [op |-> "put", doc |-> reply.doc, version |-> reply.version,
                   heard |-> TRUE]
  <2>1. reply \in Reply
    BY <1>6, HeadTailProperties DEF MergeSucceeded, TypeOK
  <2>2. r \in Request /\ r.heard
    BY <2>1 DEF Reply, Request
  <2>3. requests' = Append(requests, r) \/ requests' = requests
    BY <1>6 DEF MergeSucceeded
  <2> HIDE DEF r
  <2>. QED
    BY <2>2, <2>3, <1>2, <1>4
<1>7. ASSUME NEW w \in Worker, RunJob(w) PROVE requests' = requests
  BY <1>7 DEF RunJob, TakeJob, GetLibraryPage, DispatchDocument, GetDocument,
       GetDocumentFails, CallPushDocument, FetchFile, FetchFileFails, WriteFile,
       CloseFile
<1>8. CASE \/ PushDocument \/ CheckFile \/ RemoveFile \/ RefreshView \/ UNCHANGED vars
           \/ ChangeListing \/ \E d \in Doc : EditDocument(d)
  BY <1>2, <1>8 DEF PushDocument, CheckFile, RemoveFile, RefreshView, vars,
       ChangeListing, EditDocument
<1>. QED
  BY <1>1, <1>2, <1>3, <1>5, <1>6, <1>7, <1>8
     DEF Next, HandleEvent, Environment, Wait, Untroubled

\* Only the service changes the listing.
LEMMA ListingSame ==
  ASSUME [Next]_vars, ~ChangeListing
  PROVE  listing' = listing
<1> USE DEF service, plugin, clearing, database, bounds, fileHistory, history
<1>1. ASSUME NEW w \in Worker, RunJob(w) PROVE listing' = listing
  BY <1>1 DEF RunJob, TakeJob, GetLibraryPage, DispatchDocument, GetDocument,
       GetDocumentFails, CallPushDocument, FetchFile, FetchFileFails, WriteFile,
       CloseFile
<1>2. CASE HandleEvent
  BY <1>2 DEF HandleEvent, PushDocument, CheckFile, RemoveFile, MergeDocument,
       MergeSucceeded
<1>3. CASE RefreshView \/ ServeRequest \/ UNCHANGED vars \/ Environment \/ Clearing
  BY <1>3 DEF RefreshView, ServeRequest, vars, Environment, Restart, RequestFails,
       OpenFails, EditDocument, Clearing, ClearDatabase, DeleteAll, DeleteRecord
<1>. QED
  BY <1>1, <1>2, <1>3 DEF Next, Wait

\* Documents that are added leave those of the library listed.
LEMMA NoneLeftStep ==
  ASSUME TypeOK, [Next]_vars, Calm', NoneLeft
  PROVE  NoneLeft'
<1>1. CASE ChangeListing
  <2>1. UNCHANGED active /\ gone' = {}
    BY <1>1, CalmStep DEF Calm
  <2>2. PICK d \in NewDoc \ ToSet(listing) :
          listing' \in {<<d>> \o listing, Append(listing, d)}
    BY <1>1, <2>1 DEF ChangeListing
  <2>3. ToSet(listing) \subseteq ToSet(listing')
    <3>1. d \in Doc /\ listing \in Seq(Doc) /\ Len(listing) \in Nat
          /\ DOMAIN listing = 1 .. Len(listing)
      BY LenProperties DEF Doc, TypeOK
    <3>2. CASE listing' = Append(listing, d)
      BY <3>1, <3>2, ToSetAppend
    <3>3. CASE listing' = <<d>> \o listing
      <4>1. <<d>> \in Seq(Doc) /\ Len(<<d>>) = 1
        BY <3>1
      <4>2. /\ <<d>> \o listing \in Seq(Doc) /\ Len(<<d>> \o listing) = 1 + Len(listing)
            /\ \A i \in 1 .. 1 + Len(listing) : (<<d>> \o listing)[i] =
                 IF i <= 1 THEN <<d>>[i] ELSE listing[i - 1]
        BY <3>1, <4>1, ConcatProperties
      <4>3. DOMAIN listing' = 1 .. 1 + Len(listing)
        BY <3>3, <4>2, LenProperties
      <4>4. ASSUME NEW i \in 1 .. Len(listing)
            PROVE  i + 1 \in DOMAIN listing' /\ listing'[i + 1] = listing[i]
        BY <3>1, <3>3, <4>2, <4>3
      <4>. QED
        BY <3>1, <4>4 DEF ToSet
    <3>. QED
      BY <2>2, <3>2, <3>3
  <2>. QED
    BY <2>1, <2>3 DEF NoneLeft, Paging, Doing
<1>2. CASE ~ChangeListing
  <2>1. listing' = listing
    BY <1>2, ListingSame
  <2>2. ASSUME NEW w \in Worker, Paging(w)'
        PROVE  ToSet(Listing) \subseteq active'[w].stayed
    <3>1. Doing(w, "library")' /\ active'[w].page > 0
      BY <2>2 DEF Paging
    <3>2. CASE active'[w] = active[w]
      BY <3>1, <3>2 DEF NoneLeft, Paging, Doing
    <3>3. CASE GetLibraryPage(w)
      <4>1. active[w] \in LibraryJobs /\ Doing(w, "library")
        BY <3>3, JobKinds DEF GetLibraryPage
      <4> DEFINE ids == active[w].ids \o PageIds(active[w].page)
                 next == [active[w] EXCEPT !.page = @ + 1, !.ids = ids,
                            !.size = ArraySize(active[w]),
                            !.stayed = IF active[w].page = 0 THEN ToSet(listing)
                                       ELSE @]
                 over == [do |-> "dispatch", ids |-> ids]
      <4>2. active'[w] \in {next, over}
        BY <3>3 DEF GetLibraryPage, Become, TypeOK
      <4>3. next.stayed = IF active[w].page = 0 THEN ToSet(listing)
                          ELSE active[w].stayed
        BY <4>1 DEF LibraryJobs
      <4>4. over.do = "dispatch"
        OBVIOUS
      <4> HIDE DEF next, over
      <4>5. active'[w].stayed = IF active[w].page = 0 THEN ToSet(listing)
                                ELSE active[w].stayed
        BY <3>1, <4>2, <4>3, <4>4 DEF Doing
      <4>6. active[w].page # 0 => Paging(w)
        BY <4>1 DEF Paging, LibraryJobs
      <4>. QED
        BY <4>5, <4>6 DEF NoneLeft
    <3>4. active'[w] # LibraryJob
      BY <3>1 DEF LibraryJob
    <3>. QED
      BY <1>2, <3>1, <3>2, <3>3, <3>4, LibraryWork
  <2>. QED
    BY <2>1, <2>2 DEF NoneLeft
<1>. QED
  BY <1>1, <1>2

LEMMA AppendKeeps ==
  ASSUME NEW T, NEW s \in Seq(T), NEW e
  PROVE  ToSet(s) \subseteq ToSet(Append(s, e)) /\ e \in ToSet(Append(s, e))
<1>1. s \in Seq(T \cup {e}) /\ e \in T \cup {e}
  <2>1. Len(s) \in Nat /\ s \in [1 .. Len(s) -> T]
    BY LenProperties
  <2>2. s \in [1 .. Len(s) -> T \cup {e}]
    BY <2>1
  <2>. QED
    BY <2>1, <2>2, SeqDef
<1>2. ToSet(Append(s, e)) = ToSet(s) \cup {e}
  BY <1>1, ToSetAppend
<1>. QED
  BY <1>2

\* A queued job stays queued until a worker takes it.
LEMMA QueueKeeps ==
  ASSUME TypeOK, [Next]_vars, Calm', NEW j \in ToSet(queue)
  PROVE  \/ j \in ToSet(queue')
         \/ \E w \in Worker : active'[w] = j /\ j \in QueuedJob
<1> USE DEF service, plugin, clearing, database, bounds, fileHistory, history
<1>1. Untroubled
  BY CalmStep
<1>2. CASE queue' = queue
  BY <1>2
<1>3. ASSUME NEW e, queue' = Append(queue, e) PROVE j \in ToSet(queue')
  BY <1>3, AppendKeeps DEF TypeOK
<1>4. ASSUME NEW w \in Worker, TakeJob(w)
      PROVE  j \in ToSet(queue') \/ (active'[w] = j /\ j \in QueuedJob)
  <2>1. queue \in Seq(QueuedJob) /\ queue # <<>> /\ queue' = Tail(queue)
    BY <1>4 DEF TakeJob, TypeOK
  <2>2. ToSet(queue) = {Head(queue)} \cup ToSet(Tail(queue)) /\ j \in QueuedJob
    BY <2>1, ToSetTail
  <2>3. active'[w] = Head(queue)
    BY <1>4 DEF TakeJob, Become, TypeOK
  <2>. QED
    BY <2>1, <2>2, <2>3
<1>5. ASSUME NEW w \in Worker, DispatchDocument(w) PROVE j \in ToSet(queue')
  BY <1>2, <1>3, <1>5 DEF DispatchDocument
<1>6. ASSUME NEW w \in Worker,
             \/ GetLibraryPage(w) \/ GetDocument(w) \/ GetDocumentFails(w)
             \/ CallPushDocument(w) \/ FetchFile(w) \/ FetchFileFails(w)
             \/ WriteFile(w) \/ CloseFile(w)
      PROVE  queue' = queue
  BY <1>6 DEF GetLibraryPage, GetDocument, GetDocumentFails, CallPushDocument,
              FetchFile, FetchFileFails, WriteFile, CloseFile
<1>7. CASE RefreshView
  BY <1>3, <1>7 DEF RefreshView
<1>8. CASE CheckFile \/ RemoveFile
  BY <1>2, <1>3, <1>8 DEF CheckFile, RemoveFile, FetchNext
<1>9. CASE \/ PushDocument \/ MergeDocument \/ MergeSucceeded \/ ServeRequest
           \/ UNCHANGED vars \/ RequestFails \/ ChangeListing
           \/ \E d \in Doc : EditDocument(d)
  BY <1>2, <1>9 DEF PushDocument, MergeDocument, MergeSucceeded, ServeRequest, vars,
       RequestFails, ChangeListing, EditDocument
<1>. QED
  BY <1>1, <1>2, <1>4, <1>5, <1>6, <1>7, <1>8, <1>9
     DEF Next, RunJob, HandleEvent, Environment, Wait, Untroubled

\* A worker goes on with its job, but for the file that is unlinked under it.
LEMMA WorkerKeeps ==
  ASSUME TypeOK, [Next]_vars, Calm', NEW w \in Worker, active[w] # None
  PROVE  \/ active'[w] = active[w]
         \/ RunJob(w) /\ ~TakeJob(w)
         \/ Doing(w, "write") \/ Doing(w, "close")
<1> USE DEF service, plugin, clearing, database, bounds, fileHistory, history
<1>1. Untroubled
  BY CalmStep
<1>2. CASE active' = active
  BY <1>2
<1>3. ASSUME NEW u \in Worker, RunJob(u), u # w PROVE active'[w] = active[w]
  <2>1. \E j : Become(u, j)
    BY <1>3 DEF RunJob, TakeJob, GetLibraryPage, DispatchDocument, GetDocument,
         GetDocumentFails, CallPushDocument, FetchFile, FetchFileFails,
         WriteFile, CloseFile
  <2>. QED
    BY <1>3, <2>1 DEF Become, TypeOK
<1>4. ~TakeJob(w)
  BY DEF TakeJob
<1>5. CASE RemoveFile
  BY <1>5 DEF RemoveFile, UnlinkFile
<1>6. CASE ChangeListing
  BY <1>2, <1>6, CalmStep
<1>7. CASE \/ PushDocument \/ CheckFile \/ MergeDocument \/ MergeSucceeded
           \/ RefreshView \/ ServeRequest \/ UNCHANGED vars \/ RequestFails
           \/ \E d \in Doc : EditDocument(d)
  BY <1>2, <1>7 DEF PushDocument, CheckFile, MergeDocument, MergeSucceeded,
       RefreshView, ServeRequest, vars, RequestFails, EditDocument
<1>. QED
  BY <1>1, <1>3, <1>4, <1>5, <1>6, <1>7 DEF Next, HandleEvent, Environment, Wait, Untroubled

\* A document that waits in a job of a worker goes on to the next stage.
LEMMA LeadingStep ==
  ASSUME TypeOK, PagesInv, [Next]_vars, Calm', NoneLeft,
         NEW d \in ToSet(Listing), NEW w \in Worker, active[w] # None,
         Leads(active[w], d)
  PROVE  Before(d)'
<1> USE DEF service, plugin, clearing, database, bounds, fileHistory, history
<1>1. CASE active'[w] # None /\ Leads(active'[w], d)
  BY <1>1 DEF Before, Leads
<1>2. CASE active'[w] = active[w]
  BY <1>1, <1>2
<1>3. CASE GetLibraryPage(w)
  <2>1. Doing(w, "library") /\ active[w] \in LibraryJobs
    BY <1>3, JobKinds DEF GetLibraryPage
  <2> DEFINE ids == active[w].ids \o PageIds(active[w].page)
             next == [active[w] EXCEPT !.page = @ + 1, !.ids = ids,
                        !.size = ArraySize(active[w]),
                        !.stayed = IF active[w].page = 0 THEN ToSet(listing)
                                   ELSE @]
             over == [do |-> "dispatch", ids |-> ids]
  <2>2. active'[w] \in {next, over}
    BY <1>3 DEF GetLibraryPage, Become, TypeOK
  <2>3. next.do = "library" /\ over.do = "dispatch"
    BY <2>1 DEF LibraryJobs
  <2>4. next # None /\ over # None
    <3>1. None \notin RunningJob /\ active' \in [Worker -> RunningJob \cup {None}]
      BY NoneAssumption, TypeStep DEF TypeOK
    <3>2. active[w].page \in Nat
      BY <2>1 DEF LibraryJobs
    <3>3. ids \in Seq(Doc) /\ Len(listing) \in Nat
      <4>1. active[w].ids \in Seq(Doc)
        BY <2>1 DEF LibraryJobs
      <4>. QED
        BY <3>2, <4>1, PageType, ConcatProperties DEF TypeOK
    <3>4. over \in RunningJob
      BY <3>3 DEF DispatchJobs, RunningJob
    <3>5. next \in LibraryJobs
      <4>1. ToSet(listing) \in SUBSET Doc
        BY LenProperties, ElementOfSeq DEF ToSet, TypeOK
      <4>2. ArraySize(active[w]) \in Nat
        BY <2>1, <3>3 DEF ArraySize, LibraryJobs
      <4> DEFINE page == active[w].page + 1
                 stayed == IF active[w].page = 0 THEN ToSet(listing)
                           ELSE active[w].stayed
                 size == ArraySize(active[w])
      <4>3. page \in Nat /\ stayed \in SUBSET Doc /\ size \in Nat
        BY <2>1, <3>2, <4>1, <4>2 DEF LibraryJobs
      <4>4. next = [active[w] EXCEPT !.page = page, !.ids = ids, !.size = size,
                                     !.stayed = stayed]
        OBVIOUS
      <4> HIDE DEF page, ids, size, stayed, next
      <4>. QED
        BY <2>1, <3>3, <4>3, <4>4, NextPageType
    <3>. QED
      BY <3>1, <3>4, <3>5 DEF RunningJob
  <2> HIDE DEF next, over
  <2>5. CASE active'[w] = next
    BY <1>1, <2>3, <2>4, <2>5 DEF Leads
  <2>6. CASE active'[w] = over
    <3>1. Doing(w, "dispatch")'
      BY <2>3, <2>4, <2>6 DEF Doing
    <3>2. Stayed(w) \subseteq ToSet(active'[w].ids)
      BY <2>1, <3>1, ListsStep
    <3>3. ToSet(Listing) \subseteq Stayed(w)
      BY <2>1 DEF NoneLeft, Stayed, Paging, LibraryJobs
    <3>. QED
      BY <1>1, <3>1, <3>2, <3>3 DEF Leads, Doing
  <2>. QED
    BY <2>2, <2>5, <2>6
<1>4. CASE DispatchDocument(w)
  <2>1. Doing(w, "dispatch") /\ active[w] \in DispatchJobs
    BY <1>4, JobKinds DEF DispatchDocument
  <2>2. d \in ToSet(active[w].ids) /\ active[w].ids \in Seq(Doc)
    BY <2>1 DEF Doing, Leads, DispatchJobs
  <2>3. PICK ids \in Seq(Doc) : ids = active[w].ids /\ d \in ToSet(ids) /\ ids # <<>>
    BY <2>2 DEF ToSet
  <2>4. ids # <<>> => /\ queue' = Append(queue, DocumentJob(Last(ids)))
                      /\ active'[w] = [active[w] EXCEPT !.ids = Front(ids)]
    BY <1>4, <2>3 DEF DispatchDocument, Become, TypeOK
  <2>5. d = Last(ids) \/ d \in ToSet(Front(ids))
    <3>1. PICK n \in Nat : n = Len(ids) /\ DOMAIN ids = 1 .. n
      BY LenProperties
    <3>2. PICK i \in 1 .. n : d = ids[i]
      BY <2>3, <3>1 DEF ToSet
    <3>3. \A k \in 1 .. n - 1 : ids[k] \in Doc
      BY <3>1, ElementOfSeq
    <3>4. /\ SubSeq(ids, 1, n - 1) \in Seq(Doc) /\ Len(SubSeq(ids, 1, n - 1)) = n - 1
          /\ \A k \in 1 .. n - 1 : SubSeq(ids, 1, n - 1)[k] = ids[k]
      BY <3>1, <3>2, <3>3, SubSeqProperties
    <3>5. Front(ids) = SubSeq(ids, 1, n - 1) /\ Last(ids) = ids[n]
      BY <3>1 DEF Front, Last
    <3>6. CASE i = n
      BY <3>2, <3>5, <3>6
    <3>7. CASE i \in 1 .. n - 1
      <4>1. DOMAIN Front(ids) = 1 .. n - 1 /\ Front(ids)[i] = d
        BY <3>2, <3>4, <3>5, <3>7, LenProperties
      <4>. QED
        BY <3>7, <4>1 DEF ToSet
    <3>. QED
      BY <3>6, <3>7
  <2>6. CASE d = Last(ids)
    <3>1. DocumentJob(d) \in ToSet(queue')
      BY <2>3, <2>4, <2>6, AppendKeeps DEF TypeOK
    <3>2. Leads(DocumentJob(d), d)
      BY DEF Leads, DocumentJob
    <3>. QED
      BY <3>1, <3>2 DEF Before, Leads
  <2>7. CASE d \in ToSet(Front(ids))
    <3>1. /\ [active[w] EXCEPT !.ids = Front(ids)].do = "dispatch"
          /\ [active[w] EXCEPT !.ids = Front(ids)].ids = Front(ids)
      BY <2>1 DEF DispatchJobs
    <3>2. active'[w] # None
      <4>1. Front(ids) \in Seq(Doc)
        <5>1. Len(ids) \in Nat \ {0} /\ \A k \in 1 .. Len(ids) - 1 : ids[k] \in Doc
          BY <2>3, LenProperties, ElementOfSeq, EmptySeq
        <5>2. SubSeq(ids, 1, Len(ids) - 1) \in Seq(Doc)
          BY <2>3, <5>1, SubSeqProperties
        <5>. QED
          BY <5>2 DEF Front
      <4>2. active'[w] \in RunningJob
        BY <2>1, <2>3, <2>4, <4>1 DEF DispatchJobs, RunningJob
      <4>. QED
        BY <4>2, NoneAssumption
    <3>. QED
      BY <1>1, <2>3, <2>4, <2>7, <3>1, <3>2 DEF Leads
  <2>. QED
    BY <2>5, <2>6, <2>7
<1>5. CASE GetDocument(w)
  <2>1. active[w] \in DocumentJobs /\ active[w].doc = d
    BY <1>5, JobKinds DEF GetDocument, Doing, Leads
  <2>2. active'[w] = [do |-> "push", doc |-> d, version |-> version[d]]
    BY <1>5, <2>1 DEF GetDocument, Become, TypeOK
  <2>3. active'[w] \in PushJobs
    BY <2>1, <2>2 DEF DocumentJobs, PushJobs, TypeOK
  <2>4. active'[w] # None
    BY <2>3, NoneAssumption DEF RunningJob
  <2>. QED
    BY <1>1, <2>2, <2>4 DEF Leads
<1>6. ~GetDocumentFails(w)
  <2>1. ASSUME GetDocumentFails(w) PROVE FALSE
    <3>1. active[w].doc = d /\ d \in ToSet(listing)
      BY <2>1 DEF GetDocumentFails, Doing, Leads, NoneLeft
    <3>. QED
      BY <2>1, <3>1, CalmStep DEF GetDocumentFails
  <2>. QED
    BY <2>1
<1>7. CASE CallPushDocument(w)
  <2>1. active[w].doc = d
    BY <1>7 DEF CallPushDocument, Doing, Leads
  <2> DEFINE call == [doc |-> d, version |-> active[w].version]
  <2>2. call \in ToSet(calls')
    BY <1>7, <2>1, AppendKeeps DEF CallPushDocument, TypeOK
  <2>. QED
    BY <2>2 DEF Before
<1>8. /\ ~FetchFile(w) /\ ~FetchFileFails(w) /\ ~WriteFile(w) /\ ~CloseFile(w)
      /\ ~Doing(w, "write") /\ ~Doing(w, "close")
  BY DEF FetchFile, FetchFileFails, WriteFile, CloseFile, Doing, Leads
<1>. QED
  BY <1>2, <1>3, <1>4, <1>5, <1>6, <1>7, <1>8, WorkerKeeps DEF RunJob

\* pushDocument begins with d.
Entered(d) == ui' # None /\ ui'.doc = d /\ ui'.todo = FilesOf[d]

LEMMA BeforeStep ==
  ASSUME TypeOK, PagesInv, [Next]_vars, Calm', NoneLeft,
         NEW d \in ToSet(Listing), Before(d)
  PROVE  Before(d)' \/ Entered(d)
<1> USE DEF service, plugin, clearing, database, bounds, fileHistory, history
<1>1. ASSUME NEW j \in ToSet(queue), Leads(j, d) PROVE Before(d)'
  <2>1. CASE j \in ToSet(queue')
    BY <1>1, <2>1 DEF Before, Leads
  <2>2. ASSUME NEW w \in Worker, active'[w] = j, j \in QueuedJob PROVE Before(d)'
    <3>1. j # None
      BY <2>2, TakenJobRuns, NoneAssumption
    <3>. QED
      BY <1>1, <2>2, <3>1 DEF Before, Leads
  <2>. QED
    BY <1>1, <2>1, <2>2, QueueKeeps
<1>2. ASSUME NEW w \in Worker, active[w] # None, Leads(active[w], d)
      PROVE  Before(d)'
  BY <1>2, LeadingStep
<1>3. ASSUME NEW c \in ToSet(calls), c.doc = d PROVE Before(d)' \/ Entered(d)
  <2>1. CASE c \in ToSet(calls')
    BY <1>3, <2>1 DEF Before
  <2>2. CASE PushDocument
    <3>1. PICK s \in Seq(Call) : s = calls /\ s # <<>> /\ calls' = Tail(s)
      BY <2>2 DEF PushDocument, TypeOK
    <3>2. c = Head(s) \/ c \in ToSet(calls')
      BY <3>1, ToSetTail
    <3>3. CASE c = Head(s)
      <4>1. ui' = [doc |-> d, version |-> c.version, todo |-> FilesOf[d],
                   stale |-> FALSE]
        BY <1>3, <2>2, <3>1, <3>3 DEF PushDocument
      <4>2. ui' \in Push
        <5>1. c \in Call /\ d \in Doc
          <6>1. c \in Call
            BY <3>1, ToSetTail
          <6>. QED
            BY <6>1 DEF Doc
        <5>2. FilesOf[d] \in Seq(Path)
          BY <5>1, SyncAssumption
        <5>. QED
          BY <4>1, <5>1, <5>2 DEF Call, Push
      <4>. QED
        BY <4>1, <4>2, NoneAssumption DEF Entered
    <3>. QED
      BY <2>1, <3>2, <3>3
  <2>3. CASE calls' = calls
    BY <2>1, <2>3
  <2>4. ASSUME NEW w \in Worker, CallPushDocument(w) PROVE c \in ToSet(calls')
    BY <2>4, AppendKeeps DEF CallPushDocument, TypeOK
  <2>5. Untroubled
    BY CalmStep
  <2>6. ASSUME NEW w \in Worker,
               \/ TakeJob(w) \/ GetLibraryPage(w) \/ DispatchDocument(w)
               \/ GetDocument(w) \/ GetDocumentFails(w) \/ FetchFile(w)
               \/ FetchFileFails(w) \/ WriteFile(w) \/ CloseFile(w)
        PROVE  calls' = calls
    BY <2>6 DEF TakeJob, GetLibraryPage, DispatchDocument, GetDocument,
                GetDocumentFails, FetchFile, FetchFileFails, WriteFile, CloseFile
  <2>7. CASE \/ CheckFile \/ RemoveFile \/ MergeDocument \/ MergeSucceeded
             \/ RefreshView \/ ServeRequest \/ UNCHANGED vars \/ RequestFails
             \/ ChangeListing \/ \E e \in Doc : EditDocument(e)
    BY <2>3, <2>7 DEF CheckFile, RemoveFile, MergeDocument, MergeSucceeded,
         RefreshView, ServeRequest, vars, RequestFails, ChangeListing, EditDocument
  <2>. QED
    BY <2>1, <2>2, <2>3, <2>4, <2>5, <2>6, <2>7
       DEF Next, RunJob, HandleEvent, Environment, Wait, Untroubled
<1>. QED
  BY <1>1, <1>2, <1>3 DEF Before

\* What is in the hands of the UI stays there until its end.
LEMMA UiKeeps ==
  ASSUME TypeOK, [Next]_vars, Calm', ui # None
  PROVE  ui' = ui \/ CheckFile \/ RemoveFile \/ MergeDocument
<1> USE DEF service, plugin, clearing, database, bounds, fileHistory, history
<1>1. Untroubled
  BY CalmStep
<1>2. ASSUME NEW w \in Worker, RunJob(w) PROVE ui' = ui
  BY <1>2 DEF RunJob, TakeJob, GetLibraryPage, DispatchDocument, GetDocument,
       GetDocumentFails, CallPushDocument, FetchFile, FetchFileFails, WriteFile,
       CloseFile
<1>3. CASE \/ RefreshView \/ ServeRequest \/ UNCHANGED vars \/ RequestFails
           \/ ChangeListing \/ \E d \in Doc : EditDocument(d)
  BY <1>3 DEF RefreshView, ServeRequest, vars, RequestFails, ChangeListing,
       EditDocument
<1>. QED
  BY <1>1, <1>2, <1>3
     DEF Next, HandleEvent, Environment, Wait, Untroubled, PushDocument,
         MergeSucceeded

\* The record: from pushDocument to the database and, if it found none, back.
LEMMA RecordComesStep ==
  ASSUME TypeOK, PagesInv, [Next]_vars, Calm', NoneLeft, Heard,
         NEW d \in ToSet(Listing), RecordComes(d)
  PROVE  RecordComes(d)'
<1> USE DEF service, plugin, clearing, database, bounds, fileHistory, history
<1>0. Untroubled
  BY CalmStep
<1>1. CASE Before(d)
  BY <1>1, BeforeStep DEF RecordComes, Pushing, Entered
<1>2. CASE Pushing(d)
  <2>1. CASE ui' = ui
    BY <1>2, <2>1 DEF RecordComes, Pushing
  <2>2. CASE CheckFile \/ RemoveFile
    BY <1>2, <2>2, PushingSame DEF RecordComes, Pushing
  <2>3. CASE MergeDocument
    <3> DEFINE r == [op |-> "merge", doc |-> ui.doc, version |-> ui.version,
                     heard |-> TRUE]
    <3>1. r \in ToSet(requests')
      BY <2>3, AppendKeeps DEF MergeDocument, TypeOK
    <3>. QED
      BY <1>2, <3>1 DEF RecordComes, Pushing
  <2>. QED
    BY <1>2, <2>1, <2>2, <2>3, UiKeeps DEF Pushing
<1>3. ASSUME UNCHANGED database
      PROVE  RecordComes(d)' \/ Before(d) \/ Pushing(d)
  BY <1>3 DEF RecordComes
<1>4. CASE MergeDocument
  <2>1. ToSet(requests) \subseteq ToSet(requests')
    BY <1>4, AppendKeeps DEF MergeDocument, TypeOK
  <2>2. replies' = replies /\ records' = records
    BY <1>4 DEF MergeDocument
  <2>. QED
    BY <1>1, <1>2, <2>1, <2>2 DEF RecordComes
<1>5. CASE MergeSucceeded
  <2>1. PICK s \in Seq(Reply) : s = replies /\ s # <<>>
    BY <1>5 DEF MergeSucceeded, TypeOK
  <2>2. ToSet(s) = {Head(s)} \cup ToSet(Tail(s))
    BY <2>1, ToSetTail
  <2> DEFINE put == [op |-> "put", doc |-> Head(s).doc,
                     version |-> Head(s).version, heard |-> TRUE]
  <2>3. /\ replies' = Tail(s) /\ records' = records
        /\ requests' = IF Head(s).count = 0 THEN Append(requests, put)
                       ELSE requests
    BY <1>5, <2>1 DEF MergeSucceeded, NotFound
  <2>4. /\ ToSet(requests) \subseteq ToSet(requests')
        /\ Head(s).count = 0 => put \in ToSet(requests')
    BY <2>3, AppendKeeps DEF TypeOK
  <2>5. put.doc = Head(s).doc
    OBVIOUS
  <2> HIDE DEF put
  <2>6. ASSUME NEW r \in ToSet(replies), r.doc = d, r.count = 0
        PROVE  RecordComes(d)'
    BY <2>1, <2>2, <2>3, <2>4, <2>5, <2>6 DEF RecordComes
  <2>. QED
    BY <1>1, <1>2, <2>3, <2>4, <2>6 DEF RecordComes
<1>6. CASE ServeRequest
  <2>1. PICK s \in Seq(Request) : s = requests /\ s # <<>> /\ requests' = Tail(s)
    BY <1>6 DEF ServeRequest, TypeOK
  <2>2. ToSet(s) = {Head(s)} \cup ToSet(Tail(s)) /\ Head(s) \in Request
    BY <2>1, ToSetTail, HeadTailProperties
  <2>3. PICK r \in Request : r = Head(s) /\ r.heard
    BY <2>1, <2>2 DEF Heard
  <2> DEFINE found == records[r.doc]
             answer == [doc |-> r.doc, version |-> r.version, count |-> Len(found)]
  <2>4. \/ /\ r.op = "merge"
           /\ records' = [records EXCEPT ![r.doc] =
                            [i \in DOMAIN found |-> r.version]]
           /\ replies' = Append(replies, answer)
        \/ /\ records' = [records EXCEPT ![r.doc] = Append(found, r.version)]
           /\ replies' = replies
    BY <1>6, <2>1, <2>3 DEF ServeRequest
  <2>5. d \in Doc /\ r.doc \in Doc
    BY DEF Doc, Request
  <2>6. ToSet(replies) \subseteq ToSet(replies')
    BY <2>4, AppendKeeps DEF TypeOK
  <2>7. records[d] # <<>> => records'[d] # <<>>
    <3>1. \A e \in Doc : records[e] \in Seq(Version)
      BY DEF TypeOK
    <3>2. records[d] # <<>> => [i \in DOMAIN records[d] |-> r.version] # <<>>
      <4>1. Len(records[d]) \in Nat /\ DOMAIN records[d] = 1 .. Len(records[d])
        BY <2>5, <3>1, LenProperties
      <4>2. records[d] # <<>> => Len(records[d]) # 0
        BY <2>5, <3>1, EmptySeq
      <4>. QED
        BY <4>1, <4>2
    <3>3. Append(records[d], r.version) # <<>>
      BY <2>5, <3>1, AppendProperties DEF Request
    <3>. QED
      BY <2>4, <2>5, <3>2, <3>3 DEF TypeOK
  <2>8. CASE r.doc = d
    <3>1. CASE records[d] # <<>>
      BY <2>7, <3>1 DEF RecordComes
    <3>2. CASE replies' = Append(replies, answer) /\ records[d] = <<>>
      <4>1. answer \in ToSet(replies') /\ answer.doc = d /\ answer.count = 0
        BY <2>8, <3>2, AppendKeeps DEF TypeOK
      <4>. QED
        BY <4>1 DEF RecordComes
    <3>3. CASE records' = [records EXCEPT ![r.doc] = Append(found, r.version)]
      <4>1. records'[d] = Append(records[d], r.version)
        BY <2>5, <2>8, <3>3 DEF TypeOK
      <4>2. Append(records[d], r.version) # <<>>
        <5>1. records[d] \in Seq(Version) /\ r.version \in Version
          BY <2>5 DEF TypeOK, Request
        <5>. QED
          BY <5>1, AppendProperties
      <4>. QED
        BY <4>1, <4>2 DEF RecordComes
    <3>. QED
      BY <2>4, <3>1, <3>2, <3>3
  <2>9. CASE r.doc # d
    BY <1>1, <1>2, <2>1, <2>2, <2>3, <2>6, <2>7, <2>9 DEF RecordComes
  <2>. QED
    BY <2>8, <2>9
<1>7. ASSUME NEW w \in Worker, RunJob(w) PROVE UNCHANGED database
  BY <1>7 DEF RunJob, TakeJob, GetLibraryPage, DispatchDocument, GetDocument,
       GetDocumentFails, CallPushDocument, FetchFile, FetchFileFails, WriteFile,
       CloseFile
<1>8. CASE \/ PushDocument \/ CheckFile \/ RemoveFile \/ RefreshView
           \/ UNCHANGED vars \/ ChangeListing \/ \E e \in Doc : EditDocument(e)
  <2>1. UNCHANGED database
    BY <1>8 DEF PushDocument, CheckFile, RemoveFile, RefreshView, vars,
         ChangeListing, EditDocument
  <2>. QED
    BY <1>1, <1>2, <1>3, <2>1
<1>. QED
  BY <1>0, <1>1, <1>2, <1>3, <1>4, <1>5, <1>6, <1>7, <1>8
     DEF Next, HandleEvent, Environment, Wait, Untroubled

\* A file: what removes it has it fetched again.
LEMMA FileComesStep ==
  ASSUME TypeOK, PagesInv, [Next]_vars, Calm', NoneLeft,
         NEW d \in ToSet(Listing), NEW p \in ToSet(FilesOf[d]), FileComes(d, p)
  PROVE  FileComes(d, p)'
<1> USE DEF service, plugin, clearing, database, bounds, fileHistory, history
<1>0. Untroubled /\ ~Trouble /\ p \in Path
  <2>1. Untroubled /\ ~Trouble
    BY CalmStep
  <2>2. p \in Path
    BY DEF Path, Doc
  <2>. QED
    BY <2>1, <2>2
<1>1. CASE Before(d)
  BY <1>1, BeforeStep DEF FileComes, Pushing, Entered
<1>2. ASSUME NEW v, queue' = Append(queue, FileJob(p, v)), FileJob(p, v) \in FetchJobs
      PROVE  FileComes(d, p)'
  <2>1. FileJob(p, v) \in ToSet(queue')
    BY <1>2, AppendKeeps DEF TypeOK
  <2>2. FileJob(p, v).path = p
    BY DEF FileJob
  <2>. QED
    BY <1>2, <2>1, <2>2 DEF FileComes, Queued
<1>3. ASSUME CheckFile \/ RemoveFile
      PROVE  /\ ui \in Push /\ ui.version \in Version /\ ui.todo \in Seq(Path)
             /\ ui.todo # <<>>
             /\ ToSet(ui.todo) = {Head(ui.todo)} \cup ToSet(Tail(ui.todo))
             /\ FileJob(Head(ui.todo), ui.version) \in FetchJobs
  <2>1. ui \in Push /\ ui.version \in Version /\ ui.todo \in Seq(Path) /\ ui.todo # <<>>
    BY <1>3 DEF CheckFile, RemoveFile, TypeOK, Push
  <2>2. ToSet(ui.todo) = {Head(ui.todo)} \cup ToSet(Tail(ui.todo))
    BY <2>1, ToSetTail
  <2>3. FileJob(Head(ui.todo), ui.version) \in FetchJobs
    BY <2>1, HeadTailProperties DEF FileJob, FetchJobs
  <2>. QED
    BY <2>1, <2>2, <2>3
<1>4. CASE Pushing(d) /\ p \in ToSet(ui.todo)
  <2>1. CASE ui' = ui
    BY <1>4, <2>1 DEF FileComes, Pushing
  <2>2. CASE MergeDocument
    <3>1. ToSet(<<>>) = {}
      BY DEF ToSet
    <3>. QED
      BY <1>4, <2>2, <3>1 DEF MergeDocument
  <2>3. CASE CheckFile \/ RemoveFile
    <3>1. /\ Pushing(d)' /\ ui'.todo \in {ui.todo, Tail(ui.todo)}
      <4>1. Pushing(d)'
        BY <1>4, <2>3, PushingSame DEF Pushing
      <4>2. ui' = [ui EXCEPT !.todo = Tail(@), !.stale = FALSE]
            \/ ui' = [ui EXCEPT !.todo = Tail(@)] \/ ui' = [ui EXCEPT !.stale = TRUE]
        BY <2>3 DEF CheckFile, RemoveFile, FetchNext
      <4>. QED
        BY <1>3, <2>3, <4>1, <4>2 DEF Push
    <3>2. CASE p \in ToSet(Tail(ui.todo))
      BY <1>3, <2>3, <3>1, <3>2 DEF FileComes
    <3>3. CASE FetchNext /\ p = Head(ui.todo)
      BY <1>2, <1>3, <2>3, <3>3 DEF FetchNext
    <3>4. CASE CheckFile /\ p = Head(ui.todo) /\ file[p] # NoFile
      BY <3>4 DEF CheckFile, FileComes
    <3>5. RemoveFile => FetchNext
      BY DEF RemoveFile
    <3>6. CheckFile => FetchNext \/ file[Head(ui.todo)] # NoFile
      <4>1. Whole(ui.version) # NoFile
        BY DEF Whole, NoFile
      <4>. QED
        BY <4>1 DEF CheckFile
    <3>. QED
      BY <1>3, <1>4, <2>3, <3>2, <3>3, <3>4, <3>5, <3>6
  <2>. QED
    BY <1>4, <2>1, <2>2, <2>3, UiKeeps DEF Pushing
<1>5. CASE Queued(p) # {}
  <2>1. PICK j \in ToSet(queue) : j \in FetchJobs /\ j.path = p
    BY <1>5 DEF Queued
  <2>2. CASE j \in ToSet(queue')
    BY <2>1, <2>2 DEF FileComes, Queued
  <2>3. ASSUME NEW w \in Worker, active'[w] = j PROVE FileComes(d, p)'
    <3>1. j # None /\ j.do = "file"
      BY <2>1, NoneAssumption DEF FetchJobs, RunningJob
    <3>. QED
      BY <2>1, <2>3, <3>1 DEF FileComes, Busy, Doing
  <2>. QED
    BY <2>2, <2>3, QueueKeeps
<1>6. CASE Busy(p, "file") # {}
  <2>1. PICK w \in Worker : Doing(w, "file") /\ active[w].path = p
    BY <1>6 DEF Busy
  <2>2. CASE active'[w] = active[w]
    BY <2>1, <2>2 DEF FileComes, Busy, Doing
  <2>3. CASE FetchFile(w)
    <3>1. file'[p] = Empty
      BY <1>0, <2>1, <2>3 DEF FetchFile, TypeOK
    <3>. QED
      BY <3>1 DEF FileComes, Empty, NoFile
  <2>4. ~FetchFileFails(w)
    BY <1>0 DEF FetchFileFails
  <2>5. /\ active[w] # None /\ ~Doing(w, "write") /\ ~Doing(w, "close")
        /\ ~GetLibraryPage(w) /\ ~DispatchDocument(w) /\ ~GetDocument(w)
        /\ ~GetDocumentFails(w) /\ ~CallPushDocument(w) /\ ~WriteFile(w)
        /\ ~CloseFile(w)
    BY <2>1 DEF Doing, GetLibraryPage, DispatchDocument, GetDocument,
         GetDocumentFails, CallPushDocument, WriteFile, CloseFile
  <2>. QED
    BY <2>2, <2>3, <2>4, <2>5, WorkerKeeps DEF RunJob
<1>7. CASE file[p] # NoFile
  <2>1. CASE file' = file
    BY <1>7, <2>1 DEF FileComes
  <2>2. ASSUME NEW w \in Worker, FetchFile(w) PROVE FileComes(d, p)'
    <3>1. file'[p] \in {file[p], Empty}
      BY <1>0, <2>2 DEF FetchFile, TypeOK
    <3>. QED
      BY <1>7, <3>1 DEF FileComes, Empty, NoFile
  <2>3. ASSUME NEW w \in Worker, WriteFile(w) \/ CloseFile(w) PROVE FileComes(d, p)'
    <3>1. PICK q, i, c :
            /\ q \in Path /\ i \in {1, 2}
            /\ file' = file \/ file' = [file EXCEPT ![q][i] = c]
      <4>1. active[w] \in WriteJobs
        BY <2>3, JobKinds DEF WriteFile, CloseFile
      <4>2. active[w].path \in Path
        BY <4>1 DEF WriteJobs
      <4>. QED
        BY <2>3, <4>2 DEF WriteFile, CloseFile, WriteBlock
    <3>2. file[p] \in (Version \cup {None}) \X (Version \cup {None})
      BY <1>0, <1>7 DEF TypeOK, FileState
    <3>3. PICK a, b : file[p] = <<a, b>>
      BY <3>2
    <3>4. file'[p] \in {<<a, b>>, <<c, b>>, <<a, c>>}
      <4>1. CASE file' = file \/ q # p
        BY <1>0, <3>1, <3>3, <4>1 DEF TypeOK
      <4>2. CASE file' = [file EXCEPT ![q][i] = c] /\ q = p
        <5>1. file'[p] = [file[p] EXCEPT ![i] = c]
          BY <1>0, <4>2 DEF TypeOK
        <5>2. file'[p] = [<<a, b>> EXCEPT ![i] = c]
          BY <3>3, <5>1
        <5>3. [<<a, b>> EXCEPT ![1] = c] = <<c, b>>
              /\ [<<a, b>> EXCEPT ![2] = c] = <<a, c>>
          OBVIOUS
        <5>. QED
          BY <5>2, <5>3
      <4>. QED
        BY <3>1, <4>1, <4>2
    <3>. QED
      BY <3>4 DEF FileComes, NoFile
  <2>4. CASE RemoveFile
    <3>1. CASE p = Head(ui.todo)
      BY <1>2, <1>3, <2>4, <3>1 DEF RemoveFile, FetchNext
    <3>2. CASE p # Head(ui.todo)
      <4>1. file'[p] = file[p]
        BY <1>0, <2>4, <3>2 DEF RemoveFile, UnlinkFile, TypeOK
      <4>. QED
        BY <1>7, <4>1 DEF FileComes
    <3>. QED
      BY <3>1, <3>2
  <2>5. ASSUME NEW w \in Worker,
               \/ TakeJob(w) \/ GetLibraryPage(w) \/ DispatchDocument(w)
               \/ GetDocument(w) \/ GetDocumentFails(w) \/ CallPushDocument(w)
               \/ FetchFileFails(w)
        PROVE  file' = file
    BY <2>5 DEF TakeJob, GetLibraryPage, DispatchDocument, GetDocument,
                GetDocumentFails, CallPushDocument, FetchFileFails
  <2>6. CASE \/ PushDocument \/ CheckFile \/ MergeDocument \/ MergeSucceeded
             \/ RefreshView \/ ServeRequest \/ UNCHANGED vars \/ RequestFails
             \/ ChangeListing \/ \E e \in Doc : EditDocument(e)
    BY <2>1, <2>6 DEF PushDocument, CheckFile, MergeDocument, MergeSucceeded,
         RefreshView, ServeRequest, vars, RequestFails, ChangeListing, EditDocument
  <2>. QED
    BY <1>0, <2>1, <2>2, <2>3, <2>4, <2>5, <2>6
       DEF Next, RunJob, HandleEvent, Environment, Wait, Untroubled
<1>. QED
  BY <1>1, <1>4, <1>5, <1>6, <1>7 DEF FileComes

\* A refresh puts every document on its way.
LEMMA ArriveStep ==
  TypeOK /\ PagesInv /\ ArriveInv /\ [Next]_vars => ArriveInv'
<1> SUFFICES ASSUME TypeOK, PagesInv, ArriveInv, [Next]_vars, Calm'
             PROVE  /\ Heard' /\ NoneLeft'
                    /\ refreshes' > 0 => \A d \in ToSet(Listing) : Comes(d)'
  BY DEF ArriveInv
<1> USE DEF service, plugin, clearing, database, bounds, fileHistory, history
<1>1. Heard /\ NoneLeft /\ (refreshes > 0 => \A d \in ToSet(Listing) : Comes(d))
  BY CalmStep DEF ArriveInv
<1>2. Heard' /\ NoneLeft'
  BY <1>1, HeardStep, NoneLeftStep
<1>3. CASE refreshes > 0
  <2>1. \A d \in ToSet(Listing) :
          RecordComes(d)' /\ \A p \in ToSet(FilesOf[d]) : FileComes(d, p)'
    BY <1>1, <1>3, RecordComesStep, FileComesStep DEF Comes
  <2>. QED
    BY <1>2, <2>1 DEF Comes
<1>4. CASE RefreshView
  <2>1. LibraryJob \in ToSet(queue')
    BY <1>4, AppendKeeps DEF RefreshView, TypeOK
  <2>2. LibraryJob.do = "library"
    BY DEF LibraryJob
  <2>3. \A d \in ToSet(Listing) : Before(d)'
    BY <2>1, <2>2 DEF Before, Leads
  <2>. QED
    BY <1>2, <2>3 DEF Comes, RecordComes, FileComes
<1>5. CASE ChangeListing
  <2>1. PICK w \in Worker : Paging(w)
    BY <1>5 DEF ChangeListing
  <2>2. active' = active
    BY <1>5, CalmStep
  <2>3. \A d \in ToSet(Listing) : Before(d)'
    BY <2>1, <2>2 DEF Before, Leads, Paging, Doing
  <2>. QED
    BY <1>2, <2>3 DEF Comes, RecordComes, FileComes
<1>6. CASE ~(refreshes > 0) /\ ~RefreshView /\ ~ChangeListing
  <2>1. refreshes' = refreshes
    <3>1. ASSUME NEW w \in Worker, RunJob(w) PROVE refreshes' = refreshes
      BY <3>1 DEF RunJob, TakeJob, GetLibraryPage, DispatchDocument, GetDocument,
           GetDocumentFails, CallPushDocument, FetchFile, FetchFileFails, WriteFile,
           CloseFile
    <3>2. CASE HandleEvent \/ ServeRequest \/ UNCHANGED vars
      BY <3>2 DEF HandleEvent, PushDocument, CheckFile, RemoveFile, MergeDocument,
           MergeSucceeded, ServeRequest, vars
    <3>3. CASE \E d \in Doc : EditDocument(d)
      BY <3>3 DEF EditDocument
    <3>4. Untroubled
      BY CalmStep
    <3>. QED
      BY <1>6, <3>1, <3>2, <3>3, <3>4 DEF Next, Environment, Wait, Untroubled
  <2>. QED
    BY <1>2, <1>6, <2>1
<1>. QED
  BY <1>3, <1>4, <1>5, <1>6

\* When everything has come to rest after a refresh, and nothing failed, no
\* document was removed and the database was not cleared, every document of the
\* library has a record and every file of it is on the disk: getLibrary,
\* getDocument, pushDocument, fetchFile and the callbacks of the database lose
\* nothing between them, even if downloads overlap and the listing grows.  That
\* is so as long as the pool keeps its contract: list.c and threadpool.c do only
\* while no more jobs wait than the list was made for, which a library larger
\* than that exceeds, and while no second unlock frees the mutex under another
\* thread.
THEOREM LibraryComes == Spec => []LibraryArrives
<1>1. TypeOK /\ ArriveInv => LibraryArrives
  <2> SUFFICES ASSUME TypeOK, ArriveInv, Quiet, refreshes > 0, Calm,
                      NEW d \in ToSet(Listing)
               PROVE  /\ records[d] # <<>>
                      /\ \A p \in ToSet(FilesOf[d]) : file[p] # NoFile
    BY DEF LibraryArrives, Calm
  <2>1. ToSet(<<>>) = {}
    BY DEF ToSet
  <2>2. \A w \in Worker : active[w] = None
    BY DEF Quiet, Running
  <2>3. ~Before(d) /\ ~Pushing(d)
    BY <2>1, <2>2 DEF Quiet, Before, Pushing
  <2>4. Comes(d)
    BY DEF ArriveInv
  <2>5. records[d] # <<>>
    BY <2>1, <2>3, <2>4 DEF Comes, RecordComes, Quiet
  <2>6. \A p : Queued(p) = {} /\ Busy(p, "file") = {}
    BY <2>1, <2>2 DEF Quiet, Queued, Busy, Doing
  <2>. QED
    BY <2>3, <2>4, <2>5, <2>6 DEF Comes, FileComes
<1>. QED
  BY <1>1, Types, PagesInit, PagesStep, ArriveInit, ArriveStep, PTL DEF Spec
=============================================================================
