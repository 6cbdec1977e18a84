---------------------------- MODULE LibrarySync ----------------------------
(***************************************************************************)
(* How the library gets from the web service into the database and onto    *)
(* the disk: getLibrary, getDocument and fetchFile (mendeley.c), which run *)
(* as jobs on the workers of the pool; checkFile, which the UI calls; and  *)
(* refreshView, pushDocument, dbMergeSuccess, cleardb and dbDelAllSuccess  *)
(* of the UI (main.js).                                                    *)
(*                                                                         *)
(* The pool is its contract: a dispatched job is run once, jobs are begun  *)
(* in the order of their dispatch and run at the same time.  threadpool.c  *)
(* and list.c keep it as long as no more jobs wait than the list was made  *)
(* for and no second unlock frees the mutex under another thread.  The UI  *)
(* is one thread: a handler runs to its end before the next one, while     *)
(* workers and the database go on.  External are the service, which        *)
(* answers each request with the state it has at that time, the database,  *)
(* which serves the merges and puts of the UI in order, and the callbacks  *)
(* of the plugin into the UI, which arrive in order.                       *)
(*                                                                         *)
(* deleteItem is left out: it reads myLibrary, which nothing fills any     *)
(* more, so it ends before it has called the plugin.                       *)
(*                                                                         *)
(* The content of a document, its files included, is its version.  A file  *)
(* on disk is written in two blocks, by fwrite and by fclose.  Its hash    *)
(* matches a version if both blocks are of that version.                   *)
(***************************************************************************)
EXTENDS Naturals, Sequences, FiniteSets, SequencesExt, FiniteSetsExt

CONSTANTS
  Listing,     \* the documents of the library, in the order of the service
  NewDoc,      \* documents that may be added to it
  PageSize,
  FilesOf,     \* FilesOf[d]: the local paths of the files of d
  Worker,
  None,
  MaxRefresh,  \* bound of the refreshes and of the changes of the listing
  MaxEdit, MaxTrouble   \* bounds of the other events

Doc == ToSet(Listing) \cup NewDoc
Path == UNION {ToSet(FilesOf[d]) : d \in Doc}
Version == 0 .. MaxEdit

ASSUME SyncAssumption ==
  /\ Listing \in Seq(Doc) /\ IsInjective(Listing)
  /\ ToSet(Listing) \cap NewDoc = {}
  /\ PageSize \in Nat \ {0}
  /\ \A d \in Doc : FilesOf[d] \in Seq(Path) /\ IsInjective(FilesOf[d])
  /\ \A d, e \in Doc : d # e => ToSet(FilesOf[d]) \cap ToSet(FilesOf[e]) = {}
  /\ {MaxRefresh, MaxEdit, MaxTrouble} \subseteq Nat
  /\ None \notin Version

VARIABLES
  listing,    \* of the service, as it is
  version,    \* of each document on the service
  queue,      \* jobs that were dispatched
  active,     \* per worker, the job it runs and how far it is
  file,       \* per path, NoFile or its two blocks
  calls,      \* calls of pushDocument on their way to the UI
  ui,         \* the run of pushDocument in progress, or None
  requests, replies,   \* between UI and database
  records,    \* per document, the versions of its records, the oldest first
  clear,      \* whether a clear of the database has found what there is
  doomed,     \* per document, how many of its records that clear found
  refreshes, edits, troubles,   \* counted for the bounds
  got,        \* history: the version that was last got of a document, or None
  twin,       \* history: documents of which two downloads overlapped
  want,       \* history: the version a path was last checked for
  trusted,    \* history: the paths whose fetches all went well
  gone        \* history: the documents that were removed

vars == <<listing, version, queue, active, file, calls, ui, requests, replies, records,
          clear, doomed, refreshes, edits, troubles, got, twin, want, trusted, gone>>
service == <<listing, version, gone>>
plugin == <<queue, active>>
clearing == <<clear, doomed>>
database == <<requests, replies, records, clearing>>
bounds == <<refreshes, edits, troubles>>
fileHistory == <<want, trusted>>
history == <<got, twin, fileHistory>>

\* No record is to be deleted.
Spared == [d \in Doc |-> 0]

NoFile == <<>>
Empty == <<None, None>>
Whole(v) == <<v, v>>

\* size is that of document_ids.  stayed is history: the documents that have
\* been there since the first page, unless one was removed, then none.
LibraryJob ==
  [do |-> "library", page |-> 0, ids |-> <<>>, size |-> 0, stayed |-> {}]
DocumentJob(d) == [do |-> "document", doc |-> d]
FileJob(p, v) == [do |-> "file", path |-> p, content |-> v]

Doing(w, what) == active[w] # None /\ active[w].do = what
\* A request that fails, an app that ends or a clear of the database, bounded.
Trouble == troubles < MaxTrouble /\ troubles' = troubles + 1

Become(w, job) == active' = [active EXCEPT ![w] = job]
Running == {active[w] : w \in {u \in Worker : active[u] # None}}

\* A download of d: from the dispatch of getDocument to the answer of the
\* database.
Downloading(d) ==
  \/ \E j \in ToSet(queue) \cup Running : j.do \in {"document", "push"} /\ j.doc = d
  \/ \E c \in ToSet(calls) \cup ToSet(replies) : c.doc = d
  \/ \E r \in ToSet(requests) : r.doc = d /\ r.op = "merge"
  \/ ui # None /\ ui.doc = d

FileJobs == {"file", "write", "close"}
Fetching(p) ==
  \E j \in ToSet(queue) \cup Running : j.do \in FileJobs /\ j.path = p

Init ==
  /\ listing = Listing /\ version = [d \in Doc |-> 0]
  /\ queue = <<>> /\ active = [w \in Worker |-> None]
  /\ file = [p \in Path |-> NoFile]
  /\ calls = <<>> /\ ui = None
  /\ requests = <<>> /\ replies = <<>> /\ records = [d \in Doc |-> <<>>]
  /\ clear = FALSE /\ doomed = Spared
  /\ refreshes = 0 /\ edits = 0 /\ troubles = 0
  /\ got = [d \in Doc |-> None] /\ twin = {}
  /\ want = [p \in Path |-> None] /\ trusted = {} /\ gone = {}

-----------------------------------------------------------------------------
(* The service and the user.                                               *)

EditDocument(d) ==
  /\ edits < MaxEdit
  /\ edits' = edits + 1
  /\ version' = [version EXCEPT ![d] = edits + 1]
  /\ UNCHANGED <<listing, plugin, database, fileHistory, file, calls, ui,
                 refreshes, troubles, got, twin, gone>>

Paging(w) == Doing(w, "library") /\ active[w].page > 0

\* A document is added at either end or removed between two pages.  What
\* changes before the first page makes another listing to begin with.
ChangeListing ==
  /\ refreshes < MaxRefresh /\ \E w \in Worker : Paging(w)
  /\ refreshes' = refreshes + 1
  /\ \/ /\ \E d \in NewDoc \ ToSet(listing) :
             listing' \in {<<d>> \o listing, Append(listing, d)}
        /\ UNCHANGED <<active, gone>>
     \/ /\ \E i \in DOMAIN listing :
             listing' = RemoveAt(listing, i) /\ gone' = gone \cup {listing[i]}
        /\ active' = [w \in Worker |-> IF Paging(w)
                       THEN [active[w] EXCEPT !.stayed = {}] ELSE active[w]]
  /\ UNCHANGED <<version, queue, file, calls, ui, database, edits, troubles,
                 history>>

\* refreshView and plugin_getLibrary.
RefreshView ==
  /\ ui = None /\ refreshes < MaxRefresh
  /\ refreshes' = refreshes + 1
  /\ queue' = Append(queue, LibraryJob)
  /\ UNCHANGED <<service, active, file, calls, ui, database, edits, troubles,
                 history>>

\* What ends with the plugin: its jobs, its calls, and the call of it that the
\* UI waits for.
PluginEnds ==
  /\ queue' = <<>> /\ active' = [w \in Worker |-> None]
  /\ calls' = <<>> /\ ui' = None
  /\ got' = [d \in Doc |-> None]
  /\ trusted' = {}

\* The app and its plugin end, at any time, and are started again.  What the
\* UI asked of the database is still done, but nobody hears the answer.
Restart ==
  /\ Trouble
  /\ PluginEnds
  /\ replies' = <<>>
  /\ requests' = [i \in DOMAIN requests |-> [requests[i] EXCEPT !.heard = FALSE]]
  /\ clear' = FALSE /\ doomed' = IF clear THEN Spared ELSE doomed
  /\ UNCHANGED <<service, file, records, refreshes, edits, twin, want>>

\* fopen of fetchFile fails, and fwrite to no file ends the plugin.  The UI
\* still hears the database.
OpenFails(w) ==
  /\ Doing(w, "file") /\ Trouble
  /\ PluginEnds
  /\ UNCHANGED <<service, file, database, refreshes, edits, twin, want>>

-----------------------------------------------------------------------------
(* Jobs.                                                                   *)

TakeJob(w) ==
  /\ active[w] = None /\ queue # <<>>
  /\ Become(w, Head(queue))
  /\ queue' = Tail(queue)
  /\ UNCHANGED <<service, file, calls, ui, database, bounds, history>>

TotalPages == (Len(listing) + PageSize - 1) \div PageSize
PageIds(page) == SubSeq(listing, page * PageSize + 1,
                        Min({(page + 1) * PageSize, Len(listing)}))

\* Slip: one page too few.
LastPageEarly(page) == page + 1 >= TotalPages - 1
\* The end of the loop of getLibrary.
LastPage(page) == page >= TotalPages - 1

\* Slip: it has room for the ids of the first page.
FirstPage(job) == IF job.page = 0 THEN Len(PageIds(0)) ELSE job.size
\* document_ids is made with total_results of the first page.
ArraySize(job) == IF job.page = 0 THEN Len(listing) ELSE job.size

\* getLibraryPage and the rest of an iteration of that loop.  If the ids get
\* more than document_ids has room for, nothing is known of the program any
\* more; here it goes on as if there were room.
GetLibraryPage(w) ==
  /\ Doing(w, "library")
  /\ LET job == active[w]
         ids == job.ids \o PageIds(job.page)
     IN Become(w, IF LastPage(job.page) THEN [do |-> "dispatch", ids |-> ids]
                  ELSE [job EXCEPT !.page = @ + 1, !.ids = ids,
                                   !.size = ArraySize(job),
                                   !.stayed = IF job.page = 0 THEN ToSet(listing)
                                              ELSE @])
  /\ UNCHANGED <<service, queue, file, calls, ui, database, bounds, history>>

\* The last loop of getLibrary: from the last document to the first.
DispatchDocument(w) ==
  /\ Doing(w, "dispatch")
  /\ LET ids == active[w].ids
     IN IF ids = <<>> THEN Become(w, None) /\ UNCHANGED <<queue, twin>>
        ELSE /\ queue' = Append(queue, DocumentJob(Last(ids)))
             /\ Become(w, [active[w] EXCEPT !.ids = Front(ids)])
             /\ twin' = IF Downloading(Last(ids)) THEN twin \cup {Last(ids)}
                        ELSE twin
  /\ UNCHANGED <<service, file, calls, ui, database, bounds, got, fileHistory>>

\* getDocument: the request, then the call of the UI.
GetDocument(w) ==
  /\ Doing(w, "document") /\ active[w].doc \in ToSet(listing)
  /\ LET d == active[w].doc
     IN /\ Become(w, [do |-> "push", doc |-> d, version |-> version[d]])
        /\ got' = [got EXCEPT ![d] = version[d]]
  /\ UNCHANGED <<service, queue, file, calls, ui, database, bounds, twin,
                 fileHistory>>

\* Without an answer the UI gets no document: pushDocument cannot parse it.
\* Nor does it for a document that was removed, but an error that it merges
\* with the record of no document, which is left out here.
GetDocumentFails(w) ==
  /\ Doing(w, "document")
  /\ IF active[w].doc \in ToSet(listing) THEN Trouble ELSE UNCHANGED troubles
  /\ Become(w, None)
  /\ UNCHANGED <<service, queue, file, calls, ui, database, refreshes, edits,
                 history>>

CallPushDocument(w) ==
  /\ Doing(w, "push")
  /\ calls' = Append(calls, [doc |-> active[w].doc, version |-> active[w].version])
  /\ Become(w, None)
  /\ UNCHANGED <<service, queue, file, ui, database, bounds, history>>

\* fetchFile up to fopen, which empties the file or makes one.  The status of
\* the answer is not looked at, so an error page is as good as the file.
FetchFile(w) ==
  /\ Doing(w, "file")
  /\ \E content \in {active[w].content, None} :
       /\ Become(w, [do |-> "write", path |-> active[w].path,
                     content |-> content, linked |-> TRUE])
       /\ IF content = None THEN Trouble /\ trusted' = trusted \ {active[w].path}
          ELSE UNCHANGED <<troubles, trusted>>
  /\ file' = [file EXCEPT ![active[w].path] = Empty]
  /\ UNCHANGED <<service, queue, calls, ui, database, refreshes, edits, got,
                 twin, want>>

\* fetchFile without an answer.
FetchFileFails(w) ==
  /\ Doing(w, "file") /\ Trouble
  /\ trusted' = trusted \ {active[w].path}
  /\ Become(w, None)
  /\ UNCHANGED <<service, queue, file, calls, ui, database, refreshes, edits,
                 got, twin, want>>

\* Slip: the file was opened to append.
AppendBlock(job, i) ==
  file' = IF job.linked THEN [file EXCEPT ![job.path] = Append(@, job.content)]
          ELSE file
\* A file that was unlinked meanwhile is written to no avail.
WriteBlock(job, i) ==
  file' = IF job.linked THEN [file EXCEPT ![job.path][i] = job.content] ELSE file

WriteFile(w) ==
  /\ Doing(w, "write")
  /\ WriteBlock(active[w], 1)
  /\ Become(w, [active[w] EXCEPT !.do = "close"])
  /\ UNCHANGED <<service, queue, calls, ui, database, bounds, history>>

CloseFile(w) ==
  /\ Doing(w, "close")
  /\ WriteBlock(active[w], 2)
  /\ Become(w, None)
  /\ UNCHANGED <<service, queue, calls, ui, database, bounds, history>>

-----------------------------------------------------------------------------
(* The UI.                                                                 *)

PushDocument ==
  /\ ui = None /\ calls # <<>>
  /\ ui' = [doc |-> Head(calls).doc, version |-> Head(calls).version,
            todo |-> FilesOf[Head(calls).doc], stale |-> FALSE]
  /\ calls' = Tail(calls)
  /\ UNCHANGED <<service, plugin, file, database, bounds, history>>

\* plugin_fetchFile, called by pushDocument for its next file.
FetchNext ==
  /\ queue' = Append(queue, FileJob(Head(ui.todo), ui.version))
  /\ ui' = [ui EXCEPT !.todo = Tail(@), !.stale = FALSE]

\* plugin_checkFile up to the comparison of the hashes, and fetchFile if
\* there is no file.
CheckFile ==
  /\ ui # None /\ ui.todo # <<>> /\ ~ui.stale
  /\ LET p == Head(ui.todo)
     IN /\ \/ file[p] = NoFile /\ FetchNext
           \/ /\ file[p] = Whole(ui.version)
              /\ ui' = [ui EXCEPT !.todo = Tail(@)]
              /\ UNCHANGED queue
           \/ /\ file[p] \notin {NoFile, Whole(ui.version)}
              /\ ui' = [ui EXCEPT !.stale = TRUE]
              /\ UNCHANGED queue
        /\ want' = [want EXCEPT ![p] = ui.version]
        /\ trusted' = IF ~Fetching(p) THEN trusted \cup {p}
                      ELSE IF want[p] = ui.version THEN trusted
                      ELSE trusted \ {p}
  /\ UNCHANGED <<service, active, file, calls, database, bounds, got, twin>>

\* unlink: who has the file open goes on writing to it.
UnlinkFile(p) ==
  /\ file' = [file EXCEPT ![p] = NoFile]
  /\ active' = [w \in Worker |->
       IF (Doing(w, "write") \/ Doing(w, "close")) /\ active[w].path = p
       THEN [active[w] EXCEPT !.linked = FALSE] ELSE active[w]]

\* Slip: a file with the wrong hash is removed and not fetched again.
RemoveFileOnly ==
  /\ ui # None /\ ui.stale
  /\ UnlinkFile(Head(ui.todo))
  /\ ui' = [ui EXCEPT !.todo = Tail(@), !.stale = FALSE]
  /\ UNCHANGED <<service, queue, calls, database, bounds, history>>

\* The rest of plugin_checkFile, and fetchFile.
RemoveFile ==
  /\ ui # None /\ ui.stale
  /\ UnlinkFile(Head(ui.todo))
  /\ FetchNext
  /\ UNCHANGED <<service, calls, database, bounds, history>>

\* The end of pushDocument: the merge of the document by its id.
MergeDocument ==
  /\ ui # None /\ ui.todo = <<>>
  /\ requests' = Append(requests, [op |-> "merge", doc |-> ui.doc,
                                   version |-> ui.version, heard |-> TRUE])
  /\ ui' = None
  /\ UNCHANGED <<service, plugin, file, calls, replies, records, clearing, bounds,
                 history>>

\* Slips: the count is not looked at.
AlwaysPut(reply) == TRUE
NeverPut(reply) == FALSE
\* There was no record to merge the document with.
NotFound(reply) == reply.count = 0

\* dbMergeSuccess after a merge by query.  What it does otherwise, and what
\* it does after a put, refreshes the display.
MergeSucceeded ==
  /\ ui = None /\ replies # <<>>
  /\ LET reply == Head(replies)
     IN requests' = IF NotFound(reply)
                    THEN Append(requests, [op |-> "put", doc |-> reply.doc,
                                  version |-> reply.version, heard |-> TRUE])
                    ELSE requests
  /\ replies' = Tail(replies)
  /\ UNCHANGED <<service, plugin, file, calls, ui, records, clearing, bounds,
                 history>>

-----------------------------------------------------------------------------
(* The database: a merge by query writes to the records it finds, a merge  *)
(* of an object that is not in the database makes a record.                *)

ServeRequest ==
  /\ requests # <<>>
  /\ LET r == Head(requests)
         found == records[r.doc]
     IN IF r.op = "merge"
        THEN /\ records' = [records EXCEPT ![r.doc] =
                                           [i \in DOMAIN found |-> r.version]]
             /\ replies' = IF r.heard
                           THEN Append(replies, [doc |-> r.doc,
                                  version |-> r.version, count |-> Len(found)])
                           ELSE replies
        ELSE /\ records' = [records EXCEPT ![r.doc] = Append(found, r.version)]
             /\ UNCHANGED replies
  /\ requests' = Tail(requests)
  /\ UNCHANGED <<service, plugin, file, calls, ui, clearing, bounds, history>>

\* A request fails, and dbMergeFailure does nothing about it.
RequestFails ==
  /\ requests # <<>> /\ Trouble
  /\ requests' = Tail(requests)
  /\ got' = [got EXCEPT ![Head(requests).doc] = None]
  /\ UNCHANGED <<service, plugin, file, calls, ui, replies, records, clearing,
                 refreshes, edits, twin, fileHistory>>

\* cleardb, and the find that it asks for, which may come later: until then
\* nothing tells that it was asked.  One clear at a time.  A find or a
\* deletion that fails changes nothing, as one that never was.
ClearDatabase ==
  /\ ~clear /\ doomed = Spared /\ Trouble
  /\ clear' = TRUE
  /\ doomed' = [d \in Doc |-> Len(records[d])]
  /\ UNCHANGED <<service, plugin, file, calls, ui, requests, replies, records,
                 refreshes, edits, history>>

\* dbDelAllSuccess asks for the deletion of each record that was found.
DeleteAll ==
  /\ ui = None /\ clear
  /\ clear' = FALSE
  /\ UNCHANGED <<service, plugin, file, calls, ui, requests, replies, records,
                 doomed, bounds, history>>

\* The database deletes a record of those that were found, whatever else was
\* asked of it before or since.
DeleteRecord(d) ==
  /\ ~clear /\ doomed[d] > 0
  /\ doomed' = [doomed EXCEPT ![d] = @ - 1]
  /\ records' = [records EXCEPT ![d] = Tail(@)]
  /\ got' = [got EXCEPT ![d] = None]
  /\ UNCHANGED <<service, plugin, file, calls, ui, requests, replies, clear, bounds,
                 twin, fileHistory>>

-----------------------------------------------------------------------------
RunJob(w) ==
  \/ TakeJob(w) \/ GetLibraryPage(w) \/ DispatchDocument(w)
  \/ GetDocument(w) \/ GetDocumentFails(w) \/ CallPushDocument(w)
  \/ FetchFile(w) \/ FetchFileFails(w) \/ WriteFile(w) \/ CloseFile(w)
HandleEvent ==
  \/ PushDocument \/ CheckFile \/ RemoveFile \/ MergeDocument \/ MergeSucceeded
Clearing == ClearDatabase \/ DeleteAll \/ \E d \in Doc : DeleteRecord(d)
Environment ==
  \/ Restart \/ RequestFails \/ ChangeListing
  \/ \E d \in Doc : EditDocument(d)
  \/ \E w \in Worker : OpenFails(w)

Quiet ==
  /\ queue = <<>> /\ Running = {} /\ calls = <<>> /\ ui = None
  /\ requests = <<>> /\ replies = <<>> /\ ~clear /\ doomed = Spared

\* Nothing goes on, and the app waits for the user.
Wait == Quiet /\ UNCHANGED vars

Next ==
  \/ \E w \in Worker : RunJob(w)
  \/ HandleEvent
  \/ RefreshView
  \/ ServeRequest
  \/ Clearing
  \/ Environment
  \/ Wait

Spec == Init /\ [][Next]_vars

-----------------------------------------------------------------------------
\* What is queued, what a worker is at, and what is on its way between the
\* plugin, the UI and the database.
LibraryJobs ==
  [do : {"library"}, page : Nat, ids : Seq(Doc), size : Nat, stayed : SUBSET Doc]
DispatchJobs == [do : {"dispatch"}, ids : Seq(Doc)]
DocumentJobs == [do : {"document"}, doc : Doc]
PushJobs == [do : {"push"}, doc : Doc, version : Version]
FetchJobs == [do : {"file"}, path : Path, content : Version]
WriteJobs == [do : {"write", "close"}, path : Path,
              content : Version \cup {None}, linked : BOOLEAN]
QueuedJob == {LibraryJob} \cup DocumentJobs \cup FetchJobs
RunningJob == LibraryJobs \cup DispatchJobs \cup DocumentJobs \cup PushJobs
                \cup FetchJobs \cup WriteJobs
Call == [doc : Doc, version : Version]
Push == [doc : Doc, version : Version, todo : Seq(Path), stale : BOOLEAN]
Request ==
  [op : {"merge", "put"}, doc : Doc, version : Version, heard : BOOLEAN]
Reply == [doc : Doc, version : Version, count : Nat]
ASSUME NoneAssumption == None \notin RunningJob /\ None \notin Push
FileState == {NoFile} \cup (Version \cup {None}) \X (Version \cup {None})

\* What a clear found is there until it is deleted, and the clear was counted.
ClearOK ==
  /\ clear \in BOOLEAN /\ doomed \in [Doc -> Nat]
  /\ \A d \in Doc : doomed[d] <= Len(records[d])
  /\ (clear \/ doomed # Spared) => troubles > 0

\* Types.  A worker never writes to a file that is not there under its name,
\* and a file has a wrong hash only while it is the next one to be checked.
TypeOK ==
  /\ listing \in Seq(Doc) /\ IsInjective(listing)
  /\ version \in [Doc -> Version]
  /\ queue \in Seq(QueuedJob) /\ active \in [Worker -> RunningJob \cup {None}]
  /\ file \in [Path -> FileState]
  /\ calls \in Seq(Call) /\ ui \in Push \cup {None}
  /\ requests \in Seq(Request) /\ replies \in Seq(Reply)
  /\ records \in [Doc -> Seq(Version)]
  /\ ClearOK
  /\ refreshes \in 0 .. MaxRefresh /\ edits \in 0 .. MaxEdit
  /\ troubles \in 0 .. MaxTrouble
  /\ got \in [Doc -> Version \cup {None}] /\ twin \subseteq Doc
  /\ want \in [Path -> Version \cup {None}] /\ trusted \subseteq Path
  /\ gone \subseteq Doc
  /\ \A w \in Worker :
       (Doing(w, "write") \/ Doing(w, "close")) /\ active[w].linked
         => file[active[w].path] # NoFile
  /\ ui # None /\ ui.stale => ui.todo # <<>>

\* When the loop of getLibrary ends it has each document of the listing once
\* and in order, if the listing did not change; and if documents were only
\* added, which may move others to the next page, it has all those that were
\* there.
ListedAll ==
  [][\A w \in Worker : Doing(w, "library") /\ Doing(w, "dispatch")' =>
       LET stayed == IF active[w].page = 0 THEN ToSet(listing) ELSE active[w].stayed
           ids == active'[w].ids
       IN /\ stayed \subseteq ToSet(ids)
          /\ stayed # {} /\ stayed = ToSet(listing) => ids = listing]_vars

\* document_ids, which is made on the first page, has room for the ids of all
\* pages, unless the listing has become longer meanwhile: the page that is the
\* first to overrun it is one of a longer listing.
NotLonger(job) ==
  Len(listing) <= job.size \/ Len(listing) <= Cardinality(job.stayed)
IdsFit ==
  [][\A w \in Worker :
       /\ Doing(w, "library") /\ (Doing(w, "library") \/ Doing(w, "dispatch"))'
       /\ active[w].page = 0 \/ NotLonger(active[w])
       /\ Len(active[w].ids) <= ArraySize(active[w])
       => Len(active'[w].ids) <= ArraySize(active[w])]_vars

\* The check-then-put of pushDocument and dbMergeSuccess gives a document at
\* most one record, unless two downloads of it overlapped.
NoDuplicates == \A d \in Doc \ twin : Len(records[d]) <= 1

\* When everything has come to rest, the record of a document holds what the
\* service last answered for it, unless two downloads overlapped or the record
\* was deleted since.
RecordCurrent ==
  Quiet => \A d \in Doc \ twin : got[d] # None => records[d] = <<got[d]>>

\* A file that checkFile was asked about, while no fetch for another version
\* was under way and of which no fetch failed, is whole and of that version
\* once no fetch is under way: a second checkFile may unlink the file that a
\* worker writes, but then the file is fetched again.
FilesWhole ==
  \A p \in trusted :
    ~Fetching(p) /\ ~(ui # None /\ ui.stale /\ Head(ui.todo) = p)
      => file[p] = Whole(want[p])

\* When everything has come to rest after a refresh, there is a record of
\* every document and every file is on the disk, even if two downloads
\* overlapped and documents were added, unless one was removed, a request
\* failed, the app was restarted or the database cleared.  (Every step but
\* Wait works something off, so with the absence of deadlock it does come to
\* rest.)
LibraryArrives ==
  Quiet /\ refreshes > 0 /\ troubles = 0 /\ gone = {} =>
    \A d \in ToSet(Listing) :
      records[d] # <<>> /\ \A p \in ToSet(FilesOf[d]) : file[p] # NoFile
=============================================================================
