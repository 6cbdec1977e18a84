------------------------- MODULE LibrarySyncProofs -------------------------
(***************************************************************************)
(* Proofs about the download of the library, for any library, any number   *)
(* of workers and any bound on what happens to it.                         *)
(***************************************************************************)
EXTENDS LibrarySync, SequenceTheorems, TLAPS

-----------------------------------------------------------------------------
(* Types.                                                                  *)

\* What a worker that does something has in hand.
LEMMA JobKinds ==
  ASSUME TypeOK, NEW w \in Worker
  PROVE  /\ Doing(w, "library") => active[w] \in LibraryJobs
         /\ Doing(w, "dispatch") => active[w] \in DispatchJobs
         /\ Doing(w, "document") => active[w] \in DocumentJobs
         /\ Doing(w, "push") => active[w] \in PushJobs
         /\ Doing(w, "file") => active[w] \in FetchJobs
         /\ Doing(w, "write") \/ Doing(w, "close") => active[w] \in WriteJobs
<1>1. active[w] # None => active[w] \in RunningJob
  BY DEF TypeOK
<1>. QED
  BY <1>1 DEF Doing, RunningJob, LibraryJobs, DispatchJobs, DocumentJobs,
             PushJobs, FetchJobs, WriteJobs

\* A page holds documents of the listing.
LEMMA PageType ==
  ASSUME listing \in Seq(Doc), NEW page \in Nat
  PROVE  PageIds(page) \in Seq(Doc) /\ Len(listing) \in Nat
<1> DEFINE first == page * PageSize + 1
           end == (page + 1) * PageSize
           last == Min({end, Len(listing)})
<1>1. first \in Nat /\ first >= 1 /\ end \in Nat /\ Len(listing) \in Nat
  <2>1. PageSize \in Nat
    BY SyncAssumption
  <2>2. page * PageSize \in Nat /\ (page + 1) * PageSize \in Nat
    BY <2>1
  <2>. QED
    BY <2>2, LenProperties
<1>2. last \in Nat /\ last <= Len(listing)
  <2> HIDE DEF first, end
  <2>1. \E x \in {end, Len(listing)} : \A y \in {end, Len(listing)} : x =< y
    BY <1>1
  <2>2. /\ last \in {end, Len(listing)}
        /\ \A y \in {end, Len(listing)} : last =< y
    BY <2>1 DEF Min
  <2>. QED
    BY <1>1, <2>2
<1>3. PageIds(page) = SubSeq(listing, first, last)
  BY DEF PageIds
<1> HIDE DEF first, end, last
<1>4. \A i \in first .. last : listing[i] \in Doc
  BY <1>1, <1>2, ElementOfSeq
<1>5. SubSeq(listing, first, last) \in Seq(Doc)
  BY <1>1, <1>2, <1>4, SubSeqProperties
<1>. QED
  BY <1>1, <1>3, <1>5

\* Adding or taking away a document leaves each one listed once.
LEMMA ListingType ==
  ASSUME listing \in Seq(Doc), IsInjective(listing)
  PROVE  /\ \A d \in Doc \ ToSet(listing) :
              /\ <<d>> \o listing \in Seq(Doc) /\ IsInjective(<<d>> \o listing)
              /\ Append(listing, d) \in Seq(Doc)
              /\ IsInjective(Append(listing, d))
         /\ \A i \in DOMAIN listing :
              /\ RemoveAt(listing, i) \in Seq(Doc)
              /\ IsInjective(RemoveAt(listing, i))
<1>1. DOMAIN listing = 1 .. Len(listing) /\ Len(listing) \in Nat
  BY LenProperties
<1>0. \A a, b \in 1 .. Len(listing) : listing[a] = listing[b] => a = b
  BY <1>1 DEF IsInjective
<1>2. ASSUME NEW d \in Doc \ ToSet(listing)
      PROVE  /\ <<d>> \o listing \in Seq(Doc) /\ IsInjective(<<d>> \o listing)
             /\ Append(listing, d) \in Seq(Doc) /\ IsInjective(Append(listing, d))
  <2>1. \A i \in 1 .. Len(listing) : listing[i] # d
    BY <1>1 DEF ToSet
  <2>2. <<d>> \in Seq(Doc) /\ Len(<<d>>) = 1 /\ <<d>>[1] = d
    OBVIOUS
  <2> DEFINE s == <<d>> \o listing
             t == Append(listing, d)
  <2>3. /\ s \in Seq(Doc) /\ Len(s) = 1 + Len(listing)
        /\ \A i \in 1 .. 1 + Len(listing) :
             s[i] = IF i <= 1 THEN <<d>>[i] ELSE listing[i - 1]
    BY <2>2, ConcatProperties
  <2>4. /\ t \in Seq(Doc) /\ Len(t) = Len(listing) + 1
        /\ \A i \in 1 .. Len(listing) : t[i] = listing[i]
        /\ t[Len(listing) + 1] = d
    BY AppendProperties
  <2>5. DOMAIN s = 1 .. Len(listing) + 1 /\ DOMAIN t = 1 .. Len(listing) + 1
    BY <2>3, <2>4, <1>1, LenProperties
  <2> HIDE DEF s, t
  <2>6. IsInjective(s)
    <3>1. s[1] = d /\ \A i \in 2 .. Len(listing) + 1 : s[i] = listing[i - 1]
      BY <1>1, <2>2, <2>3
    <3>2. ASSUME NEW a \in DOMAIN s, NEW b \in DOMAIN s, s[a] = s[b]
          PROVE  a = b
      <4>1. CASE a = 1 \/ b = 1
        BY <1>1, <2>1, <2>5, <3>1, <3>2, <4>1
      <4>2. CASE a # 1 /\ b # 1
        <5>1. a - 1 \in 1 .. Len(listing) /\ b - 1 \in 1 .. Len(listing)
          BY <1>1, <2>5, <4>2
        <5>2. listing[a - 1] = listing[b - 1]
          BY <1>1, <2>5, <3>1, <3>2, <4>2
        <5>3. a - 1 = b - 1
          BY <1>0, <5>1, <5>2
        <5>. QED
          BY <1>1, <2>5, <5>3
      <4>. QED
        BY <4>1, <4>2
    <3>. QED
      BY <3>2 DEF IsInjective
  <2>7. IsInjective(t)
    BY <1>0, <1>1, <2>1, <2>4, <2>5 DEF IsInjective
  <2>. QED
    BY <2>3, <2>4, <2>6, <2>7 DEF s, t
<1>3. ASSUME NEW i \in DOMAIN listing
      PROVE  /\ RemoveAt(listing, i) \in Seq(Doc)
             /\ IsInjective(RemoveAt(listing, i))
  <2> DEFINE n == Len(listing)
             s == SubSeq(listing, 1, i - 1)
             t == SubSeq(listing, i + 1, n)
  <2>1. \A k \in 1 .. n : listing[k] \in Doc
    BY ElementOfSeq
  <2>2. /\ s \in Seq(Doc) /\ Len(s) = i - 1
        /\ \A k \in 1 .. i - 1 : s[k] = listing[k]
    BY <1>1, <2>1, SubSeqProperties
  <2>3. /\ t \in Seq(Doc) /\ Len(t) = n - i
        /\ \A k \in 1 .. n - i : t[k] = listing[i + k]
    BY <1>1, <2>1, SubSeqProperties
  <2>4. RemoveAt(listing, i) = s \o t
    BY DEF RemoveAt
  <2> HIDE DEF s, t
  <2>5. /\ s \o t \in Seq(Doc) /\ Len(s \o t) = n - 1
        /\ \A k \in 1 .. n - 1 :
             (s \o t)[k] = IF k <= i - 1 THEN listing[k] ELSE listing[k + 1]
    <3>1. /\ s \o t \in Seq(Doc) /\ Len(s \o t) = Len(s) + Len(t)
          /\ \A k \in 1 .. Len(s) + Len(t) :
               (s \o t)[k] = IF k <= Len(s) THEN s[k] ELSE t[k - Len(s)]
      BY <2>2, <2>3, ConcatProperties
    <3>2. i \in 1 .. n /\ n \in Nat /\ Len(s) + Len(t) = n - 1
      BY <1>1, <2>2, <2>3
    <3>3. ASSUME NEW k \in 1 .. n - 1
          PROVE  (s \o t)[k] = IF k <= i - 1 THEN listing[k] ELSE listing[k + 1]
      <4>1. CASE k <= i - 1
        BY <2>2, <3>1, <3>2, <4>1
      <4>2. CASE ~(k <= i - 1)
        <5>1. k - (i - 1) \in 1 .. n - i /\ i + (k - (i - 1)) = k + 1
          BY <3>2, <4>2
        <5>2. (s \o t)[k] = t[k - (i - 1)]
          BY <2>2, <3>1, <3>2, <4>2
        <5>. QED
          BY <2>3, <4>2, <5>1, <5>2
      <4>. QED
        BY <4>1, <4>2
    <3>. QED
      BY <3>1, <3>2, <3>3
  <2>6. DOMAIN (s \o t) = 1 .. n - 1
    BY <2>5, LenProperties
  <2>7. IsInjective(s \o t)
    <3>1. ASSUME NEW a \in 1 .. n - 1, NEW b \in 1 .. n - 1,
                 (s \o t)[a] = (s \o t)[b]
          PROVE  a = b
      <4> DEFINE up(k) == IF k <= i - 1 THEN k ELSE k + 1
      <4>1. /\ up(a) \in 1 .. n /\ up(b) \in 1 .. n
            /\ (s \o t)[a] = listing[up(a)] /\ (s \o t)[b] = listing[up(b)]
        BY <1>1, <2>5
      <4>2. up(a) = up(b)
        BY <1>0, <3>1, <4>1
      <4>. QED
        BY <1>1, <4>2
    <3>. QED
      BY <2>6, <3>1 DEF IsInjective
  <2>. QED
    BY <2>4, <2>5, <2>7
<1>. QED
  BY <1>2, <1>3

LEMMA ClearInit ==
  Init => ClearOK
<1> SUFFICES ASSUME Init PROVE ClearOK
  OBVIOUS
<1>1. clear = FALSE /\ doomed = Spared
  BY DEF Init
<1>2. Spared \in [Doc -> Nat] /\ \A d \in Doc : Spared[d] = 0
  BY DEF Spared
<1>3. ASSUME NEW d \in Doc PROVE Len(records[d]) = 0
  <2>1. records[d] = <<>>
    BY DEF Init
  <2>. QED
    BY <2>1, EmptySeq
<1>4. ASSUME NEW d \in Doc PROVE doomed[d] <= Len(records[d])
  <2>1. doomed[d] = 0 /\ Len(records[d]) = 0
    BY <1>1, <1>2, <1>3
  <2>. QED
    BY ONLY <2>1
<1>5. doomed \in [Doc -> Nat] /\ clear \in BOOLEAN
  BY <1>1, <1>2
<1>. QED
  BY ONLY <1>1, <1>4, <1>5 DEF ClearOK

\* Steps that neither clear nor touch a record.
LEMMA ClearSame ==
  ASSUME TypeOK, UNCHANGED <<clearing, records>>, UNCHANGED troubles \/ Trouble
  PROVE  ClearOK'
<1>1. troubles \in Nat
  BY SyncAssumption DEF TypeOK
<1>2. troubles' \in Nat /\ troubles' >= troubles
  BY <1>1 DEF Trouble
<1>. QED
  BY <1>1, <1>2 DEF TypeOK, ClearOK, clearing

LEMMA TypeInit == Init => TypeOK
<1> SUFFICES ASSUME Init PROVE TypeOK
  OBVIOUS
<1>1. 0 \in Version /\ {MaxRefresh, MaxEdit, MaxTrouble} \subseteq Nat
  BY SyncAssumption DEF Version
<1>2. Listing \in Seq(Doc) /\ IsInjective(Listing)
  BY SyncAssumption
<1>3. \A S : <<>> \in Seq(S)
  BY EmptySeq
<1>. QED
  BY <1>1, <1>2, <1>3, ClearInit DEF Init, TypeOK, FileState, Doing

LEMMA NextPageType ==
  ASSUME NEW job \in LibraryJobs, NEW page \in Nat, NEW ids \in Seq(Doc),
         NEW size \in Nat, NEW stayed \in SUBSET Doc
  PROVE  [job EXCEPT !.page = page, !.ids = ids, !.size = size,
                     !.stayed = stayed] \in LibraryJobs
  BY DEF LibraryJobs

LEMMA TakenJobRuns == QueuedJob \subseteq RunningJob
<1>1. LibraryJob \in LibraryJobs
  BY EmptySeq DEF LibraryJob, LibraryJobs
<1>. QED
  BY <1>1 DEF QueuedJob, RunningJob

\* A record that is to be deleted is there.
LEMMA DoomedIsThere ==
  ASSUME TypeOK, NEW d \in Doc, DeleteRecord(d)
  PROVE  /\ doomed[d] \in Nat \ {0} /\ doomed[d] <= Len(records[d])
         /\ records[d] \in Seq(Version) /\ records[d] # <<>>
         /\ Tail(records[d]) \in Seq(Version)
         /\ Len(Tail(records[d])) = Len(records[d]) - 1
         /\ troubles > 0
<1>1. /\ records[d] \in Seq(Version) /\ doomed[d] \in Nat \ {0}
      /\ doomed[d] <= Len(records[d])
  BY DEF DeleteRecord, TypeOK, ClearOK
<1>2. Len(records[d]) \in Nat
  BY <1>1, LenProperties
<1>3. Len(records[d]) # 0
  BY <1>1, <1>2
<1>4. records[d] # <<>>
  BY <1>3, EmptySeq
<1>5. doomed # Spared
  BY <1>1 DEF Spared
<1>. QED
  BY <1>1, <1>4, <1>5, HeadTailProperties DEF TypeOK, ClearOK

\* What the database does keeps what a clear found.
LEMMA ClearServed ==
  ASSUME TypeOK, ServeRequest
  PROVE  ClearOK'
<1> DEFINE r == Head(requests)
           found == records[r.doc]
<1>1. r \in Request
  BY HeadTailProperties DEF ServeRequest, TypeOK
<1>2. r.doc \in Doc /\ found \in Seq(Version) /\ r.version \in Version
  BY <1>1 DEF Request, TypeOK
<1>3. Len(found) \in Nat /\ DOMAIN found = 1 .. Len(found)
  BY <1>2, LenProperties
<1>4. \/ records' = [records EXCEPT ![r.doc] = [i \in DOMAIN found |-> r.version]]
      \/ records' = [records EXCEPT ![r.doc] = Append(found, r.version)]
  BY DEF ServeRequest
<1>5. UNCHANGED <<clearing, troubles>>
  BY DEF ServeRequest, bounds
<1>6. /\ Len([i \in DOMAIN found |-> r.version]) = Len(found)
      /\ Len(Append(found, r.version)) = Len(found) + 1
  <2>1. Len([i \in 1 .. Len(found) |-> r.version]) = Len(found)
    BY <1>3
  <2>2. [i \in DOMAIN found |-> r.version] = [i \in 1 .. Len(found) |-> r.version]
    BY <1>3
  <2>3. Len(Append(found, r.version)) = Len(found) + 1
    BY <1>2, AppendProperties
  <2>. QED
    BY <2>1, <2>2, <2>3
<1> DEFINE merged == [i \in DOMAIN found |-> r.version]
           longer == Append(found, r.version)
<1>7. PICK s : /\ records' = [records EXCEPT ![r.doc] = s]
               /\ Len(s) = Len(found) \/ Len(s) = Len(found) + 1
  BY <1>4, <1>6
<1>8. \A d \in Doc : doomed[d] \in Nat /\ doomed[d] <= Len(records[d])
  BY DEF TypeOK, ClearOK
<1>9. ASSUME NEW d \in Doc PROVE doomed[d] <= Len(records'[d])
  <2>1. CASE d # r.doc
    <3>1. records'[d] = records[d]
      BY <1>7, <2>1 DEF TypeOK
    <3>. QED
      BY <1>8, <3>1
  <2>2. CASE d = r.doc
    <3>1. records'[d] = s /\ doomed[d] <= Len(found) /\ doomed[d] \in Nat
      BY <1>2, <1>7, <1>8, <2>2 DEF TypeOK
    <3> HIDE DEF found
    <3>. QED
      BY <1>3, <1>7, <3>1
  <2>. QED
    BY <2>1, <2>2
<1>. QED
  BY <1>5, <1>9 DEF TypeOK, ClearOK, clearing

\* The steps of a clear, and what a restart leaves of it.
LEMMA ClearGoesOn ==
  ASSUME TypeOK, Clearing \/ Restart
  PROVE  ClearOK'
<1> USE DEF clearing, database, bounds
<1>0. /\ \A d \in Doc : Len(records[d]) \in Nat
      /\ troubles \in Nat
  BY LenProperties, SyncAssumption DEF TypeOK
<1>1. /\ clear \in BOOLEAN /\ doomed \in [Doc -> Nat]
      /\ \A d \in Doc : doomed[d] <= Len(records[d])
      /\ (clear \/ doomed # Spared) => troubles > 0
  BY DEF TypeOK, ClearOK
<1>2. CASE ClearDatabase
  BY <1>0, <1>2 DEF ClearDatabase, Trouble, ClearOK
<1>3. CASE DeleteAll
  BY <1>1, <1>3 DEF DeleteAll, ClearOK
<1>4. ASSUME NEW d \in Doc, DeleteRecord(d) PROVE ClearOK'
  <2>1. /\ doomed[d] \in Nat \ {0} /\ doomed[d] <= Len(records[d])
        /\ Len(Tail(records[d])) = Len(records[d]) - 1 /\ troubles > 0
    BY <1>4, DoomedIsThere
  <2>2. /\ doomed' = [doomed EXCEPT ![d] = @ - 1] /\ clear' = clear
        /\ records'[d] = Tail(records[d]) /\ troubles' = troubles
        /\ \A e \in Doc \ {d} : records'[e] = records[e]
    BY <1>4 DEF DeleteRecord, TypeOK
  <2>3. /\ doomed' \in [Doc -> Nat] /\ doomed'[d] = doomed[d] - 1
        /\ \A e \in Doc \ {d} : doomed'[e] = doomed[e]
    BY <1>1, <2>1, <2>2
  <2>4. doomed'[d] <= Len(records'[d])
    BY <1>0, <2>1, <2>2, <2>3
  <2>5. \A e \in Doc : doomed'[e] <= Len(records'[e])
    BY <1>1, <2>2, <2>3, <2>4
  <2>. QED
    BY <1>1, <2>1, <2>2, <2>3, <2>5 DEF ClearOK
<1>5. CASE Restart
  <2>1. /\ clear' = FALSE /\ doomed' = IF clear THEN Spared ELSE doomed
        /\ records' = records /\ troubles' = troubles + 1
    BY <1>5 DEF Restart, Trouble
  <2>2. Spared \in [Doc -> Nat] /\ \A d \in Doc : Spared[d] = 0
    BY DEF Spared
  <2>3. doomed' \in [Doc -> Nat] /\ \A d \in Doc : doomed'[d] <= Len(records[d])
    BY <1>0, <1>1, <2>1, <2>2
  <2>4. /\ records' = records /\ clear' = FALSE /\ troubles' > 0
        /\ \A d \in Doc : doomed'[d] <= Len(records'[d])
    BY <1>0, <2>1, <2>3
  <2>. QED
    BY <2>3, <2>4 DEF ClearOK
<1>. QED
  BY <1>2, <1>3, <1>4, <1>5 DEF Clearing

LEMMA ClearKeeps ==
  ASSUME TypeOK, [Next]_vars
  PROVE  ClearOK'
<1> USE DEF service, plugin, clearing, database, bounds, fileHistory, history
<1>1. CASE ServeRequest
  BY <1>1, ClearServed
<1>2. CASE Clearing \/ Restart
  BY <1>2, ClearGoesOn
<1>3. ASSUME NEW w \in Worker, RunJob(w)
      PROVE  UNCHANGED <<clearing, records>> /\ (UNCHANGED troubles \/ Trouble)
  BY <1>3 DEF RunJob, TakeJob, GetLibraryPage, DispatchDocument, GetDocument,
       GetDocumentFails, CallPushDocument, FetchFile, FetchFileFails, WriteFile,
       CloseFile
<1>4. ASSUME HandleEvent
      PROVE  UNCHANGED <<clearing, records>> /\ UNCHANGED troubles
  BY <1>4 DEF HandleEvent, PushDocument, CheckFile, RemoveFile, MergeDocument,
       MergeSucceeded
<1>5. ASSUME \/ RefreshView \/ RequestFails \/ ChangeListing \/ UNCHANGED vars
             \/ \E d \in Doc : EditDocument(d)
             \/ \E w \in Worker : OpenFails(w)
      PROVE  UNCHANGED <<clearing, records>> /\ (UNCHANGED troubles \/ Trouble)
  BY <1>5 DEF RefreshView, RequestFails, ChangeListing, vars, EditDocument, OpenFails
<1>. QED
  BY <1>1, <1>2, <1>3, <1>4, <1>5, ClearSame DEF Next, Environment, Wait

LEMMA TypeStep == TypeOK /\ [Next]_vars => TypeOK'
<1> SUFFICES ASSUME TypeOK, [Next]_vars PROVE TypeOK'
  OBVIOUS
<1> USE DEF service, plugin, clearing, database, bounds, fileHistory, history
<1>0. /\ {MaxRefresh, MaxEdit, MaxTrouble} \subseteq Nat
      /\ \A d \in Doc : FilesOf[d] \in Seq(Path)
      /\ \A S : <<>> \in Seq(S)
  BY SyncAssumption, EmptySeq
<1>c. ClearOK'
  BY ClearKeeps
<1> USE <1>c
<1>1. ASSUME NEW d \in Doc, EditDocument(d) PROVE TypeOK'
  <2>1. edits + 1 \in Version /\ edits + 1 \in 0 .. MaxEdit
    BY <1>0, <1>1 DEF EditDocument, TypeOK, Version
  <2>. QED
    BY <1>1, <2>1 DEF EditDocument, TypeOK, Doing
<1>2. ASSUME ChangeListing PROVE TypeOK'
  <2>1. refreshes' \in 0 .. MaxRefresh
    BY <1>0, <1>2 DEF ChangeListing, TypeOK
  <2>2. listing' \in Seq(Doc) /\ IsInjective(listing')
    <3>1. NewDoc \subseteq Doc
      BY DEF Doc
    <3>. QED
      BY <1>2, <3>1, ListingType DEF ChangeListing, TypeOK
  <2>3. /\ active' \in [Worker -> RunningJob \cup {None}]
        /\ \A w \in Worker : Doing(w, "write")' \/ Doing(w, "close")' =>
              active'[w] = active[w] /\ (Doing(w, "write") \/ Doing(w, "close"))
    <3>1. CASE UNCHANGED active
      BY <3>1 DEF TypeOK, Doing
    <3>2. CASE active' = [w \in Worker |-> IF Paging(w)
                       THEN [active[w] EXCEPT !.stayed = {}] ELSE active[w]]
      <4>1. ASSUME NEW w \in Worker, Paging(w)
            PROVE  /\ [active[w] EXCEPT !.stayed = {}] \in RunningJob
                   /\ [active[w] EXCEPT !.stayed = {}].do = "library"
        <5>1. active[w] \in LibraryJobs
          BY <4>1, JobKinds DEF Paging
        <5>2. [active[w] EXCEPT !.stayed = {}] \in LibraryJobs
          BY <5>1 DEF LibraryJobs
        <5>. QED
          BY <5>2 DEF RunningJob, LibraryJobs
      <4>. QED
        BY <3>2, <4>1 DEF TypeOK, Doing
    <3>. QED
      BY <1>2, <3>1, <3>2 DEF ChangeListing
  <2>. QED
    BY <1>2, <2>1, <2>2, <2>3 DEF ChangeListing, TypeOK
<1>3. ASSUME RefreshView PROVE TypeOK'
  <2>1. refreshes' \in 0 .. MaxRefresh
    BY <1>0, <1>3 DEF RefreshView, TypeOK
  <2>2. queue' \in Seq(QueuedJob)
    <3>1. LibraryJob \in QueuedJob
      BY DEF QueuedJob
    <3>. QED
      BY <1>3, <3>1, AppendProperties DEF RefreshView, TypeOK
  <2>. QED
    BY <1>3, <2>1, <2>2 DEF RefreshView, TypeOK, Doing
<1>4. ASSUME Restart PROVE TypeOK'
  <2>1. troubles' \in 0 .. MaxTrouble
    BY <1>0, <1>4 DEF Restart, Trouble, TypeOK
  <2>2. requests' \in Seq(Request)
    <3>1. /\ Len(requests) \in Nat /\ DOMAIN requests = 1 .. Len(requests)
          /\ requests \in [1 .. Len(requests) -> Request]
      BY LenProperties DEF TypeOK
    <3>2. \A i \in 1 .. Len(requests) :
            [requests[i] EXCEPT !.heard = FALSE] \in Request
      BY <3>1 DEF Request
    <3>3. requests' \in [1 .. Len(requests) -> Request]
      BY <1>4, <3>1, <3>2 DEF Restart
    <3>. QED
      BY <3>1, <3>3, SeqDef
  <2>3. active' \in [Worker -> {None}] /\ queue' = <<>> /\ calls' = <<>>
        /\ ui' = None /\ replies' = <<>> /\ got' \in [Doc -> {None}] /\ trusted' = {}
    BY <1>4 DEF Restart, PluginEnds
  <2>. QED
    BY <1>0, <1>4, <2>1, <2>2, <2>3 DEF Restart, TypeOK, Doing
<1>5. ASSUME NEW w \in Worker, RunJob(w) PROVE TypeOK'
  <2>0. ASSUME NEW j \in RunningJob \cup {None}, Become(w, j)
        PROVE  /\ active' \in [Worker -> RunningJob \cup {None}]
               /\ active'[w] = j
               /\ \A u \in Worker \ {w} : active'[u] = active[u]
    BY <2>0 DEF Become, TypeOK
  <2>1. CASE TakeJob(w)
    <3>1. Head(queue) \in RunningJob /\ queue' \in Seq(QueuedJob)
      <4>1. Head(queue) \in QueuedJob /\ Tail(queue) \in Seq(QueuedJob)
        BY <2>1, HeadTailProperties DEF TakeJob, TypeOK
      <4>2. LibraryJob \in LibraryJobs
        BY <1>0 DEF LibraryJob, LibraryJobs
      <4>. QED
        BY <2>1, <4>1, <4>2 DEF TakeJob, QueuedJob, RunningJob
    <3>2. Head(queue).do \notin {"write", "close"}
      <4>1. Head(queue) \in QueuedJob
        BY <2>1, HeadTailProperties DEF TakeJob, TypeOK
      <4>. QED
        BY <4>1 DEF QueuedJob, LibraryJob, DocumentJobs, FetchJobs
    <3>3. /\ active' \in [Worker -> RunningJob \cup {None}]
          /\ active'[w] = Head(queue)
          /\ \A u \in Worker \ {w} : active'[u] = active[u]
      BY <2>0, <2>1, <3>1 DEF TakeJob
    <3>. QED
      BY <2>1, <3>1, <3>2, <3>3 DEF TakeJob, TypeOK, Doing
  <2>2. CASE GetLibraryPage(w)
    <3>1. active[w] \in LibraryJobs
      BY <2>2, JobKinds DEF GetLibraryPage
    <3> DEFINE ids == active[w].ids \o PageIds(active[w].page)
               over == [do |-> "dispatch", ids |-> ids]
               more == [active[w] EXCEPT !.page = @ + 1, !.ids = ids,
                          !.size = ArraySize(active[w]),
                          !.stayed = IF active[w].page = 0 THEN ToSet(listing)
                                     ELSE @]
    <3>2. ids \in Seq(Doc) /\ Len(listing) \in Nat
      <4>1. active[w].ids \in Seq(Doc) /\ active[w].page \in Nat
        BY <3>1 DEF LibraryJobs
      <4>. QED
        BY <4>1, PageType, ConcatProperties DEF TypeOK
    <3>3. over \in DispatchJobs
      BY <3>2 DEF DispatchJobs
    <3>4. more \in LibraryJobs
      <4>1. ToSet(listing) \in SUBSET Doc
        BY LenProperties, ElementOfSeq DEF ToSet, TypeOK
      <4>2. ArraySize(active[w]) \in Nat
        BY <3>1, <3>2 DEF ArraySize, LibraryJobs
      <4> DEFINE page == active[w].page + 1
                 stayed == IF active[w].page = 0 THEN ToSet(listing)
                           ELSE active[w].stayed
                 size == ArraySize(active[w])
      <4>3. page \in Nat /\ stayed \in SUBSET Doc /\ size \in Nat
        BY <3>1, <4>1, <4>2 DEF LibraryJobs
      <4>4. more = [active[w] EXCEPT !.page = page, !.ids = ids, !.size = size,
                                     !.stayed = stayed]
        OBVIOUS
      <4> HIDE DEF ids, page, stayed, size, more
      <4>. QED
        BY <3>1, <3>2, <4>3, <4>4, NextPageType
    <3>5. PICK j \in {over, more} : Become(w, j)
      BY <2>2 DEF GetLibraryPage
    <3>6. j \in RunningJob /\ j.do \notin {"write", "close"}
      <4>1. j \in DispatchJobs \cup LibraryJobs
        BY <3>3, <3>4
      <4>. QED
        BY <4>1 DEF RunningJob, DispatchJobs, LibraryJobs
    <3> HIDE DEF over, more
    <3>7. /\ active' \in [Worker -> RunningJob \cup {None}]
          /\ active'[w] = j
          /\ \A u \in Worker \ {w} : active'[u] = active[u]
      BY <2>0, <3>5, <3>6
    <3>. QED
      BY <2>2, <3>6, <3>7 DEF GetLibraryPage, TypeOK, Doing
  <2>3. CASE DispatchDocument(w)
    <3>1. active[w].ids \in Seq(Doc) /\ active[w] \in DispatchJobs
      BY <2>3, JobKinds DEF DispatchDocument, DispatchJobs
    <3>2. CASE active[w].ids = <<>>
      <4>1. /\ active' \in [Worker -> RunningJob \cup {None}]
            /\ active'[w] = None
            /\ \A u \in Worker \ {w} : active'[u] = active[u]
        BY <2>0, <2>3, <3>2 DEF DispatchDocument
      <4>. QED
        BY <2>3, <3>2, <4>1 DEF DispatchDocument, TypeOK, Doing
    <3>3. CASE active[w].ids # <<>>
      <4> DEFINE ids == active[w].ids
                 rest == [active[w] EXCEPT !.ids = Front(ids)]
      <4>1. Last(ids) \in Doc /\ Front(ids) \in Seq(Doc)
        <5>1. Len(ids) \in Nat \ {0} /\ \A i \in 1 .. Len(ids) : ids[i] \in Doc
          BY <3>1, <3>3, EmptySeq, ElementOfSeq
        <5>2. \A i \in 1 .. Len(ids) - 1 : ids[i] \in Doc
          BY <5>1
        <5>. QED
          BY <5>1, <5>2, SubSeqProperties DEF Last, Front
      <4>2. rest \in RunningJob /\ rest.do = "dispatch"
        BY <3>1, <4>1 DEF RunningJob, DispatchJobs
      <4>3. queue' \in Seq(QueuedJob)
        <5>1. DocumentJob(Last(ids)) \in QueuedJob
          BY <4>1 DEF DocumentJob, QueuedJob, DocumentJobs
        <5>2. queue' = Append(queue, DocumentJob(Last(ids)))
          BY <2>3, <3>3 DEF DispatchDocument
        <5>3. queue \in Seq(QueuedJob)
          BY DEF TypeOK
        <5>. QED
          BY <5>1, <5>2, <5>3, AppendProperties
      <4>4. /\ active' \in [Worker -> RunningJob \cup {None}]
            /\ active'[w] = rest
            /\ \A u \in Worker \ {w} : active'[u] = active[u]
        BY <2>0, <2>3, <3>3, <4>2 DEF DispatchDocument
      <4>5. twin' \subseteq Doc
        BY <2>3, <3>3, <4>1 DEF DispatchDocument, TypeOK
      <4> HIDE DEF ids, rest
      <4>. QED
        BY <2>3, <4>2, <4>3, <4>4, <4>5 DEF DispatchDocument, TypeOK, Doing
    <3>. QED
      BY <3>2, <3>3
  <2>4. CASE GetDocument(w)
    <3>1. active[w].doc \in Doc /\ version[active[w].doc] \in Version
      BY <2>4, JobKinds DEF GetDocument, DocumentJobs, TypeOK
    <3> DEFINE push == [do |-> "push", doc |-> active[w].doc,
                        version |-> version[active[w].doc]]
    <3>2. push \in RunningJob /\ push.do = "push"
      BY <3>1 DEF RunningJob, PushJobs
    <3>3. /\ active' \in [Worker -> RunningJob \cup {None}]
          /\ active'[w] = push
          /\ \A u \in Worker \ {w} : active'[u] = active[u]
      BY <2>0, <2>4, <3>2 DEF GetDocument
    <3> HIDE DEF push
    <3>4. got' \in [Doc -> Version \cup {None}]
      BY <2>4, <3>1 DEF GetDocument, TypeOK
    <3>. QED
      BY <2>4, <3>2, <3>3, <3>4 DEF GetDocument, TypeOK, Doing
  <2>5. CASE GetDocumentFails(w)
    <3>1. troubles' \in 0 .. MaxTrouble
      BY <1>0, <2>5 DEF GetDocumentFails, Trouble, TypeOK
    <3>2. /\ active' \in [Worker -> RunningJob \cup {None}]
          /\ active'[w] = None
          /\ \A u \in Worker \ {w} : active'[u] = active[u]
      BY <2>0, <2>5 DEF GetDocumentFails
    <3>. QED
      BY <2>5, <3>1, <3>2 DEF GetDocumentFails, TypeOK, Doing
  <2>6. CASE CallPushDocument(w)
    <3>1. [doc |-> active[w].doc, version |-> active[w].version] \in Call
      BY <2>6, JobKinds DEF CallPushDocument, PushJobs, Call
    <3>2. calls' \in Seq(Call)
      BY <2>6, <3>1, AppendProperties DEF CallPushDocument, TypeOK
    <3>3. /\ active' \in [Worker -> RunningJob \cup {None}]
          /\ active'[w] = None
          /\ \A u \in Worker \ {w} : active'[u] = active[u]
      BY <2>0, <2>6 DEF CallPushDocument
    <3>. QED
      BY <2>6, <3>2, <3>3 DEF CallPushDocument, TypeOK, Doing
  <2>7. CASE FetchFile(w)
    <3>1. active[w].path \in Path /\ active[w].content \in Version
      BY <2>7, JobKinds DEF FetchFile, FetchJobs
    <3>2. PICK content \in {active[w].content, None} :
            /\ Become(w, [do |-> "write", path |-> active[w].path,
                          content |-> content, linked |-> TRUE])
            /\ IF content = None
               THEN Trouble /\ trusted' = trusted \ {active[w].path}
               ELSE UNCHANGED <<troubles, trusted>>
      BY <2>7 DEF FetchFile
    <3> DEFINE job == [do |-> "write", path |-> active[w].path,
                       content |-> content, linked |-> TRUE]
    <3>3. job \in RunningJob /\ job.path = active[w].path
      BY <3>1 DEF RunningJob, WriteJobs
    <3>4. /\ active' \in [Worker -> RunningJob \cup {None}]
          /\ active'[w] = job
          /\ \A u \in Worker \ {w} : active'[u] = active[u]
      BY <2>0, <3>2, <3>3
    <3>5. troubles' \in 0 .. MaxTrouble /\ trusted' \subseteq Path
      BY <1>0, <3>2 DEF Trouble, TypeOK
    <3>6. /\ file' \in [Path -> FileState] /\ file'[active[w].path] # NoFile
          /\ \A p \in Path : file[p] # NoFile => file'[p] # NoFile
      <4>1. Empty \in FileState /\ Empty # NoFile
        BY DEF Empty, FileState, NoFile
      <4>. QED
        BY <2>7, <3>1, <4>1 DEF FetchFile, TypeOK
    <3> HIDE DEF job
    <3>7. \A u \in Worker :
            (Doing(u, "write") \/ Doing(u, "close"))' /\ active'[u].linked
              => file'[active'[u].path] # NoFile
      <4>1. ASSUME NEW u \in Worker \ {w},
                   (Doing(u, "write") \/ Doing(u, "close"))', active'[u].linked
            PROVE  file'[active'[u].path] # NoFile
        <5>1. active'[u] = active[u] /\ (Doing(u, "write") \/ Doing(u, "close"))
          BY <3>4, <4>1 DEF Doing
        <5>2. active[u].path \in Path
          BY <5>1, JobKinds DEF WriteJobs
        <5>. QED
          BY <3>6, <4>1, <5>1, <5>2 DEF TypeOK
      <4>. QED
        BY <3>3, <3>4, <3>6, <4>1
    <3>. QED
      BY <2>7, <3>4, <3>5, <3>6, <3>7 DEF FetchFile, TypeOK
  <2>8. CASE FetchFileFails(w)
    <3>1. troubles' \in 0 .. MaxTrouble /\ trusted' \subseteq Path
      BY <1>0, <2>8 DEF FetchFileFails, Trouble, TypeOK
    <3>2. /\ active' \in [Worker -> RunningJob \cup {None}]
          /\ active'[w] = None
          /\ \A u \in Worker \ {w} : active'[u] = active[u]
      BY <2>0, <2>8 DEF FetchFileFails
    <3>. QED
      BY <2>8, <3>1, <3>2 DEF FetchFileFails, TypeOK, Doing
  <2>9. CASE WriteFile(w) \/ CloseFile(w)
    <3>1. active[w] \in WriteJobs
      BY <2>9, JobKinds DEF WriteFile, CloseFile
    <3>2. PICK i \in {1, 2} : WriteBlock(active[w], i)
      BY <2>9 DEF WriteFile, CloseFile
    <3>3. /\ file' \in [Path -> FileState]
          /\ \A p \in Path : file[p] # NoFile => file'[p] # NoFile
      <4>1. CASE ~active[w].linked
        BY <3>2, <4>1 DEF WriteBlock, TypeOK
      <4>2. CASE active[w].linked
        <5> DEFINE p == active[w].path
                   c == active[w].content
        <5>1. p \in Path /\ c \in Version \cup {None} /\ file[p] # NoFile
          BY <2>9, <3>1, <4>2 DEF WriteJobs, TypeOK, WriteFile, CloseFile
        <5>2. file[p] \in (Version \cup {None}) \X (Version \cup {None})
          BY <5>1 DEF TypeOK, FileState
        <5> HIDE DEF p, c
        <5>3. /\ [file[p] EXCEPT ![i] = c]
                    \in (Version \cup {None}) \X (Version \cup {None})
              /\ [file[p] EXCEPT ![i] = c] # NoFile
          BY <3>2, <5>1, <5>2 DEF NoFile
        <5>4. file' = [file EXCEPT ![p] = [file[p] EXCEPT ![i] = c]]
          BY <3>2, <4>2 DEF WriteBlock, p, c
        <5>. QED
          BY <5>1, <5>3, <5>4 DEF TypeOK, FileState
      <4>. QED
        BY <4>1, <4>2
    <3>4. PICK j \in RunningJob \cup {None} :
            /\ Become(w, j)
            /\ j # None => /\ j.path = active[w].path
                           /\ j.linked = active[w].linked
                           /\ Doing(w, "write")
      <4>1. CASE CloseFile(w)
        BY <4>1 DEF CloseFile
      <4>2. CASE WriteFile(w)
        <5> DEFINE j == [active[w] EXCEPT !.do = "close"]
        <5>1. j \in WriteJobs /\ j.path = active[w].path
              /\ j.linked = active[w].linked
          BY <3>1 DEF WriteJobs
        <5>2. j \in RunningJob
          BY <5>1 DEF RunningJob
        <5>. QED
          BY <4>2, <5>1, <5>2 DEF WriteFile
      <4>. QED
        BY <2>9, <4>1, <4>2
    <3>5. /\ active' \in [Worker -> RunningJob \cup {None}]
          /\ active'[w] = j
          /\ \A u \in Worker \ {w} : active'[u] = active[u]
      BY <2>0, <3>4
    <3>6. \A u \in Worker :
            (Doing(u, "write") \/ Doing(u, "close"))' /\ active'[u].linked
              => file'[active'[u].path] # NoFile
      <4>1. ASSUME NEW u \in Worker,
                   (Doing(u, "write") \/ Doing(u, "close"))', active'[u].linked
            PROVE  file'[active'[u].path] # NoFile
        <5>1. /\ active'[u].path = active[u].path
              /\ active'[u].linked = active[u].linked
              /\ Doing(u, "write") \/ Doing(u, "close")
          BY <3>4, <3>5, <4>1 DEF Doing
        <5>2. active[u].path \in Path
          BY <5>1, JobKinds DEF WriteJobs
        <5>. QED
          BY <3>3, <4>1, <5>1, <5>2 DEF TypeOK
      <4>. QED
        BY <4>1
    <3>. QED
      BY <2>9, <3>3, <3>5, <3>6 DEF WriteFile, CloseFile, TypeOK
  <2>. QED
    BY <1>5, <2>1, <2>2, <2>3, <2>4, <2>5, <2>6, <2>7, <2>8, <2>9 DEF RunJob
<1>6. ASSUME PushDocument PROVE TypeOK'
  <2>1. Head(calls) \in Call /\ calls' \in Seq(Call)
    BY <1>6, HeadTailProperties DEF PushDocument, TypeOK
  <2>2. /\ FilesOf[Head(calls).doc] \in Seq(Path)
        /\ Head(calls).doc \in Doc /\ Head(calls).version \in Version
    BY <1>0, <2>1 DEF Call
  <2>3. ui' \in Push /\ ~ui'.stale
    BY <1>6, <2>2 DEF PushDocument, Push
  <2>. QED
    BY <1>6, <2>1, <2>3 DEF PushDocument, TypeOK, Doing
<1>7. ASSUME ui # None, ui.todo # <<>>
      PROVE  /\ ui \in Push /\ ui.todo \in Seq(Path) /\ Head(ui.todo) \in Path
             /\ Tail(ui.todo) \in Seq(Path) /\ ui.version \in Version
  <2>1. ui \in Push
    BY <1>7 DEF TypeOK
  <2>2. ui.todo \in Seq(Path) /\ ui.version \in Version
    BY <2>1 DEF Push
  <2>. QED
    BY <1>7, <2>1, <2>2, HeadTailProperties
<1>8. ASSUME ui # None, ui.todo # <<>>, FetchNext
      PROVE  queue' \in Seq(QueuedJob) /\ ui' \in Push /\ ~ui'.stale
  <2>1. FileJob(Head(ui.todo), ui.version) \in QueuedJob
    BY <1>7, <1>8 DEF FileJob, QueuedJob, FetchJobs
  <2>2. queue' \in Seq(QueuedJob)
    BY <1>8, <2>1, AppendProperties DEF FetchNext, TypeOK
  <2>3. ui' \in Push /\ ~ui'.stale
    BY <1>7, <1>8 DEF FetchNext, Push
  <2>. QED
    BY <2>2, <2>3
<1>9. ASSUME CheckFile PROVE TypeOK'
  <2>1. ui # None /\ ui.todo # <<>>
    BY <1>9 DEF CheckFile
  <2>2. /\ ui' \in Push /\ (ui'.stale => ui'.todo # <<>>)
        /\ queue' \in Seq(QueuedJob)
    <3>1. CASE FetchNext
      BY <1>8, <2>1, <3>1
    <3>2. CASE ui' = [ui EXCEPT !.todo = Tail(@)] /\ UNCHANGED queue
      <4>1. ~ui.stale
        BY <1>9 DEF CheckFile
      <4>. QED
        BY <1>7, <2>1, <3>2, <4>1 DEF TypeOK, Push
    <3>3. CASE ui' = [ui EXCEPT !.stale = TRUE] /\ UNCHANGED queue
      BY <1>7, <2>1, <3>3 DEF TypeOK, Push
    <3>. QED
      BY <1>9, <3>1, <3>2, <3>3 DEF CheckFile
  <2>3. /\ want' \in [Path -> Version \cup {None}]
        /\ trusted' \subseteq Path
    BY <1>7, <1>9, <2>1 DEF CheckFile, TypeOK
  <2>. QED
    BY <1>9, <2>2, <2>3 DEF CheckFile, TypeOK, Doing
<1>10. ASSUME RemoveFile PROVE TypeOK'
  <2>1. ui # None /\ ui.todo # <<>> /\ FetchNext
    BY <1>10 DEF RemoveFile, TypeOK
  <2> DEFINE p == Head(ui.todo)
             Open(w) == (Doing(w, "write") \/ Doing(w, "close"))
                          /\ active[w].path = p
  <2>2. /\ file' \in [Path -> FileState]
        /\ \A q \in Path \ {p} : file'[q] = file[q]
    BY <1>7, <1>10, <2>1 DEF RemoveFile, UnlinkFile, TypeOK, FileState
  <2>3. ASSUME NEW w \in Worker, Open(w)
        PROVE  /\ [active[w] EXCEPT !.linked = FALSE] \in RunningJob
               /\ [active[w] EXCEPT !.linked = FALSE].linked = FALSE
    <3>1. active[w] \in WriteJobs
      BY <2>3, JobKinds
    <3>2. /\ [active[w] EXCEPT !.linked = FALSE] \in WriteJobs
          /\ [active[w] EXCEPT !.linked = FALSE].linked = FALSE
      BY <3>1 DEF WriteJobs
    <3>. QED
      BY <3>2 DEF RunningJob
  <2>4. active' = [w \in Worker |-> IF Open(w)
                     THEN [active[w] EXCEPT !.linked = FALSE] ELSE active[w]]
    BY <1>10 DEF RemoveFile, UnlinkFile
  <2> HIDE DEF p
  <2>5. active' \in [Worker -> RunningJob \cup {None}]
    BY <2>3, <2>4 DEF TypeOK
  <2>6. \A w \in Worker :
          (Doing(w, "write") \/ Doing(w, "close"))' /\ active'[w].linked
            => file'[active'[w].path] # NoFile
    <3>1. ASSUME NEW w \in Worker,
                 (Doing(w, "write") \/ Doing(w, "close"))', active'[w].linked
          PROVE  file'[active'[w].path] # NoFile
      <4>1. ~Open(w)
        BY <2>3, <2>4, <3>1
      <4>2. active'[w] = active[w]
        BY <2>4, <4>1
      <4>3. Doing(w, "write") \/ Doing(w, "close")
        BY <3>1, <4>2 DEF Doing
      <4>4. active[w].path # p /\ active[w].path \in Path
        BY <4>1, <4>3, JobKinds DEF WriteJobs
      <4>. QED
        BY <2>2, <3>1, <4>2, <4>3, <4>4 DEF TypeOK
    <3>. QED
      BY <3>1
  <2>7. queue' \in Seq(QueuedJob) /\ ui' \in Push /\ ~ui'.stale
    BY <1>8, <2>1
  <2>. QED
    BY <1>10, <2>2, <2>5, <2>6, <2>7 DEF RemoveFile, TypeOK
<1>11. ASSUME MergeDocument PROVE TypeOK'
  <2>1. [op |-> "merge", doc |-> ui.doc, version |-> ui.version, heard |-> TRUE]
          \in Request
    BY <1>11 DEF MergeDocument, TypeOK, Push, Request
  <2>2. requests' \in Seq(Request)
    BY <1>11, <2>1, AppendProperties DEF MergeDocument, TypeOK
  <2>. QED
    BY <1>11, <2>2 DEF MergeDocument, TypeOK, Doing
<1>12. ASSUME MergeSucceeded PROVE TypeOK'
  <2>1. Head(replies) \in Reply /\ replies' \in Seq(Reply)
    BY <1>12, HeadTailProperties DEF MergeSucceeded, TypeOK
  <2>2. [op |-> "put", doc |-> Head(replies).doc,
         version |-> Head(replies).version, heard |-> TRUE] \in Request
    BY <2>1 DEF Reply, Request
  <2>3. requests' \in Seq(Request)
    BY <1>12, <2>2, AppendProperties DEF MergeSucceeded, TypeOK
  <2>. QED
    BY <1>12, <2>1, <2>3 DEF MergeSucceeded, TypeOK, Doing
<1>13. ASSUME requests # <<>>
       PROVE  /\ Head(requests) \in Request /\ Tail(requests) \in Seq(Request)
              /\ records[Head(requests).doc] \in Seq(Version)
              /\ Head(requests).doc \in Doc /\ Head(requests).version \in Version
  <2>1. Head(requests) \in Request /\ Tail(requests) \in Seq(Request)
    BY <1>13, HeadTailProperties DEF TypeOK
  <2>. QED
    BY <2>1 DEF Request, TypeOK
<1>14. ASSUME ServeRequest PROVE TypeOK'
  <2> DEFINE r == Head(requests)
             found == records[r.doc]
  <2>1. /\ r \in Request /\ Tail(requests) \in Seq(Request)
        /\ found \in Seq(Version) /\ r.doc \in Doc /\ r.version \in Version
    BY <1>13, <1>14 DEF ServeRequest
  <2>2. CASE r.op = "merge"
    <3>1. Len(found) \in Nat /\ DOMAIN found = 1 .. Len(found)
      BY <2>1, LenProperties
    <3>2. [i \in DOMAIN found |-> r.version] \in Seq(Version)
      BY <2>1, <3>1, SeqDef
    <3>3. records' = [records EXCEPT ![r.doc] = [i \in DOMAIN found |-> r.version]]
          /\ requests' = Tail(requests)
      BY <1>14, <2>2 DEF ServeRequest
    <3>4. replies' \in Seq(Reply)
      <4> DEFINE reply == [doc |-> r.doc, version |-> r.version,
                           count |-> Len(found)]
      <4>1. reply \in Reply /\ replies \in Seq(Reply)
        BY <2>1, <3>1 DEF Reply, TypeOK
      <4>2. replies' = replies \/ replies' = Append(replies, reply)
        BY <1>14, <2>2 DEF ServeRequest
      <4> HIDE DEF reply
      <4>. QED
        BY <4>1, <4>2, AppendProperties
    <3> HIDE DEF r, found
    <3>5. records' \in [Doc -> Seq(Version)] /\ requests' \in Seq(Request)
      BY <2>1, <3>2, <3>3 DEF TypeOK
    <3>. QED
      BY <1>14, <3>4, <3>5 DEF ServeRequest, TypeOK, Doing
  <2>3. CASE r.op # "merge"
    <3>1. /\ records' = [records EXCEPT ![r.doc] = Append(found, r.version)]
          /\ requests' = Tail(requests) /\ replies' = replies
      BY <1>14, <2>3 DEF ServeRequest
    <3>2. Append(found, r.version) \in Seq(Version)
      BY <2>1, AppendProperties
    <3> HIDE DEF r, found
    <3>3. records' \in [Doc -> Seq(Version)] /\ requests' \in Seq(Request)
      BY <2>1, <3>1, <3>2 DEF TypeOK
    <3>. QED
      BY <1>14, <3>1, <3>3 DEF ServeRequest, TypeOK, Doing
  <2>. QED
    BY <2>2, <2>3
<1>15. ASSUME RequestFails PROVE TypeOK'
  <2>1. troubles' \in 0 .. MaxTrouble
    BY <1>0, <1>15 DEF RequestFails, Trouble, TypeOK
  <2>2. requests' \in Seq(Request) /\ got' \in [Doc -> Version \cup {None}]
    BY <1>13, <1>15 DEF RequestFails, TypeOK
  <2>. QED
    BY <1>15, <2>1, <2>2 DEF RequestFails, TypeOK, Doing
<1>16. CASE UNCHANGED vars
  BY <1>16 DEF vars, TypeOK, Doing
<1>17. ASSUME NEW w \in Worker, OpenFails(w) PROVE TypeOK'
  <2>1. troubles' \in 0 .. MaxTrouble
    BY <1>0, <1>17 DEF OpenFails, Trouble, TypeOK
  <2>2. active' \in [Worker -> {None}] /\ queue' = <<>> /\ calls' = <<>>
        /\ ui' = None /\ got' \in [Doc -> {None}] /\ trusted' = {}
    BY <1>17 DEF OpenFails, PluginEnds
  <2>. QED
    BY <1>0, <1>17, <2>1, <2>2 DEF OpenFails, TypeOK, Doing
<1>18. ASSUME Clearing PROVE TypeOK'
  <2>1. CASE ClearDatabase
    <3>1. troubles' \in 0 .. MaxTrouble
      BY <1>0, <2>1 DEF ClearDatabase, Trouble, TypeOK
    <3>. QED
      BY <2>1, <3>1 DEF ClearDatabase, TypeOK, Doing
  <2>2. CASE DeleteAll
    BY <2>2 DEF DeleteAll, TypeOK, Doing
  <2>3. ASSUME NEW d \in Doc, DeleteRecord(d) PROVE TypeOK'
    <3>1. Tail(records[d]) \in Seq(Version)
      BY <2>3, DoomedIsThere
    <3>2. records' \in [Doc -> Seq(Version)] /\ got' \in [Doc -> Version \cup {None}]
      BY <2>3, <3>1 DEF DeleteRecord, TypeOK
    <3>. QED
      BY <2>3, <3>2 DEF DeleteRecord, TypeOK, Doing
  <2>. QED
    BY <1>18, <2>1, <2>2, <2>3 DEF Clearing
<1>. QED
  BY <1>1, <1>2, <1>3, <1>4, <1>5, <1>6, <1>9, <1>10, <1>11, <1>12, <1>14,
     <1>15, <1>16, <1>17, <1>18 DEF Next, HandleEvent, Environment, Wait

\* What is queued, running, asked and answered is well formed whatever happens
\* in between, and a worker that has a file open under its name finds it there.
THEOREM Types == Spec => []TypeOK
  BY TypeInit, TypeStep, PTL DEF Spec

-----------------------------------------------------------------------------
(* One record per document.                                                *)
(*                                                                         *)
(* A download of a document is in one place at a time: its job is queued   *)
(* or run, its answer is called to the UI or handled by it, its merge is   *)
(* requested or answered.  What follows it is a put, which is no longer    *)
(* part of the download and may still be on its way when the next begins.  *)

\* Where a sequence has members of S.
Where(s, S) == {i \in DOMAIN s : s[i] \in S}
One(S) == \A x, y \in S : x = y

QueuedFor(d) == Where(queue, {j \in DocumentJobs : j.doc = d})
RunFor(d) ==
  {w \in Worker : (Doing(w, "document") \/ Doing(w, "push")) /\ active[w].doc = d}
CalledFor(d) == Where(calls, {c \in Call : c.doc = d})
Pushing(d) == ui # None /\ ui.doc = d
MergesFor(d) == Where(requests, {r \in Request : r.op = "merge" /\ r.doc = d})
PutsFor(d) == Where(requests, {r \in Request : r.op = "put" /\ r.doc = d})
AnswersFor(d) == Where(replies, {r \in Reply : r.doc = d})

\* At most one download of d is under way.
Alone(d) ==
  /\ One(QueuedFor(d)) /\ One(RunFor(d)) /\ One(CalledFor(d))
  /\ One(MergesFor(d)) /\ One(AnswersFor(d))
  /\ RunFor(d) # {} => QueuedFor(d) = {}
  /\ CalledFor(d) # {} => QueuedFor(d) = {} /\ RunFor(d) = {}
  /\ Pushing(d) => QueuedFor(d) = {} /\ RunFor(d) = {} /\ CalledFor(d) = {}
  /\ MergesFor(d) # {} =>
       QueuedFor(d) = {} /\ RunFor(d) = {} /\ CalledFor(d) = {} /\ ~Pushing(d)
  /\ AnswersFor(d) # {} =>
       /\ QueuedFor(d) = {} /\ RunFor(d) = {} /\ CalledFor(d) = {}
       /\ ~Pushing(d) /\ MergesFor(d) = {}

\* A put is requested only if there is no record and no other put, and before
\* the merge of the next download.
PutOnce(d) ==
  /\ Len(records[d]) <= 1
  /\ One(PutsFor(d)) /\ (PutsFor(d) # {} => records[d] = <<>>)
  /\ \A i \in AnswersFor(d) :
       replies[i].count = 0 => records[d] = <<>> /\ PutsFor(d) = {}
  /\ \A i \in MergesFor(d), j \in PutsFor(d) : j < i

RecordInv == \A d \in Doc \ twin : Alone(d) /\ PutOnce(d)

LEMMA WhereAppend ==
  ASSUME NEW T, NEW s \in Seq(T), NEW e \in T, NEW S
  PROVE  /\ e \notin S => Where(Append(s, e), S) = Where(s, S)
         /\ e \in S => Where(Append(s, e), S) = Where(s, S) \cup {Len(s) + 1}
<1>1. /\ Len(s) \in Nat /\ DOMAIN s = 1 .. Len(s)
      /\ DOMAIN Append(s, e) = 1 .. Len(s) + 1
      /\ \A i \in 1 .. Len(s) : Append(s, e)[i] = s[i]
      /\ Append(s, e)[Len(s) + 1] = e
  BY AppendProperties, LenProperties
<1>2. 1 .. Len(s) + 1 = (1 .. Len(s)) \cup {Len(s) + 1}
  BY <1>1
<1>. QED
  BY <1>1, <1>2 DEF Where

LEMMA WhereTail ==
  ASSUME NEW T, NEW s \in Seq(T), s # <<>>, NEW S
  PROVE  /\ \A i \in Where(Tail(s), S) : i \in Nat /\ i + 1 \in Where(s, S)
         /\ \A i \in Where(s, S) : i \in Nat \ {0}
         /\ \A i \in Where(Tail(s), S) : Tail(s)[i] = s[i + 1]
         /\ Head(s) \in S => 1 \in Where(s, S)
         /\ One(Where(s, S)) => One(Where(Tail(s), S))
         /\ One(Where(s, S)) /\ Head(s) \in S => Where(Tail(s), S) = {}
<1>1. /\ Len(s) \in Nat \ {0} /\ DOMAIN s = 1 .. Len(s) /\ Head(s) = s[1]
      /\ DOMAIN Tail(s) = 1 .. Len(s) - 1
      /\ \A i \in 1 .. Len(s) - 1 : Tail(s)[i] = s[i + 1]
  BY HeadTailProperties, LenProperties, EmptySeq
<1>2. /\ \A i \in Where(Tail(s), S) : i \in Nat \ {0} /\ i + 1 \in Where(s, S)
      /\ \A i \in Where(s, S) : i \in Nat \ {0}
      /\ \A i \in Where(Tail(s), S) : Tail(s)[i] = s[i + 1]
      /\ Head(s) \in S => 1 \in Where(s, S)
  BY <1>1 DEF Where
<1>3. ASSUME One(Where(s, S)) PROVE One(Where(Tail(s), S))
  <2>1. ASSUME NEW i \in Where(Tail(s), S), NEW j \in Where(Tail(s), S)
        PROVE  i = j
    <3>1. i + 1 = j + 1
      BY <1>2, <1>3 DEF One
    <3>. QED
      BY <1>2, <3>1
  <2>. QED
    BY <2>1 DEF One
<1>4. ASSUME One(Where(s, S)), Head(s) \in S PROVE Where(Tail(s), S) = {}
  <2>1. ASSUME NEW i \in Where(Tail(s), S) PROVE FALSE
    <3>1. i + 1 = 1
      BY <1>2, <1>4 DEF One
    <3>. QED
      BY <1>2, <3>1
  <2>. QED
    BY <2>1
<1>. QED
  BY <1>2, <1>3, <1>4

\* A step that moves no download and touches neither database nor answers.
LEMMA SameDownloads ==
  ASSUME RecordInv, twin' = twin,
         records' = records, requests' = requests, replies' = replies,
         calls' = calls,
         \A d \in Doc : /\ QueuedFor(d)' = QueuedFor(d) /\ RunFor(d)' = RunFor(d)
                        /\ Pushing(d)' = Pushing(d)
  PROVE  RecordInv'
<1>1. ASSUME NEW d \in Doc \ twin' PROVE Alone(d)' /\ PutOnce(d)'
  <2>1. /\ CalledFor(d)' = CalledFor(d) /\ MergesFor(d)' = MergesFor(d)
        /\ PutsFor(d)' = PutsFor(d) /\ AnswersFor(d)' = AnswersFor(d)
    BY DEF CalledFor, MergesFor, PutsFor, AnswersFor
  <2>2. Alone(d) /\ PutOnce(d)
    BY <1>1 DEF RecordInv
  <2>3. Alone(d)'
    BY <1>1, <2>1, <2>2 DEF Alone
  <2>4. PutOnce(d)'
    BY <1>1, <2>1, <2>2 DEF PutOnce
  <2>. QED
    BY <2>3, <2>4
<1>. QED
  BY <1>1 DEF RecordInv

LEMMA RecordInit == Init => RecordInv
<1> SUFFICES ASSUME Init, NEW d \in Doc PROVE Alone(d) /\ PutOnce(d)
  BY DEF RecordInv
<1>1. \A S : Where(<<>>, S) = {}
  BY DEF Where
<1>2. /\ QueuedFor(d) = {} /\ RunFor(d) = {} /\ CalledFor(d) = {} /\ ~Pushing(d)
      /\ MergesFor(d) = {} /\ PutsFor(d) = {} /\ AnswersFor(d) = {}
  BY <1>1 DEF Init, QueuedFor, RunFor, CalledFor, Pushing, MergesFor, PutsFor,
              AnswersFor, Doing
<1>3. records[d] = <<>> /\ Len(<<>>) = 0
  BY EmptySeq DEF Init
<1>. QED
  BY <1>2, <1>3 DEF Alone, PutOnce, One

\* How a worker that turns to something else counts for the downloads.
IsDownload(j, d) == j # None /\ j.do \in {"document", "push"} /\ j.doc = d

LEMMA RunBecome ==
  ASSUME TypeOK, NEW w \in Worker, NEW j, Become(w, j), NEW d
  PROVE  RunFor(d)' = IF IsDownload(j, d) THEN RunFor(d) \cup {w}
                      ELSE RunFor(d) \ {w}
<1>1. active'[w] = j /\ \A u \in Worker \ {w} : active'[u] = active[u]
  BY DEF Become, TypeOK
<1>. QED
  BY <1>1 DEF RunFor, Doing, IsDownload

\* The jobs that are no download: everything but a document or a push.
LEMMA OtherJobSteps ==
  ASSUME TypeOK, RecordInv, NEW w \in Worker,
         \/ GetLibraryPage(w) \/ GetDocument(w)
         \/ FetchFile(w) \/ FetchFileFails(w) \/ WriteFile(w) \/ CloseFile(w)
  PROVE  RecordInv'
<1> USE DEF service, plugin, clearing, database, bounds, fileHistory, history
<1>1. ASSUME NEW d \in Doc PROVE RunFor(d)' = RunFor(d)
  <2>1. CASE GetDocument(w)
    <3> DEFINE push == [do |-> "push", doc |-> active[w].doc,
                        version |-> version[active[w].doc]]
    <3>1. Become(w, push) /\ Doing(w, "document")
      BY <2>1 DEF GetDocument
    <3>2. IsDownload(push, d) <=> active[w].doc = d
      <4>1. push # None
        <5>1. push \in PushJobs
          BY <2>1, JobKinds DEF GetDocument, DocumentJobs, PushJobs, TypeOK
        <5>. QED
          BY <5>1, NoneAssumption DEF RunningJob
      <4>. QED
        BY <4>1 DEF IsDownload
    <3>3. w \in RunFor(d) <=> active[w].doc = d
      BY <3>1 DEF RunFor
    <3> HIDE DEF push
    <3>. QED
      BY <3>1, <3>2, <3>3, RunBecome
  <2>2. CASE \/ GetLibraryPage(w) \/ FetchFile(w) \/ FetchFileFails(w)
             \/ WriteFile(w) \/ CloseFile(w)
    <3>1. /\ w \notin RunFor(d)
          /\ \E j : Become(w, j) /\ ~IsDownload(j, d)
      <4>1. CASE GetLibraryPage(w)
        <5>1. active[w] \in LibraryJobs
          BY <4>1, JobKinds DEF GetLibraryPage
        <5> DEFINE ids == active[w].ids \o PageIds(active[w].page)
                   over == [do |-> "dispatch", ids |-> ids]
                   more == [active[w] EXCEPT !.page = @ + 1, !.ids = ids,
                              !.size = ArraySize(active[w]),
                              !.stayed = IF active[w].page = 0 THEN ToSet(listing)
                                         ELSE @]
        <5>2. over.do = "dispatch" /\ more.do = "library"
          BY <5>1 DEF LibraryJobs
        <5>3. Become(w, over) \/ Become(w, more)
          BY <4>1 DEF GetLibraryPage
        <5>4. w \notin RunFor(d)
          BY <4>1 DEF GetLibraryPage, Doing, RunFor
        <5> HIDE DEF over, more
        <5>. QED
          BY <5>2, <5>3, <5>4 DEF IsDownload
      <4>2. CASE FetchFile(w)
        BY <4>2 DEF FetchFile, Doing, RunFor, IsDownload
      <4>3. CASE FetchFileFails(w) \/ CloseFile(w)
        BY <4>3 DEF FetchFileFails, CloseFile, Doing, RunFor, IsDownload
      <4>4. CASE WriteFile(w)
        <5>1. active[w] \in WriteJobs
          BY <4>4, JobKinds DEF WriteFile
        <5>2. [active[w] EXCEPT !.do = "close"].do = "close"
          BY <5>1 DEF WriteJobs
        <5>. QED
          BY <4>4, <5>2 DEF WriteFile, Doing, RunFor, IsDownload
      <4>. QED
        BY <2>2, <4>1, <4>2, <4>3, <4>4
    <3>. QED
      BY <3>1, RunBecome
  <2>. QED
    BY <2>1, <2>2
<1>2. /\ twin' = twin /\ records' = records /\ requests' = requests
      /\ replies' = replies /\ calls' = calls /\ ui' = ui /\ queue' = queue
  BY DEF GetLibraryPage, GetDocument, FetchFile, FetchFileFails, WriteFile,
         CloseFile
<1>3. \A d \in Doc : QueuedFor(d)' = QueuedFor(d) /\ Pushing(d)' = Pushing(d)
  BY <1>2 DEF QueuedFor, Pushing
<1>. QED
  BY <1>1, <1>2, <1>3, SameDownloads

\* A job is taken from the queue.
LEMMA TakeStep ==
  ASSUME TypeOK, RecordInv, NEW w \in Worker, TakeJob(w)
  PROVE  RecordInv'
<1> USE DEF service, plugin, clearing, database, bounds, fileHistory, history
<1> DEFINE job == Head(queue)
<1>1. /\ active[w] = None /\ Become(w, job) /\ queue # <<>> /\ queue' = Tail(queue)
      /\ twin' = twin /\ records' = records /\ requests' = requests
      /\ replies' = replies /\ calls' = calls /\ ui' = ui
  BY DEF TakeJob
<1>2. queue \in Seq(QueuedJob) /\ job \in QueuedJob
  BY <1>1, HeadTailProperties DEF TypeOK
<1> SUFFICES ASSUME NEW d \in Doc \ twin PROVE Alone(d)' /\ PutOnce(d)'
  BY <1>1 DEF RecordInv
<1>3. Alone(d) /\ PutOnce(d)
  BY DEF RecordInv
<1>4. /\ CalledFor(d)' = CalledFor(d) /\ Pushing(d)' = Pushing(d)
      /\ MergesFor(d)' = MergesFor(d) /\ PutsFor(d)' = PutsFor(d)
      /\ AnswersFor(d)' = AnswersFor(d)
  BY <1>1 DEF CalledFor, Pushing, MergesFor, PutsFor, AnswersFor
<1>5. IsDownload(job, d) <=> job \in {j \in DocumentJobs : j.doc = d}
  <2>1. job # None /\ (job.do \in {"document", "push"} => job \in DocumentJobs)
    <3>1. job \in RunningJob
      BY <1>2, TakenJobRuns
    <3>. QED
      BY <1>2, <3>1, NoneAssumption
         DEF QueuedJob, LibraryJob, DocumentJobs, FetchJobs
  <2>. QED
    BY <2>1 DEF IsDownload, DocumentJobs
<1> HIDE DEF job
<1>6. RunFor(d)' = IF IsDownload(job, d) THEN RunFor(d) \cup {w}
                   ELSE RunFor(d) \ {w}
  BY <1>1, RunBecome
<1>7. w \notin RunFor(d)
  BY <1>1 DEF RunFor, Doing
<1>8. /\ One(QueuedFor(d)')
      /\ QueuedFor(d)' # {} => QueuedFor(d) # {} /\ ~IsDownload(job, d)
      /\ IsDownload(job, d) => QueuedFor(d) # {}
  BY <1>1, <1>2, <1>3, <1>5, WhereTail DEF QueuedFor, Alone, job
<1>9. Alone(d)'
  <2>1. CASE IsDownload(job, d)
    <3>1. RunFor(d) = {} /\ RunFor(d)' = {w} /\ QueuedFor(d)' = {}
      BY <1>3, <1>6, <1>8, <2>1 DEF Alone
    <3>2. /\ CalledFor(d) = {} /\ ~Pushing(d) /\ MergesFor(d) = {}
          /\ AnswersFor(d) = {}
      BY <1>3, <1>8, <2>1 DEF Alone
    <3>. QED
      BY <1>3, <1>4, <3>1, <3>2 DEF Alone, One
  <2>2. CASE ~IsDownload(job, d)
    <3>1. RunFor(d)' = RunFor(d)
      BY <1>6, <1>7, <2>2
    <3>. QED
      BY <1>3, <1>4, <1>8, <3>1 DEF Alone
  <2>. QED
    BY <2>1, <2>2
<1>10. PutOnce(d)'
  BY <1>1, <1>3, <1>4 DEF PutOnce
<1>. QED
  BY <1>9, <1>10

\* getLibrary dispatches the download of a document.
LEMMA DispatchStep ==
  ASSUME TypeOK, RecordInv, NEW w \in Worker, DispatchDocument(w)
  PROVE  RecordInv'
<1> USE DEF service, plugin, clearing, database, bounds, fileHistory, history
<1> DEFINE ids == active[w].ids
           rest == [active[w] EXCEPT !.ids = Front(ids)]
<1>1. /\ records' = records /\ requests' = requests
      /\ replies' = replies /\ calls' = calls /\ ui' = ui
      /\ Doing(w, "dispatch") /\ active[w] \in DispatchJobs
  BY JobKinds DEF DispatchDocument
<1>2. /\ rest.do = "dispatch"
      /\ \/ ids = <<>> /\ Become(w, None) /\ queue' = queue /\ twin' = twin
         \/ /\ ids # <<>> /\ Become(w, rest)
            /\ queue' = Append(queue, DocumentJob(Last(ids)))
            /\ twin' = IF Downloading(Last(ids)) THEN twin \cup {Last(ids)}
                       ELSE twin
  BY <1>1 DEF DispatchDocument, DispatchJobs
<1> HIDE DEF rest
<1>3. ASSUME NEW d \in Doc PROVE RunFor(d)' = RunFor(d)
  <2>1. w \notin RunFor(d)
    BY <1>1 DEF RunFor, Doing
  <2>2. ~IsDownload(rest, d) /\ ~IsDownload(None, d)
    BY <1>2 DEF IsDownload
  <2>3. Become(w, None) => RunFor(d)' = RunFor(d) \ {w}
    BY <2>2, RunBecome
  <2>4. Become(w, rest) => RunFor(d)' = RunFor(d) \ {w}
    BY <2>2, RunBecome
  <2>. QED
    BY <1>2, <2>1, <2>3, <2>4
<1>4. CASE ids = <<>>
  <2>1. queue' = queue /\ twin' = twin
    BY <1>2, <1>4
  <2>. QED
    BY <1>1, <1>3, <2>1, SameDownloads DEF QueuedFor, Pushing
<1>5. CASE ids # <<>>
  <2> DEFINE e == Last(ids)
  <2>0. e \in Doc
    <3>1. ids \in Seq(Doc)
      BY <1>1 DEF DispatchJobs
    <3>2. Len(ids) \in Nat \ {0}
      BY <1>5, <3>1, EmptySeq
    <3>. QED
      BY <3>1, <3>2, ElementOfSeq DEF Last
  <2>1. queue \in Seq(QueuedJob) /\ DocumentJob(e) \in QueuedJob
    BY <2>0 DEF TypeOK, DocumentJob, QueuedJob, DocumentJobs
  <2>2. \A d : DocumentJob(e) \in {j \in DocumentJobs : j.doc = d} <=> d = e
    BY <2>0 DEF DocumentJob, DocumentJobs
  <2> HIDE DEF e
  <2>3. /\ queue' = Append(queue, DocumentJob(e))
        /\ twin' = IF Downloading(e) THEN twin \cup {e} ELSE twin
    BY <1>2, <1>5 DEF e
  <2> SUFFICES ASSUME NEW d \in Doc \ twin' PROVE Alone(d)' /\ PutOnce(d)'
    BY DEF RecordInv
  <2>4. Alone(d) /\ PutOnce(d)
    BY <2>3 DEF RecordInv
  <2>5. /\ CalledFor(d)' = CalledFor(d) /\ Pushing(d)' = Pushing(d)
        /\ MergesFor(d)' = MergesFor(d) /\ PutsFor(d)' = PutsFor(d)
        /\ AnswersFor(d)' = AnswersFor(d) /\ RunFor(d)' = RunFor(d)
    BY <1>1, <1>3 DEF CalledFor, Pushing, MergesFor, PutsFor, AnswersFor
  <2>6. CASE d # e
    <3>1. QueuedFor(d)' = QueuedFor(d)
      BY <2>1, <2>2, <2>3, <2>6, WhereAppend DEF QueuedFor
    <3>2. Alone(d)'
      BY <2>4, <2>5, <3>1 DEF Alone
    <3>3. PutOnce(d)'
      BY <1>1, <2>4, <2>5 DEF PutOnce
    <3>. QED
      BY <3>2, <3>3
  <2>7. CASE d = e
    <3>1. ~Downloading(d)
      BY <2>3, <2>7
    <3>2. QueuedFor(d) = {} /\ RunFor(d) = {}
      <4>1. \A i \in DOMAIN queue :
              ~(queue[i].do \in {"document", "push"} /\ queue[i].doc = d)
        BY <3>1 DEF Downloading, ToSet
      <4>2. \A u \in Worker : active[u] # None =>
              ~(active[u].do \in {"document", "push"} /\ active[u].doc = d)
        BY <3>1 DEF Downloading, Running
      <4>. QED
        BY <4>1, <4>2 DEF QueuedFor, Where, DocumentJobs, RunFor, Doing
    <3>3. /\ CalledFor(d) = {} /\ ~Pushing(d) /\ MergesFor(d) = {}
          /\ AnswersFor(d) = {}
      BY <3>1 DEF Downloading, ToSet, CalledFor, Pushing, MergesFor, AnswersFor,
                  Where
    <3>4. QueuedFor(d)' = {Len(queue) + 1}
      BY <2>1, <2>2, <2>3, <2>7, <3>2, WhereAppend DEF QueuedFor
    <3>5. Alone(d)'
      <4>1. /\ RunFor(d)' = {} /\ CalledFor(d)' = {} /\ ~Pushing(d)'
            /\ MergesFor(d)' = {} /\ AnswersFor(d)' = {}
        BY <2>5, <3>2, <3>3
      <4>. QED
        BY <3>4, <4>1 DEF Alone, One
    <3>6. PutOnce(d)'
      BY <1>1, <2>4, <2>5 DEF PutOnce
    <3>. QED
      BY <3>5, <3>6
  <2>. QED
    BY <2>6, <2>7
<1>. QED
  BY <1>4, <1>5

\* The service answers: the answer is called to the UI, or there is none.
LEMMA AnswerStep ==
  ASSUME TypeOK, RecordInv, NEW w \in Worker,
         CallPushDocument(w) \/ GetDocumentFails(w)
  PROVE  RecordInv'
<1> USE DEF service, plugin, clearing, database, bounds, fileHistory, history
<1> DEFINE call == [doc |-> active[w].doc, version |-> active[w].version]
<1>1. /\ records' = records /\ requests' = requests /\ twin' = twin
      /\ replies' = replies /\ ui' = ui /\ queue' = queue /\ Become(w, None)
  BY DEF CallPushDocument, GetDocumentFails
<1>2. \/ calls' = calls
      \/ calls' = Append(calls, call) /\ Doing(w, "push")
  BY DEF CallPushDocument, GetDocumentFails
<1> SUFFICES ASSUME NEW d \in Doc \ twin PROVE Alone(d)' /\ PutOnce(d)'
  BY <1>1 DEF RecordInv
<1>3. Alone(d) /\ PutOnce(d)
  BY DEF RecordInv
<1>4. /\ Pushing(d)' = Pushing(d) /\ QueuedFor(d)' = QueuedFor(d)
      /\ MergesFor(d)' = MergesFor(d) /\ PutsFor(d)' = PutsFor(d)
      /\ AnswersFor(d)' = AnswersFor(d) /\ RunFor(d)' = RunFor(d) \ {w}
  BY <1>1, RunBecome
     DEF QueuedFor, Pushing, MergesFor, PutsFor, AnswersFor, IsDownload
<1>5. \/ CalledFor(d)' = CalledFor(d)
      \/ CalledFor(d)' = CalledFor(d) \cup {Len(calls) + 1} /\ w \in RunFor(d)
  <2>1. CASE calls' = calls
    BY <2>1 DEF CalledFor
  <2>2. CASE calls' = Append(calls, call) /\ Doing(w, "push")
    <3>1. calls \in Seq(Call) /\ call \in Call
      BY <2>2, JobKinds DEF TypeOK, PushJobs, Call
    <3>2. call \in {c \in Call : c.doc = d} <=> active[w].doc = d
      BY <3>1
    <3>3. w \in RunFor(d) <=> active[w].doc = d
      BY <2>2 DEF RunFor
    <3> HIDE DEF call
    <3>. QED
      BY <2>2, <3>1, <3>2, <3>3, WhereAppend DEF CalledFor
  <2>. QED
    BY <1>2, <2>1, <2>2
<1>6. Alone(d)'
  <2>1. CASE CalledFor(d)' = CalledFor(d)
    BY <1>3, <1>4, <2>1 DEF Alone, One
  <2>2. CASE CalledFor(d)' = CalledFor(d) \cup {Len(calls) + 1} /\ w \in RunFor(d)
    <3>1. RunFor(d)' = {} /\ QueuedFor(d) = {}
      BY <1>3, <1>4, <2>2 DEF Alone, One
    <3>2. /\ CalledFor(d) = {} /\ ~Pushing(d) /\ MergesFor(d) = {}
          /\ AnswersFor(d) = {}
      BY <1>3, <2>2 DEF Alone
    <3>. QED
      BY <1>4, <2>2, <3>1, <3>2 DEF Alone, One
  <2>. QED
    BY <1>5, <2>1, <2>2
<1>7. PutOnce(d)'
  BY <1>1, <1>3, <1>4 DEF PutOnce
<1>. QED
  BY <1>6, <1>7

\* pushDocument begins, and at its end asks for the merge.
LEMMA PushStep ==
  ASSUME TypeOK, RecordInv, PushDocument
  PROVE  RecordInv'
<1> USE DEF service, plugin, clearing, database, bounds, fileHistory, history
<1> DEFINE call == Head(calls)
           push == [doc |-> call.doc, version |-> call.version,
                    todo |-> FilesOf[call.doc], stale |-> FALSE]
<1>1. /\ records' = records /\ requests' = requests /\ twin' = twin
      /\ replies' = replies /\ ui = None /\ queue' = queue /\ active' = active
      /\ calls # <<>> /\ calls' = Tail(calls) /\ ui' = push
  BY DEF PushDocument
<1>2. /\ calls \in Seq(Call) /\ call \in Call /\ push \in Push
      /\ push.doc = call.doc
  <2>1. calls \in Seq(Call) /\ call \in Call
    BY <1>1, HeadTailProperties DEF TypeOK
  <2>. QED
    BY <2>1, SyncAssumption DEF Call, Push
<1> HIDE DEF push
<1> SUFFICES ASSUME NEW d \in Doc \ twin PROVE Alone(d)' /\ PutOnce(d)'
  BY <1>1 DEF RecordInv
<1>3. Alone(d) /\ PutOnce(d)
  BY DEF RecordInv
<1>4. /\ QueuedFor(d)' = QueuedFor(d) /\ RunFor(d)' = RunFor(d)
      /\ MergesFor(d)' = MergesFor(d) /\ PutsFor(d)' = PutsFor(d)
      /\ AnswersFor(d)' = AnswersFor(d)
  BY <1>1 DEF QueuedFor, RunFor, Doing, MergesFor, PutsFor, AnswersFor
<1>5. ~Pushing(d) /\ (Pushing(d)' <=> call.doc = d)
  BY <1>1, <1>2, NoneAssumption DEF Pushing
<1>6. /\ One(CalledFor(d)')
      /\ CalledFor(d)' # {} => CalledFor(d) # {} /\ call.doc # d
      /\ call.doc = d => CalledFor(d) # {}
  BY <1>1, <1>2, <1>3, WhereTail DEF CalledFor, Alone
<1> HIDE DEF call
<1>7. Alone(d)'
  BY <1>3, <1>4, <1>5, <1>6 DEF Alone
<1>8. PutOnce(d)'
  BY <1>1, <1>3, <1>4 DEF PutOnce
<1>. QED
  BY <1>7, <1>8

LEMMA MergeStep ==
  ASSUME TypeOK, RecordInv, MergeDocument
  PROVE  RecordInv'
<1> USE DEF service, plugin, clearing, database, bounds, fileHistory, history
<1> DEFINE request == [op |-> "merge", doc |-> ui.doc, version |-> ui.version,
                       heard |-> TRUE]
           Merges(d) == {r \in Request : r.op = "merge" /\ r.doc = d}
           Puts(d) == {r \in Request : r.op = "put" /\ r.doc = d}
<1>1. /\ records' = records /\ twin' = twin /\ calls' = calls /\ active' = active
      /\ replies' = replies /\ queue' = queue /\ ui # None /\ ui' = None
      /\ requests' = Append(requests, request)
  BY DEF MergeDocument
<1>2. requests \in Seq(Request) /\ request \in Request
  BY <1>1 DEF TypeOK, Push, Request
<1> SUFFICES ASSUME NEW d \in Doc \ twin PROVE Alone(d)' /\ PutOnce(d)'
  BY <1>1 DEF RecordInv
<1>3. Alone(d) /\ PutOnce(d)
  BY DEF RecordInv
<1>4. /\ QueuedFor(d)' = QueuedFor(d) /\ RunFor(d)' = RunFor(d)
      /\ CalledFor(d)' = CalledFor(d) /\ AnswersFor(d)' = AnswersFor(d)
  BY <1>1 DEF QueuedFor, RunFor, Doing, CalledFor, AnswersFor
<1>5. /\ request \in Merges(d) <=> ui.doc = d
      /\ request \notin Puts(d)
  BY <1>2
<1> HIDE DEF request
<1>6. /\ PutsFor(d)' = PutsFor(d) /\ (Pushing(d) <=> ui.doc = d) /\ ~Pushing(d)'
      /\ MergesFor(d)' = IF ui.doc = d THEN MergesFor(d) \cup {Len(requests) + 1}
                         ELSE MergesFor(d)
  <2>1. /\ MergesFor(d) = Where(requests, Merges(d))
        /\ MergesFor(d)' = Where(requests', Merges(d))
        /\ PutsFor(d) = Where(requests, Puts(d))
        /\ PutsFor(d)' = Where(requests', Puts(d))
    BY DEF MergesFor, PutsFor
  <2> HIDE DEF Merges, Puts
  <2>2. Where(requests', Puts(d)) = Where(requests, Puts(d))
    BY <1>1, <1>2, <1>5, WhereAppend
  <2>3. Where(requests', Merges(d)) =
          IF ui.doc = d THEN Where(requests, Merges(d)) \cup {Len(requests) + 1}
          ELSE Where(requests, Merges(d))
    BY <1>1, <1>2, <1>5, WhereAppend
  <2>. QED
    BY <1>1, <2>1, <2>2, <2>3 DEF Pushing
<1>7. Alone(d)'
  <2>1. CASE ui.doc = d
    <3>1. /\ QueuedFor(d) = {} /\ RunFor(d) = {} /\ CalledFor(d) = {}
          /\ MergesFor(d) = {} /\ AnswersFor(d) = {}
      BY <1>3, <1>6, <2>1 DEF Alone
    <3>2. /\ QueuedFor(d)' = {} /\ RunFor(d)' = {} /\ CalledFor(d)' = {}
          /\ MergesFor(d)' = {Len(requests) + 1} /\ AnswersFor(d)' = {}
      BY <1>4, <1>6, <2>1, <3>1
    <3>. QED
      BY <1>6, <3>2 DEF Alone, One
  <2>2. CASE ui.doc # d
    BY <1>3, <1>4, <1>6, <2>2 DEF Alone
  <2>. QED
    BY <2>1, <2>2
<1>8. PutOnce(d)'
  <2>1. \A j \in PutsFor(d) : j < Len(requests) + 1
    <3>1. Len(requests) \in Nat /\ DOMAIN requests = 1 .. Len(requests)
      BY <1>2, LenProperties
    <3>. QED
      BY <3>1 DEF PutsFor, Where
  <2>2. \A i \in MergesFor(d)', j \in PutsFor(d)' : j < i
    BY <1>3, <1>6, <2>1 DEF PutOnce
  <2>. QED
    BY <1>1, <1>3, <1>4, <1>6, <2>2 DEF PutOnce
<1>. QED
  BY <1>7, <1>8

\* The answer to a merge: the document is put if there was no record of it.
LEMMA SucceedStep ==
  ASSUME TypeOK, RecordInv, MergeSucceeded
  PROVE  RecordInv'
<1> USE DEF service, plugin, clearing, database, bounds, fileHistory, history
<1> DEFINE reply == Head(replies)
           request == [op |-> "put", doc |-> reply.doc,
                       version |-> reply.version, heard |-> TRUE]
           Merges(d) == {r \in Request : r.op = "merge" /\ r.doc = d}
           Puts(d) == {r \in Request : r.op = "put" /\ r.doc = d}
           Answers(d) == {r \in Reply : r.doc = d}
<1>1. /\ records' = records /\ twin' = twin /\ calls' = calls /\ active' = active
      /\ queue' = queue /\ ui' = ui
      /\ replies # <<>> /\ replies' = Tail(replies)
      /\ requests' = IF NotFound(reply) THEN Append(requests, request)
                     ELSE requests
  BY DEF MergeSucceeded
<1>2. /\ requests \in Seq(Request) /\ replies \in Seq(Reply) /\ reply \in Reply
      /\ reply = replies[1]
  BY <1>1, HeadTailProperties, EmptySeq DEF TypeOK
<1>3. request \in Request
  BY <1>2 DEF Reply, Request
<1> SUFFICES ASSUME NEW d \in Doc \ twin PROVE Alone(d)' /\ PutOnce(d)'
  BY <1>1 DEF RecordInv
<1>4. Alone(d) /\ PutOnce(d)
  BY DEF RecordInv
<1>5. /\ QueuedFor(d)' = QueuedFor(d) /\ RunFor(d)' = RunFor(d)
      /\ CalledFor(d)' = CalledFor(d) /\ Pushing(d)' = Pushing(d)
  BY <1>1 DEF QueuedFor, RunFor, Doing, CalledFor, Pushing
<1>6. /\ request \in Puts(d) <=> reply.doc = d
      /\ request \notin Merges(d)
  BY <1>3
<1> HIDE DEF request
<1>7. /\ MergesFor(d)' = MergesFor(d)
      /\ PutsFor(d)' = IF NotFound(reply) /\ reply.doc = d
                       THEN PutsFor(d) \cup {Len(requests) + 1} ELSE PutsFor(d)
  <2>1. /\ MergesFor(d) = Where(requests, Merges(d))
        /\ MergesFor(d)' = Where(requests', Merges(d))
        /\ PutsFor(d) = Where(requests, Puts(d))
        /\ PutsFor(d)' = Where(requests', Puts(d))
    BY DEF MergesFor, PutsFor
  <2> HIDE DEF Merges, Puts
  <2>2. CASE NotFound(reply)
    <3>1. requests' = Append(requests, request)
      BY <1>1, <2>2
    <3>2. Where(requests', Merges(d)) = Where(requests, Merges(d))
      BY <1>2, <1>3, <1>6, <3>1, WhereAppend
    <3>3. Where(requests', Puts(d)) =
            IF reply.doc = d THEN Where(requests, Puts(d)) \cup {Len(requests) + 1}
            ELSE Where(requests, Puts(d))
      BY <1>2, <1>3, <1>6, <3>1, WhereAppend
    <3>. QED
      BY <2>1, <2>2, <3>2, <3>3
  <2>3. CASE ~NotFound(reply)
    BY <1>1, <2>1, <2>3
  <2>. QED
    BY <2>2, <2>3
<1>8. /\ One(AnswersFor(d)')
      /\ \A i \in AnswersFor(d)' :
           i + 1 \in AnswersFor(d) /\ replies'[i] = replies[i + 1] /\ reply.doc # d
      /\ reply.doc = d => 1 \in AnswersFor(d)
  BY <1>1, <1>2, <1>4, WhereTail DEF AnswersFor, Alone
<1> HIDE DEF reply
<1>9. Alone(d)'
  BY <1>4, <1>5, <1>7, <1>8 DEF Alone
<1>10. PutOnce(d)'
  <2>1. CASE NotFound(reply) /\ reply.doc = d
    <3>1. /\ records[d] = <<>> /\ PutsFor(d) = {} /\ MergesFor(d) = {}
          /\ AnswersFor(d)' = {}
      BY <1>2, <1>4, <1>8, <2>1 DEF NotFound, PutOnce, Alone
    <3>. QED
      BY <1>1, <1>4, <1>7, <2>1, <3>1 DEF PutOnce, One
  <2>2. CASE ~(NotFound(reply) /\ reply.doc = d)
    BY <1>1, <1>4, <1>7, <1>8, <2>2 DEF PutOnce
  <2>. QED
    BY <2>1, <2>2
<1>. QED
  BY <1>9, <1>10

\* The database does what it is asked, or fails to.
LEMMA ServeStep ==
  ASSUME TypeOK, RecordInv, ServeRequest \/ RequestFails
  PROVE  RecordInv'
<1> USE DEF service, plugin, clearing, database, bounds, fileHistory, history
<1> DEFINE r == Head(requests)
           found == records[r.doc]
           reply == [doc |-> r.doc, version |-> r.version, count |-> Len(found)]
           Merges(d) == {q \in Request : q.op = "merge" /\ q.doc = d}
           Puts(d) == {q \in Request : q.op = "put" /\ q.doc = d}
           Answers(d) == {q \in Reply : q.doc = d}
<1>1. /\ twin' = twin /\ calls' = calls /\ active' = active
      /\ queue' = queue /\ ui' = ui
      /\ requests # <<>> /\ requests' = Tail(requests)
  BY DEF ServeRequest, RequestFails
<1>2. /\ requests \in Seq(Request) /\ r \in Request /\ replies \in Seq(Reply)
      /\ r.doc \in Doc /\ found \in Seq(Version) /\ Len(found) \in Nat
      /\ reply \in Reply
  <2>1. requests \in Seq(Request) /\ r \in Request /\ replies \in Seq(Reply)
    BY <1>1, HeadTailProperties DEF TypeOK
  <2>2. r.doc \in Doc /\ r.version \in Version /\ found \in Seq(Version)
    BY <2>1 DEF Request, TypeOK
  <2>3. Len(found) \in Nat
    BY <2>2, LenProperties
  <2>. QED
    BY <2>1, <2>2, <2>3 DEF Reply
<1>3. \/ /\ r.op = "merge"
         /\ records' = [records EXCEPT ![r.doc] = [i \in DOMAIN found |-> r.version]]
         /\ replies' = replies \/ replies' = Append(replies, reply)
      \/ /\ r.op = "put" /\ replies' = replies
         /\ records' = [records EXCEPT ![r.doc] = Append(found, r.version)]
      \/ records' = records /\ replies' = replies
  <2>1. r.op \in {"merge", "put"}
    BY <1>2 DEF Request
  <2>. QED
    BY <2>1 DEF ServeRequest, RequestFails
<1> SUFFICES ASSUME NEW d \in Doc \ twin PROVE Alone(d)' /\ PutOnce(d)'
  BY <1>1 DEF RecordInv
<1>4. Alone(d) /\ PutOnce(d)
  BY DEF RecordInv
<1>5. /\ QueuedFor(d)' = QueuedFor(d) /\ RunFor(d)' = RunFor(d)
      /\ CalledFor(d)' = CalledFor(d) /\ Pushing(d)' = Pushing(d)
  BY <1>1 DEF QueuedFor, RunFor, Doing, CalledFor, Pushing
<1>6. /\ r \in Merges(d) <=> r.op = "merge" /\ r.doc = d
      /\ r \in Puts(d) <=> r.op = "put" /\ r.doc = d
      /\ reply \in Answers(d) <=> r.doc = d
      /\ reply.count = Len(found)
  BY <1>2
<1>7. /\ MergesFor(d) = Where(requests, Merges(d))
      /\ MergesFor(d)' = Where(requests', Merges(d))
      /\ PutsFor(d) = Where(requests, Puts(d))
      /\ PutsFor(d)' = Where(requests', Puts(d))
      /\ AnswersFor(d) = Where(replies, Answers(d))
      /\ AnswersFor(d)' = Where(replies', Answers(d))
  BY DEF MergesFor, PutsFor, AnswersFor
<1> HIDE DEF Merges, Puts, Answers, reply
<1>8. /\ \A i \in MergesFor(d)' : i \in Nat /\ i + 1 \in MergesFor(d)
      /\ r \in Merges(d) => 1 \in MergesFor(d) /\ MergesFor(d)' = {}
      /\ One(MergesFor(d)')
      /\ \A i \in MergesFor(d) : i \in Nat \ {0}
  BY <1>1, <1>2, <1>4, <1>7, WhereTail DEF Alone
<1>9. /\ \A i \in PutsFor(d)' : i \in Nat /\ i + 1 \in PutsFor(d)
      /\ r \in Puts(d) => 1 \in PutsFor(d) /\ PutsFor(d)' = {}
      /\ One(PutsFor(d)')
      /\ \A i \in PutsFor(d) : i \in Nat \ {0}
  BY <1>1, <1>2, <1>4, <1>7, WhereTail DEF PutOnce
<1>10. \A i \in MergesFor(d)', j \in PutsFor(d)' : j < i
  <2>1. ASSUME NEW i \in MergesFor(d)', NEW j \in PutsFor(d)' PROVE j < i
    <3>1. j + 1 < i + 1 /\ i \in Nat /\ j \in Nat
      BY <1>4, <1>8, <1>9, <2>1 DEF PutOnce
    <3>. QED
      BY <3>1
  <2>. QED
    BY <2>1
<1>11. CASE /\ r.op = "merge" /\ r.doc = d
            /\ records' = [records EXCEPT ![r.doc] = [i \in DOMAIN found |-> r.version]]
            /\ replies' = replies \/ replies' = Append(replies, reply)
  <2>1. /\ 1 \in MergesFor(d) /\ MergesFor(d)' = {} /\ PutsFor(d) = {}
        /\ PutsFor(d)' = {}
    <3>1. 1 \in MergesFor(d) /\ MergesFor(d)' = {}
      BY <1>6, <1>8, <1>11
    <3>2. \A j \in PutsFor(d) : j < 1 /\ j \in Nat \ {0}
      BY <1>4, <1>9, <3>1 DEF PutOnce
    <3>3. PutsFor(d) = {}
      BY <3>2
    <3>. QED
      BY <1>9, <3>1, <3>3
  <2>2. /\ QueuedFor(d)' = {} /\ RunFor(d)' = {} /\ CalledFor(d)' = {}
        /\ ~Pushing(d)' /\ AnswersFor(d) = {}
    BY <1>4, <1>5, <2>1 DEF Alone
  <2>3. records'[d] = [i \in DOMAIN found |-> r.version] /\ found = records[d]
    BY <1>2, <1>11 DEF TypeOK
  <2>4. /\ Len(records'[d]) = Len(records[d])
        /\ Len(records[d]) = 0 => records'[d] = <<>>
    <3>1. DOMAIN found = 1 .. Len(found)
      BY <1>2, LenProperties
    <3>2. records'[d] = [i \in 1 .. Len(found) |-> r.version]
      BY <2>3, <3>1
    <3>3. Len(records'[d]) = Len(found)
      BY <1>2, <3>2
    <3>4. Len(found) = 0 => records'[d] = <<>>
      BY <3>2
    <3>. QED
      BY <2>3, <3>3, <3>4
  <2>5. \/ AnswersFor(d)' = {}
        \/ AnswersFor(d)' = {Len(replies) + 1}
             /\ replies'[Len(replies) + 1].count = Len(records[d])
    <3>1. CASE replies' = replies
      BY <1>7, <2>2, <3>1
    <3>2. CASE replies' = Append(replies, reply)
      <4>1. AnswersFor(d)' = {Len(replies) + 1}
        <5>1. reply \in Answers(d)
          BY <1>6, <1>11
        <5>2. Where(Append(replies, reply), Answers(d)) =
                Where(replies, Answers(d)) \cup {Len(replies) + 1}
          BY <1>2, <5>1, WhereAppend
        <5>. QED
          BY <1>7, <2>2, <3>2, <5>2
      <4>2. replies'[Len(replies) + 1] = reply
        BY <1>2, <3>2, AppendProperties
      <4>3. reply.count = Len(records[d])
        <5>1. found = records[d]
          BY <2>3
        <5>2. reply.count = Len(found)
          BY <1>6
        <5>. QED
          BY <5>1, <5>2
      <4>. QED
        BY <4>1, <4>2, <4>3
    <3>. QED
      BY <1>11, <3>1, <3>2
  <2>6. Alone(d)'
    BY <2>1, <2>2, <2>5 DEF Alone, One
  <2>7. PutOnce(d)'
    BY <1>4, <2>1, <2>4, <2>5 DEF PutOnce, One
  <2>. QED
    BY <2>6, <2>7
<1>12. CASE /\ r.op = "put" /\ r.doc = d /\ replies' = replies
            /\ records' = [records EXCEPT ![r.doc] = Append(found, r.version)]
  <2>1. /\ PutsFor(d) # {} /\ PutsFor(d)' = {}
        /\ AnswersFor(d)' = AnswersFor(d)
    BY <1>6, <1>7, <1>9, <1>12
  <2>2. /\ records[d] = <<>>
        /\ \A i \in AnswersFor(d) : replies[i].count # 0
    BY <1>4, <2>1 DEF PutOnce
  <2>3. Len(records'[d]) = 1
    <3>1. records'[d] = Append(<<>>, r.version)
      BY <1>2, <1>12, <2>2 DEF TypeOK
    <3>. QED
      BY <3>1
  <2>4. MergesFor(d) = {} => MergesFor(d)' = {}
    BY <1>8
  <2>5. Alone(d)'
    BY <1>4, <1>5, <1>8, <2>1, <2>4 DEF Alone
  <2>6. PutOnce(d)'
    BY <1>12, <2>1, <2>2, <2>3 DEF PutOnce, One
  <2>. QED
    BY <2>5, <2>6
<1>13. CASE records'[d] = records[d] /\ AnswersFor(d)' = AnswersFor(d)
              /\ \A i \in AnswersFor(d) : replies'[i] = replies[i]
  <2>1. /\ MergesFor(d) = {} => MergesFor(d)' = {}
        /\ PutsFor(d) = {} => PutsFor(d)' = {}
    BY <1>8, <1>9
  <2>2. Alone(d)'
    BY <1>4, <1>5, <1>8, <1>13, <2>1 DEF Alone
  <2>3. PutOnce(d)'
    BY <1>4, <1>9, <1>10, <1>13, <2>1 DEF PutOnce
  <2>. QED
    BY <2>2, <2>3
<1>14. \/ r.doc = d
       \/ /\ records'[d] = records[d] /\ AnswersFor(d)' = AnswersFor(d)
          /\ \A i \in AnswersFor(d) : replies'[i] = replies[i]
  <2>1. SUFFICES ASSUME r.doc # d
                 PROVE  /\ records'[d] = records[d]
                        /\ AnswersFor(d)' = AnswersFor(d)
                        /\ \A i \in AnswersFor(d) : replies'[i] = replies[i]
    OBVIOUS
  <2>2. records'[d] = records[d]
    BY <1>2, <1>3, <2>1 DEF TypeOK
  <2>3. CASE replies' = replies
    BY <1>7, <2>2, <2>3
  <2>4. CASE replies' = Append(replies, reply)
    <3>1. AnswersFor(d)' = AnswersFor(d)
      BY <1>2, <1>6, <1>7, <2>1, <2>4, WhereAppend
    <3>2. \A i \in 1 .. Len(replies) : replies'[i] = replies[i]
      BY <1>2, <2>4, AppendProperties
    <3>3. AnswersFor(d) \subseteq 1 .. Len(replies)
      BY <1>2, <1>7, LenProperties DEF Where
    <3>. QED
      BY <2>2, <3>1, <3>2, <3>3
  <2>. QED
    BY <1>3, <2>3, <2>4
<1>15. CASE r.doc = d /\ records' = records /\ replies' = replies
  BY <1>7, <1>13, <1>15
<1>. QED
  BY <1>3, <1>11, <1>12, <1>13, <1>14, <1>15

\* What is dispatched or runs besides the downloads leaves them alone.
LEMMA QuietSteps ==
  ASSUME TypeOK, RecordInv,
         \/ \E d \in Doc : EditDocument(d)
         \/ ChangeListing \/ RefreshView \/ CheckFile \/ RemoveFile
         \/ UNCHANGED vars
  PROVE  RecordInv'
<1> USE DEF service, plugin, clearing, database, bounds, fileHistory, history
<1>1. /\ twin' = twin /\ records' = records /\ requests' = requests
      /\ replies' = replies /\ calls' = calls
  BY DEF EditDocument, ChangeListing, RefreshView, CheckFile, RemoveFile, vars
<1>2. \A d \in Doc : Pushing(d)' = Pushing(d)
  <2>1. \/ ui' = ui
        \/ /\ ui # None /\ ui.todo # <<>>
           /\ \/ ui' = [ui EXCEPT !.todo = Tail(@), !.stale = FALSE]
              \/ ui' = [ui EXCEPT !.todo = Tail(@)]
              \/ ui' = [ui EXCEPT !.stale = TRUE]
    BY DEF EditDocument, ChangeListing, RefreshView, CheckFile, RemoveFile,
           FetchNext, vars, TypeOK
  <2>2. \/ ui' = ui
        \/ ui # None /\ ui' # None /\ ui'.doc = ui.doc
    <3>1. CASE ui' = ui
      BY <3>1
    <3>2. CASE ui' # ui
      <4>1. ui \in Push
        BY <2>1, <3>2 DEF TypeOK
      <4>2. /\ [ui EXCEPT !.todo = Tail(@), !.stale = FALSE].doc = ui.doc
            /\ [ui EXCEPT !.todo = Tail(@)].doc = ui.doc
            /\ [ui EXCEPT !.stale = TRUE].doc = ui.doc
        BY <4>1 DEF Push
      <4>3. ui' # None
        <5>1. Tail(ui.todo) \in Seq(Path)
          <6>1. ui.todo \in Seq(Path) /\ ui.todo # <<>>
            BY <2>1, <3>2, <4>1 DEF Push
          <6>. QED
            BY <6>1, HeadTailProperties
        <5>2. /\ [ui EXCEPT !.todo = Tail(@), !.stale = FALSE] \in Push
              /\ [ui EXCEPT !.todo = Tail(@)] \in Push
              /\ [ui EXCEPT !.stale = TRUE] \in Push
          BY <4>1, <5>1 DEF Push
        <5>. QED
          BY <2>1, <3>2, <5>2, NoneAssumption
      <4>. QED
        BY <2>1, <3>2, <4>2, <4>3
    <3>. QED
      BY <3>1, <3>2
  <2>. QED
    BY <2>2 DEF Pushing
<1>3. \A d \in Doc : QueuedFor(d)' = QueuedFor(d)
  <2>1. \/ queue' = queue
        \/ \E j \in QueuedJob \ DocumentJobs : queue' = Append(queue, j)
    <3>1. CASE RefreshView
      <4>1. LibraryJob \in QueuedJob \ DocumentJobs
        BY DEF LibraryJob, QueuedJob, DocumentJobs
      <4>. QED
        BY <3>1, <4>1 DEF RefreshView
    <3>2. CASE ui # None /\ ui.todo # <<>> /\ FetchNext
      <4>1. FileJob(Head(ui.todo), ui.version) \in QueuedJob \ DocumentJobs
        <5>1. ui.version \in Version /\ ui.todo \in Seq(Path)
          BY <3>2 DEF TypeOK, Push
        <5>2. Head(ui.todo) \in Path
          BY <3>2, <5>1, HeadTailProperties
        <5>. QED
          BY <5>1, <5>2 DEF FileJob, QueuedJob, FetchJobs, DocumentJobs
      <4>. QED
        BY <3>2, <4>1 DEF FetchNext
    <3>3. CASE CheckFile \/ RemoveFile
      <4>1. queue' = queue \/ (ui # None /\ ui.todo # <<>> /\ FetchNext)
        BY <3>3 DEF CheckFile, RemoveFile, TypeOK
      <4>. QED
        BY <3>2, <4>1
    <3>4. CASE (\E d \in Doc : EditDocument(d)) \/ ChangeListing \/ UNCHANGED vars
      BY <3>4 DEF EditDocument, ChangeListing, vars
    <3>. QED
      BY <3>1, <3>3, <3>4
  <2>2. queue \in Seq(QueuedJob)
    BY DEF TypeOK
  <2>3. ASSUME NEW d \in Doc, NEW j \in QueuedJob \ DocumentJobs,
               queue' = Append(queue, j)
        PROVE  QueuedFor(d)' = QueuedFor(d)
    <3>1. j \notin {k \in DocumentJobs : k.doc = d}
      OBVIOUS
    <3>. QED
      BY <2>2, <2>3, <3>1, WhereAppend DEF QueuedFor
  <2>. QED
    BY <2>1, <2>3 DEF QueuedFor
<1>4. \A d \in Doc : RunFor(d)' = RunFor(d)
  <2>1. \A u \in Worker :
          \/ active'[u] = active[u]
          \/ /\ active[u] # None /\ active[u].do \notin {"document", "push"}
             /\ active'[u].do = active[u].do
    <3>1. CASE ChangeListing
      <4>1. ASSUME NEW u \in Worker, Paging(u)
            PROVE  /\ active[u] # None /\ active[u].do = "library"
                   /\ [active[u] EXCEPT !.stayed = {}].do = "library"
        BY <4>1, JobKinds DEF Paging, Doing, LibraryJobs
      <4>2. \/ active' = active
            \/ active' = [u \in Worker |-> IF Paging(u)
                            THEN [active[u] EXCEPT !.stayed = {}] ELSE active[u]]
        BY <3>1 DEF ChangeListing
      <4>. QED
        BY <4>1, <4>2
    <3>2. CASE RemoveFile
      <4> DEFINE Open(u) == (Doing(u, "write") \/ Doing(u, "close"))
                              /\ active[u].path = Head(ui.todo)
      <4>1. ASSUME NEW u \in Worker, Open(u)
            PROVE  /\ active[u] # None /\ active[u].do \in {"write", "close"}
                   /\ [active[u] EXCEPT !.linked = FALSE].do = active[u].do
        BY <4>1, JobKinds DEF Doing, WriteJobs
      <4>2. active' = [u \in Worker |-> IF Open(u)
                         THEN [active[u] EXCEPT !.linked = FALSE] ELSE active[u]]
        BY <3>2 DEF RemoveFile, UnlinkFile
      <4> HIDE DEF Open
      <4>. QED
        BY <4>1, <4>2
    <3>3. CASE ~(ChangeListing \/ RemoveFile)
      <4>1. active' = active
        BY <3>3 DEF EditDocument, RefreshView, CheckFile, vars
      <4>. QED
        BY <4>1
    <3>. QED
      BY <3>1, <3>2, <3>3
  <2>. QED
    BY <2>1 DEF RunFor, Doing
<1>. QED
  BY <1>1, <1>2, <1>3, <1>4, SameDownloads

\* The app ends: of the downloads only what was asked of the database is left.
LEMMA RestartStep ==
  ASSUME TypeOK, RecordInv, Restart
  PROVE  RecordInv'
<1> USE DEF service, plugin, clearing, database, bounds, fileHistory, history
<1> DEFINE unheard(i) == [requests[i] EXCEPT !.heard = FALSE]
<1>1. /\ queue' = <<>> /\ active' = [w \in Worker |-> None]
      /\ calls' = <<>> /\ ui' = None /\ replies' = <<>>
      /\ requests' = [i \in DOMAIN requests |-> unheard(i)]
      /\ records' = records /\ twin' = twin
  BY DEF Restart, PluginEnds
<1> SUFFICES ASSUME NEW d \in Doc \ twin PROVE Alone(d)' /\ PutOnce(d)'
  BY <1>1 DEF RecordInv
<1>2. Alone(d) /\ PutOnce(d)
  BY DEF RecordInv
<1>3. \A i \in DOMAIN requests :
        /\ requests[i] \in Request /\ unheard(i) \in Request
        /\ unheard(i).op = requests[i].op /\ unheard(i).doc = requests[i].doc
  <2>1. \A i \in DOMAIN requests : requests[i] \in Request
    <3>1. requests \in Seq(Request)
      BY DEF TypeOK
    <3>2. DOMAIN requests = 1 .. Len(requests)
      BY <3>1, LenProperties
    <3>. QED
      BY <3>1, <3>2, ElementOfSeq
  <2>. QED
    BY <2>1 DEF Request
<1> HIDE DEF unheard
<1>4. /\ DOMAIN requests' = DOMAIN requests
      /\ \A i \in DOMAIN requests : requests'[i] = unheard(i)
  BY <1>1
<1>5. MergesFor(d)' = MergesFor(d) /\ PutsFor(d)' = PutsFor(d)
  BY <1>3, <1>4 DEF MergesFor, PutsFor, Where
<1>6. /\ QueuedFor(d)' = {} /\ RunFor(d)' = {} /\ CalledFor(d)' = {}
      /\ ~Pushing(d)' /\ AnswersFor(d)' = {}
  BY <1>1 DEF QueuedFor, RunFor, Doing, CalledFor, Pushing, AnswersFor, Where
<1>7. Alone(d)'
  BY <1>2, <1>5, <1>6 DEF Alone, One
<1>8. PutOnce(d)'
  BY <1>1, <1>2, <1>5, <1>6 DEF PutOnce
<1>. QED
  BY <1>7, <1>8

\* Only the plugin ends: what the database was asked and answered stays.
LEMMA OpenStep ==
  ASSUME TypeOK, RecordInv, NEW w \in Worker, OpenFails(w)
  PROVE  RecordInv'
<1> USE DEF service, plugin, clearing, database, bounds, fileHistory, history
<1>1. /\ queue' = <<>> /\ active' = [u \in Worker |-> None]
      /\ calls' = <<>> /\ ui' = None /\ replies' = replies
      /\ requests' = requests /\ records' = records /\ twin' = twin
  BY DEF OpenFails, PluginEnds
<1> SUFFICES ASSUME NEW d \in Doc \ twin PROVE Alone(d)' /\ PutOnce(d)'
  BY <1>1 DEF RecordInv
<1>2. Alone(d) /\ PutOnce(d)
  BY DEF RecordInv
<1>3. /\ MergesFor(d)' = MergesFor(d) /\ PutsFor(d)' = PutsFor(d)
      /\ AnswersFor(d)' = AnswersFor(d)
  BY <1>1 DEF MergesFor, PutsFor, AnswersFor
<1>4. /\ QueuedFor(d)' = {} /\ RunFor(d)' = {} /\ CalledFor(d)' = {}
      /\ ~Pushing(d)'
  BY <1>1 DEF QueuedFor, RunFor, Doing, CalledFor, Pushing, Where
<1>5. Alone(d)'
  BY <1>2, <1>3, <1>4 DEF Alone, One
<1>6. PutOnce(d)'
  BY <1>1, <1>2, <1>3 DEF PutOnce
<1>. QED
  BY <1>5, <1>6

\* A clear takes records away and moves no download.
LEMMA ClearStep ==
  ASSUME TypeOK, RecordInv, Clearing
  PROVE  RecordInv'
<1> USE DEF service, plugin, clearing, database, bounds, fileHistory, history
<1>1. /\ queue' = queue /\ active' = active /\ calls' = calls /\ ui' = ui
      /\ replies' = replies /\ requests' = requests /\ twin' = twin
  BY DEF Clearing, ClearDatabase, DeleteAll, DeleteRecord
<1> SUFFICES ASSUME NEW d \in Doc \ twin PROVE Alone(d)' /\ PutOnce(d)'
  BY <1>1 DEF RecordInv
<1>2. Alone(d) /\ PutOnce(d)
  BY DEF RecordInv
<1>3. /\ MergesFor(d)' = MergesFor(d) /\ PutsFor(d)' = PutsFor(d)
      /\ AnswersFor(d)' = AnswersFor(d) /\ QueuedFor(d)' = QueuedFor(d)
      /\ RunFor(d)' = RunFor(d) /\ CalledFor(d)' = CalledFor(d)
      /\ Pushing(d)' = Pushing(d)
  BY <1>1 DEF MergesFor, PutsFor, AnswersFor, QueuedFor, RunFor, Doing, CalledFor,
              Pushing
<1>4. Alone(d)'
  BY <1>2, <1>3 DEF Alone
<1>5. \/ records'[d] = records[d]
      \/ records[d] # <<>> /\ records'[d] = <<>> /\ Len(records'[d]) = 0
  <2>1. CASE records' = records
    BY <2>1
  <2>2. ASSUME NEW e \in Doc, DeleteRecord(e), e # d PROVE records'[d] = records[d]
    BY <2>2 DEF DeleteRecord, TypeOK
  <2>3. CASE DeleteRecord(d)
    <3>1. /\ records[d] # <<>> /\ Tail(records[d]) \in Seq(Version)
          /\ doomed[d] \in Nat \ {0} /\ doomed[d] <= Len(records[d])
          /\ Len(Tail(records[d])) = Len(records[d]) - 1
      BY <2>3, DoomedIsThere
    <3>2. Len(records[d]) \in Nat /\ Len(records[d]) <= 1
      BY <1>2, LenProperties DEF PutOnce, TypeOK
    <3> DEFINE n == Len(records[d])
               k == doomed[d]
    <3>3. Len(Tail(records[d])) = 0
      <4>1. n \in Nat /\ n <= 1 /\ k \in Nat \ {0} /\ k <= n
        BY <3>1, <3>2
      <4>2. Len(Tail(records[d])) = n - 1
        BY <3>1
      <4> HIDE DEF n, k
      <4>3. n = 1
        BY ONLY <4>1
      <4>. QED
        BY ONLY <4>2, <4>3
    <3>4. Tail(records[d]) = <<>>
      BY <3>1, <3>3, EmptySeq
    <3>5. records'[d] = Tail(records[d])
      BY <2>3 DEF DeleteRecord, TypeOK
    <3>. QED
      BY <3>1, <3>3, <3>4, <3>5
  <2>. QED
    BY <2>1, <2>2, <2>3 DEF Clearing, ClearDatabase, DeleteAll
<1>6. PutOnce(d)'
  BY <1>1, <1>2, <1>3, <1>5 DEF PutOnce
<1>. QED
  BY <1>4, <1>6

LEMMA RecordStep == TypeOK /\ RecordInv /\ [Next]_vars => RecordInv'
<1> SUFFICES ASSUME TypeOK, RecordInv, [Next]_vars PROVE RecordInv'
  OBVIOUS
<1>1. ASSUME NEW w \in Worker, RunJob(w) PROVE RecordInv'
  BY <1>1, OtherJobSteps, TakeStep, DispatchStep, AnswerStep DEF RunJob
<1>2. CASE HandleEvent
  BY <1>2, PushStep, QuietSteps, MergeStep, SucceedStep DEF HandleEvent
<1>3. CASE RefreshView \/ UNCHANGED vars
  BY <1>3, QuietSteps
<1>4. CASE ServeRequest
  BY <1>4, ServeStep
<1>5. CASE Environment
  BY <1>5, RestartStep, OpenStep, ServeStep, QuietSteps DEF Environment
<1>6. CASE Clearing
  BY <1>6, ClearStep
<1>. QED
  BY <1>1, <1>2, <1>3, <1>4, <1>5, <1>6 DEF Next, Wait

\* Merging by query, and putting a document only when the answer says that no
\* record was found, never makes a second record of a document, however the
\* steps of plugin, UI and database interleave, whatever fails and whenever the
\* database is cleared, as long as no download of it was dispatched while one
\* was under way.
THEOREM OneRecord == Spec => []NoDuplicates
<1>1. RecordInv => NoDuplicates
  BY DEF RecordInv, PutOnce, NoDuplicates
<1>. QED
  BY <1>1, RecordInit, RecordStep, Types, PTL DEF Spec
-----------------------------------------------------------------------------
(* The record is current.                                                  *)
(*                                                                         *)
(* Every stage of a download carries the version that the service answered *)
(* last, and as long as there is one, something carries it: a push, a      *)
(* merge, an answer without records, a put, or the record.  A download     *)
(* whose answer nobody hears, or that fails, has forgotten what it got.    *)

\* The versions that are on their way from the answer of the service to the
\* merge: with a worker, called, or in the hands of pushDocument.
Pushes(d) ==
  {active[w].version : w \in {u \in Worker : Doing(u, "push") /\ active[u].doc = d}}
    \cup {c.version : c \in {k \in ToSet(calls) : k.doc = d}}
    \cup (IF Pushing(d) THEN {ui.version} ELSE {})
Asked(d, op) == {r \in ToSet(requests) : r.op = op /\ r.doc = d}
Answered(d) == {r \in ToSet(replies) : r.doc = d}

Fresh(d) ==
  got[d] # None =>
    /\ Pushes(d) \subseteq {got[d]}
    /\ \A r \in Asked(d, "merge") : r.version = got[d] /\ r.heard
    /\ \A r \in Answered(d) :
         r.version = got[d] /\ (r.count = 0 \/ records[d] = <<got[d]>>)
    /\ \/ Pushes(d) # {} \/ Asked(d, "merge") # {}
       \/ \E r \in Answered(d) : r.count = 0
       \/ \E r \in Asked(d, "put") : r.version = got[d]
       \/ records[d] = <<got[d]>>

FreshInv == \A d \in Doc \ twin : Fresh(d)

LEMMA ToSetAppend ==
  ASSUME NEW T, NEW s \in Seq(T), NEW e \in T
  PROVE  ToSet(Append(s, e)) = ToSet(s) \cup {e}
<1>1. /\ Len(s) \in Nat /\ DOMAIN s = 1 .. Len(s)
      /\ DOMAIN Append(s, e) = 1 .. Len(s) + 1
      /\ \A i \in 1 .. Len(s) : Append(s, e)[i] = s[i]
      /\ Append(s, e)[Len(s) + 1] = e
  BY AppendProperties, LenProperties
<1>2. 1 .. Len(s) + 1 = (1 .. Len(s)) \cup {Len(s) + 1}
  BY <1>1
<1>. QED
  BY <1>1, <1>2 DEF ToSet

LEMMA ToSetTail ==
  ASSUME NEW T, NEW s \in Seq(T), s # <<>>
  PROVE  ToSet(s) = {Head(s)} \cup ToSet(Tail(s)) /\ ToSet(s) \subseteq T
<1>1. /\ Len(s) \in Nat \ {0} /\ DOMAIN s = 1 .. Len(s) /\ Head(s) = s[1]
      /\ DOMAIN Tail(s) = 1 .. Len(s) - 1
      /\ \A i \in 1 .. Len(s) - 1 : Tail(s)[i] = s[i + 1]
  BY HeadTailProperties, LenProperties, EmptySeq
<1>2. 1 .. Len(s) = {1} \cup {i + 1 : i \in 1 .. Len(s) - 1}
  <2>1. ASSUME NEW k \in 1 .. Len(s), k # 1
        PROVE  \E i \in 1 .. Len(s) - 1 : k = i + 1
    <3>1. k - 1 \in 1 .. Len(s) - 1 /\ k = (k - 1) + 1
      BY <1>1, <2>1
    <3>. QED
      BY <3>1
  <2>2. \A i \in 1 .. Len(s) - 1 : i + 1 \in 1 .. Len(s)
    BY <1>1
  <2>3. 1 \in 1 .. Len(s)
    BY <1>1
  <2>. QED
    BY <2>1, <2>2, <2>3
<1>3. ToSet(Tail(s)) = {s[i + 1] : i \in 1 .. Len(s) - 1}
  BY <1>1 DEF ToSet
<1>4. ToSet(s) = {s[1]} \cup {s[i + 1] : i \in 1 .. Len(s) - 1}
  BY <1>1, <1>2 DEF ToSet
<1>5. ToSet(s) \subseteq T
  BY <1>1, ElementOfSeq DEF ToSet
<1>. QED
  BY <1>1, <1>3, <1>4, <1>5

LEMMA FreshInit == Init => FreshInv
  BY DEF Init, FreshInv, Fresh

\* A step that leaves all that is on its way of a document as it is.
LEMMA FreshSame ==
  ASSUME NEW d \in Doc, Fresh(d), got'[d] = got[d], records'[d] = records[d],
         Pushes(d)' = Pushes(d), Answered(d)' = Answered(d),
         Asked(d, "merge")' = Asked(d, "merge"),
         Asked(d, "put")' = Asked(d, "put")
  PROVE  Fresh(d)'
  BY DEF Fresh

\* The document that is pushed stays the same until its merge.
LEMMA PushingSame ==
  ASSUME TypeOK, CheckFile \/ RemoveFile
  PROVE  /\ ui # None /\ ui' # None
         /\ ui'.doc = ui.doc /\ ui'.version = ui.version
<1>1. /\ ui # None /\ ui.todo # <<>>
      /\ \/ ui' = [ui EXCEPT !.todo = Tail(@), !.stale = FALSE]
         \/ ui' = [ui EXCEPT !.todo = Tail(@)]
         \/ ui' = [ui EXCEPT !.stale = TRUE]
  BY DEF CheckFile, RemoveFile, FetchNext, TypeOK
<1>2. ui \in Push
  BY <1>1 DEF TypeOK
<1>3. Tail(ui.todo) \in Seq(Path)
  <2>1. ui.todo \in Seq(Path)
    BY <1>2 DEF Push
  <2>. QED
    BY <1>1, <2>1, HeadTailProperties
<1>4. ui' \in Push /\ ui'.doc = ui.doc /\ ui'.version = ui.version
  BY <1>1, <1>2, <1>3 DEF Push
<1>. QED
  BY <1>1, <1>4, NoneAssumption

PushedBy(d) == {w \in Worker : Doing(w, "push") /\ active[w].doc = d}

LEMMA PushBecome ==
  ASSUME TypeOK, NEW w \in Worker, NEW j, Become(w, j), NEW d
  PROVE  /\ PushedBy(d)' = IF j # None /\ j.do = "push" /\ j.doc = d
                           THEN PushedBy(d) \cup {w} ELSE PushedBy(d) \ {w}
         /\ active'[w] = j /\ \A u \in Worker \ {w} : active'[u] = active[u]
<1>1. active'[w] = j /\ \A u \in Worker \ {w} : active'[u] = active[u]
  BY DEF Become, TypeOK
<1>. QED
  BY <1>1 DEF PushedBy, Doing

\* The jobs that push nothing and turn to no push.
LEMMA PushesNothing ==
  ASSUME TypeOK,
         \/ \E d \in Doc : EditDocument(d)
         \/ ChangeListing \/ RefreshView \/ CheckFile \/ RemoveFile
         \/ UNCHANGED vars
         \/ \E w \in Worker :
              \/ TakeJob(w) \/ GetLibraryPage(w) \/ DispatchDocument(w)
              \/ GetDocumentFails(w) \/ FetchFile(w) \/ FetchFileFails(w)
              \/ WriteFile(w) \/ CloseFile(w),
         NEW u \in Worker
  PROVE  \/ active'[u] = active[u]
         \/ ~Doing(u, "push") /\ ~Doing(u, "push")'
<1> USE DEF service, plugin, clearing, database, bounds, fileHistory, history
<1>1. CASE \/ \E d \in Doc : EditDocument(d)
           \/ RefreshView \/ CheckFile \/ UNCHANGED vars
  BY <1>1 DEF EditDocument, RefreshView, CheckFile, vars
<1>2. CASE ChangeListing
  <2>1. CASE Paging(u)
    <3>1. active[u] \in LibraryJobs /\ Doing(u, "library")
      BY <2>1, JobKinds DEF Paging
    <3>2. [active[u] EXCEPT !.stayed = {}].do = "library"
      BY <3>1 DEF LibraryJobs
    <3>3. \/ active' = active
          \/ active'[u] = [active[u] EXCEPT !.stayed = {}]
      BY <1>2, <2>1 DEF ChangeListing
    <3>. QED
      BY <3>1, <3>2, <3>3 DEF Doing
  <2>2. CASE ~Paging(u)
    BY <1>2, <2>2 DEF ChangeListing
  <2>. QED
    BY <2>1, <2>2
<1>3. CASE RemoveFile
  <2> DEFINE Open == (Doing(u, "write") \/ Doing(u, "close"))
                       /\ active[u].path = Head(ui.todo)
  <2>1. CASE Open
    <3>1. active[u] \in WriteJobs /\ (Doing(u, "write") \/ Doing(u, "close"))
      BY <2>1, JobKinds
    <3>2. [active[u] EXCEPT !.linked = FALSE].do \in {"write", "close"}
      BY <3>1 DEF WriteJobs
    <3>3. active'[u] = [active[u] EXCEPT !.linked = FALSE]
      BY <1>3, <2>1 DEF RemoveFile, UnlinkFile
    <3>. QED
      BY <3>1, <3>2, <3>3 DEF Doing
  <2>2. CASE ~Open
    BY <1>3, <2>2 DEF RemoveFile, UnlinkFile
  <2>. QED
    BY <2>1, <2>2
<1>4. ASSUME NEW w \in Worker,
             \/ TakeJob(w) \/ GetLibraryPage(w) \/ DispatchDocument(w)
             \/ GetDocumentFails(w) \/ FetchFile(w) \/ FetchFileFails(w)
             \/ WriteFile(w) \/ CloseFile(w)
      PROVE  \/ active'[u] = active[u]
             \/ ~Doing(u, "push") /\ ~Doing(u, "push")'
  <2>1. ~Doing(w, "push")
    BY <1>4 DEF TakeJob, GetLibraryPage, DispatchDocument, GetDocumentFails,
                FetchFile, FetchFileFails, WriteFile, CloseFile, Doing
  <2>2. \E j : Become(w, j) /\ (j = None \/ j.do # "push")
    <3>1. CASE TakeJob(w)
      <4>1. Head(queue) \in QueuedJob
        BY <3>1, HeadTailProperties DEF TakeJob, TypeOK
      <4>2. Head(queue).do # "push"
        BY <4>1 DEF QueuedJob, LibraryJob, DocumentJobs, FetchJobs
      <4>. QED
        BY <3>1, <4>2 DEF TakeJob
    <3>2. CASE GetLibraryPage(w)
      <4>1. active[w] \in LibraryJobs
        BY <3>2, JobKinds DEF GetLibraryPage
      <4> DEFINE ids == active[w].ids \o PageIds(active[w].page)
                 over == [do |-> "dispatch", ids |-> ids]
                 more == [active[w] EXCEPT !.page = @ + 1, !.ids = ids,
                            !.size = ArraySize(active[w]),
                            !.stayed = IF active[w].page = 0 THEN ToSet(listing)
                                       ELSE @]
      <4>2. over.do = "dispatch" /\ more.do = "library"
        BY <4>1 DEF LibraryJobs
      <4>3. Become(w, over) \/ Become(w, more)
        BY <3>2 DEF GetLibraryPage
      <4> HIDE DEF over, more
      <4>. QED
        BY <4>2, <4>3
    <3>3. CASE DispatchDocument(w)
      <4>1. active[w] \in DispatchJobs
        BY <3>3, JobKinds DEF DispatchDocument
      <4>2. [active[w] EXCEPT !.ids = Front(active[w].ids)].do = "dispatch"
        BY <4>1 DEF DispatchJobs
      <4>. QED
        BY <3>3, <4>2 DEF DispatchDocument
    <3>4. CASE FetchFile(w)
      BY <3>4 DEF FetchFile
    <3>5. CASE WriteFile(w)
      <4>1. active[w] \in WriteJobs
        BY <3>5, JobKinds DEF WriteFile
      <4>2. [active[w] EXCEPT !.do = "close"].do = "close"
        BY <4>1 DEF WriteJobs
      <4>. QED
        BY <3>5, <4>2 DEF WriteFile
    <3>6. CASE GetDocumentFails(w) \/ FetchFileFails(w) \/ CloseFile(w)
      BY <3>6 DEF GetDocumentFails, FetchFileFails, CloseFile
    <3>. QED
      BY <1>4, <3>1, <3>2, <3>3, <3>4, <3>5, <3>6
  <2>3. PICK j : Become(w, j) /\ (j = None \/ j.do # "push")
    BY <2>2
  <2>4. active'[w] = j /\ \A v \in Worker \ {w} : active'[v] = active[v]
    BY <2>3 DEF Become, TypeOK
  <2>. QED
    BY <2>1, <2>3, <2>4 DEF Doing
<1>. QED
  BY <1>1, <1>2, <1>3, <1>4

LEMMA FreshOtherSteps ==
  ASSUME TypeOK, FreshInv,
         \/ \E d \in Doc : EditDocument(d)
         \/ ChangeListing \/ RefreshView \/ CheckFile \/ RemoveFile
         \/ UNCHANGED vars
         \/ \E w \in Worker :
              \/ TakeJob(w) \/ GetLibraryPage(w) \/ DispatchDocument(w)
              \/ GetDocumentFails(w) \/ FetchFile(w) \/ FetchFileFails(w)
              \/ WriteFile(w) \/ CloseFile(w)
  PROVE  FreshInv'
<1> USE DEF service, plugin, clearing, database, bounds, fileHistory, history
<1>1. /\ got' = got /\ records' = records /\ requests' = requests
      /\ replies' = replies /\ calls' = calls /\ twin \subseteq twin'
  BY DEF EditDocument, ChangeListing, RefreshView, CheckFile, RemoveFile, vars,
         TakeJob, GetLibraryPage, DispatchDocument, GetDocumentFails, FetchFile,
         FetchFileFails, WriteFile, CloseFile
<1>2. \A u \in Worker : \/ active'[u] = active[u]
                        \/ ~Doing(u, "push") /\ ~Doing(u, "push")'
  BY PushesNothing
<1>3. \/ ui' = ui
      \/ /\ ui # None /\ ui' # None
         /\ ui'.doc = ui.doc /\ ui'.version = ui.version
  <2>1. CASE CheckFile \/ RemoveFile
    BY <2>1, PushingSame
  <2>2. CASE ~(CheckFile \/ RemoveFile)
    BY <2>2 DEF EditDocument, ChangeListing, RefreshView, vars,
         TakeJob, GetLibraryPage, DispatchDocument, GetDocumentFails, FetchFile,
         FetchFileFails, WriteFile, CloseFile
  <2>. QED
    BY <2>1, <2>2
<1>4. ASSUME NEW d \in Doc \ twin' PROVE Fresh(d)'
  <2>1. /\ PushedBy(d)' = PushedBy(d)
        /\ \A w \in PushedBy(d) : active'[w] = active[w]
    BY <1>2 DEF PushedBy, Doing
  <2>2. {active'[w].version : w \in PushedBy(d)'}
          = {active[w].version : w \in PushedBy(d)}
    BY <2>1
  <2>3. /\ Pushing(d)' = Pushing(d)
        /\ Pushing(d) => ui'.version = ui.version
    BY <1>3 DEF Pushing
  <2>4. Pushes(d)' = Pushes(d)
    BY <1>1, <2>2, <2>3 DEF Pushes, PushedBy
  <2>5. /\ Answered(d)' = Answered(d) /\ Asked(d, "merge")' = Asked(d, "merge")
        /\ Asked(d, "put")' = Asked(d, "put")
    BY <1>1 DEF Answered, Asked
  <2>6. Fresh(d)
    BY <1>1 DEF FreshInv
  <2>. QED
    BY <1>1, <2>4, <2>5, <2>6, FreshSame
<1>. QED
  BY <1>4 DEF FreshInv

LEMMA NothingOnItsWay ==
  ASSUME TypeOK, NEW d \in Doc
  PROVE  /\ AnswersFor(d) = {} <=> Answered(d) = {}
         /\ MergesFor(d) = {} <=> Asked(d, "merge") = {}
         /\ PutsFor(d) = {} <=> Asked(d, "put") = {}
         /\ One(PutsFor(d)) => One(Asked(d, "put"))
         /\ CalledFor(d) = {} <=> {k \in ToSet(calls) : k.doc = d} = {}
         /\ PushedBy(d) \subseteq RunFor(d)
<1>1. /\ \A i \in DOMAIN replies : replies[i] \in Reply
      /\ \A i \in DOMAIN requests : requests[i] \in Request
      /\ \A i \in DOMAIN calls : calls[i] \in Call
  <2>1. /\ DOMAIN replies = 1 .. Len(replies) /\ DOMAIN calls = 1 .. Len(calls)
        /\ DOMAIN requests = 1 .. Len(requests)
    BY LenProperties DEF TypeOK
  <2>. QED
    BY <2>1, ElementOfSeq DEF TypeOK
<1>2. AnswersFor(d) = {} <=> Answered(d) = {}
  BY <1>1 DEF AnswersFor, Answered, Where, ToSet
<1>3. /\ MergesFor(d) = {} <=> Asked(d, "merge") = {}
      /\ PutsFor(d) = {} <=> Asked(d, "put") = {}
  BY <1>1 DEF MergesFor, PutsFor, Asked, Where, ToSet
<1>4. One(PutsFor(d)) => One(Asked(d, "put"))
  BY <1>1 DEF PutsFor, Asked, Where, ToSet, One
<1>5. CalledFor(d) = {} <=> {k \in ToSet(calls) : k.doc = d} = {}
  BY <1>1 DEF CalledFor, Where, ToSet
<1>6. PushedBy(d) \subseteq RunFor(d)
  BY DEF PushedBy, RunFor
<1>. QED
  BY <1>2, <1>3, <1>4, <1>5, <1>6

\* The service answers: nothing of an earlier download is on its way any more
\* but a put, which comes before the merge to be.
LEMMA FreshGetStep ==
  ASSUME TypeOK, RecordInv, FreshInv, NEW w \in Worker, GetDocument(w)
  PROVE  FreshInv'
<1> USE DEF service, plugin, clearing, database, bounds, fileHistory, history
<1>0. PICK e \in Doc : e = active[w].doc
  BY JobKinds DEF GetDocument, DocumentJobs
<1> DEFINE push == [do |-> "push", doc |-> e, version |-> version[e]]
<1>1. /\ Doing(w, "document") /\ Become(w, push)
      /\ got' = [got EXCEPT ![e] = version[e]]
      /\ ui' = ui /\ records' = records /\ requests' = requests
      /\ replies' = replies /\ calls' = calls /\ twin' = twin
  BY <1>0 DEF GetDocument
<1>2. push # None
  <2>1. push \in PushJobs
    BY DEF PushJobs, TypeOK
  <2>. QED
    BY <2>1, NoneAssumption DEF RunningJob
<1>3. /\ push.do = "push" /\ push.doc = e /\ push.version = version[e]
  OBVIOUS
<1>4. ASSUME NEW d \in Doc
      PROVE  /\ Answered(d)' = Answered(d) /\ Asked(d, "merge")' = Asked(d, "merge")
             /\ Asked(d, "put")' = Asked(d, "put") /\ Pushing(d)' = Pushing(d)
  BY <1>1 DEF Answered, Asked, Pushing
<1> HIDE DEF push
<1>5. /\ active'[w] = push /\ \A u \in Worker \ {w} : active'[u] = active[u]
      /\ \A d \in Doc : PushedBy(d)' = IF d = e THEN PushedBy(d) \cup {w}
                                       ELSE PushedBy(d) \ {w}
  BY <1>1, <1>2, <1>3, PushBecome
<1>6. \A d \in Doc : w \notin PushedBy(d)
  BY <1>1 DEF PushedBy, Doing
<1>7. ASSUME NEW d \in Doc \ twin, d # e PROVE Fresh(d)'
  <2>1. {active'[u].version : u \in PushedBy(d)'}
          = {active[u].version : u \in PushedBy(d)}
    <3>1. PushedBy(d)' = PushedBy(d) /\ PushedBy(d) \subseteq Worker \ {w}
      BY <1>5, <1>6, <1>7 DEF PushedBy
    <3>. QED
      BY <1>5, <3>1
  <2>2. Pushes(d)' = Pushes(d)
    BY <1>1, <1>4, <2>1 DEF Pushes, PushedBy
  <2>3. got'[d] = got[d] /\ records'[d] = records[d] /\ Fresh(d)
    BY <1>1, <1>7 DEF TypeOK, FreshInv
  <2>. QED
    BY <1>4, <2>2, <2>3, FreshSame
<1>8. ASSUME e \notin twin PROVE Fresh(e)'
  <2>1. w \in RunFor(e) /\ Alone(e)
    BY <1>0, <1>1, <1>8 DEF RunFor, RecordInv
  <2>2. /\ RunFor(e) = {w} /\ CalledFor(e) = {} /\ ~Pushing(e)
        /\ MergesFor(e) = {} /\ AnswersFor(e) = {}
    BY <2>1 DEF Alone, One
  <2>3. /\ PushedBy(e) = {} /\ {k \in ToSet(calls) : k.doc = e} = {}
        /\ Asked(e, "merge") = {} /\ Answered(e) = {}
    BY <1>2, <1>6, <2>2, NothingOnItsWay
  <2>4. {active'[u].version : u \in PushedBy(e)'} = {version[e]}
    BY <1>2, <1>3, <1>5, <2>3
  <2> DEFINE Called(d) == {c.version : c \in {k \in ToSet(calls) : k.doc = d}}
  <2>5. Pushes(e)' = {version[e]}
    <3>1. \A d \in Doc :
            Pushes(d)' = {active'[u].version : u \in PushedBy(d)'} \cup Called(d)'
                           \cup (IF Pushing(d)' THEN {ui'.version} ELSE {})
      BY DEF Pushes, PushedBy
    <3>2. Called(e)' = {}
      BY <1>1, <2>3
    <3>3. ~Pushing(e)'
      BY <1>2, <1>4, <2>2
    <3>. QED
      BY <1>2, <2>4, <3>1, <3>2, <3>3
  <2>6. got'[e] = version[e]
    BY <1>1, <1>2 DEF TypeOK
  <2>. QED
    BY <1>2, <1>4, <2>3, <2>5, <2>6 DEF Fresh
<1>. QED
  BY <1>1, <1>7, <1>8 DEF FreshInv

\* The answer is called to the UI, pushDocument begins with it, and at its end
\* asks for the merge.
LEMMA FreshCallStep ==
  ASSUME TypeOK, FreshInv, NEW w \in Worker, CallPushDocument(w)
  PROVE  FreshInv'
<1> USE DEF service, plugin, clearing, database, bounds, fileHistory, history
<1>0. PICK e \in Doc, v \in Version : e = active[w].doc /\ v = active[w].version
  BY JobKinds DEF CallPushDocument, PushJobs
<1> DEFINE call == [doc |-> e, version |-> v]
<1>1. /\ Doing(w, "push") /\ Become(w, None) /\ calls' = Append(calls, call)
      /\ got' = got /\ ui' = ui /\ records' = records /\ requests' = requests
      /\ replies' = replies /\ twin' = twin
  BY <1>0 DEF CallPushDocument
<1>2. ToSet(calls') = ToSet(calls) \cup {call}
  <2>1. call \in Call /\ calls \in Seq(Call)
    BY DEF Call, TypeOK
  <2>. QED
    BY <1>1, <2>1, ToSetAppend
<1>3. /\ \A u \in Worker \ {w} : active'[u] = active[u]
      /\ \A d \in Doc : PushedBy(d)' = PushedBy(d) \ {w}
  BY <1>1, PushBecome
<1>4. ASSUME NEW d \in Doc \ twin PROVE Fresh(d)'
  <2>1. /\ Answered(d)' = Answered(d) /\ Asked(d, "merge")' = Asked(d, "merge")
        /\ Asked(d, "put")' = Asked(d, "put") /\ Pushing(d)' = Pushing(d)
    BY <1>1 DEF Answered, Asked, Pushing
  <2>2. w \in PushedBy(d) <=> d = e
    BY <1>0, <1>1 DEF PushedBy
  <2>3. {active'[u].version : u \in PushedBy(d)'}
          = {active[u].version : u \in PushedBy(d) \ {w}}
    <3>1. PushedBy(d) \subseteq Worker
      BY DEF PushedBy
    <3>. QED
      BY <1>3, <3>1
  <2>4. {k \in ToSet(calls') : k.doc = d}
          = {k \in ToSet(calls) : k.doc = d} \cup (IF d = e THEN {call} ELSE {})
    BY <1>2
  <2>5. Pushes(d)' = Pushes(d)
    <3> DEFINE Called == {c.version : c \in {k \in ToSet(calls) : k.doc = d}}
               Shown == IF Pushing(d) THEN {ui.version} ELSE {}
    <3>1. Pushes(d) = {active[u].version : u \in PushedBy(d)} \cup Called
                        \cup Shown
      BY DEF Pushes, PushedBy
    <3>2. Pushes(d)' = {active'[u].version : u \in PushedBy(d)'} \cup Called'
                        \cup Shown'
      BY DEF Pushes, PushedBy
    <3>3. Called' = Called \cup (IF d = e THEN {v} ELSE {})
      <4>1. call.version = v
        OBVIOUS
      <4> HIDE DEF call
      <4>. QED
        BY <2>4, <4>1
    <3>4. Shown' = Shown
      BY <1>1, <2>1
    <3>5. {active[u].version : u \in PushedBy(d)}
            = {active[u].version : u \in PushedBy(d) \ {w}}
                \cup (IF d = e THEN {v} ELSE {})
      BY <1>0, <2>2
    <3> HIDE DEF Called, Shown
    <3>. QED
      BY <2>3, <3>1, <3>2, <3>3, <3>4, <3>5
  <2>6. Fresh(d)
    BY DEF FreshInv
  <2>. QED
    BY <1>1, <2>1, <2>5, <2>6, FreshSame
<1>. QED
  BY <1>1, <1>4 DEF FreshInv

LEMMA FreshPushStep ==
  ASSUME TypeOK, FreshInv, PushDocument
  PROVE  FreshInv'
<1> USE DEF service, plugin, clearing, database, bounds, fileHistory, history
<1>0. PICK call \in Call : call = Head(calls)
  BY HeadTailProperties DEF PushDocument, TypeOK
<1> DEFINE push == [doc |-> call.doc, version |-> call.version,
                    todo |-> FilesOf[call.doc], stale |-> FALSE]
<1>1. /\ ui = None /\ calls # <<>> /\ calls' = Tail(calls) /\ ui' = push
      /\ got' = got /\ active' = active /\ records' = records
      /\ requests' = requests /\ replies' = replies /\ twin' = twin
  BY <1>0 DEF PushDocument
<1>2. push # None /\ push.doc = call.doc /\ push.version = call.version
  <2>1. push \in Push
    BY SyncAssumption DEF Call, Push
  <2>. QED
    BY <2>1, NoneAssumption
<1>3. ToSet(calls) = ToSet(calls') \cup {call}
  BY <1>0, <1>1, ToSetTail DEF TypeOK
<1> HIDE DEF push
<1>4. ASSUME NEW d \in Doc \ twin PROVE Fresh(d)'
  <2>1. /\ Answered(d)' = Answered(d) /\ Asked(d, "merge")' = Asked(d, "merge")
        /\ Asked(d, "put")' = Asked(d, "put") /\ ~Pushing(d)
        /\ Pushing(d)' <=> call.doc = d
    BY <1>1, <1>2 DEF Answered, Asked, Pushing
  <2>2. Pushes(d)' = Pushes(d)
    <3> DEFINE Run == {active[u].version : u \in PushedBy(d)}
               Called == {c.version : c \in {k \in ToSet(calls) : k.doc = d}}
    <3>1. Pushes(d) = Run \cup Called
      BY <2>1 DEF Pushes, PushedBy
    <3>2. Pushes(d)' = Run' \cup Called'
                         \cup (IF call.doc = d THEN {call.version} ELSE {})
      BY <1>1, <1>2, <2>1 DEF Pushes, PushedBy
    <3>3. Called = Called' \cup (IF call.doc = d THEN {call.version} ELSE {})
      <4>1. {k \in ToSet(calls) : k.doc = d} = {k \in ToSet(calls') : k.doc = d}
              \cup (IF call.doc = d THEN {call} ELSE {})
        BY <1>3
      <4>. QED
        BY <4>1
    <3>4. Run' = Run
      BY <1>1 DEF PushedBy, Doing
    <3> HIDE DEF Run, Called
    <3>. QED
      BY <3>1, <3>2, <3>3, <3>4
  <2>3. Fresh(d)
    BY DEF FreshInv
  <2>. QED
    BY <1>1, <2>1, <2>2, <2>3, FreshSame
<1>. QED
  BY <1>1, <1>4 DEF FreshInv

LEMMA FreshMergeStep ==
  ASSUME TypeOK, FreshInv, MergeDocument
  PROVE  FreshInv'
<1> USE DEF service, plugin, clearing, database, bounds, fileHistory, history
<1>0. PICK e \in Doc, v \in Version : e = ui.doc /\ v = ui.version
  BY DEF MergeDocument, TypeOK, Push
<1> DEFINE request == [op |-> "merge", doc |-> e, version |-> v, heard |-> TRUE]
<1>1. /\ ui # None /\ ui' = None /\ requests' = Append(requests, request)
      /\ got' = got /\ active' = active /\ records' = records
      /\ replies' = replies /\ calls' = calls /\ twin' = twin
  BY <1>0 DEF MergeDocument
<1>2. ToSet(requests') = ToSet(requests) \cup {request}
  <2>1. request \in Request /\ requests \in Seq(Request)
    BY DEF Request, TypeOK
  <2> HIDE DEF request
  <2>. QED
    BY <1>1, <2>1, ToSetAppend
<1>3. request.op = "merge" /\ request.doc = e
  OBVIOUS
<1>4. ASSUME NEW d \in Doc \ twin PROVE Fresh(d)'
  <2>1. /\ Answered(d)' = Answered(d) /\ Asked(d, "put")' = Asked(d, "put")
        /\ Asked(d, "merge")' = Asked(d, "merge")
                                  \cup (IF d = e THEN {request} ELSE {})
        /\ Pushing(d) <=> d = e
        /\ ~Pushing(d)'
    <3>1. /\ Answered(d)' = Answered(d) /\ ~Pushing(d)'
          /\ Pushing(d) <=> d = e
      BY <1>0, <1>1 DEF Answered, Pushing
    <3> HIDE DEF request
    <3>2. /\ Asked(d, "put")' = Asked(d, "put")
          /\ Asked(d, "merge")' = Asked(d, "merge")
                                    \cup (IF d = e THEN {request} ELSE {})
      BY <1>2, <1>3 DEF Asked
    <3>. QED
      BY <3>1, <3>2
  <2>2. Pushes(d) = Pushes(d)' \cup (IF d = e THEN {v} ELSE {})
    <3> DEFINE Run == {active[u].version : u \in PushedBy(d)}
               Called == {c.version : c \in {k \in ToSet(calls) : k.doc = d}}
    <3>1. Pushes(d) = Run \cup Called \cup (IF d = e THEN {v} ELSE {})
      BY <1>0, <2>1 DEF Pushes, PushedBy
    <3>2. Pushes(d)' = Run' \cup Called'
      BY <2>1 DEF Pushes, PushedBy
    <3>3. Run' = Run /\ Called' = Called
      BY <1>1 DEF PushedBy, Doing
    <3> HIDE DEF Run, Called
    <3>. QED
      BY <3>1, <3>2, <3>3
  <2>3. got'[d] = got[d] /\ records'[d] = records[d] /\ Fresh(d)
    BY <1>1 DEF FreshInv
  <2>4. CASE d # e
    BY <2>1, <2>2, <2>3, <2>4, FreshSame
  <2>5. CASE d = e
    <3>1. request.version = v /\ request.heard
      OBVIOUS
    <3> HIDE DEF request
    <3>. QED
      BY <2>1, <2>2, <2>3, <2>5, <3>1 DEF Fresh
  <2>. QED
    BY <2>4, <2>5
<1>. QED
  BY <1>1, <1>4 DEF FreshInv

\* The answer to a merge found no record, and the put carries the version on,
\* or it found one, which the merge has made current.
LEMMA FreshSucceedStep ==
  ASSUME TypeOK, FreshInv, MergeSucceeded
  PROVE  FreshInv'
<1> USE DEF service, plugin, clearing, database, bounds, fileHistory, history
<1>0. PICK reply \in Reply : reply = Head(replies)
  BY HeadTailProperties DEF MergeSucceeded, TypeOK
<1> DEFINE request == [op |-> "put", doc |-> reply.doc,
                       version |-> reply.version, heard |-> TRUE]
<1>1. /\ requests' = IF NotFound(reply) THEN Append(requests, request)
                     ELSE requests
      /\ replies # <<>> /\ replies' = Tail(replies)
      /\ got' = got /\ active' = active /\ records' = records
      /\ ui' = ui /\ calls' = calls /\ twin' = twin
  BY <1>0 DEF MergeSucceeded
<1>2. ToSet(requests') = ToSet(requests)
                           \cup (IF reply.count = 0 THEN {request} ELSE {})
  <2>1. request \in Request /\ requests \in Seq(Request)
    BY DEF Request, Reply, TypeOK
  <2> HIDE DEF request
  <2>2. ToSet(Append(requests, request)) = ToSet(requests) \cup {request}
    BY <2>1, ToSetAppend
  <2>. QED
    BY <1>1, <2>2 DEF NotFound
<1>3. ToSet(replies) = ToSet(replies') \cup {reply}
  BY <1>0, <1>1, ToSetTail DEF TypeOK
<1>4. request.op = "put" /\ request.doc = reply.doc
      /\ request.version = reply.version
  OBVIOUS
<1> HIDE DEF request
<1>5. ASSUME NEW d \in Doc \ twin PROVE Fresh(d)'
  <2>1. /\ Asked(d, "merge")' = Asked(d, "merge")
        /\ Asked(d, "put")' = Asked(d, "put")
             \cup (IF reply.count = 0 /\ reply.doc = d THEN {request} ELSE {})
        /\ Answered(d) = Answered(d)' \cup (IF reply.doc = d THEN {reply} ELSE {})
    BY <1>2, <1>3, <1>4 DEF Answered, Asked
  <2>2. Pushes(d)' = Pushes(d)
    BY <1>1 DEF Pushes, Pushing, Doing
  <2>3. got'[d] = got[d] /\ records'[d] = records[d] /\ Fresh(d)
    BY <1>1 DEF FreshInv
  <2>4. CASE reply.doc # d
    BY <2>1, <2>2, <2>3, <2>4, FreshSame
  <2>5. CASE reply.doc = d
    BY <1>4, <2>1, <2>2, <2>3, <2>5 DEF Fresh
  <2>. QED
    BY <2>4, <2>5
<1>. QED
  BY <1>1, <1>5 DEF FreshInv

\* The database: a merge makes the record it finds current, or finds none and
\* says so; a put makes the record, and only one that carries the version that
\* was got last is the last of what is on its way.
LEMMA FreshServeStep ==
  ASSUME TypeOK, RecordInv, FreshInv, ServeRequest
  PROVE  FreshInv'
<1> USE DEF service, plugin, clearing, database, bounds, fileHistory, history
<1>0. PICK r \in Request : r = Head(requests)
  BY HeadTailProperties DEF ServeRequest, TypeOK
<1>1. /\ requests # <<>> /\ requests' = Tail(requests)
      /\ got' = got /\ active' = active /\ ui' = ui /\ calls' = calls
      /\ twin' = twin /\ r.doc \in Doc /\ r.op \in {"merge", "put"}
  BY DEF ServeRequest, Request
<1>2. ToSet(requests) = ToSet(requests') \cup {r}
  BY <1>0, <1>1, ToSetTail DEF TypeOK
<1>3. PICK n \in Nat : n = Len(records[r.doc])
  BY <1>1, LenProperties DEF TypeOK
<1> DEFINE reply == [doc |-> r.doc, version |-> r.version, count |-> n]
<1>4. reply.doc = r.doc /\ reply.version = r.version /\ reply.count = n
  OBVIOUS
<1>5. \A d \in Doc : Pushes(d)' = Pushes(d)
  BY <1>1 DEF Pushes, Pushing, Doing
<1>6. CASE r.op = "merge"
  <2>1. /\ records' = [records EXCEPT ![r.doc] =
                         [i \in DOMAIN records[r.doc] |-> r.version]]
        /\ replies' = IF r.heard THEN Append(replies, reply) ELSE replies
    BY <1>0, <1>3, <1>6 DEF ServeRequest
  <2>2. ToSet(replies') = ToSet(replies) \cup (IF r.heard THEN {reply} ELSE {})
    <3>1. reply \in Reply /\ replies \in Seq(Reply)
      BY <1>1 DEF Reply, Request, TypeOK
    <3> HIDE DEF reply
    <3>2. ToSet(Append(replies, reply)) = ToSet(replies) \cup {reply}
      BY <3>1, ToSetAppend
    <3>. QED
      BY <2>1, <3>2
  <2>3. /\ \A d \in Doc \ {r.doc} : records'[d] = records[d]
        /\ n = 0 => records'[r.doc] = <<>>
        /\ n = 1 => records'[r.doc] = <<r.version>>
    <3>1. DOMAIN records[r.doc] = 1 .. n
      BY <1>1, <1>3, LenProperties DEF TypeOK
    <3>2. records'[r.doc] = [i \in 1 .. n |-> r.version]
      BY <1>1, <2>1, <3>1 DEF TypeOK
    <3>. QED
      BY <1>1, <2>1, <3>2 DEF TypeOK
  <2> HIDE DEF reply
  <2>4. ASSUME NEW d \in Doc \ twin PROVE Fresh(d)'
    <3>1. /\ Asked(d, "put")' = Asked(d, "put")
          /\ Asked(d, "merge") = Asked(d, "merge")'
                                   \cup (IF r.doc = d THEN {r} ELSE {})
          /\ Answered(d)' = Answered(d)
               \cup (IF r.heard /\ r.doc = d THEN {reply} ELSE {})
      BY <1>2, <1>4, <1>6, <2>2 DEF Asked, Answered
    <3>2. CASE r.doc # d
      <4>1. got'[d] = got[d] /\ records'[d] = records[d] /\ Fresh(d)
        BY <1>1, <2>3, <3>2 DEF FreshInv
      <4>. QED
        BY <1>5, <3>1, <3>2, <4>1, FreshSame
    <3>3. CASE r.doc = d
      <4> SUFFICES ASSUME got[d] # None PROVE Fresh(d)'
        BY <1>1 DEF Fresh
      <4>1. /\ Pushes(d) \subseteq {got[d]}
            /\ \A q \in Asked(d, "merge") : q.version = got[d] /\ q.heard
            /\ \A q \in Answered(d) :
                 q.version = got[d] /\ (q.count = 0 \/ records[d] = <<got[d]>>)
        BY DEF FreshInv, Fresh
      <4>2. r.version = got[d] /\ r.heard
        BY <3>1, <3>3, <4>1
      <4>0. n = Len(records[d])
        BY <1>3, <3>3
      <4>3. n \in {0, 1}
        <5>1. n <= 1
          BY <4>0 DEF RecordInv, PutOnce
        <5>. QED
          BY <5>1
      <4>4. CASE n = 1
        <5>1. records'[d] = <<got[d]>>
          BY <2>3, <3>3, <4>2, <4>4
        <5>. QED
          BY <1>1, <1>4, <1>5, <3>1, <4>1, <4>2, <5>1 DEF Fresh
      <4>5. CASE n = 0
        <5>1. records[d] # <<got[d]>>
          <6>1. \A x : Len(<<x>>) # 0
            OBVIOUS
          <6>2. Len(records[d]) = 0
            BY <4>0, <4>5
          <6>. QED
            BY <6>1, <6>2
        <5>2. reply.count = 0 /\ reply.version = got[d] /\ reply \in Answered(d)'
          BY <1>4, <3>1, <3>3, <4>2, <4>5
        <5>3. \A q \in Answered(d)' : q.version = got[d] /\ q.count = 0
          BY <3>1, <4>1, <5>1, <5>2
        <5>. QED
          BY <1>1, <1>5, <3>1, <4>1, <5>2, <5>3 DEF Fresh
      <4>. QED
        BY <4>3, <4>4, <4>5
    <3>. QED
      BY <3>2, <3>3
  <2>. QED
    BY <1>1, <2>4 DEF FreshInv
<1>7. CASE r.op = "put"
  <2>1. /\ records' = [records EXCEPT ![r.doc] = Append(records[r.doc], r.version)]
        /\ replies' = replies
    BY <1>0, <1>7 DEF ServeRequest
  <2>2. ASSUME NEW d \in Doc \ twin PROVE Fresh(d)'
    <3>1. /\ Asked(d, "merge")' = Asked(d, "merge")
          /\ Asked(d, "put") = Asked(d, "put")'
                                 \cup (IF r.doc = d THEN {r} ELSE {})
          /\ Answered(d)' = Answered(d)
      BY <1>2, <1>7, <2>1 DEF Asked, Answered
    <3>2. CASE r.doc # d
      <4>1. got'[d] = got[d] /\ records'[d] = records[d] /\ Fresh(d)
        BY <1>1, <2>1, <3>2 DEF FreshInv, TypeOK
      <4>. QED
        BY <1>5, <3>1, <3>2, <4>1, FreshSame
    <3>3. CASE r.doc = d
      <4> SUFFICES ASSUME got[d] # None PROVE Fresh(d)'
        BY <1>1 DEF Fresh
      <4>1. Fresh(d) /\ PutOnce(d)
        BY DEF FreshInv, RecordInv
      <4>2. /\ PutsFor(d) # {} /\ Asked(d, "put") = {r}
        <5>1. PutsFor(d) # {}
          BY <3>1, <3>3, NothingOnItsWay
        <5>2. One(Asked(d, "put"))
          BY <4>1, NothingOnItsWay DEF PutOnce
        <5>. QED
          BY <3>1, <3>3, <5>1, <5>2 DEF One
      <4>3. records[d] = <<>>
        BY <4>1, <4>2 DEF PutOnce
      <4>4. Answered(d) = {}
        <5>1. ASSUME NEW q \in Answered(d) PROVE FALSE
          <6>1. AnswersFor(d) # {}
            BY <5>1, NothingOnItsWay
          <6>2. q.count = 0
            BY <4>1, <4>3, <5>1 DEF Fresh
          <6>3. PICK i \in DOMAIN replies : replies[i] = q
            BY <5>1 DEF Answered, ToSet
          <6>4. replies[i] \in Reply /\ q.doc = d
            <7>1. DOMAIN replies = 1 .. Len(replies)
              BY LenProperties DEF TypeOK
            <7>. QED
              BY <5>1, <7>1, ElementOfSeq DEF TypeOK, Answered
          <6>5. i \in AnswersFor(d)
            BY <6>3, <6>4 DEF AnswersFor, Where
          <6>. QED
            BY <4>1, <4>2, <6>2, <6>3, <6>5 DEF PutOnce
        <5>. QED
          BY <5>1
      <4>5. records'[d] = <<r.version>>
        BY <2>1, <3>3, <4>3 DEF TypeOK
      <4>6. \/ Pushes(d) # {} \/ Asked(d, "merge") # {}
            \/ r.version = got[d]
        BY <4>1, <4>2, <4>3, <4>4 DEF Fresh
      <4>. QED
        BY <1>1, <1>5, <3>1, <4>1, <4>4, <4>5, <4>6 DEF Fresh
    <3>. QED
      BY <3>2, <3>3
  <2>. QED
    BY <1>1, <2>2 DEF FreshInv
<1>. QED
  BY <1>1, <1>6, <1>7

\* What fails, or is begun anew, forgets what it got.
LEMMA FreshForgetStep ==
  ASSUME TypeOK, FreshInv,
         RequestFails \/ Restart \/ (\E w \in Worker : OpenFails(w)) \/ Clearing
  PROVE  FreshInv'
<1> USE DEF service, plugin, clearing, database, bounds, fileHistory, history
<1>1. CASE Restart \/ \E w \in Worker : OpenFails(w)
  BY <1>1 DEF Restart, OpenFails, PluginEnds, FreshInv, Fresh
<1>2. CASE RequestFails
  <2>0. PICK r \in Request : r = Head(requests)
    BY <1>2, HeadTailProperties DEF RequestFails, TypeOK
  <2>1. /\ requests # <<>> /\ requests' = Tail(requests)
        /\ got' = [got EXCEPT ![r.doc] = None]
        /\ active' = active /\ ui' = ui /\ calls' = calls
        /\ records' = records /\ replies' = replies /\ twin' = twin
    BY <1>2, <2>0 DEF RequestFails
  <2>2. ToSet(requests) = ToSet(requests') \cup {r}
    BY <2>0, <2>1, ToSetTail DEF TypeOK
  <2>3. ASSUME NEW d \in Doc \ twin PROVE Fresh(d)'
    <3>1. CASE r.doc = d
      <4>1. got'[d] = None
        BY <2>1, <3>1 DEF TypeOK
      <4>. QED
        BY <4>1 DEF Fresh
    <3>2. CASE r.doc # d
      <4>1. got'[d] = got[d] /\ records'[d] = records[d] /\ Fresh(d)
        BY <2>1, <3>2 DEF FreshInv, TypeOK
      <4>2. /\ Asked(d, "merge")' = Asked(d, "merge")
            /\ Asked(d, "put")' = Asked(d, "put")
            /\ Answered(d)' = Answered(d)
        BY <2>1, <2>2, <3>2 DEF Asked, Answered
      <4>3. Pushes(d)' = Pushes(d)
        BY <2>1 DEF Pushes, Pushing, Doing
      <4>. QED
        BY <4>1, <4>2, <4>3, FreshSame
    <3>. QED
      BY <3>1, <3>2
  <2>. QED
    BY <2>1, <2>3 DEF FreshInv
<1>3. CASE Clearing
  <2>1. /\ requests' = requests /\ active' = active /\ ui' = ui /\ calls' = calls
        /\ replies' = replies /\ twin' = twin
    BY <1>3 DEF Clearing, ClearDatabase, DeleteAll, DeleteRecord
  <2>2. ASSUME NEW d \in Doc \ twin PROVE Fresh(d)'
    <3>1. CASE DeleteRecord(d)
      <4>1. got'[d] = None
        BY <3>1 DEF DeleteRecord, TypeOK
      <4>. QED
        BY <4>1 DEF Fresh
    <3>2. CASE ~DeleteRecord(d)
      <4>1. got'[d] = got[d] /\ records'[d] = records[d] /\ Fresh(d)
        BY <1>3, <3>2 DEF Clearing, ClearDatabase, DeleteAll, DeleteRecord, FreshInv,
                          TypeOK
      <4>2. /\ Asked(d, "merge")' = Asked(d, "merge")
            /\ Asked(d, "put")' = Asked(d, "put")
            /\ Answered(d)' = Answered(d)
        BY <2>1 DEF Asked, Answered
      <4>3. Pushes(d)' = Pushes(d)
        BY <2>1 DEF Pushes, Pushing, Doing
      <4>. QED
        BY <4>1, <4>2, <4>3, FreshSame
    <3>. QED
      BY <3>1, <3>2
  <2>. QED
    BY <2>1, <2>2 DEF FreshInv
<1>. QED
  BY <1>1, <1>2, <1>3

LEMMA FreshStep ==
  TypeOK /\ RecordInv /\ FreshInv /\ [Next]_vars => FreshInv'
<1> SUFFICES ASSUME TypeOK, RecordInv, FreshInv, [Next]_vars PROVE FreshInv'
  OBVIOUS
<1>1. ASSUME NEW w \in Worker, RunJob(w) PROVE FreshInv'
  BY <1>1, FreshOtherSteps, FreshGetStep, FreshCallStep DEF RunJob
<1>2. CASE HandleEvent
  BY <1>2, FreshOtherSteps, FreshPushStep, FreshMergeStep, FreshSucceedStep
     DEF HandleEvent
<1>3. CASE RefreshView \/ UNCHANGED vars
  BY <1>3, FreshOtherSteps
<1>4. CASE ServeRequest
  BY <1>4, FreshServeStep
<1>5. CASE Environment \/ Clearing
  BY <1>5, FreshOtherSteps, FreshForgetStep DEF Environment
<1>. QED
  BY <1>1, <1>2, <1>3, <1>4, <1>5 DEF Next, Wait

\* When everything has come to rest, the one record of a document holds what
\* the service answered last, unless it was deleted since, however merges, puts and answers of one download
\* interleave with the next and with those of other documents.
THEOREM RecordsCurrent == Spec => []RecordCurrent
<1>1. TypeOK /\ FreshInv => RecordCurrent
  <2> SUFFICES ASSUME TypeOK, FreshInv, Quiet, NEW d \in Doc \ twin,
                      got[d] # None
               PROVE  records[d] = <<got[d]>>
    BY DEF RecordCurrent
  <2>1. /\ \A w \in Worker : active[w] = None
        /\ ToSet(calls) = {} /\ ui = None
        /\ ToSet(requests) = {} /\ ToSet(replies) = {}
    <3>1. \A w \in Worker : active[w] = None
      BY DEF Quiet, Running
    <3>2. ToSet(<<>>) = {}
      BY DEF ToSet
    <3>. QED
      BY <3>1, <3>2 DEF Quiet
  <2>2. /\ Pushes(d) = {} /\ Asked(d, "merge") = {} /\ Asked(d, "put") = {}
        /\ Answered(d) = {}
    BY <2>1 DEF Pushes, Pushing, Doing, Asked, Answered
  <2>. QED
    BY <2>2 DEF FreshInv, Fresh
<1>. QED
  BY <1>1, Types, RecordInit, RecordStep, FreshInit, FreshStep, PTL DEF Spec
=============================================================================
