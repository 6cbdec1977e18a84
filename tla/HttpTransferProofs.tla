------------------------- MODULE HttpTransferProofs -------------------------
(***************************************************************************)
(* Proofs about a call of oauth_http.c, for texts and blocks of any length *)
(* and any header: what is sent, what is received, and that the caller     *)
(* gets the whole reply or a failure.                                      *)
(***************************************************************************)
EXTENDS HttpTransfer, FiniteSetTheorems, SequenceTheorems, TLAPS

-----------------------------------------------------------------------------
(* Texts.                                                                  *)

\* A set of numbers has a least one.
LEMMA LeastNumber ==
  ASSUME NEW T \in SUBSET Nat, T # {}
  PROVE  \E x \in T : \A y \in T : x <= y
<1> DEFINE Up == {0 .. x : x \in T}
           R == StrictSubsetOrdering(Nat)
           S == FiniteSubsetsOf(Nat)
<1>1. Up \subseteq S /\ Up # {}
  <2>1. \A x \in T : IsFiniteSet(0 .. x)
    BY FS_Interval
  <2>2. \A x \in T : 0 .. x \in SUBSET Nat
    OBVIOUS
  <2>. QED
    BY <2>1, <2>2 DEF FiniteSubsetsOf
<1>2. \E U \in Up : \A V \in Up : <<V, U>> \notin R
  <2>1. IsWellFoundedOn(R, S)
    BY FS_StrictSubsetOrderingWellFounded
  <2> HIDE DEF R, S, Up
  <2>. QED
    BY <1>1, <2>1, WFMin
<1>3. PICK x \in T : \A y \in T : <<0 .. y, 0 .. x>> \notin R
  BY <1>2
<1>4. ASSUME NEW y \in T, y < x PROVE FALSE
  <2>1. 0 .. y \in SUBSET Nat /\ 0 .. x \in SUBSET Nat
    OBVIOUS
  <2>2. 0 .. y \subseteq 0 .. x /\ x \in 0 .. x /\ x \notin 0 .. y
    BY <1>4
  <2>. QED
    BY <1>3, <2>1, <2>2 DEF StrictSubsetOrdering
<1>. QED
  BY <1>4

\* Where a text ends.
IsEnd(s, n) ==
  /\ n = Len(s) + 1 \/ s[n] = NUL
  /\ \A i \in 1 .. n - 1 : s[i] # NUL

\* There is an end, and only one.
LEMMA EndExists ==
  ASSUME NEW s \in Seq(Byte)
  PROVE  \E n \in 1 .. Len(s) + 1 : IsEnd(s, n)
<1> DEFINE T == {n \in 1 .. Len(s) + 1 : n = Len(s) + 1 \/ s[n] = NUL}
<1>1. T \in SUBSET Nat /\ Len(s) + 1 \in T
  BY LenProperties
<1>2. PICK n \in T : \A k \in T : n <= k
  <2> HIDE DEF T
  <2>. QED
    BY <1>1, LeastNumber
<1>3. ASSUME NEW i \in 1 .. n - 1 PROVE s[i] # NUL
  BY <1>2, LenProperties
<1>. QED
  BY <1>2, <1>3 DEF IsEnd

LEMMA EndUnique ==
  ASSUME NEW s \in Seq(Byte), NEW m \in 1 .. Len(s) + 1, NEW n \in 1 .. Len(s) + 1,
         IsEnd(s, m), IsEnd(s, n)
  PROVE  m = n
<1>1. Len(s) \in Nat
  BY LenProperties
<1>2. ~(m < n)
  BY <1>1 DEF IsEnd
<1>3. ~(n < m)
  BY <1>1 DEF IsEnd
<1>. QED
  BY <1>1, <1>2, <1>3

LEMMA TextIs ==
  ASSUME NEW s \in Seq(Byte), NEW n \in 1 .. Len(s) + 1, IsEnd(s, n)
  PROVE  Text(s) = SubSeq(s, 1, n - 1)
<1> DEFINE end == CHOOSE m \in 1 .. Len(s) + 1 : IsEnd(s, m)
<1>1. end \in 1 .. Len(s) + 1 /\ IsEnd(s, end)
  OBVIOUS
<1>2. end = n
  <2> HIDE DEF end
  <2>. QED
    BY <1>1, EndUnique
<1>3. Text(s) = SubSeq(s, 1, end - 1)
  BY DEF Text, IsEnd
<1>. QED
  BY <1>2, <1>3

\* A text is no longer than what it is the text of.
LEMMA TextType ==
  ASSUME NEW s \in Seq(Byte)
  PROVE  Text(s) \in Seq(Byte) /\ Len(Text(s)) \in 0 .. Len(s)
<1>1. PICK n \in 1 .. Len(s) + 1 : IsEnd(s, n)
  BY EndExists
<1>2. Text(s) = SubSeq(s, 1, n - 1)
  BY <1>1, TextIs
<1>3. Len(s) \in Nat /\ \A i \in 1 .. n - 1 : s[i] \in Byte
  BY LenProperties
<1>. QED
  BY <1>2, <1>3, SubSeqProperties

\* The NUL behind the bytes of a buffer does not change its text.
LEMMA TextWithNul ==
  ASSUME NEW s \in Seq(Byte)
  PROVE  Text(s \o <<NUL>>) = Text(s)
<1> DEFINE t == s \o <<NUL>>
<1>1. PICK n \in 1 .. Len(s) + 1 : IsEnd(s, n)
  BY EndExists
<1>2. /\ <<NUL>> \in Seq(Byte) /\ Len(<<NUL>>) = 1
      /\ t \in Seq(Byte) /\ Len(t) = Len(s) + 1 /\ Len(s) \in Nat
      /\ \A i \in 1 .. Len(s) : t[i] = s[i]
      /\ t[Len(s) + 1] = NUL
  BY TransferAssumption
<1> HIDE DEF t
<1>3. n \in 1 .. Len(t) + 1 /\ IsEnd(t, n)
  BY <1>1, <1>2 DEF IsEnd
<1>4. Text(t) = SubSeq(t, 1, n - 1) /\ Text(s) = SubSeq(s, 1, n - 1)
  BY <1>1, <1>2, <1>3, TextIs
<1>5. SubSeq(t, 1, n - 1) = SubSeq(s, 1, n - 1)
  <2>1. \A i \in 1 .. n - 1 : t[i] = s[i] /\ s[i] \in Byte
    BY <1>2
  <2>2. /\ SubSeq(t, 1, n - 1) \in Seq(Byte) /\ SubSeq(s, 1, n - 1) \in Seq(Byte)
        /\ Len(SubSeq(t, 1, n - 1)) = n - 1 /\ Len(SubSeq(s, 1, n - 1)) = n - 1
        /\ \A i \in 1 .. n - 1 : /\ SubSeq(t, 1, n - 1)[i] = t[i]
                                /\ SubSeq(s, 1, n - 1)[i] = s[i]
    BY <1>2, <2>1, SubSeqProperties
  <2>. QED
    BY <2>1, <2>2, SeqEqual
<1>. QED
  BY <1>4, <1>5 DEF t

\* There is nothing to read but the data, and only of a file may something
\* else than all that be announced.
LEMMA LengthAndSource ==
  ASSUME NEW c \in Call, Wrapped(c)
  PROVE  /\ Length(c) \in Nat /\ Source(c) \in 0 .. Len(c.data)
         /\ c.fn # "post_file" => Source(c) = Length(c)
<1>1. c.data \in Seq(Byte) /\ c.len \in Nat /\ Len(c.data) \in Nat
  BY TransferAssumption DEF Call
<1>2. c.fn \in {"get", "get2", "delete", "post", "post_file", "send_data"}
  BY TransferAssumption DEF Call
<1>3. CASE c.fn = "post"
  BY <1>1, <1>3, TextType DEF Length, Source
<1>4. CASE c.fn = "post_file"
  BY <1>1, <1>4 DEF Length, Source
<1>5. CASE c.fn = "send_data"
  BY <1>1, <1>5 DEF Length, Source, Wrapped
<1>6. CASE c.fn \in {"get", "get2", "delete"}
  BY <1>1, <1>6 DEF Length, Source, Wrapped
<1>. QED
  BY <1>2, <1>3, <1>4, <1>5, <1>6

-----------------------------------------------------------------------------
(* The callbacks.                                                          *)

\* What comes before the NUL of a joined text.
LEMMA Terminated ==
  ASSUME NEW s \in Seq(Byte), NEW t, t = s \o <<NUL>>
  PROVE  /\ t \in Seq(Byte) /\ Len(t) = Len(s) + 1 /\ t[Len(s) + 1] = NUL
         /\ SubSeq(t, 1, Len(s)) = s
<1>1. <<NUL>> \in Seq(Byte) /\ Len(<<NUL>>) = 1 /\ <<NUL>>[1] = NUL
  BY TransferAssumption
<1>2. /\ t \in Seq(Byte) /\ Len(t) = Len(s) + 1 /\ Len(s) \in Nat
      /\ t[Len(s) + 1] = NUL /\ \A i \in 1 .. Len(s) : t[i] = s[i]
  BY <1>1
<1>3. \A i \in 1 .. Len(s) : t[i] \in Byte
  BY <1>2
<1>4. /\ SubSeq(t, 1, Len(s)) \in Seq(Byte) /\ Len(SubSeq(t, 1, Len(s))) = Len(s)
      /\ \A i \in 1 .. Len(s) : SubSeq(t, 1, Len(s))[i] = t[i]
  BY <1>2, <1>3, SubSeqProperties
<1>. QED
  BY <1>2, <1>4, SeqEqual

\* A block is put behind the bytes that are there.
LEMMA WriteAppends ==
  ASSUME NEW mem, MemoryOK(mem), NEW block \in Seq(Byte),
         NEW new, new = WriteMemoryCallback(mem, block)
  PROVE  /\ MemoryOK(new) /\ new.size = mem.size + Len(block)
         /\ new.data = SubSeq(mem.data, 1, mem.size) \o block \o <<NUL>>
         /\ SubSeq(new.data, 1, new.size) = SubSeq(mem.data, 1, mem.size) \o block
<1> DEFINE old == SubSeq(mem.data, 1, mem.size)
           both == old \o block
<1>1. mem.data \in Seq(Byte) /\ mem.size \in 0 .. Len(mem.data) /\ mem.size \in Nat
  BY DEF MemoryOK, NoMemory
<1>2. old \in Seq(Byte) /\ Len(old) = mem.size
  <2>1. \A i \in 1 .. mem.size : mem.data[i] \in Byte
    BY <1>1
  <2>. QED
    BY <1>1, <2>1, SubSeqProperties
<1>3. new.data = both \o <<NUL>> /\ new.size = mem.size + Len(block)
  BY DEF WriteMemoryCallback
<1>4. both \in Seq(Byte) /\ Len(both) = new.size
  <2> HIDE DEF old
  <2>. QED
    BY <1>2, <1>3, ConcatProperties
<1> HIDE DEF both
<1>5. /\ new.data \in Seq(Byte) /\ Len(new.data) = new.size + 1
      /\ new.data[new.size + 1] = NUL
      /\ SubSeq(new.data, 1, new.size) = both
  BY <1>3, <1>4, Terminated
<1>6. new.size \in Nat
  BY <1>4, LenProperties
<1>. QED
  BY <1>3, <1>5, <1>6 DEF MemoryOK, both

\* The two parts of a text that is cut behind its k-th byte.
LEMMA Halves ==
  ASSUME NEW s \in Seq(Byte), NEW k \in 0 .. Len(s)
  PROVE  /\ SubSeq(s, 1, k) \in Seq(Byte) /\ Len(SubSeq(s, 1, k)) = k
         /\ SubSeq(s, k + 1, Len(s)) \in Seq(Byte)
         /\ Len(SubSeq(s, k + 1, Len(s))) = Len(s) - k
<1>1. Len(s) \in Nat /\ \A i \in 1 .. Len(s) : s[i] \in Byte
  BY LenProperties
<1>2. SubSeq(s, 1, k) \in Seq(Byte) /\ Len(SubSeq(s, 1, k)) = k
  <2>1. \A i \in 1 .. k : s[i] \in Byte
    BY <1>1
  <2>2. /\ SubSeq(s, 1, k) \in Seq(Byte)
        /\ Len(SubSeq(s, 1, k)) = IF 1 <= k THEN k - 1 + 1 ELSE 0
    BY <1>1, <2>1, SubSeqProperties
  <2>. QED
    BY <1>1, <2>2
<1>3. /\ SubSeq(s, k + 1, Len(s)) \in Seq(Byte)
      /\ Len(SubSeq(s, k + 1, Len(s))) = Len(s) - k
  <2>1. \A i \in k + 1 .. Len(s) : s[i] \in Byte
    BY <1>1
  <2>2. /\ SubSeq(s, k + 1, Len(s)) \in Seq(Byte)
        /\ Len(SubSeq(s, k + 1, Len(s))) =
             IF k + 1 <= Len(s) THEN Len(s) - (k + 1) + 1 ELSE 0
    BY <1>1, <2>1, SubSeqProperties
  <2>. QED
    BY <1>1, <2>2
<1>. QED
  BY <1>2, <1>3

\* A part of the rest of a text is a part of the text.
LEMMA PartOfRest ==
  ASSUME NEW data \in Seq(Byte), NEW taken \in 0 .. Len(data),
         NEW rest, rest = SubSeq(data, taken + 1, Len(data)),
         NEW a \in 1 .. Len(data) - taken + 1, NEW b \in a - 1 .. Len(data) - taken
  PROVE  SubSeq(rest, a, b) = SubSeq(data, taken + a, taken + b)
<1> DEFINE n == Len(data)
           s == SubSeq(rest, a, b)
           t == SubSeq(data, taken + a, taken + b)
<1>1. n \in Nat /\ taken \in Nat /\ a \in Nat /\ b \in Nat /\ taken + b <= n
  BY LenProperties
<1>2. \A i \in 1 .. n : data[i] \in Byte
  BY LenProperties
<1>3. /\ rest \in Seq(Byte) /\ Len(rest) = n - taken
      /\ \A i \in 1 .. n - taken : rest[i] = data[taken + i]
  <2>1. rest \in Seq(Byte) /\ Len(rest) = n - taken
    BY Halves
  <2>2. \A i \in taken + 1 .. n : data[i] \in Byte
    BY <1>1, <1>2
  <2>3. \A i \in 1 .. n - (taken + 1) + 1 : rest[i] = data[taken + 1 + i - 1]
    BY <1>1, <2>2, SubSeqProperties
  <2>4. ASSUME NEW i \in 1 .. n - taken
        PROVE  i \in 1 .. n - (taken + 1) + 1 /\ taken + 1 + i - 1 = taken + i
    BY <1>1
  <2>5. ASSUME NEW i \in 1 .. n - taken PROVE rest[i] = data[taken + i]
    BY <2>3, <2>4, Zenon
  <2>. QED
    BY <2>1, <2>5
<1>4. /\ s \in Seq(Byte) /\ Len(s) = b - a + 1
      /\ \A i \in 1 .. b - a + 1 : s[i] = rest[a + i - 1]
  <2>1. \A i \in a .. b : rest[i] \in Byte
    BY <1>1, <1>2, <1>3
  <2>2. /\ s \in Seq(Byte) /\ Len(s) = IF a <= b THEN b - a + 1 ELSE 0
        /\ \A i \in 1 .. b - a + 1 : s[i] = rest[a + i - 1]
    BY <1>1, <2>1, SubSeqProperties
  <2>. QED
    BY <1>1, <2>2
<1>5. /\ t \in Seq(Byte) /\ Len(t) = b - a + 1
      /\ \A i \in 1 .. b - a + 1 : t[i] = data[taken + a + i - 1]
  <2>1. \A i \in taken + a .. taken + b : data[i] \in Byte
    BY <1>1, <1>2
  <2>2. /\ t \in Seq(Byte)
        /\ Len(t) = IF taken + a <= taken + b THEN taken + b - (taken + a) + 1 ELSE 0
        /\ \A i \in 1 .. taken + b - (taken + a) + 1 : t[i] = data[taken + a + i - 1]
    BY <1>1, <2>1, SubSeqProperties
  <2>3. taken + b - (taken + a) + 1 = b - a + 1
    BY <1>1
  <2>. QED
    BY <1>1, <2>2, <2>3
<1> HIDE DEF s, t
<1>6. \A i \in 1 .. b - a + 1 : s[i] = t[i]
  <2>1. ASSUME NEW i \in 1 .. b - a + 1
        PROVE  /\ a + i - 1 \in 1 .. n - taken
               /\ taken + (a + i - 1) = taken + a + i - 1
    BY <1>1, <1>3
  <2>. QED
    BY <1>3, <1>4, <1>5, <2>1
<1>. QED
  BY <1>4, <1>5, <1>6, SeqEqual DEF s, t

\* A reader is behind the first bytes of the data, and the next k are read.
RestOf(mem, data, taken) ==
  mem.data = SubSeq(data, taken + 1, Len(data)) /\ mem.size \in 0 .. Len(data) - taken
ReadOf(read, mem, data, taken, k) ==
  /\ read.block = SubSeq(data, taken + 1, taken + k)
  /\ read.mem.data = SubSeq(data, taken + k + 1, Len(data))
  /\ read.mem.size = mem.size - k

\* What is read is the next part of what there is, and what is left the rest.
LEMMA ReadTakes ==
  ASSUME NEW data \in Seq(Byte), NEW taken \in 0 .. Len(data),
         NEW mem, RestOf(mem, data, taken), NEW room \in Nat, room > 0, mem.size > 0
  PROVE  \E k \in 0 .. mem.size :
           k > 0 /\ ReadOf(ReadMemoryCallback(mem, room), mem, data, taken, k)
<1> DEFINE k == Least(room, mem.size)
           n == Len(data)
           read == ReadMemoryCallback(mem, room)
<1>1. /\ n \in Nat /\ mem.size \in Nat /\ k \in 0 .. mem.size /\ k \in 0 .. n - taken
      /\ taken \in Nat /\ k > 0
  BY LenProperties DEF Least, RestOf
<1>2. mem.data \in Seq(Byte) /\ Len(mem.data) = n - taken
  BY Halves DEF RestOf
<1>3. /\ read.block = SubSeq(mem.data, 1, k)
      /\ read.mem.data = SubSeq(mem.data, k + 1, n - taken)
      /\ read.mem.size = mem.size - k
  BY <1>2 DEF ReadMemoryCallback
<1> HIDE DEF k
<1>4. ASSUME NEW a \in 1 .. n - taken + 1, NEW b \in a - 1 .. n - taken
      PROVE  SubSeq(mem.data, a, b) = SubSeq(data, taken + a, taken + b)
  BY <1>1, <1>2, <1>4, PartOfRest DEF RestOf
<1> HIDE DEF read
<1>5. read.block = SubSeq(data, taken + 1, taken + k)
  <2>1. 1 \in 1 .. n - taken + 1 /\ k \in 1 - 1 .. n - taken
    BY <1>1
  <2>2. SubSeq(mem.data, 1, k) = SubSeq(data, taken + 1, taken + k)
    BY ONLY <1>4, <2>1
  <2>. QED
    BY <1>3, <2>2
<1>6. read.mem.data = SubSeq(data, taken + k + 1, n)
  <2>1. /\ k + 1 \in 1 .. n - taken + 1 /\ n - taken \in k + 1 - 1 .. n - taken
        /\ taken + (k + 1) = taken + k + 1 /\ taken + (n - taken) = n
    BY <1>1
  <2>2. SubSeq(mem.data, k + 1, n - taken) = SubSeq(data, taken + (k + 1), taken + (n - taken))
    <3>1. PICK a \in 1 .. n - taken + 1 : a = k + 1
      BY <1>1
    <3>3. PICK b \in a - 1 .. n - taken : b = n - taken
      <4>1. k \in Nat /\ n - taken \in Nat /\ k <= n - taken /\ a - 1 = k
        BY <1>1, <3>1
      <4>2. n - taken \in a - 1 .. n - taken
        BY ONLY <4>1
      <4>. QED
        BY ONLY <4>2
    <3>2. SubSeq(mem.data, a, b) = SubSeq(data, taken + a, taken + b)
      BY <1>4
    <3>. QED
      BY <3>1, <3>2, <3>3
  <2>3. SubSeq(data, taken + (k + 1), taken + (n - taken)) = SubSeq(data, taken + k + 1, n)
    BY ONLY <2>1
  <2>. QED
    BY <1>3, <2>2, <2>3
<1>7. ReadOf(read, mem, data, taken, k)
  BY <1>3, <1>5, <1>6 DEF ReadOf
<1>. QED
  BY <1>1, <1>7 DEF read

-----------------------------------------------------------------------------
(* The inductive invariant.                                                *)

\* How much of the data has been read.
Taken == Len(call.data) - Len(rdnfo.data)

\* No more is read than there is, and at most what is announced is sent.
TakenOK ==
  /\ Taken \in 0 .. Source(call)
  /\ Taken \in 0 .. Len(call.data)
  /\ call.fn # "post_file" => Taken <= Length(call)

\* A call whose service has answered early has not sent everything, and no
\* other has an early answer.
EarlyMeans ==
  /\ early => answered
  /\ answered /\ ~early => Length(call) <= Len(sent)

\* The buffer for the body holds what came of it, and is not there before.
ChunkHolds ==
  /\ BodyInOrder /\ chunk.size = received
  /\ chunk = NoMemory \/ chunk.data = SubSeq(body, 1, received) \o <<NUL>>

\* What is returned: nothing or the whole reply.
Failed(res) == res = [code |-> 1, text |-> <<>>]
Succeeded(res) ==
  /\ res = [code |-> 0, text |-> chunk.data]
  /\ answered /\ received = Len(body)

IInv == TypeOK /\ SentInOrder /\ TakenOK /\ ProgressTrue /\ EarlyMeans /\ ChunkHolds

\* Numbers and texts that the types give.
LEMMA Facts ==
  ASSUME TypeOK
  PROVE  /\ call.data \in Seq(Byte) /\ body \in Seq(Byte)
         /\ Length(call) \in Nat /\ Len(call.data) \in Nat
         /\ Source(call) \in 0 .. Len(call.data)
         /\ call.fn # "post_file" => Source(call) = Length(call)
         /\ Len(body) \in Nat /\ received \in Nat /\ Len(sent) \in Nat
         /\ chunk.size \in Nat /\ rdnfo.size \in Nat /\ lines \in Nat
         /\ Len(HeaderLine) \in Nat
<1>1. call.data \in Seq(Byte) /\ body \in Seq(Byte)
  BY TransferAssumption DEF TypeOK, Call
<1>2. /\ Length(call) \in Nat /\ Source(call) \in 0 .. Len(call.data)
      /\ call.fn # "post_file" => Source(call) = Length(call)
  BY LengthAndSource DEF TypeOK
<1>3. Len(call.data) \in Nat /\ Len(body) \in Nat /\ Len(sent) \in Nat /\ Len(HeaderLine) \in Nat
  BY <1>1, TransferAssumption, LenProperties DEF TypeOK
<1>4. Len(rdnfo.data) \in Nat
  BY LenProperties DEF TypeOK
<1>. QED
  BY <1>1, <1>2, <1>3, <1>4 DEF TypeOK, MemoryOK

\* The bytes that have been sent, and their number.
LEMMA SentIs ==
  ASSUME TypeOK, SentInOrder, TakenOK
  PROVE  /\ Len(sent) = Least(Taken, Length(call))
         /\ Len(sent) <= Length(call) /\ Len(sent) <= Len(call.data)
         /\ \A i \in 1 .. Len(sent) : sent[i] = call.data[i]
<1>1. /\ call.data \in Seq(Byte) /\ Len(call.data) \in Nat /\ Length(call) \in Nat
      /\ Taken \in 0 .. Len(call.data)
  BY Facts DEF TakenOK
<1> DEFINE k == Least(Taken, Length(call))
<1>2. k \in 0 .. Len(call.data) /\ k <= Length(call) /\ k \in Nat
  BY <1>1 DEF Least
<1>3. sent = SubSeq(call.data, 1, k)
  BY DEF SentInOrder, Taken
<1> HIDE DEF k
<1>4. Len(sent) = k
  BY <1>1, <1>2, <1>3, Halves
<1>5. \A i \in 1 .. k : sent[i] = call.data[i]
  <2>1. \A i \in 1 .. k : call.data[i] \in Byte
    BY <1>1, <1>2
  <2>2. \A i \in 1 .. k - 1 + 1 : sent[i] = call.data[1 + i - 1]
    BY <1>2, <1>3, <2>1, SubSeqProperties
  <2>. QED
    BY <1>2, <2>2
<1>. QED
  BY <1>2, <1>4, <1>5 DEF k

\* A result is not None.
LEMMA ResultIsSome ==
  ASSUME NEW code \in {0, 1}, NEW text \in Seq(Byte)
  PROVE  [code |-> code, text |-> text] # None
<1>1. [code |-> code, text |-> text] \in [code : {0, 1}, text : Seq(Byte)]
  OBVIOUS
<1>. QED
  BY <1>1, TransferAssumption

\* At the call nothing has been sent or received.
LEMMA InitInv == Init => IInv
<1> SUFFICES ASSUME Init PROVE IInv
  OBVIOUS
<1>1. call \in Call /\ Wrapped(call) /\ body \in Payload
  BY DEF Init
<1>2. /\ call.data \in Seq(Byte) /\ body \in Seq(Byte) /\ Length(call) \in Nat
      /\ Source(call) \in 0 .. Len(call.data)
  BY <1>1, TransferAssumption, LengthAndSource DEF Call
<1>3. MemoryOK(chunk) /\ MemoryOK(header)
  BY DEF Init, MemoryOK, NoMemory
<1>4. rdnfo.data = call.data /\ rdnfo.size = Source(call) /\ sent = <<>>
  BY DEF Init
<1>5. progress \in [{"sent", "received"} -> Nat \X Nat]
  BY DEF Init
<1>6. Len(HeaderLine) \in Nat /\ Len(body) \in Nat /\ Len(call.data) \in Nat
  BY <1>2, TransferAssumption, LenProperties
<1>0. /\ pc = "setup" /\ result = None
      /\ answered = FALSE /\ early = FALSE /\ lines = 0 /\ received = 0
  BY DEF Init
<1>7. TypeOK
  <2>1. rdnfo.data \in Seq(Byte) /\ rdnfo.size \in 0 .. Len(rdnfo.data) /\ sent \in Seq(Byte)
    BY <1>2, <1>4, EmptySeq
  <2>2. lines \in 0 .. Len(HeaderLine) /\ received \in 0 .. Len(body)
    BY <1>0, <1>6
  <2>. QED
    BY <1>0, <1>1, <1>3, <1>5, <2>1, <2>2 DEF TypeOK
<1>8. SentInOrder /\ TakenOK
  <2>1. Taken = 0 /\ Least(Taken, Length(call)) = 0
    BY <1>2, <1>4, <1>6 DEF Taken, Least
  <2>2. SubSeq(call.data, 1, 0) = <<>>
    BY SubSeqEmpty
  <2>3. SubSeq(call.data, 0 + 1, Len(call.data)) = call.data
    BY <1>2, SubSeqFull
  <2>4. rdnfo.size = Source(call) - 0
    BY <1>2, <1>4
  <2>5. SentInOrder
    BY <1>4, <2>1, <2>2, <2>3, <2>4 DEF SentInOrder, Taken
  <2>6. TakenOK
    BY <1>2, <1>6, <2>1 DEF TakenOK
  <2>. QED
    BY <2>5, <2>6
<1>9. ProgressTrue
  BY DEF Init, ProgressTrue
<1>10. ChunkHolds
  <2>1. SubSeq(chunk.data, 1, chunk.size) = <<>> /\ SubSeq(body, 1, received) = <<>>
    BY SubSeqEmpty DEF Init, NoMemory
  <2>. QED
    BY <2>1 DEF Init, ChunkHolds, BodyInOrder, NoMemory
<1>11. EarlyMeans
  BY DEF Init, EarlyMeans
<1>. QED
  BY <1>7, <1>8, <1>9, <1>10, <1>11 DEF IInv

\* A step that neither sends nor receives keeps all but the result.
LEMMA QuietStep ==
  ASSUME IInv, UNCHANGED <<call, body, buffers, sent, lines, received>>
  PROVE  /\ SentInOrder' /\ TakenOK' /\ ProgressTrue' /\ ChunkHolds'
         /\ MemoryOK(chunk)' /\ MemoryOK(header)'
<1> USE DEF buffers
<1>1. SentInOrder' /\ TakenOK'
  BY DEF IInv, SentInOrder, TakenOK, Taken
<1>2. ProgressTrue'
  BY DEF IInv, ProgressTrue
<1>3. ChunkHolds'
  BY DEF IInv, ChunkHolds, BodyInOrder
<1>. QED
  BY <1>1, <1>2, <1>3 DEF IInv, TypeOK, MemoryOK

\* What the parts of a text up to a and from there to b make up, where no
\* more than m of it counts.
LEMMA PartsJoined ==
  ASSUME NEW data \in Seq(Byte), NEW a \in 0 .. Len(data), NEW k \in 0 .. Len(data) - a,
         NEW m \in Nat, a < m,
         NEW block, block = SubSeq(data, a + 1, a + k)
  PROVE  SubSeq(data, 1, a) \o SubSeq(block, 1, Least(Len(block), m - a))
           = SubSeq(data, 1, Least(a + k, m))
<1> DEFINE n == Len(data)
           l == Least(k, m - a)
           rest == SubSeq(data, a + 1, n)
<1>1. n \in Nat /\ a \in Nat /\ k \in Nat /\ a + k <= n /\ m - a \in Nat
  BY LenProperties
<1>2. l \in 0 .. k /\ a + l = Least(a + k, m)
  BY <1>1 DEF Least
<1> HIDE DEF l
<1>3. rest \in Seq(Byte) /\ Len(rest) = n - a
  BY Halves
<1>4. ASSUME NEW b \in 0 .. n - a PROVE SubSeq(rest, 1, b) = SubSeq(data, a + 1, a + b)
  <2>1. 1 \in 1 .. n - a + 1 /\ b \in 1 - 1 .. n - a
    BY <1>1, <1>4
  <2>. QED
    BY <2>1, PartOfRest
<1> HIDE DEF rest
<1>5. block = SubSeq(rest, 1, k)
  BY <1>1, <1>4
<1>6. block \in Seq(Byte) /\ Len(block) = k
  BY <1>1, <1>3, <1>5, Halves
<1>7. SubSeq(block, 1, l) = SubSeq(rest, 1, l)
  <2>1. /\ SubSeq(block, 1, l) \in Seq(Byte) /\ Len(SubSeq(block, 1, l)) = l
        /\ SubSeq(rest, 1, l) \in Seq(Byte) /\ Len(SubSeq(rest, 1, l)) = l
    BY <1>1, <1>2, <1>3, <1>6, Halves
  <2>2. ASSUME NEW s \in Seq(Byte), NEW b \in 0 .. Len(s), NEW i \in 1 .. b
        PROVE  SubSeq(s, 1, b)[i] = s[i]
    <3>1. b \in Nat /\ \A q \in 1 .. b : s[q] \in Byte
      BY <2>2, LenProperties
    <3>2. \A q \in 1 .. b - 1 + 1 : SubSeq(s, 1, b)[q] = s[1 + q - 1]
      BY <3>1, SubSeqProperties
    <3>. QED
      BY <3>1, <3>2
  <2>3. \A i \in 1 .. l : SubSeq(block, 1, l)[i] = SubSeq(rest, 1, l)[i]
    <3>1. \A i \in 1 .. l : SubSeq(block, 1, l)[i] = block[i] /\ SubSeq(rest, 1, l)[i] = rest[i]
      BY <1>1, <1>2, <1>3, <1>6, <2>2
    <3>2. \A i \in 1 .. k : SubSeq(rest, 1, k)[i] = rest[i]
      BY <1>1, <1>3, <2>2
    <3>3. \A i \in 1 .. l : i \in 1 .. k
      BY <1>1, <1>2
    <3>. QED
      BY <1>5, <3>1, <3>2, <3>3
  <2>. QED
    BY <2>1, <2>3, SeqEqual
<1>8. SubSeq(data, 1, a) \o SubSeq(data, a + 1, a + l) = SubSeq(data, 1, a + l)
  <2>1. 1 \in 1 .. n + 1 /\ a \in 1 - 1 .. n /\ a + l \in a .. n
    BY <1>1, <1>2
  <2>. QED
    BY <2>1, ConcatAdjacentSubSeq
<1>9. SubSeq(rest, 1, l) = SubSeq(data, a + 1, a + l) /\ l = Least(Len(block), m - a)
  BY <1>1, <1>2, <1>4, <1>6 DEF l
<1>. QED
  BY <1>2, <1>7, <1>8, <1>9

\* libcurl reads a block of the request.
LEMMA SendInv == IInv /\ SendBlock => IInv'
<1> SUFFICES ASSUME IInv, SendBlock PROVE IInv'
  OBVIOUS
<1> USE DEF IInv
<1>1. /\ pc = "perform" /\ ~answered /\ rdnfo.size > 0 /\ Len(sent) < Length(call)
      /\ UNCHANGED <<call, body, pc, result, chunk, header, answered, early,
                     lines, received>>
  BY DEF SendBlock
<1>2. /\ call.data \in Seq(Byte) /\ Len(call.data) \in Nat
      /\ Taken \in 0 .. Len(call.data) /\ Taken \in 0 .. Source(call)
      /\ Length(call) \in Nat /\ Source(call) \in 0 .. Len(call.data)
      /\ rdnfo.data = SubSeq(call.data, Taken + 1, Len(call.data))
      /\ rdnfo.size = Source(call) - Taken
  BY Facts DEF TakenOK, SentInOrder, Taken
<1>3. PICK room \in 1 .. rdnfo.size + 1 :
        LET read == ReadMemoryCallback(rdnfo, room)
        IN /\ sent' = sent \o Announced(read.block)
           /\ rdnfo' = read.mem
           /\ progress' = IF call.callback
                          THEN [progress EXCEPT !.sent = ReportSent(rdnfo, read.mem)]
                          ELSE progress
  BY DEF SendBlock
<1>4. PICK read \in {ReadMemoryCallback(rdnfo, room)} :
        /\ room \in Nat /\ room > 0 /\ read = ReadMemoryCallback(rdnfo, room)
        /\ sent' = sent \o Announced(read.block)
        /\ rdnfo' = read.mem
        /\ progress' = IF call.callback
                       THEN [progress EXCEPT !.sent = ReportSent(rdnfo, read.mem)]
                       ELSE progress
  BY <1>2, <1>3
<1>5. PICK k \in 0 .. rdnfo.size :
        /\ k > 0
        /\ read.block = SubSeq(call.data, Taken + 1, Taken + k)
        /\ read.mem.data = SubSeq(call.data, Taken + k + 1, Len(call.data))
        /\ read.mem.size = rdnfo.size - k
  <2>1. RestOf(rdnfo, call.data, Taken)
    BY <1>2 DEF RestOf
  <2>2. \E k \in 0 .. rdnfo.size : k > 0 /\ ReadOf(read, rdnfo, call.data, Taken, k)
    BY <1>1, <1>2, <1>4, <2>1, ReadTakes
  <2>. QED
    BY <2>2 DEF ReadOf
<1>6. /\ Taken + k \in 0 .. Len(call.data) /\ Taken + k \in 0 .. Source(call)
      /\ k \in 0 .. Len(call.data) - Taken /\ k \in Nat
      /\ rdnfo.size - k = Source(call) - (Taken + k)
      /\ rdnfo.size - k \in 0 .. Len(call.data) - (Taken + k)
  BY <1>2
<1>7. /\ rdnfo'.data \in Seq(Byte) /\ Len(rdnfo'.data) = Len(call.data) - (Taken + k)
      /\ rdnfo'.size = Source(call) - (Taken + k)
      /\ rdnfo'.size \in 0 .. Len(rdnfo'.data)
  <2>1. /\ SubSeq(call.data, Taken + k + 1, Len(call.data)) \in Seq(Byte)
        /\ Len(SubSeq(call.data, Taken + k + 1, Len(call.data)))
             = Len(call.data) - (Taken + k)
    BY <1>2, <1>6, Halves
  <2>. QED
    BY <1>4, <1>5, <1>6, <2>1
<1>8. Taken' = Taken + k
  BY <1>1, <1>2, <1>6, <1>7 DEF Taken
<1>9. Length(call)' = Length(call) /\ Source(call)' = Source(call) /\ call' = call
  BY <1>1 DEF Length, Source
\* Less was sent than is announced, so all that had been read.
<1>10. Len(sent) = Taken /\ sent = SubSeq(call.data, 1, Taken) /\ Taken < Length(call)
  <2>1. Len(sent) = Least(Taken, Length(call))
    BY SentIs
  <2>2. Least(Taken, Length(call)) = Taken /\ Taken < Length(call)
    BY <1>1, <1>2, <2>1 DEF Least
  <2>. QED
    BY <2>1, <2>2 DEF SentInOrder, Taken
<1>11. sent' = SubSeq(call.data, 1, Least(Taken + k, Length(call)))
  <2>1. Taken \in 0 .. Len(call.data) /\ k \in 0 .. Len(call.data) - Taken
    BY <1>2, <1>6
  <2>2. SubSeq(call.data, 1, Taken)
          \o SubSeq(read.block, 1, Least(Len(read.block), Length(call) - Taken))
          = SubSeq(call.data, 1, Least(Taken + k, Length(call)))
    BY ONLY <1>2, <1>5, <1>10, <2>1, PartsJoined
  <2>. QED
    BY <1>4, <1>10, <2>2 DEF Announced
<1>12. SentInOrder'
  <2>1. rdnfo'.data = SubSeq(call.data, (Taken + k) + 1, Len(call.data))
    BY <1>4, <1>5
  <2>. QED
    BY <1>7, <1>8, <1>9, <1>11, <2>1 DEF SentInOrder, Taken
<1>13. TakenOK'
  <2>1. call.fn # "post_file" => Source(call) = Length(call)
    BY Facts
  <2>2. call.fn # "post_file" => Taken + k <= Length(call)
    BY <1>2, <1>6, <2>1
  <2>. QED
    BY <1>6, <1>8, <1>9, <2>2 DEF TakenOK
<1>14. sent' \in Seq(Byte) /\ Len(sent') = Least(Taken + k, Length(call)) /\ Len(sent') \in Nat
  <2>1. Least(Taken + k, Length(call)) \in 0 .. Len(call.data)
    BY <1>2, <1>6 DEF Least
  <2>. QED
    BY <1>2, <1>11, <2>1, Halves
<1>15. ASSUME call.callback
       PROVE  ReportSent(rdnfo, read.mem) = <<Len(sent'), Length(call)>>
  <2>1. call.fn # "post_file" /\ Source(call) = Length(call)
    BY <1>15, Facts DEF TypeOK, Wrapped
  <2>2. Taken + k <= Length(call)
    BY <1>6, <2>1
  <2>3. Len(sent') = Taken + k
    <3>1. Least(Taken + k, Length(call)) = Taken + k
      BY <1>2, <1>6, <2>2 DEF Least
    <3>. QED
      BY <1>14, <3>1
  <2>4. Length(call) - read.mem.size = Taken + k
    BY <1>2, <1>5, <1>6, <2>1
  <2>. QED
    BY <2>3, <2>4 DEF ReportSent
<1>16. progress' \in [{"sent", "received"} -> Nat \X Nat]
  <2>1. progress \in [{"sent", "received"} -> Nat \X Nat]
    BY DEF TypeOK
  <2>2. ASSUME NEW p \in [{"sent", "received"} -> Nat \X Nat], NEW v \in Nat \X Nat
        PROVE  [p EXCEPT !.sent = v] \in [{"sent", "received"} -> Nat \X Nat]
    OBVIOUS
  <2>3. <<Len(sent'), Length(call)>> \in Nat \X Nat
    BY <1>2, <1>14
  <2>. QED
    BY <1>4, <1>15, <2>1, <2>2, <2>3, Zenon
<1>17. TypeOK'
  BY <1>1, <1>7, <1>14, <1>16 DEF TypeOK, MemoryOK
<1>18. ProgressTrue'
  <2>1. ASSUME call.callback
        PROVE  /\ progress'.sent = <<Len(sent'), Length(call)>>
               /\ progress'.received = progress.received
    <3>1. progress \in [{"sent", "received"} -> Nat \X Nat]
      BY DEF TypeOK
    <3>. QED
      BY <1>4, <1>15, <2>1, <3>1
  <2>2. sent' # <<>>
    <3>1. Len(sent') > 0
      BY <1>2, <1>5, <1>6, <1>10, <1>14 DEF Least
    <3>. QED
      BY <3>1
  <2>. QED
    BY <1>1, <1>9, <2>1, <2>2 DEF ProgressTrue
<1>19. EarlyMeans' /\ ChunkHolds'
  BY <1>1 DEF EarlyMeans, ChunkHolds, BodyInOrder
<1>. QED
  BY <1>12, <1>13, <1>17, <1>18, <1>19

\* A line of the header does not touch the body.
LEMMA HeaderInv == IInv /\ ReceiveHeader => IInv'
<1> SUFFICES ASSUME IInv, ReceiveHeader PROVE IInv'
  OBVIOUS
<1> USE DEF IInv
<1>1. /\ lines < Len(HeaderLine) /\ lines' = lines + 1
      /\ header' = IF call.header THEN WriteMemoryCallback(header, HeaderLine[lines + 1])
                   ELSE header
      /\ UNCHANGED <<call, body, pc, result, chunk, rdnfo, progress, sent,
                     answered, early, received>>
  BY DEF ReceiveHeader
<1>2. lines \in Nat /\ Len(HeaderLine) \in Nat /\ lines' \in 0 .. Len(HeaderLine)
  BY <1>1, Facts
<1>3. HeaderLine[lines + 1] \in Seq(Byte)
  <2>1. HeaderLine \in Seq(Seq(Byte)) /\ lines + 1 \in 1 .. Len(HeaderLine)
    BY <1>1, <1>2, TransferAssumption
  <2>. QED
    BY <2>1, ElementOfSeq
<1>4. MemoryOK(header')
  BY <1>1, <1>3, WriteAppends DEF TypeOK
<1>5. TypeOK'
  BY <1>1, <1>2, <1>4 DEF TypeOK, MemoryOK
<1>6. SentInOrder' /\ TakenOK' /\ ProgressTrue'
  BY <1>1 DEF SentInOrder, TakenOK, Taken, ProgressTrue, Length, Source
<1>7. EarlyMeans' /\ ChunkHolds'
  BY <1>1 DEF EarlyMeans, ChunkHolds, BodyInOrder
<1>. QED
  BY <1>5, <1>6, <1>7

\* A block of the body goes behind the one before it.
LEMMA BlockInv == IInv /\ ReceiveBlock => IInv'
<1> SUFFICES ASSUME IInv, ReceiveBlock PROVE IInv'
  OBVIOUS
<1> USE DEF IInv
<1>1. /\ pc = "perform" /\ answered
      /\ progress' = IF call.callback
                     THEN [progress EXCEPT !.received = <<chunk'.size, chunk'.size>>]
                     ELSE progress
      /\ UNCHANGED <<call, body, pc, result, header, rdnfo, sent, answered, early, lines>>
  BY DEF ReceiveBlock
<1>2. /\ body \in Seq(Byte) /\ Len(body) \in Nat /\ received \in 0 .. Len(body)
      /\ received \in Nat /\ MemoryOK(chunk) /\ chunk.size = received
      /\ SubSeq(chunk.data, 1, chunk.size) = SubSeq(body, 1, received)
  BY Facts DEF TypeOK, ChunkHolds, BodyInOrder
<1>3. PICK n \in 0 .. Len(body) - received :
        /\ chunk' = WriteMemoryCallback(chunk, SubSeq(body, received + 1, received + n))
        /\ received' = received + n
  BY DEF ReceiveBlock
<1>4. PICK block \in {SubSeq(body, received + 1, received + n)} :
        /\ n \in Nat /\ n <= Len(body) - received
        /\ block = SubSeq(body, received + 1, received + n)
        /\ chunk' = WriteMemoryCallback(chunk, block) /\ received' = received + n
  BY <1>2, <1>3
<1>5. received' \in Nat /\ received' \in 0 .. Len(body) /\ received <= received'
  BY <1>2, <1>4
<1>6. block \in Seq(Byte) /\ Len(block) = n
  <2>1. \A i \in received + 1 .. received + n : body[i] \in Byte
    BY <1>2, <1>4, LenProperties
  <2>. QED
    <3>1. /\ SubSeq(body, received + 1, received + n) \in Seq(Byte)
          /\ Len(SubSeq(body, received + 1, received + n)) =
               IF received + 1 <= received + n THEN (received + n) - (received + 1) + 1 ELSE 0
      <4>1. received + 1 \in Int /\ received + n \in Int
        BY <1>2, <1>4
      <4>. QED
        BY <2>1, <4>1, SubSeqProperties
    <3>2. (IF received + 1 <= received + n THEN (received + n) - (received + 1) + 1 ELSE 0) = n
      BY <1>2, <1>4
    <3>. QED
      BY <1>4, <3>1, <3>2
<1>7. /\ MemoryOK(chunk') /\ chunk'.size = received'
      /\ chunk'.data = SubSeq(chunk.data, 1, chunk.size) \o block \o <<NUL>>
      /\ SubSeq(chunk'.data, 1, chunk'.size) = SubSeq(chunk.data, 1, chunk.size) \o block
  <2>1. chunk' = WriteMemoryCallback(chunk, block) /\ received' = received + n
    BY <1>4
  <2>2. MemoryOK(chunk) /\ chunk.size = received
    BY <1>2
  <2>3. /\ MemoryOK(chunk') /\ chunk'.size = chunk.size + Len(block)
        /\ chunk'.data = SubSeq(chunk.data, 1, chunk.size) \o block \o <<NUL>>
        /\ SubSeq(chunk'.data, 1, chunk'.size) = SubSeq(chunk.data, 1, chunk.size) \o block
    BY <1>6, <2>1, <2>2, WriteAppends, ZenonT(30)
  <2>. QED
    BY <1>6, <2>1, <2>2, <2>3
<1>8. SubSeq(body, 1, received) \o block = SubSeq(body, 1, received')
  <2>1. 1 \in 1 .. Len(body) + 1 /\ received \in 1 - 1 .. Len(body) /\ received' \in received .. Len(body)
    BY <1>2, <1>5
  <2>2. block = SubSeq(body, received + 1, received')
    BY <1>4
  <2>. QED
    BY <1>2, <2>1, <2>2, ConcatAdjacentSubSeq
<1>9. ChunkHolds'
  BY <1>1, <1>2, <1>7, <1>8 DEF ChunkHolds, BodyInOrder
<1>10. progress' \in [{"sent", "received"} -> Nat \X Nat]
  <2>1. progress \in [{"sent", "received"} -> Nat \X Nat]
    BY DEF TypeOK
  <2>2. ASSUME NEW p \in [{"sent", "received"} -> Nat \X Nat], NEW v \in Nat \X Nat
        PROVE  [p EXCEPT !.received = v] \in [{"sent", "received"} -> Nat \X Nat]
    OBVIOUS
  <2>3. <<chunk'.size, chunk'.size>> \in Nat \X Nat
    BY <1>5, <1>7
  <2>. QED
    BY <1>1, <2>1, <2>2, <2>3, Zenon
<1>11. TypeOK'
  BY <1>1, <1>5, <1>7, <1>10 DEF TypeOK, MemoryOK
<1>12. SentInOrder' /\ TakenOK'
  BY <1>1 DEF SentInOrder, TakenOK, Taken, Length, Source
<1>13. ProgressTrue'
  <2>1. progress \in [{"sent", "received"} -> Nat \X Nat]
    BY DEF TypeOK
  <2>2. ASSUME call.callback
        PROVE  progress'.sent = progress.sent /\ progress'.received = <<received', received'>>
    BY <1>1, <1>7, <2>1, <2>2
  <2>. QED
    BY <1>1, <2>2 DEF ProgressTrue, Length
<1>14. EarlyMeans'
  BY <1>1 DEF EarlyMeans
<1>. QED
  BY <1>9, <1>11, <1>12, <1>13, <1>14

\* What a call comes back with.
LEMMA ReturnStep ==
  ASSUME SetupFails \/ PerformFails \/ PerformSucceeds
  PROVE  pc' = "returned" /\ (Failed(result') \/ Succeeded(result'))
<1>1. CASE SetupFails
  BY <1>1 DEF SetupFails, Return, Failed
<1>2. CASE PerformFails
  BY <1>2 DEF PerformFails, FailEmpty, Return, Failed
<1>3. CASE PerformSucceeds
  BY <1>3 DEF PerformSucceeds, Return, Succeeded
<1>. QED
  BY <1>1, <1>2, <1>3

\* The other steps.
LEMMA StepInv == IInv /\ [Next]_vars => IInv'
<1> SUFFICES ASSUME IInv, [Next]_vars PROVE IInv'
  OBVIOUS
<1> USE DEF IInv, service
<1>1. CASE SetupFails \/ PerformFails \/ PerformSucceeds
  <2>1. UNCHANGED <<call, body, buffers, service>>
    BY <1>1 DEF SetupFails, PerformFails, PerformSucceeds
  <2>2. pc' = "returned" /\ (Failed(result') \/ Succeeded(result'))
    BY <1>1, ReturnStep
  <2>3. result' # None
    <3>1. <<>> \in Seq(Byte) /\ chunk.data \in Seq(Byte)
      BY DEF TypeOK, MemoryOK
    <3>. QED
      BY <2>2, <3>1, ResultIsSome DEF Failed, Succeeded
  <2>4. SentInOrder' /\ TakenOK' /\ ProgressTrue' /\ ChunkHolds' /\ MemoryOK(chunk)' /\ MemoryOK(header)'
    BY <2>1, QuietStep
  <2>5. TypeOK'
    BY <2>1, <2>2, <2>3, <2>4 DEF TypeOK, buffers
  <2>6. EarlyMeans'
    BY <2>1 DEF EarlyMeans, buffers
  <2>. QED
    BY <2>4, <2>5, <2>6
<1>2. CASE Setup
  <2>1. /\ UNCHANGED <<call, body, result, buffers, service>>
        /\ pc = "setup" /\ pc' = "perform"
    BY <1>2 DEF Setup
  <2>2. SentInOrder' /\ TakenOK' /\ ProgressTrue' /\ ChunkHolds' /\ MemoryOK(chunk)' /\ MemoryOK(header)'
    BY <2>1, QuietStep
  <2>4. TypeOK'
    BY <2>1, <2>2 DEF TypeOK, buffers
  <2>5. EarlyMeans'
    BY <2>1 DEF EarlyMeans, buffers
  <2>. QED
    BY <2>2, <2>4, <2>5
<1>3. CASE Answer
  <2>1. /\ UNCHANGED <<call, body, pc, result, buffers, sent, lines, received>>
        /\ pc = "perform" /\ ~answered
        /\ answered' = TRUE /\ early' = (Len(sent) < Length(call))
    BY <1>3 DEF Answer
  <2>2. SentInOrder' /\ TakenOK' /\ ProgressTrue' /\ ChunkHolds' /\ MemoryOK(chunk)' /\ MemoryOK(header)'
    BY <2>1, QuietStep
  <2>3. TypeOK'
    BY <2>1, <2>2 DEF TypeOK, buffers
  <2>4. EarlyMeans'
    <3>1. Len(sent) \in Nat /\ Length(call) \in Nat
      BY Facts
    <3>2. sent' = sent /\ Length(call)' = Length(call)
      BY <2>1 DEF Length
    <3>3. ~(Len(sent) < Length(call)) => Length(call) <= Len(sent)
      BY <3>1
    <3>4. ~early' => ~(Len(sent) < Length(call))
      BY <2>1, Zenon
    <3>. QED
      BY <2>1, <3>2, <3>3, <3>4, Zenon DEF EarlyMeans
  <2>. QED
    BY <2>2, <2>3, <2>4
<1>4. CASE SendBlock
  BY <1>4, SendInv
<1>5. CASE ReceiveHeader
  BY <1>5, HeaderInv
<1>6. CASE ReceiveBlock
  BY <1>6, BlockInv
<1>7. CASE UNCHANGED vars
  <2>1. UNCHANGED <<call, body, pc, result, buffers, service>>
    BY <1>7 DEF vars
  <2>2. SentInOrder' /\ TakenOK' /\ ProgressTrue' /\ ChunkHolds' /\ MemoryOK(chunk)' /\ MemoryOK(header)'
    BY <2>1, QuietStep
  <2>. QED
    BY <2>1, <2>2 DEF TypeOK, EarlyMeans, Length, buffers
<1>. QED
  BY <1>1, <1>2, <1>3, <1>4, <1>5, <1>6, <1>7 DEF Next

LEMMA Invariant == Spec => []IInv
  BY InitInv, StepInv, PTL DEF Spec

\* Every buffer has room for its bytes and ends with a NUL, whatever the
\* blocks (WriteMemoryCallback).
THEOREM Types == Spec => []TypeOK
<1>1. IInv => TypeOK
  BY DEF IInv
<1>. QED
  BY <1>1, Invariant, PTL

\* Whatever libcurl asks for, ReadMemoryCallback, or fread, gives it the
\* request in order, each byte once, up to the number announced: also of a
\* file that is longer or shorter than the caller's len.
THEOREM Sends == Spec => []SentInOrder
<1>1. IInv => SentInOrder
  BY DEF IInv
<1>. QED
  BY <1>1, Invariant, PTL

\* The callback of oauth_curl_send_data_with_callback hears the true numbers.
THEOREM Reports == Spec => []ProgressTrue
<1>1. IInv => ProgressTrue
  BY DEF IInv
<1>. QED
  BY <1>1, Invariant, PTL

\* The bytes of a buffer after a block has been written to it.
LEMMA WritePlaces ==
  ASSUME NEW mem, MemoryOK(mem), NEW block \in Seq(Byte),
         NEW new, new = WriteMemoryCallback(mem, block)
  PROVE  /\ \A i \in 1 .. mem.size : new.data[i] = mem.data[i]
         /\ \A i \in 1 .. Len(block) : new.data[mem.size + i] = block[i]
         /\ \A i \in 1 .. new.size : new.data[i] \in Byte
<1>1. /\ new.size = mem.size + Len(block) /\ new.data \in Seq(Byte)
      /\ Len(new.data) = new.size + 1 \/ new = NoMemory
      /\ SubSeq(new.data, 1, new.size) = SubSeq(mem.data, 1, mem.size) \o block
  BY WriteAppends DEF MemoryOK
<1>2. /\ mem.size \in Nat /\ Len(block) \in Nat
      /\ mem.data \in Seq(Byte) /\ mem.size <= Len(mem.data)
  BY LenProperties DEF MemoryOK, NoMemory
<1>3. new.size \in Nat /\ \A i \in 1 .. new.size : new.data[i] \in Byte
  BY <1>1, <1>2, ElementOfSeq, LenProperties DEF NoMemory
<1>4. \A i \in 1 .. new.size : SubSeq(new.data, 1, new.size)[i] = new.data[i]
  BY <1>3, SubSeqProperties
<1> DEFINE old == SubSeq(mem.data, 1, mem.size)
<1>5. /\ old \in Seq(Byte) /\ Len(old) = mem.size
      /\ \A i \in 1 .. mem.size : old[i] = mem.data[i]
  <2>1. \A i \in 1 .. mem.size : mem.data[i] \in Byte
    BY <1>2, ElementOfSeq, LenProperties
  <2>. QED
    BY <1>2, <2>1, SubSeqProperties
<1> HIDE DEF old
<1>6. \A i \in 1 .. new.size :
        new.data[i] = IF i <= mem.size THEN old[i] ELSE block[i - mem.size]
  <2>1. \A i \in 1 .. new.size : (old \o block)[i] =
          IF i <= mem.size THEN old[i] ELSE block[i - mem.size]
    BY <1>1, <1>5, ConcatProperties
  <2>. QED
    BY <1>1, <1>4, <2>1 DEF old
<1>7. ASSUME NEW i \in 1 .. Len(block) PROVE new.data[mem.size + i] = block[i]
  <2>1. mem.size + i \in 1 .. new.size /\ ~(mem.size + i <= mem.size)
        /\ (mem.size + i) - mem.size = i
    BY <1>1, <1>2
  <2>. QED
    BY <1>6, <2>1
<1>8. ASSUME NEW i \in 1 .. mem.size PROVE new.data[i] = mem.data[i]
  <2>1. i \in 1 .. new.size /\ i <= mem.size
    BY <1>1, <1>2
  <2>. QED
    BY <1>5, <1>6, <2>1
<1>. QED
  BY <1>3, <1>7, <1>8

\* One more line is behind the lines that are there.
LEMMA HeaderStep == IInv /\ HeaderInOrder /\ ReceiveHeader => HeaderInOrder'
<1> SUFFICES ASSUME IInv, HeaderInOrder, ReceiveHeader, call.header
             PROVE  HeaderInOrder'
  BY DEF ReceiveHeader, HeaderInOrder
<1> DEFINE line == HeaderLine[lines + 1]
<1>1. /\ lines < Len(HeaderLine) /\ lines' = lines + 1 /\ call' = call
      /\ header' = WriteMemoryCallback(header, line)
  BY DEF ReceiveHeader
<1>2. /\ lines \in Nat /\ MemoryOK(header)
      /\ \A i \in 1 .. lines + 1 : HeaderLine[i] \in Seq(Byte)
  <2>1. lines \in Nat /\ Len(HeaderLine) \in Nat
    BY Facts DEF IInv
  <2>. QED
    BY <1>1, <2>1, TransferAssumption, ElementOfSeq DEF IInv, TypeOK
<1>3. line \in Seq(Byte) /\ Len(line) \in Nat /\ header.size \in Nat
  BY <1>2, LenProperties DEF MemoryOK
<1>4. /\ header'.size = header.size + Len(line)
      /\ \A i \in 1 .. header.size : header'.data[i] = header.data[i]
      /\ \A i \in 1 .. Len(line) : header'.data[header.size + i] = line[i]
      /\ \A i \in 1 .. header'.size : header'.data[i] \in Byte
  BY <1>1, <1>2, <1>3, WriteAppends, WritePlaces
<1>5. PICK end \in [0 .. lines -> 0 .. header.size] :
        /\ end[0] = 0 /\ end[lines] = header.size
        /\ \A i \in 1 .. lines :
             /\ end[i] = end[i - 1] + Len(HeaderLine[i])
             /\ SubSeq(header.data, end[i - 1] + 1, end[i]) = HeaderLine[i]
  BY DEF HeaderInOrder
<1> HIDE DEF line
<1> DEFINE ends == [i \in 0 .. lines + 1 |-> IF i <= lines THEN end[i] ELSE header'.size]
<1>6. ends \in [0 .. lines' -> 0 .. header'.size] /\ ends[0] = 0
      /\ ends[lines'] = header'.size
      /\ \A i \in 0 .. lines : ends[i] = end[i]
  <2>1. \A i \in 0 .. lines : end[i] \in 0 .. header'.size
    BY <1>3, <1>4, <1>5
  <2>. QED
    BY <1>1, <1>2, <1>3, <1>4, <1>5, <2>1
<1> HIDE DEF ends
\* The bytes of a stretch of the buffer are those of a line.
<1>7. ASSUME NEW a \in Nat, NEW s \in Seq(Byte), a + Len(s) <= header'.size,
             \A k \in 1 .. Len(s) : header'.data[a + k] = s[k]
      PROVE  SubSeq(header'.data, a + 1, a + Len(s)) = s
  <2> DEFINE t == SubSeq(header'.data, a + 1, a + Len(s))
  <2>1. Len(s) \in Nat
    BY LenProperties
  <2>2. \A i \in a + 1 .. a + Len(s) : header'.data[i] \in Byte
    <3>1. \A i \in a + 1 .. a + Len(s) : i \in 1 .. header'.size
      BY <1>3, <1>4, <1>7, <2>1
    <3>. QED
      BY <1>4, <3>1
  <2>3. /\ t \in Seq(Byte) /\ Len(t) = Len(s)
        /\ \A k \in 1 .. Len(s) : t[k] = header'.data[a + k]
    <3>1. /\ t \in Seq(Byte)
          /\ Len(t) = IF a + 1 <= a + Len(s) THEN (a + Len(s)) - (a + 1) + 1 ELSE 0
          /\ \A k \in 1 .. (a + Len(s)) - (a + 1) + 1 :
               t[k] = header'.data[a + 1 + k - 1]
      BY <2>1, <2>2, SubSeqProperties
    <3> HIDE DEF t
    <3>2. (a + Len(s)) - (a + 1) + 1 = Len(s) /\ \A k \in Nat : a + 1 + k - 1 = a + k
      BY <2>1
    <3>3. a + 1 <= a + Len(s) \/ Len(s) = 0
      BY <2>1
    <3>4. Len(t) = Len(s)
      BY <2>1, <3>1, <3>2, <3>3
    <3>5. \A k \in 1 .. Len(s) : t[k] = header'.data[a + k]
      BY <2>1, <3>1, <3>2
    <3>. QED
      BY <3>1, <3>4, <3>5
  <2> HIDE DEF t
  <2>4. t = s
    BY <1>7, <2>3, SeqEqual
  <2>. QED
    BY <2>4 DEF t
<1>8. ASSUME NEW i \in 1 .. lines'
      PROVE  /\ ends[i] = ends[i - 1] + Len(HeaderLine[i])
             /\ SubSeq(header'.data, ends[i - 1] + 1, ends[i]) = HeaderLine[i]
  <2>1. CASE i <= lines
    <3>1. /\ i \in 1 .. lines /\ ends[i] = end[i] /\ ends[i - 1] = end[i - 1]
          /\ HeaderLine[i] \in Seq(Byte)
      <4>1. i \in 1 .. lines /\ i \in 0 .. lines /\ i - 1 \in 0 .. lines
            /\ i \in 1 .. lines + 1
        BY <1>1, <1>2, <2>1
      <4>. QED
        BY <1>2, <1>6, <4>1
    <3>2. /\ end[i - 1] \in 0 .. header.size /\ end[i] \in 0 .. header.size
          /\ end[i] = end[i - 1] + Len(HeaderLine[i])
          /\ SubSeq(header.data, end[i - 1] + 1, end[i]) = HeaderLine[i]
      BY <1>2, <1>5, <3>1
    <3> DEFINE a == end[i - 1]
               n == Len(HeaderLine[i])
    <3>3. a \in Nat /\ n \in Nat /\ a + n <= header.size
      BY <1>3, <3>1, <3>2, LenProperties
    <3>4. \A k \in 1 .. n : header'.data[a + k] = HeaderLine[i][k]
      <4>1. \A k \in a + 1 .. a + n : header.data[k] \in Byte
        <5>1. header.data \in Seq(Byte) /\ header.size <= Len(header.data)
          BY <1>2 DEF MemoryOK, NoMemory
        <5>. QED
          BY <1>3, <3>3, <5>1, ElementOfSeq, LenProperties
      <4>2. \A k \in 1 .. (a + n) - (a + 1) + 1 :
              SubSeq(header.data, a + 1, a + n)[k] = header.data[a + 1 + k - 1]
        BY <3>3, <4>1, SubSeqProperties
      <4>3. SubSeq(header.data, a + 1, a + n) = HeaderLine[i]
        BY <3>2
      <4> HIDE DEF a, n
      <4>4. \A k \in 1 .. n : HeaderLine[i][k] = header.data[a + k]
        BY <3>3, <4>2, <4>3
      <4>. QED
        BY <1>3, <1>4, <3>3, <4>4
    <3>5. a + n <= header'.size
      BY <1>3, <1>4, <3>3
    <3>6. SubSeq(header'.data, a + 1, a + n) = HeaderLine[i]
      BY <1>7, <3>1, <3>3, <3>4, <3>5
    <3>. QED
      BY <3>1, <3>2, <3>6
  <2>2. CASE i > lines
    <3>1. /\ i = lines + 1 /\ ends[i] = header'.size /\ ends[i - 1] = header.size
          /\ HeaderLine[i] = line
      <4>1. i = lines + 1 /\ i = lines' /\ i - 1 = lines /\ lines \in 0 .. lines
        BY <1>1, <1>2, <2>2
      <4>. QED
        BY <1>5, <1>6, <4>1 DEF line
    <3>2. SubSeq(header'.data, header.size + 1, header.size + Len(line)) = line
      <4>1. header.size + Len(line) <= header'.size
        BY <1>3, <1>4
      <4>. QED
        BY <1>3, <1>4, <1>7, <4>1
    <3>. QED
      BY <1>4, <3>1, <3>2
  <2>3. i <= lines \/ i > lines
    BY <1>1, <1>2
  <2>. QED
    BY <2>1, <2>2, <2>3
<1>. QED
  BY <1>6, <1>8 DEF HeaderInOrder

\* What the callers get are the lines of the header and the blocks of the body
\* as they came, without a gap or a NUL between them.
THEOREM Receives == Spec => []ReceivedInOrder
<1>1. IInv => BodyInOrder
  BY DEF IInv, ChunkHolds
<1>2. Init => HeaderInOrder
  <2> SUFFICES ASSUME Init PROVE HeaderInOrder
    OBVIOUS
  <2>1. lines = 0 /\ header.size = 0
    BY DEF Init, NoMemory
  <2> DEFINE end == [i \in 0 .. lines |-> 0]
  <2>2. end \in [0 .. lines -> 0 .. header.size] /\ end[0] = 0 /\ end[lines] = header.size
    BY <2>1
  <2>3. 1 .. lines = {}
    BY <2>1
  <2> HIDE DEF end
  <2>. QED
    BY <2>2, <2>3 DEF HeaderInOrder
<1>3. IInv /\ HeaderInOrder /\ [Next]_vars => HeaderInOrder'
  <2>1. ASSUME UNCHANGED <<call, header, lines>>, HeaderInOrder
        PROVE  HeaderInOrder'
    BY <2>1 DEF HeaderInOrder
  <2>2. [Next]_vars => ReceiveHeader \/ UNCHANGED <<call, header, lines>>
    BY DEF Next, SetupFails, Setup, SendBlock, Answer, ReceiveBlock, PerformFails,
           PerformSucceeds, vars, buffers, service
  <2>. QED
    BY <2>1, <2>2, HeaderStep
<1>. QED
  BY <1>1, <1>2, <1>3, Invariant, PTL DEF Spec, ReceivedInOrder

-----------------------------------------------------------------------------
(* The refinement.                                                         *)

LEMMA EmptyText == Text(<<>>) = <<>>
<1>1. <<>> \in Seq(Byte) /\ Len(<<>>) = 0
  BY EmptySeq
<1>2. Text(<<>>) \in Seq(Byte) /\ Len(Text(<<>>)) = 0
  <2>1. \A s \in Seq(Byte) : Text(s) \in Seq(Byte) /\ Len(Text(s)) \in 0 .. Len(s)
    BY TextType
  <2>2. Len(Text(<<>>)) \in 0 .. 0
    BY <1>1, <2>1
  <2>3. Text(<<>>) \in Seq(Byte)
    BY <1>1, <2>1, Zenon
  <2>. QED
    BY <2>2, <2>3
<1>. QED
  BY <1>2, EmptySeq

\* What the contract has as the length is what the code announces.
Wanted ==
  IF call.fn = "send_data" /\ call.len = 0 THEN 0 ELSE Asked(call)

LEMMA WantedIsLength ==
  ASSUME TypeOK
  PROVE  Wanted = Length(call)
<1>1. /\ call.fn \in {"get", "get2", "delete", "post", "post_file", "send_data"}
      /\ call.len \in Nat /\ Wrapped(call)
  <2>1. call.fn \in Function /\ call.len \in 0 .. MaxLen /\ Wrapped(call)
    BY DEF TypeOK, Call
  <2>. QED
    <3>1. Function \subseteq {"get", "get2", "delete", "post", "post_file", "send_data"}
      BY TransferAssumption
    <3>2. MaxLen \in Nat
      BY TransferAssumption
    <3>3. call.len \in Nat
      BY ONLY <2>1, <3>2
    <3>4. call.fn \in {"get", "get2", "delete", "post", "post_file", "send_data"}
      BY ONLY <2>1, <3>1
    <3>. QED
      BY <2>1, <3>3, <3>4
<1>2. CASE call.fn = "post"
  BY <1>2 DEF Wanted, Asked, Length
<1>3. CASE call.fn = "post_file"
  BY <1>1, <1>3 DEF Wanted, Asked, Length
<1>4. CASE call.fn = "send_data"
  BY <1>1, <1>4 DEF Wanted, Asked, Length
<1>5. CASE call.fn \in {"get", "get2", "delete"}
  BY <1>1, <1>5 DEF Wanted, Asked, Length
<1>. QED
  BY <1>1, <1>2, <1>3, <1>4, <1>5

\* What is read of a reply is a text.
LEMMA ReadableType ==
  ASSUME TypeOK
  PROVE  Readable(body) \in Seq(Byte)
  BY Facts, TextType DEF Readable

\* Where the whole body has come, its buffer has the reply that is returned.
LEMMA WholeReply ==
  ASSUME IInv, received = Len(body)
  PROVE  SubSeq(chunk.data, 1, chunk.size) = body /\ Text(chunk.data) = Text(body)
<1>1. body \in Seq(Byte) /\ SubSeq(body, 1, received) = body
  <2>1. body \in Seq(Byte)
    BY Facts DEF IInv
  <2>. QED
    BY <2>1, SubSeqFull
<1>2. SubSeq(chunk.data, 1, chunk.size) = body /\ chunk.size = received
  BY <1>1 DEF IInv, ChunkHolds, BodyInOrder
<1>3. CASE chunk = NoMemory
  <2>1. Len(body) = 0
    BY <1>2, <1>3 DEF NoMemory
  <2>2. body = <<>> /\ chunk.data = <<>>
    BY <1>1, <1>3, <2>1, EmptySeq DEF NoMemory
  <2>. QED
    BY <1>2, <2>2
<1>4. CASE chunk.data = SubSeq(body, 1, received) \o <<NUL>>
  BY <1>1, <1>2, <1>4, TextWithNul
<1>. QED
  BY <1>3, <1>4 DEF IInv, ChunkHolds

\* A failure that leaves nothing is one of the contract.
LEMMA FailsWithNothing ==
  ASSUME Contract!Return, Readable(body) \in Seq(Byte),
         Given' = [code |-> 1, text |-> <<>>]
  PROVE  Contract!Fail
<1>1. Len(Readable(body)) \in Nat /\ 0 \in 0 .. Len(Readable(body))
  BY LenProperties
<1>2. SubSeq(Readable(body), 1, 0) = <<>>
  BY SubSeqEmpty
<1>. QED
  BY <1>1, <1>2 DEF Contract!Fail

\* What get2's caller gets when the call fails is a part of the reply.
LEMMA FailsWithPart ==
  ASSUME IInv, Contract!Return, call.fn = "get2",
         Given' = [code |-> 1, text |-> SubSeq(chunk.data, 1, chunk.size)]
  PROVE  Contract!Fail
<1>1. Readable(body) = body /\ SubSeq(chunk.data, 1, chunk.size) = SubSeq(body, 1, received)
  BY DEF Readable, IInv, ChunkHolds, BodyInOrder
<1>2. received \in 0 .. Len(body)
  BY DEF IInv, TypeOK
<1>. QED
  BY <1>1, <1>2 DEF Contract!Fail

\* A call that comes back hands over the reply, or fails.
LEMMA ReturnRefines ==
  ASSUME IInv, pc # "returned", UNCHANGED <<call, body, buffers, service>>,
         pc' = "returned", Failed(result') \/ Succeeded(result')
  PROVE  Contract!Next
<1>1. /\ UNCHANGED <<call, body, early, sent>> /\ chunk' = chunk
  BY DEF buffers, service
<1>2. Given = None
  BY DEF Given
<1>3. /\ (IF pc' = "returned" THEN sent' ELSE <<>>) = sent
      /\ Wanted' = Wanted /\ Readable(body)' = Readable(body)
  BY <1>1 DEF Wanted, Asked, Readable
<1>4. Wanted = Length(call) /\ Readable(body) \in Seq(Byte)
  BY WantedIsLength, ReadableType DEF IInv
<1>5. Len(sent) <= Length(call) /\ Contract!Begins(sent, call.data)
  BY SentIs DEF IInv, Contract!Begins
<1>6. Contract!Return
  BY <1>1, <1>2, <1>3, <1>4, <1>5 DEF Contract!Return, Wanted
<1>7. CASE call.fn = "get2" /\ Failed(result')
  <2>1. Given' = [code |-> 1, text |-> SubSeq(chunk.data, 1, chunk.size)]
    BY <1>1, <1>7 DEF Given, Failed
  <2>2. Contract!Fail
    BY <1>6, <1>7, <2>1, FailsWithPart
  <2>. QED
    BY <2>2 DEF Contract!Next
<1>8. CASE call.fn # "get2" /\ Failed(result')
  <2>1. Given' = [code |-> 1, text |-> <<>>]
    BY <1>1, <1>8, EmptyText DEF Given, Failed
  <2>2. Contract!Fail
    BY <1>4, <1>6, <2>1, FailsWithNothing
  <2>. QED
    BY <2>2 DEF Contract!Next
<1>9. CASE Succeeded(result')
  <2>1. received = Len(body) /\ answered /\ result' = [code |-> 0, text |-> chunk.data]
    BY <1>9 DEF Succeeded
  <2>2. /\ SubSeq(chunk.data, 1, chunk.size) = body /\ Text(chunk.data) = Text(body)
    BY <2>1, WholeReply
  <2>3. early \/ Len(sent) = Length(call)
    <3>1. Len(sent) \in Nat /\ Length(call) \in Nat
      BY Facts DEF IInv
    <3>. QED
      BY <1>5, <2>1, <3>1 DEF IInv, EarlyMeans
  <2>4. CASE call.fn # "get2" /\ chunk.data = <<>>
    <3>1. Given' = [code |-> 1, text |-> <<>>]
      BY <1>1, <2>1, <2>4, EmptyText DEF Given
    <3>2. Contract!Fail
      BY <1>4, <1>6, <3>1, FailsWithNothing
    <3>. QED
      BY <3>2 DEF Contract!Next
  <2>5. CASE call.fn = "get2" \/ chunk.data # <<>>
    <3>1. Given' = [code |-> 0, text |-> Readable(body)]
      BY <1>1, <2>1, <2>2, <2>5 DEF Given, Readable
    <3>2. Contract!Succeed
      BY <1>3, <1>4, <1>6, <2>3, <3>1 DEF Contract!Succeed, Wanted
    <3>. QED
      BY <3>2 DEF Contract!Next
  <2>. QED
    BY <2>4, <2>5
<1>. QED
  BY <1>7, <1>8, <1>9

\* Until the return the caller sees nothing but an early answer.
LEMMA InsideRefines ==
  ASSUME IInv, pc # "returned", pc' # "returned", UNCHANGED <<call, body>>,
         UNCHANGED early \/ early'
  PROVE  [Contract!Next]_(Contract!vars)
<1>1. Given = None /\ Given' = None
  BY DEF Given
<1>2. /\ (IF pc' = "returned" THEN sent' ELSE <<>>) = <<>>
      /\ (IF pc = "returned" THEN sent ELSE <<>>) = <<>>
      /\ Wanted' = Wanted /\ Readable(body)' = Readable(body)
  BY DEF Wanted, Asked, Readable
<1>3. CASE UNCHANGED early
  BY <1>1, <1>2, <1>3 DEF Contract!vars, Wanted
<1>4. CASE early'
  <2>1. early' = TRUE
    BY <1>4
  <2>2. Contract!AnswerEarly
    BY <1>1, <1>2, <2>1 DEF Contract!AnswerEarly, Wanted
  <2>. QED
    BY <2>2 DEF Contract!Next
<1>. QED
  BY <1>3, <1>4

\* A function of oauth_http.c hands the request over in order, as much of it
\* as oauth.h says, but nothing of data whose length is to be detected; and
\* it gives its caller the whole reply or a failure, for texts of any length
\* and whatever blocks libcurl makes of them.
THEOREM ImplementsContract == Spec => ContractSpec
<1>1. IInv /\ Init => Contract!Init
  <2> SUFFICES ASSUME IInv, Init PROVE Contract!Init
    OBVIOUS
  <2>1. pc = "setup" /\ early = FALSE
    BY DEF Init
  <2>2. Given = None
    BY <2>1 DEF Given
  <2>3. Wanted \in Nat /\ Readable(body) \in Seq(Byte) /\ call.data \in Seq(Byte)
    BY WantedIsLength, ReadableType, Facts DEF IInv
  <2>. QED
    BY <2>1, <2>2, <2>3 DEF Contract!Init, Wanted
<1>2. IInv /\ IInv' /\ [Next]_vars => [Contract!Next]_(Contract!vars)
  <2> SUFFICES ASSUME IInv, IInv', [Next]_vars PROVE [Contract!Next]_(Contract!vars)
    OBVIOUS
  <2>1. CASE SetupFails \/ PerformFails \/ PerformSucceeds
    <3>1. pc # "returned" /\ UNCHANGED <<call, body, buffers, service>>
      BY <2>1 DEF SetupFails, PerformFails, PerformSucceeds
    <3>2. pc' = "returned" /\ (Failed(result') \/ Succeeded(result'))
      BY <2>1, ReturnStep
    <3>. QED
      BY <3>1, <3>2, ReturnRefines
  <2>2. CASE Setup \/ SendBlock \/ ReceiveHeader \/ ReceiveBlock
    <3>1. /\ pc # "returned" /\ pc' # "returned" /\ UNCHANGED <<call, body, early>>
      BY <2>2 DEF Setup, SendBlock, ReceiveHeader, ReceiveBlock, service
    <3>. QED
      BY <3>1, InsideRefines
  <2>3. CASE Answer
    <3>1. pc # "returned" /\ pc' # "returned" /\ UNCHANGED <<call, body>> /\ ~early
      BY <2>3 DEF Answer, IInv, EarlyMeans
    <3>2. early' \in BOOLEAN /\ early \in BOOLEAN
      BY DEF IInv, TypeOK
    <3>3. UNCHANGED early \/ early'
      BY <3>1, <3>2
    <3>. QED
      BY <3>1, <3>3, InsideRefines
  <2>4. CASE UNCHANGED vars
    <3>1. UNCHANGED <<call, body, pc, result, chunk, early, sent>>
      BY <2>4 DEF vars, buffers, service
    <3>. QED
      BY <3>1 DEF Contract!vars, Given, Readable, Asked
  <2>. QED
    BY <2>1, <2>2, <2>3, <2>4 DEF Next
<1>. QED
  BY <1>1, <1>2, Invariant, PTL DEF Spec, ContractSpec, Contract!Spec
=============================================================================
