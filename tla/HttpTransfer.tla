---------------------------- MODULE HttpTransfer ----------------------------
(***************************************************************************)
(* oauth_http.c: one call of one of its functions, from the caller's call  *)
(* to the return.  The functions differ in what they send, where the reply *)
(* goes and what the caller learns of a failure; a call is one of them     *)
(* with its arguments.  What they allocate on the way is left out.         *)
(*                                                                         *)
(* libcurl is external.  It takes the request in blocks of any size, hands *)
(* over the lines of the header and the blocks of the body in their order, *)
(* and may fail at any time.  It announces how much it is going to send.   *)
(* The service may answer before it has all that, and then libcurl sends   *)
(* no more of it; of a file that ends earlier it never gets it all.  An    *)
(* HTTP error is an answer like any other: its page is the body.           *)
(*                                                                         *)
(* A MemoryStruct holds size bytes and a NUL after them.  Its data is <<>> *)
(* where the pointer is NULL.                                              *)
(***************************************************************************)
EXTENDS Integers, Sequences

CONSTANTS
  Byte, NUL, None,
  Function,   \* oauth_curl_post, ...
  Payload,    \* what is sent and what is answered
  MaxLen,     \* bound of the length a caller gives
  HeaderLine  \* the lines of the header of every answer

ASSUME TransferAssumption ==
  /\ NUL \in Byte
  /\ None \notin Seq(Byte) \cup [code : {0, 1}, text : Seq(Byte)]
  /\ Payload \subseteq Seq(Byte) /\ HeaderLine \in Seq(Seq(Byte))
  /\ Function \subseteq {"get", "get2", "delete", "post", "post_file", "send_data"}
  /\ MaxLen \in Nat

VARIABLES
  call,      \* the function and its arguments
  body,      \* of the service's answer
  pc,        \* "setup", "perform" or "returned"
  chunk, header,   \* buffers for the reply, see WriteMemoryCallback
  rdnfo,     \* what is left to read of the data or the file
  progress,  \* the last numbers given to the callback, per type of report
  sent,      \* to the service
  answered, early,   \* by the service; before it had the whole request
  lines, received,   \* of the header and bytes of the body handed over
  result     \* code and text that are returned, or None.  Of both get2 returns
             \* the code: the chunk is its caller's.

buffers == <<chunk, header, rdnfo, progress>>
service == <<sent, answered, early, lines, received>>
vars == <<call, body, pc, result, buffers, service>>

-----------------------------------------------------------------------------
(* The functions.                                                          *)

Call ==
  [fn : Function, data : Payload, len : 0 .. MaxLen, header : BOOLEAN, callback : BOOLEAN]

\* The arguments that the wrappers, oauth_http_get and so on, pass on.
Wrapped(c) ==
  /\ c.header => c.fn \in {"get", "get2"}
  /\ c.callback => c.fn = "send_data"
  /\ c.fn \in {"get", "get2", "delete"} => c.data = <<>>
  /\ c.fn = "send_data" => c.len <= Len(c.data)
  /\ c.len > 0 => c.fn \in {"post_file", "send_data"}

\* A text ends at its first NUL.
Text(s) ==
  LET end == CHOOSE n \in 1 .. Len(s) + 1 :
               /\ n = Len(s) + 1 \/ s[n] = NUL
               /\ \A i \in 1 .. n - 1 : s[i] # NUL
  IN SubSeq(s, 1, end - 1)

\* CURLOPT_POSTFIELDSIZE: how much is announced of a text, of a file, whose
\* size is looked up where len is 0, and of data in memory, where it is not.
Length(c) ==
  CASE c.fn = "post" -> Len(Text(c.data))
    [] c.fn = "post_file" -> IF c.len > 0 THEN c.len ELSE Len(c.data)
    [] OTHER -> c.len

\* How much there is to read: a file is read by fread, which does not know len.
Source(c) == IF c.fn = "post_file" THEN Len(c.data) ELSE Length(c)

NoMemory == [data |-> <<>>, size |-> 0]

Init ==
  /\ call \in {c \in Call : Wrapped(c)}
  /\ body \in Payload
  /\ pc = "setup" /\ result = None
  /\ chunk = NoMemory /\ header = NoMemory
  /\ rdnfo = [data |-> call.data, size |-> Source(call)]
  /\ progress = [sent |-> <<0, 0>>, received |-> <<0, 0>>]
  /\ sent = <<>> /\ answered = FALSE /\ early = FALSE /\ lines = 0 /\ received = 0

-----------------------------------------------------------------------------
(* The callbacks.                                                          *)

\* Slip: the block goes behind the NUL.
WriteBehindNul(mem, block) ==
  [data |-> mem.data \o block \o <<NUL>>, size |-> mem.size + Len(block)]
WriteMemoryCallback(mem, block) ==
  [data |-> SubSeq(mem.data, 1, mem.size) \o block \o <<NUL>>,
   size |-> mem.size + Len(block)]

Least(m, n) == IF m < n THEN m ELSE n

\* Slip: the data is not moved on.
ReadAgain(mem, room) ==
  LET realsize == Least(room, mem.size)
  IN [block |-> SubSeq(mem.data, 1, realsize),
      mem |-> [mem EXCEPT !.size = @ - realsize]]
\* libcurl's own reader of a text and fread do the same.
ReadMemoryCallback(mem, room) ==
  LET realsize == Least(room, mem.size)
  IN [block |-> SubSeq(mem.data, 1, realsize),
      mem |-> [data |-> SubSeq(mem.data, realsize + 1, Len(mem.data)),
               size |-> mem.size - realsize]]

\* Slip: the numbers are those from before the block.
ReportSentLate(mem, rest) == <<Length(call) - mem.size, Length(call)>>
\* The rest of ReadMemoryCallbackAndCall.
ReportSent(mem, rest) == <<Length(call) - rest.size, Length(call)>>

-----------------------------------------------------------------------------
(* The call.                                                               *)

Return(code, text) ==
  /\ pc' = "returned"
  /\ result' = [code |-> code, text |-> text]

\* stat and fopen of post_file, and curl_easy_init: each may fail.
SetupFails ==
  /\ pc = "setup"
  /\ Return(1, <<>>)
  /\ UNCHANGED <<call, body, buffers, service>>

Setup ==
  /\ pc = "setup"
  /\ pc' = "perform"
  /\ UNCHANGED <<call, body, result, buffers, service>>

\* What of a block belongs to the request: as much as is announced.  Whether
\* libcurl sends the rest or not, the service does not take it for a part.
Announced(block) ==
  SubSeq(block, 1, Least(Len(block), Length(call) - Len(sent)))

\* libcurl asks for more of the request.
SendBlock ==
  /\ pc = "perform" /\ ~answered
  /\ rdnfo.size > 0 /\ Len(sent) < Length(call)
  /\ \E room \in 1 .. rdnfo.size + 1 :
       LET read == ReadMemoryCallback(rdnfo, room)
       IN /\ sent' = sent \o Announced(read.block)
          /\ rdnfo' = read.mem
          /\ progress' = IF call.callback
                         THEN [progress EXCEPT !.sent = ReportSent(rdnfo, read.mem)]
                         ELSE progress
  /\ UNCHANGED <<call, body, pc, result, chunk, header, answered, early,
                 lines, received>>

Answer ==
  /\ pc = "perform" /\ ~answered
  /\ answered' = TRUE
  /\ early' = (Len(sent) < Length(call))
  /\ UNCHANGED <<call, body, pc, result, buffers, sent, lines, received>>

\* A line of the header, for which only get and get2 have a buffer.
ReceiveHeader ==
  /\ pc = "perform" /\ answered /\ lines < Len(HeaderLine)
  /\ lines' = lines + 1
  /\ header' = IF call.header THEN WriteMemoryCallback(header, HeaderLine[lines + 1])
               ELSE header
  /\ UNCHANGED <<call, body, pc, result, chunk, rdnfo, progress, sent,
                 answered, early, received>>

\* A block of the body.  Of an empty body there may be an empty block.
ReceiveBlock ==
  /\ pc = "perform" /\ answered
  /\ \E n \in 0 .. Len(body) - received :
       /\ n > 0 \/ body = <<>>
       /\ chunk' = WriteMemoryCallback(chunk, SubSeq(body, received + 1, received + n))
       /\ received' = received + n
  /\ progress' = IF call.callback
                 THEN [progress EXCEPT !.received = <<chunk'.size, chunk'.size>>]
                 ELSE progress
  /\ UNCHANGED <<call, body, pc, result, header, rdnfo, sent, answered, early, lines>>

\* Slip: the part of the reply that came is returned.
FailWithPart == Return(1, chunk.data)
\* NULL is returned, or 1 by get2.
FailEmpty == Return(1, <<>>)

PerformFails ==
  /\ pc = "perform"
  /\ FailEmpty
  /\ UNCHANGED <<call, body, buffers, service>>

PerformSucceeds ==
  /\ pc = "perform" /\ answered
  /\ lines = Len(HeaderLine) /\ received = Len(body)
  /\ Return(0, chunk.data)
  /\ UNCHANGED <<call, body, buffers, service>>

Next ==
  \/ SetupFails \/ Setup
  \/ SendBlock \/ Answer \/ ReceiveHeader \/ ReceiveBlock
  \/ PerformFails \/ PerformSucceeds

Spec == Init /\ [][Next]_vars

-----------------------------------------------------------------------------
(* Properties.                                                             *)

MemoryOK(mem) ==
  /\ mem.data \in Seq(Byte) /\ mem.size \in Nat
  /\ \/ mem = NoMemory
     \/ Len(mem.data) = mem.size + 1 /\ mem.data[mem.size + 1] = NUL

\* Types; and a buffer has room for its bytes and ends with a NUL.
TypeOK ==
  /\ call \in Call /\ Wrapped(call) /\ body \in Payload
  /\ pc \in {"setup", "perform", "returned"}
  /\ MemoryOK(chunk) /\ MemoryOK(header)
  /\ rdnfo.data \in Seq(Byte) /\ rdnfo.size \in 0 .. Len(rdnfo.data)
  /\ progress \in [{"sent", "received"} -> Nat \X Nat]
  /\ sent \in Seq(Byte)
  /\ answered \in BOOLEAN /\ early \in BOOLEAN
  /\ lines \in 0 .. Len(HeaderLine) /\ received \in 0 .. Len(body)
  /\ result # None <=> pc = "returned"

\* Whatever the blocks, the service gets the bytes of the request in their
\* order and each once, up to what is announced, and what is left to read is
\* the rest of the data: of a file also where len is not its size.
SentInOrder ==
  LET taken == Len(call.data) - Len(rdnfo.data)
  IN /\ sent = SubSeq(call.data, 1, Least(taken, Length(call)))
     /\ rdnfo.data = SubSeq(call.data, taken + 1, Len(call.data))
     /\ rdnfo.size = Source(call) - taken

\* The buffers hold the body and the lines of the header as they came,
\* one after the other and apart from each other.
BodyInOrder == SubSeq(chunk.data, 1, chunk.size) = SubSeq(body, 1, received)
HeaderInOrder ==
  call.header =>
    \E end \in [0 .. lines -> 0 .. header.size] :   \* of each line
      /\ end[0] = 0 /\ end[lines] = header.size
      /\ \A i \in 1 .. lines :
           /\ end[i] = end[i - 1] + Len(HeaderLine[i])
           /\ SubSeq(header.data, end[i - 1] + 1, end[i]) = HeaderLine[i]
ReceivedInOrder == BodyInOrder /\ HeaderInOrder

\* The callback hears the truth (oauth.h): the bytes sent and received so
\* far, with what there is to send as the one total and what came as the
\* other, so the number sent grows up to its total.
ProgressTrue ==
  call.callback =>
    /\ progress.sent = IF sent = <<>> THEN <<0, 0>> ELSE <<Len(sent), Length(call)>>
    /\ progress.received = <<received, received>>

\* What the caller asks to send: "len length of the file in bytes. set to '0'
\* for autodetection" (oauth.h:662, 699, 750).
Asked(c) ==
  CASE c.fn = "post" \/ (c.fn = "send_data" /\ c.len = 0) -> Len(Text(c.data))
    [] c.fn = "post_file" /\ c.len = 0 -> Len(c.data)
    [] OTHER -> c.len

\* What the caller can read of the reply: get2's caller, whose chunk has the
\* length, every byte, the others a text that ends at the first NUL.  Only
\* get2's caller gets the code; the others take NULL for a failure, which is
\* also what they get for an empty reply.
Readable(s) == IF call.fn = "get2" THEN s ELSE Text(s)
Given ==
  IF pc # "returned" THEN None
  ELSE IF call.fn = "get2"
  THEN [code |-> result.code, text |-> SubSeq(chunk.data, 1, chunk.size)]
  ELSE [code |-> IF result.text = <<>> THEN 1 ELSE 0, text |-> Text(result.text)]

\* oauth_http.c implements the contract of a call, but for data in memory
\* whose length the caller leaves to be detected: of that it sends nothing.
Contract == INSTANCE HttpCall
              WITH request <- call.data,
                   length <- IF call.fn = "send_data" /\ call.len = 0 THEN 0
                             ELSE Asked(call),
                   reply <- Readable(body),
                   own <- call.fn = "get2",
                   delivered <- IF pc = "returned" THEN sent ELSE <<>>,
                   answer <- Given
ContractSpec == Contract!Spec
=============================================================================
