------------------------------ MODULE HttpCall ------------------------------
(***************************************************************************)
(* What a caller of oauth_http.c relies on: a call hands the request to    *)
(* the service and comes back once, with the whole reply or with a failure *)
(* that cannot be taken for a reply.                                       *)
(***************************************************************************)
EXTENDS Integers, Sequences

CONSTANTS Byte, None

VARIABLES
  request, length,  \* the data, and how much of it is to be sent
  reply,            \* what the service answers
  own,              \* the reply is put into a buffer of the caller
  early,            \* the service answered before it had the whole request
  delivered,        \* what of the request the service got by the return
  answer            \* code and text that the caller gets, None before that

vars == <<request, length, reply, own, early, delivered, answer>>

Begins(s, t) == Len(s) <= Len(t) /\ \A i \in 1 .. Len(s) : s[i] = t[i]

Init ==
  /\ request \in Seq(Byte) /\ length \in Nat /\ reply \in Seq(Byte)
  /\ own \in BOOLEAN /\ early = FALSE
  /\ delivered = <<>> /\ answer = None

AnswerEarly ==
  /\ answer = None
  /\ early' = TRUE
  /\ UNCHANGED <<request, length, reply, own, delivered, answer>>

Return ==
  /\ answer = None
  /\ Begins(delivered', request) /\ Len(delivered') <= length
  /\ UNCHANGED <<request, length, reply, own, early>>
\* Data that ends before its length is never sent in whole.
Succeed ==
  /\ Return
  /\ early \/ Len(delivered') = length
  /\ answer' = [code |-> 0, text |-> reply]
\* A part of the reply may be left in the caller's buffer, and nowhere else.
Fail ==
  /\ Return
  /\ \E n \in 0 .. Len(reply) :
       /\ n > 0 => own
       /\ answer' = [code |-> 1, text |-> SubSeq(reply, 1, n)]

Next == AnswerEarly \/ Succeed \/ Fail
Spec == Init /\ [][Next]_vars
=============================================================================
