----------------------------- MODULE OAuthSplit -----------------------------
(***************************************************************************)
(* oauth_split_post_paramters as it runs: a loop over strtok, which cuts   *)
(* the copy of the text and keeps its place in it between two calls.  One  *)
(* step is one round of the loop.                                          *)
(*                                                                         *)
(* Texts are split when a request is signed, in the workers of the pool    *)
(* and in the thread of the user interface, and when an answer to a login  *)
(* is taken apart.  The place of strtok is one for all of them and no lock *)
(* guards it.  A call that overlaps another one may go on in the other's   *)
(* copy.                                                                   *)
(***************************************************************************)
EXTENDS OAuthText

CONSTANTS
  Caller,    \* the threads that split texts
  TextOf,    \* what each may split: [url, qesc]
  NUL,
  NoCopy,
  MaxArgs    \* bound: no call begins while another has more parameters

\* A text ends where its first NUL is.
ASSUME SplitAssumption ==
  /\ \A c \in Caller : \A x \in TextOf[c] : x.url \in Seq(Symbol) /\ x.qesc \in BOOLEAN
  /\ NUL \notin Symbol /\ NoCopy \notin Caller /\ MaxArgs \in Nat

VARIABLES
  pc,      \* "idle", "loop" or "returned"; "astray" when strtok has read memory
           \* that was freed
  passed,  \* what the call was given
  t1,      \* its copy; strtok ends a token with a NUL
  tmp,     \* what strtok is called with: "t1", or "NULL" to go on
  argv,
  owner,   \* whose copy the place of strtok is in, NoCopy when it was freed
  saved,   \* where in it strtok goes on
  mixed    \* history: the calls that have overlapped another one

splitVars == <<pc, passed, t1, tmp, argv, owner, saved, mixed>>

SplitInit ==
  /\ pc = [c \in Caller |-> "idle"]
  /\ passed = [c \in Caller |-> [url |-> <<>>, qesc |-> FALSE]]
  /\ t1 = [c \in Caller |-> <<>>] /\ tmp = [c \in Caller |-> "t1"]
  /\ argv = [c \in Caller |-> <<>>]
  /\ owner = NoCopy /\ saved = 1 /\ mixed = {}

Running(c) == pc[c] \in {"loop", "astray"}

Call(c) ==
  LET others == {d \in Caller : Running(d)}
  IN /\ pc[c] = "idle" /\ \A d \in others : Len(argv[d]) <= MaxArgs
     /\ \E x \in TextOf[c] :
          /\ passed' = [passed EXCEPT ![c] = x]
          /\ t1' = [t1 EXCEPT ![c] = Plus(x.url, x.qesc)]
     /\ pc' = [pc EXCEPT ![c] = "loop"]
     /\ mixed' = IF others = {} THEN mixed ELSE mixed \cup others \cup {c}
     /\ UNCHANGED <<tmp, argv, owner, saved>>

\* The token that strtok finds from a place on: its first index and the one
\* after its last.  At the end of the text they are the same.
End(s, i) == CHOOSE n \in i .. Len(s) + 1 :
               /\ n = Len(s) + 1 \/ s[n] = NUL
               /\ \A k \in i .. n - 1 : s[k] # NUL
Stop(s, i) == CHOOSE n \in i .. End(s, i) :
                /\ n = End(s, i) \/ s[n] \in {"&", "?"}
                /\ \A k \in i .. n - 1 : s[k] \notin {"&", "?"}
\* Slip: nothing is skipped before the token.
StrtokAtOnce(s, i) == <<i, Stop(s, i)>>
Strtok(s, i) ==
  LET first == CHOOSE n \in i .. End(s, i) :
                 /\ n = End(s, i) \/ s[n] \notin {"&", "?"}
                 /\ \A k \in i .. n - 1 : s[k] \in {"&", "?"}
  IN <<first, Stop(s, first)>>

\* Where strtok goes on after a token.
GoOn(s, stop) == IF stop <= Len(s) /\ s[stop] # NUL THEN stop + 1 ELSE stop

\* What strtok is called with next: continue leaves tmp as it is.
NextTmp(token, t) == IF IsSignature(token) THEN t ELSE "NULL"

\* Whether the place that strtok would go on at is in a copy that is freed, or
\* that nothing is known of.
Dangling(c) == tmp[c] = "NULL" /\ owner \notin {d \in Caller : pc[d] = "loop"}

\* What a call does with what strtok has found in the copy of a call.
Take(c, of, at) ==
  LET token == SubSeq(t1[of], at[1], at[2] - 1)
  IN /\ saved' = GoOn(t1[of], at[2])
     /\ \/ /\ token = <<>>
           /\ pc' = [pc EXCEPT ![c] = "returned"]
           /\ t1' = [t1 EXCEPT ![c] = <<>>]
           /\ owner' = IF of = c THEN NoCopy ELSE of
           /\ UNCHANGED <<tmp, argv>>
        \/ /\ token # <<>>
           /\ t1' = [t1 EXCEPT ![of] =
                       [i \in DOMAIN @ |-> IF i = at[2] THEN NUL ELSE @[i]]]
           /\ owner' = of
           /\ tmp' = [tmp EXCEPT ![c] = NextTmp(token, @)]
           /\ argv' = [argv EXCEPT ![c] =
                         IF IsSignature(token) THEN @
                         ELSE Append(@, Element(Len(@) + 1, token))]
           /\ UNCHANGED pc

\* strtok goes on in the copy its place is in, which may be another call's.
Round(c) ==
  /\ pc[c] = "loop" /\ ~Dangling(c)
  /\ \E of \in {IF tmp[c] = "t1" THEN c ELSE owner} :
     \E at \in {Strtok(t1[of], IF tmp[c] = "t1" THEN 1 ELSE saved)} : Take(c, of, at)
  /\ UNCHANGED <<passed, mixed>>

\* What such a read finds and does is unknown.
Astray(c) ==
  /\ pc[c] = "loop" /\ Dangling(c)
  /\ pc' = [pc EXCEPT ![c] = "astray"]
  /\ UNCHANGED <<passed, t1, tmp, argv, owner, saved, mixed>>

\* The caller frees the parameters, and may call again.
FreeArray(c) ==
  /\ pc[c] = "returned"
  /\ pc' = [pc EXCEPT ![c] = "idle"]
  /\ passed' = [passed EXCEPT ![c] = [url |-> <<>>, qesc |-> FALSE]]
  /\ tmp' = [tmp EXCEPT ![c] = "t1"]
  /\ argv' = [argv EXCEPT ![c] = <<>>]
  /\ mixed' = mixed \ {c}
  /\ UNCHANGED <<t1, owner, saved>>

SplitNext == \E c \in Caller : Call(c) \/ Round(c) \/ Astray(c) \/ FreeArray(c)
SplitSpec == SplitInit /\ [][SplitNext]_splitVars
\* A thread that is in the loop gets to run.
FairSplit == SplitSpec /\ \A c \in Caller : WF_splitVars(Round(c))

-----------------------------------------------------------------------------
Right(c) == argv[c] = SplitParameters(passed[c].url, passed[c].qesc)

\* A call that overlapped no other returns the parts between the separators,
\* unescaped and without an old signature.
SplitsAtSeparators ==
  \A c \in Caller : pc[c] = "returned" /\ c \notin mixed => Right(c)

\* oauth.c says of the function that it splits the given URL into a parameter
\* array, and excepts no call.
SplitsAlways == \A c \in Caller : pc[c] = "returned" => Right(c)

\* A call that overlaps no other returns, unless the text begins with an old
\* signature: then strtok is called with t1 again, finds the same token, and
\* so does every later round.
BeginsSigned(c) == LET parts == Tokens(passed[c].url, {"&", "?"})
                   IN parts # <<>> /\ IsPrefix(<<"oauth_signature", "=">>, Head(parts))
SplitReturns ==
  \A c \in Caller :
    (pc[c] = "loop" /\ ~BeginsSigned(c)) ~> (pc[c] = "returned" \/ c \in mixed)
=============================================================================
