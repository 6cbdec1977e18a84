------------------------------ MODULE MCOAuth ------------------------------
(***************************************************************************)
(* The forms of requests for TLC.  The queries also serve as the bytes     *)
(* that are encoded, hashed and compared.  The threads that split texts    *)
(* run in the same model, beside the form of a reply.                      *)
(***************************************************************************)
EXTENDS OAuthParams, OAuthEncoding, MCOAuthSplit

Host == <<"http", ":", "/", "/", "host">>
Port == <<":", "80">>
Path == <<"/", "x">>

\* Escaped and twice escaped symbols, digits of either case, and what stands
\* for a space or an ampersand.
Escapes == {"=", "&", "%", "2", "5", "6", "+", "SOH"}
EscapedEquals == {"x", "=", "%", "3", "D"}
EscapedSpaces == {"=", "%", "0", "2", "+", "B"}
EscapedUrl == {"%", "2", "3", "A", "F", "f"}
Separators == {"x", "=", "&", "?", "+", "SOH", "oauth_signature"}
\* The text of a reply, which is split but not signed.
Reply == [base |-> <<>>, post |-> FALSE, max |-> 0, symbols |-> {}]
Forms ==
  [base : {Host \o Path}, post : {FALSE}, max : {5},
   symbols : {Escapes, EscapedEquals, EscapedUrl}]
    \cup [base : {Host \o Path}, post : BOOLEAN, max : {4}, symbols : {EscapedSpaces}]
    \cup [base : {Host, Host \o Path, Host \o Port, Host \o Port \o Path},
          post : BOOLEAN, max : {3}, symbols : {Separators}]
    \cup {Reply}
\* Bytes with all bits, none, or some at either end, and characters of the
\* encoding, the "=" among them.
Characters == UNION {Escapes, EscapedEquals, EscapedSpaces, EscapedUrl, Separators}
Byte == [c \in Characters |->
  CASE c = "x" -> 0 [] c = "=" -> 255 [] c = "&" -> 128 [] c = "%" -> 3
    [] c = "2" -> 61 [] c = "5" -> 65 [] c = "6" -> 251 [] c = "+" -> 10
    [] c = "SOH" -> 191 [] c = "?" -> 64 [] c = "oauth_signature" -> 15
    [] c = "3" -> 47 [] c = "D" -> 1 [] c = "0" -> 32 [] c = "B" -> 2
    [] c = "A" -> 240 [] c = "F" -> 8 [] c = "f" -> 16]
bytes == [i \in DOMAIN query |-> Byte[query[i]]]

\* The hash of a body is that of all its bytes, as file (oauth_body_hash_file)
\* or as data (oauth_body_hash_data), and base 64 (oauth_encode_base64,
\* oauth_decode_base64) loses nothing of it and needs no more room than is
\* allocated.
BodyHashes == RoundTrips(bytes) /\ HashesAll(bytes)

\* The two share no variable, so they are looked at one after the other.
Together == <<form, query, splitVars>>
Start == Init /\ SplitInit
Step ==
  \/ Extend /\ SplitInit /\ UNCHANGED splitVars
  \/ form = Reply /\ SplitNext /\ UNCHANGED <<form, query>>
FairTogether ==
  Start /\ [][Step]_Together /\ \A c \in Caller : WF_splitVars(Round(c))
=============================================================================
