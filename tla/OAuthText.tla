----------------------------- MODULE OAuthText -----------------------------
(***************************************************************************)
(* The texts that oauth.c escapes, unescapes and splits at separators.     *)
(*                                                                         *)
(* A text is a sequence of symbols.  Most symbols are characters; a name   *)
(* of the protocol, a value that is made up for it and the letters that    *)
(* nothing is done to are one symbol each, and so are the digits of port   *)
(* 80.                                                                     *)
(***************************************************************************)
EXTENDS Naturals, Sequences, SequencesExt

\* The symbols that are escaped, with their hexadecimal codes.
Hex == [c \in {"SOH", " ", "\"", "%", "&", "+", "/", ":", "=", "?",
                "R", "U", "V", "b", "e", "f"} |->
  CASE c = "SOH" -> <<"0", "1">> [] c = " " -> <<"2", "0">> [] c = "\"" -> <<"2", "2">>
    [] c = "%" -> <<"2", "5">> [] c = "&" -> <<"2", "6">> [] c = "+" -> <<"2", "B">>
    [] c = "/" -> <<"2", "F">> [] c = ":" -> <<"3", "A">> [] c = "=" -> <<"3", "D">>
    [] c = "?" -> <<"3", "F">> [] c = "R" -> <<"5", "2">> [] c = "U" -> <<"5", "5">>
    [] c = "V" -> <<"5", "6">> [] c = "b" -> <<"6", "2">> [] c = "e" -> <<"6", "5">>
    [] c = "f" -> <<"6", "6">>]
Unreserved == {"R", "U", "V", "b", "e", "f"}
Reserved == DOMAIN Hex \ Unreserved

\* Hexadecimal digits of either case (isxdigit).
HexDigit == {"0", "1", "2", "3", "5", "6", "A", "B", "D", "F", "b", "e", "f"}
Upper == [d \in HexDigit |-> CASE d = "b" -> "B" [] d = "e" -> "E" [] d = "f" -> "F"
                               [] OTHER -> d]

\* All symbols in the order of strcmp.
Ascii == <<"SOH", " ", "\"", "%", "&", "+", "/", "0", "1", "2", "3", "5", "6",
  "80", ":", "=", "?", "A", "B", "D", "F", "GET", "POST", "R", "U", "V", "_method",
  "b", "e", "f", "host", "http", "oauth_consumer_key", "oauth_nonce",
  "oauth_signature", "oauth_timestamp", "oauth_token", "oauth_version", "value",
  "x">>
Symbol == ToSet(Ascii)
Code == [c \in Symbol |-> CHOOSE i \in DOMAIN Ascii : Ascii[i] = c]

\* strcmp(s, t) < 0
Before(s, t) ==
  \/ IsStrictPrefix(s, t)
  \/ \E i \in DOMAIN s \cap DOMAIN t :
       /\ SubSeq(s, 1, i - 1) = SubSeq(t, 1, i - 1)
       /\ Code[s[i]] < Code[t[i]]

-----------------------------------------------------------------------------
(* Escaping.                                                               *)

EscapeWith(kept, s) ==
  FlattenSeq([i \in DOMAIN s |->
    IF s[i] \in Reserved \ kept THEN <<"%">> \o Hex[s[i]] ELSE <<s[i]>>])

\* Slip: an ampersand passes.
EscapeNotAmpersand(s) == EscapeWith({"&"}, s)
UrlEscape(s) == EscapeWith({}, s)

\* The symbol that two hexadecimal digits stand for.  Digits that stand for
\* none are not part of the texts (Readable).
Unhex(a, b) ==
  LET code == <<Upper[a], Upper[b]>>
  IN CHOOSE c \in DOMAIN Hex : (\E d \in DOMAIN Hex : Hex[d] = code) => Hex[c] = code
EscapeAt(s, i) ==
  s[i] = "%" /\ i + 2 <= Len(s) /\ {s[i + 1], s[i + 2]} \subseteq HexDigit
Readable(s) ==
  \A i \in DOMAIN s : EscapeAt(s, i) =>
    \E c \in DOMAIN Hex : Hex[c] = <<Upper[s[i + 1]], Upper[s[i + 2]]>>

UrlUnescape(s) ==
  LET at[i \in Nat] ==
        IF i > Len(s) THEN <<>>
        ELSE IF EscapeAt(s, i) THEN <<Unhex(s[i + 1], s[i + 2])>> \o at[i + 3]
        ELSE <<s[i]>> \o at[i + 1]
  IN at[1]

Replace(s, old, new) == [i \in DOMAIN s |-> IF s[i] = old THEN new ELSE s[i]]

\* The elements of s that pass a test.  (SelectSeq, in a form that can be
\* reasoned about.)
Sift(s, Test(_)) ==
  FlattenSeq([i \in DOMAIN s |-> IF Test(s[i]) THEN <<s[i]>> ELSE <<>>])

\* The parts of s between separators, empty ones left out (strtok).
Tokens(s, separators) ==
  LET add(parts, c) ==
        IF c \in separators THEN Append(parts, <<>>)
        ELSE [parts EXCEPT ![Len(parts)] = Append(@, c)]
  IN Sift(FoldLeft(add, << <<>> >>, s), LAMBDA t : t # <<>>)

Find(s, part) == {i \in 1 .. Len(s) + 1 - Len(part) :
                    SubSeq(s, i, i + Len(part) - 1) = part}
\* The port that http has anyway is left out: ":80/" becomes "/".
WithoutPort(url) ==
  LET at == Find(url, <<":", "80", "/">>)
  IN IF at = {} THEN url
     ELSE LET i == CHOOSE n \in at : \A k \in at : n <= k
          IN SubSeq(url, 1, i - 1) \o SubSeq(url, i + 2, Len(url))

\* Whether the URL ends before its path begins.
NoPath(url) ==
  \E i \in Find(url, <<":", "/">>) :
    /\ \A k \in Find(url, <<":", "/">>) : i <= k
    /\ \E k \in i + 2 .. Len(url) + 1 :
         /\ \A n \in i + 1 .. k - 1 : url[n] = "/"
         /\ \A n \in k .. Len(url) : url[n] # "/"

\* Slip: other parameters whose name begins like that are taken for it.
BeginsLikeSignature(p) == IsPrefix(<<"oauth_signature">>, p)
IsSignature(p) == IsPrefix(<<"oauth_signature", "=">>, p)

\* What is made of the n-th part: it is unescaped, and a URL gets a path.
Element(n, token) ==
  LET t == Replace(token, "SOH", "&")
      e == IF n = 1 /\ NoPath(t) THEN Append(t, "/") ELSE UrlUnescape(t)
  IN IF n = 1 THEN WithoutPort(e) ELSE e

\* oauth_split_post_paramters of a URL, with or without qesc.
Plus(url, qesc) == IF qesc THEN Replace(url, "+", " ") ELSE url
SplitParameters(url, qesc) ==
  LET tokens == Sift(Tokens(Plus(url, qesc), {"&", "?"}), LAMBDA t : ~IsSignature(t))
  IN [i \in DOMAIN tokens |-> Element(i, tokens[i])]
=============================================================================
