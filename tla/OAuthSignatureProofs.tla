------------------------ MODULE OAuthSignatureProofs ------------------------
(***************************************************************************)
(* Proofs about the signing of a request, for queries of any length: what  *)
(* is escaped, sorted and joined in the request is what the service        *)
(* decodes, sorts and joins to verify the signature.                       *)
(***************************************************************************)
EXTENDS OAuthProofs

-----------------------------------------------------------------------------
(* Escaping.                                                               *)

\* What a symbol becomes, and the symbols of an escaped text.
Piece(c) == IF c \in Reserved THEN <<"%">> \o Hex[c] ELSE <<c>>
Pieces(s) == [i \in DOMAIN s |-> Piece(s[i])]
Plain == Symbol \ (Reserved \ {"%"})

\* Some symbols.
LEMMA DigitsAreSymbols == HexDigit \subseteq Symbol /\ "%" \in Symbol /\ "=" \in Symbol /\ "&" \in Symbol
<1>1. /\ Ascii[4] = "%" /\ Ascii[5] = "&" /\ Ascii[8] = "0" /\ Ascii[9] = "1" /\ Ascii[10] = "2"
      /\ Ascii[11] = "3" /\ Ascii[12] = "5" /\ Ascii[13] = "6" /\ Ascii[16] = "="
      /\ Ascii[18] = "A" /\ Ascii[19] = "B" /\ Ascii[20] = "D" /\ Ascii[21] = "F"
      /\ Ascii[28] = "b" /\ Ascii[29] = "e" /\ Ascii[30] = "f"
      /\ {4, 5, 8, 9, 10, 11, 12, 13, 16, 18, 19, 20, 21, 28, 29, 30} \subseteq DOMAIN Ascii
  BY DEF Ascii
<1>. QED
  BY <1>1 DEF Symbol, ToSet, HexDigit

\* What is escaped.
LEMMA ReservedIs ==
  /\ Reserved = {"SOH", " ", "\"", "%", "&", "+", "/", ":", "=", "?"}
  /\ HexDigit \cap Reserved = {}
<1>1. Reserved = {"SOH", " ", "\"", "%", "&", "+", "/", ":", "=", "?"}
  BY DEF Reserved, Unreserved, Hex
<1>. QED
  BY <1>1 DEF HexDigit

\* Two hexadecimal digits stand for one symbol.
LEMMA HexIs ==
  /\ \A c \in DOMAIN Hex : \E a, b \in HexDigit :
       Hex[c] = <<a, b>> /\ Upper[a] = a /\ Upper[b] = b
  /\ \A c, d \in DOMAIN Hex : Hex[c] = Hex[d] => c = d
<1>1. ASSUME NEW c \in DOMAIN Hex
      PROVE  \E a, b \in HexDigit : Hex[c] = <<a, b>> /\ Upper[a] = a /\ Upper[b] = b
  <2>1. \E a, b \in HexDigit \ {"b", "e", "f"} : Hex[c] = <<a, b>>
    BY DEF Hex, HexDigit
  <2>2. \A a \in HexDigit \ {"b", "e", "f"} : Upper[a] = a
    BY DEF Upper
  <2>. QED
    BY <2>1, <2>2
<1>2. ASSUME NEW c \in DOMAIN Hex, NEW d \in DOMAIN Hex, Hex[c] = Hex[d] PROVE c = d
  <2>1. CASE c = "SOH"
    BY <1>2, <2>1 DEF Hex
  <2>2. CASE c = " "
    BY <1>2, <2>2 DEF Hex
  <2>3. CASE c = "\""
    BY <1>2, <2>3 DEF Hex
  <2>4. CASE c = "%"
    BY <1>2, <2>4 DEF Hex
  <2>5. CASE c = "&"
    BY <1>2, <2>5 DEF Hex
  <2>6. CASE c = "+"
    BY <1>2, <2>6 DEF Hex
  <2>7. CASE c = "/"
    BY <1>2, <2>7 DEF Hex
  <2>8. CASE c = ":"
    BY <1>2, <2>8 DEF Hex
  <2>9. CASE c = "="
    BY <1>2, <2>9 DEF Hex
  <2>10. CASE c = "?"
    BY <1>2, <2>10 DEF Hex
  <2>11. CASE c = "R"
    BY <1>2, <2>11 DEF Hex
  <2>12. CASE c = "U"
    BY <1>2, <2>12 DEF Hex
  <2>13. CASE c = "V"
    BY <1>2, <2>13 DEF Hex
  <2>14. CASE c = "b"
    BY <1>2, <2>14 DEF Hex
  <2>15. CASE c = "e"
    BY <1>2, <2>15 DEF Hex
  <2>16. CASE c = "f"
    BY <1>2, <2>16 DEF Hex
  <2>17. c \in {"SOH", " ", "\"", "%", "&", "+", "/", ":", "=", "?", "R", "U", "V", "b", "e", "f"}
    BY DEF Hex
  <2>. QED
    BY <2>1, <2>2, <2>3, <2>4, <2>5, <2>6, <2>7, <2>8,
       <2>9, <2>10, <2>11, <2>12, <2>13, <2>14, <2>15, <2>16, <2>17
<1>. QED
  BY <1>1, <1>2

\* One symbol and two.
LEMMA OneAndTwo ==
  ASSUME NEW S, NEW x \in S, NEW y \in S, NEW z \in S
  PROVE  <<x>> \o <<y, z>> = <<x, y, z>>
<1> DEFINE one == <<x>>
           two == <<y, z>>
           three == <<x, y, z>>
           c == one \o two
<1>1. one \in Seq(S) /\ Len(one) = 1 /\ one[1] = x
  OBVIOUS
<1>2. two \in Seq(S) /\ Len(two) = 2 /\ two[1] = y /\ two[2] = z
  OBVIOUS
<1>3. three \in Seq(S) /\ Len(three) = 3 /\ three[1] = x /\ three[2] = y /\ three[3] = z
  OBVIOUS
<1> HIDE DEF one, two, three
<1>4. /\ c \in Seq(S) /\ Len(c) = Len(one) + Len(two)
      /\ \A i \in 1 .. Len(one) + Len(two) : c[i] = IF i <= Len(one) THEN one[i] ELSE two[i - Len(one)]
  BY <1>1, <1>2, ConcatProperties
<1> HIDE DEF c
<1>5. Len(c) = 3 /\ c[1] = x /\ c[2] = y /\ c[3] = z
  <2>1. Len(c) = 3 /\ \A i \in 1 .. 3 : c[i] = IF i <= 1 THEN one[i] ELSE two[i - 1]
    BY <1>1, <1>2, <1>4
  <2>2. c[1] = one[1] /\ c[2] = two[1] /\ c[3] = two[2]
    BY <2>1
  <2>. QED
    BY <1>1, <1>2, <2>1, <2>2
<1>6. \A i \in 1 .. Len(c) : c[i] = three[i]
  BY <1>3, <1>5
<1>7. c = three
  BY <1>3, <1>4, <1>5, <1>6, SeqEqual
<1>. QED
  BY <1>7 DEF c, one, two, three

\* An escape sequence stands for one symbol again.
LEMMA UnhexIs ==
  /\ \A a, b : Unhex(a, b) \in DOMAIN Hex
  /\ \A a, b, c : c \in DOMAIN Hex /\ Hex[c] = <<Upper[a], Upper[b]>> => Unhex(a, b) = c
<1>1. ASSUME NEW a, NEW b, NEW code, code = <<Upper[a], Upper[b]>>
      PROVE  /\ Unhex(a, b) \in DOMAIN Hex
             /\ (\E d \in DOMAIN Hex : Hex[d] = code) => Hex[Unhex(a, b)] = code
  <2> DEFINE P(c) == (\E d \in DOMAIN Hex : Hex[d] = code) => Hex[c] = code
  <2>1. Unhex(a, b) = CHOOSE c \in DOMAIN Hex : P(c)
    BY <1>1, Zenon DEF Unhex
  <2>2. "%" \in DOMAIN Hex
    BY DEF Hex
  <2>3. \E c \in DOMAIN Hex : P(c)
    BY <2>2, Zenon
  <2>4. Unhex(a, b) \in DOMAIN Hex /\ P(Unhex(a, b))
    BY <2>1, <2>3, Zenon
  <2>. QED
    BY <2>4, Zenon
<1>2. \A a, b : Unhex(a, b) \in DOMAIN Hex
  BY <1>1, Zenon
<1>3. ASSUME NEW a, NEW b, NEW c \in DOMAIN Hex, Hex[c] = <<Upper[a], Upper[b]>>
      PROVE  Unhex(a, b) = c
  <2> DEFINE code == <<Upper[a], Upper[b]>>
  <2>1. Hex[Unhex(a, b)] = Hex[c] /\ Unhex(a, b) \in DOMAIN Hex
    BY <1>1, <1>3, Zenon
  <2>. QED
    BY <2>1, HexIs, Zenon
<1>. QED
  BY <1>2, <1>3, Zenon

\* What a symbol becomes.
LEMMA PieceIs ==
  ASSUME NEW c \in Symbol
  PROVE  /\ Piece(c) \in Seq(Plain)
         /\ c \notin Reserved => Piece(c) = <<c>> /\ c \in Plain /\ c # "%"
         /\ c \in Reserved => \E a, b \in HexDigit : Piece(c) = <<"%", a, b>> /\ Unhex(a, b) = c
<1>1. HexDigit \subseteq Plain /\ "%" \in Plain /\ "%" \in Reserved
  BY DigitsAreSymbols, ReservedIs DEF Plain
<1>2. CASE c \in Reserved
  <2>1. c \in DOMAIN Hex
    BY <1>2 DEF Reserved
  <2>2. PICK a \in HexDigit, b \in HexDigit :
               Hex[c] = <<a, b>> /\ Upper[a] = a /\ Upper[b] = b
    BY <2>1, HexIs
  <2>3. Piece(c) = <<"%", a, b>>
    <3>1. <<"%">> \o <<a, b>> = <<"%", a, b>>
      BY <1>1, OneAndTwo
    <3>2. Piece(c) = <<"%">> \o Hex[c]
      BY <1>2, Zenon DEF Piece
    <3>. QED
      BY <2>2, <3>1, <3>2
  <2>4. Unhex(a, b) = c
    <3>1. Hex[c] = <<Upper[a], Upper[b]>>
      BY <2>2
    <3>. QED
      BY <2>1, <3>1, UnhexIs, Zenon
  <2>5. <<"%", a, b>> \in Seq(Plain)
    BY <1>1
  <2>. QED
    BY <1>2, <2>3, <2>4, <2>5
<1>3. CASE c \notin Reserved
  <2>1. Piece(c) = <<c>> /\ c \in Plain /\ c # "%"
    BY <1>1, <1>3 DEF Piece, Plain
  <2>. QED
    BY <1>3, <2>1
<1>. QED
  BY <1>2, <1>3

\* An escaped text is its pieces, joined.
LEMMA EscapeIs ==
  ASSUME NEW s \in Seq(Symbol)
  PROVE  /\ UrlEscape(s) = FlattenSeq(Pieces(s)) /\ UrlEscape(s) \in Seq(Plain)
         /\ Pieces(s) \in Seq(Seq(Plain)) /\ Len(Pieces(s)) = Len(s)
         /\ \A i \in 1 .. Len(s) : Pieces(s)[i] = Piece(s[i])
<1> DEFINE n == Len(s)
<1>1. n \in Nat /\ DOMAIN s = 1 .. n /\ \A i \in 1 .. n : s[i] \in Symbol
  BY LenProperties, ElementOfSeq
<1>2. \A i \in 1 .. n : Piece(s[i]) \in Seq(Plain)
  BY <1>1, PieceIs
<1>3. Pieces(s) \in [1 .. n -> Seq(Plain)] /\ \A i \in 1 .. n : Pieces(s)[i] = Piece(s[i])
  BY <1>1, <1>2 DEF Pieces
<1>4. Pieces(s) \in Seq(Seq(Plain)) /\ Len(Pieces(s)) = n
  BY <1>1, <1>3, IsSeq
<1>5. UrlEscape(s) = FlattenSeq(Pieces(s))
  <2>1. Reserved \ {} = Reserved
    OBVIOUS
  <2>. QED
    BY <2>1, Zenon DEF UrlEscape, EscapeWith, Pieces, Piece
<1>6. FlattenSeq(Pieces(s)) \in Seq(Plain)
  BY <1>4, FlattenType
<1>. QED
  BY <1>3, <1>4, <1>5, <1>6

\* Where a piece is in what is joined.
Begins(a, b) == Len(a) <= Len(b) /\ \A i \in 1 .. Len(a) : b[i] = a[i]

\* What is joined only grows.
LEMMA JoinGrows ==
  ASSUME NEW S, NEW seqs \in Seq(Seq(S)), NEW fl \in [0 .. Len(seqs) -> Seq(S)],
         Joins(fl, seqs), NEW m \in 0 .. Len(seqs), NEW n \in m .. Len(seqs)
  PROVE  Begins(fl[m], fl[n])
<1> DEFINE T == {i \in Nat : m + i <= Len(seqs) => Begins(fl[m], fl[m + i])}
<1>0. Len(seqs) \in Nat
  BY LenProperties
<1>1. 0 \in T
  <2>1. m + 0 = m
    BY <1>0
  <2>. QED
    BY <1>0, <2>1 DEF Begins
<1>2. ASSUME NEW i \in Nat, i \in T PROVE i + 1 \in T
  <2>1. SUFFICES ASSUME m + (i + 1) <= Len(seqs) PROVE Begins(fl[m], fl[m + (i + 1)])
    OBVIOUS
  <2> DEFINE j == m + i
  <2>2. j \in 0 .. Len(seqs) - 1 /\ j \in 0 .. Len(seqs) /\ j + 1 \in 1 .. Len(seqs) /\ m + (i + 1) = j + 1
    BY <1>0, <2>1
  <2>3. Begins(fl[m], fl[j])
    BY <1>2, <2>2
  <2> HIDE DEF j
  <2>4. fl[j + 1] = fl[j] \o seqs[j + 1]
    BY <2>2 DEF Joins
  <2> DEFINE a == fl[m]
             b == fl[j]
             c == seqs[j + 1]
  <2>5. a \in Seq(S) /\ b \in Seq(S) /\ c \in Seq(S)
    BY <1>0, <2>2, ElementOfSeq
  <2>6. Begins(a, b)
    BY <2>3
  <2> HIDE DEF a, b, c
  <2>7. Len(b \o c) = Len(b) + Len(c) /\ \A k \in 1 .. Len(b) + Len(c) : (b \o c)[k] = IF k <= Len(b) THEN b[k] ELSE c[k - Len(b)]
    BY <2>5, ConcatProperties
  <2>8. Len(a) \in Nat /\ Len(b) \in Nat /\ Len(c) \in Nat
    BY <2>5, LenProperties
  <2> DEFINE bc == b \o c
  <2> HIDE DEF bc
  <2>9. Begins(a, bc)
    BY <2>6, <2>7, <2>8 DEF Begins, bc
  <2>. QED
    BY <2>2, <2>4, <2>9 DEF a, b, c, bc
<1>3. n - m \in Nat /\ m + (n - m) = n
  BY <1>0
<1>4. n - m \in T
  <2> HIDE DEF T
  <2>. QED
    BY <1>1, <1>2, <1>3, NumberInduction
<1>. QED
  BY <1>0, <1>3, <1>4

\* A sequence stands in another one, from a place on.
StandsAt(whole, n, s) == \A j \in 1 .. Len(s) : whole[n + j] = s[j]
JoinOf(S, seqs, fl) ==
  seqs \in Seq(Seq(S)) /\ fl \in [0 .. Len(seqs) -> Seq(S)] /\ Joins(fl, seqs)

\* Where a piece stands in what is joined.
LEMMA JoinPlace ==
  ASSUME NEW S, NEW seqs, NEW fl, JoinOf(S, seqs, fl), NEW k \in 0 .. Len(seqs) - 1,
         NEW whole, whole = fl[Len(seqs)]
  PROVE  /\ Len(fl[k]) \in Nat /\ seqs[k + 1] \in Seq(S)
         /\ Len(fl[k + 1]) = Len(fl[k]) + Len(seqs[k + 1]) /\ Len(fl[k + 1]) <= Len(whole)
         /\ StandsAt(whole, Len(fl[k]), seqs[k + 1])
<1> DEFINE a == fl[k]
           b == seqs[k + 1]
           c == fl[k + 1]
           n == Len(seqs)
<1>. USE DEF JoinOf
<1>0. n \in Nat /\ k \in 0 .. n /\ k + 1 \in 0 .. n /\ k + 1 \in 1 .. n /\ n \in k + 1 .. n
  BY LenProperties
<1>1. a \in Seq(S) /\ b \in Seq(S) /\ c \in Seq(S) /\ whole \in Seq(S)
  <2>1. \A i \in 1 .. n : seqs[i] \in Seq(S)
    BY ElementOfSeq
  <2>2. n \in 0 .. n
    BY <1>0
  <2>. QED
    BY <1>0, <2>1, <2>2
<1>2. c = a \o b
  BY DEF Joins
<1>3. Begins(c, whole)
  BY <1>0, JoinGrows
<1> HIDE DEF a, b, c, n
<1>4. /\ Len(a \o b) = Len(a) + Len(b)
      /\ \A i \in 1 .. Len(a) + Len(b) : (a \o b)[i] = IF i <= Len(a) THEN a[i] ELSE b[i - Len(a)]
  BY <1>1, ConcatProperties
<1>5. Len(a) \in Nat /\ Len(b) \in Nat
  BY <1>1, LenProperties
<1>6. ASSUME NEW j \in 1 .. Len(b) PROVE whole[Len(a) + j] = b[j]
  <2>1. Len(a) + j \in 1 .. Len(a) + Len(b) /\ ~(Len(a) + j <= Len(a)) /\ (Len(a) + j) - Len(a) = j
    BY <1>5
  <2>2. c[Len(a) + j] = b[j]
    BY <1>2, <1>4, <2>1
  <2>3. whole[Len(a) + j] = c[Len(a) + j]
    BY <1>2, <1>3, <1>4, <2>1 DEF Begins
  <2>. QED
    BY <2>2, <2>3
<1>7. Len(c) = Len(a) + Len(b) /\ Len(c) <= Len(whole)
  BY <1>2, <1>3, <1>4 DEF Begins
<1>. QED
  BY <1>1, <1>5, <1>6, <1>7 DEF a, b, c, StandsAt

\* What the recursion of oauth_url_unescape gives from a place on.
At(s, at, i) ==
  IF i > Len(s) THEN <<>>
  ELSE IF s[i] = "%" /\ i + 2 <= Len(s) /\ {s[i + 1], s[i + 2]} \subseteq HexDigit
  THEN <<Unhex(s[i + 1], s[i + 2])>> \o at[i + 3]
  ELSE <<s[i]>> \o at[i + 1]

\* Texts of symbols in A unescape to texts of symbols in U.
Unescapes(A, U) == A \subseteq U /\ \A a, b \in A \cap HexDigit : Unhex(a, b) \in U

\* What is read are texts.
LEMMA AtType ==
  ASSUME NEW A, NEW U, Unescapes(A, U), NEW s \in Seq(A), NEW g \in [Nat -> Seq(U)],
         NEW i \in Nat \ {0}
  PROVE  At(s, g, i) \in Seq(U)
<1> DEFINE n == Len(s)
<1>0. n \in Nat /\ \A k \in 1 .. n : s[k] \in A
  BY LenProperties, ElementOfSeq
<1>1. g[i + 1] \in Seq(U) /\ g[i + 3] \in Seq(U)
  OBVIOUS
<1>2. ASSUME NEW x \in U, NEW t \in Seq(U) PROVE <<x>> \o t \in Seq(U)
  <2> DEFINE one == <<x>>
  <2>1. one \in Seq(U)
    OBVIOUS
  <2> HIDE DEF one
  <2>2. one \o t \in Seq(U)
    BY <2>1, ConcatProperties
  <2>. QED
    BY <2>2 DEF one
<1>3. CASE i > n
  <2>1. At(s, g, i) = <<>>
    BY <1>3, Zenon DEF At
  <2>. QED
    BY <2>1, EmptySeq
<1>4. CASE ~(i > n) /\ s[i] = "%" /\ i + 2 <= n /\ {s[i + 1], s[i + 2]} \subseteq HexDigit
  <2>1. i + 1 \in 1 .. n /\ i + 2 \in 1 .. n
    BY <1>0, <1>4
  <2>2. Unhex(s[i + 1], s[i + 2]) \in U
    BY <1>0, <1>4, <2>1 DEF Unescapes
  <2>3. At(s, g, i) = <<Unhex(s[i + 1], s[i + 2])>> \o g[i + 3]
    BY <1>4, Zenon DEF At
  <2>. QED
    BY <1>1, <1>2, <2>2, <2>3
<1>5. CASE ~(i > n) /\ ~(s[i] = "%" /\ i + 2 <= n /\ {s[i + 1], s[i + 2]} \subseteq HexDigit)
  <2>1. i \in 1 .. n
    BY <1>0, <1>5
  <2>2. s[i] \in U
    BY <1>0, <2>1 DEF Unescapes
  <2>3. At(s, g, i) = <<s[i]>> \o g[i + 1]
    BY <1>5, Zenon DEF At
  <2>. QED
    BY <1>1, <1>2, <2>2, <2>3
<1>. QED
  BY <1>3, <1>4, <1>5, Zenon

\* f is what it gives from every place on.
Reads(f, s) == \A i \in Nat \ {0} : f[i] = At(s, f, i)

\* What is read depends on the places further on only.
LEMMA AtSame ==
  ASSUME NEW s, NEW g, NEW h, NEW i, g[i + 1] = h[i + 1], g[i + 3] = h[i + 3]
  PROVE  At(s, g, i) = At(s, h, i)
  BY Zenon DEF At

\* The recursion has a solution: it is found from the end of the text.
LEMMA UnescapeExists ==
  ASSUME NEW A, NEW U, Unescapes(A, U), NEW s \in Seq(A)
  PROVE  \E f \in [Nat -> Seq(U)] : Reads(f, s)
<1> DEFINE n == Len(s)
           T == [Nat -> Seq(U)]
           next(k, g) == [i \in Nat |-> IF i = n - k /\ i # 0 THEN At(s, g, i) ELSE g[i]]
           step == [p \in Nat \X T |-> next(p[1], p[2])]
           base == [i \in Nat |-> <<>>]
<1>0. n \in Nat
  BY LenProperties
<1>1. base \in T
  <2>1. <<>> \in Seq(U)
    BY EmptySeq
  <2>. QED
    BY <2>1, Zenon
<1>2. ASSUME NEW k \in Nat, NEW g \in T PROVE next(k, g) \in T
  <2>1. \A i \in Nat \ {0} : At(s, g, i) \in Seq(U)
    BY AtType
  <2>. QED
    BY <2>1
<1>3. step \in [Nat \X T -> T]
  <2> HIDE DEF next, T
  <2>. QED
    BY <1>2
<1>4. PICK F \in [Nat -> T] : Follows(F, base, step)
  <2> HIDE DEF step, base, T
  <2>. QED
    BY <1>1, <1>3, Recursion
<1>5. ASSUME NEW k \in Nat PROVE F[k + 1] = next(k, F[k])
  <2>1. <<k, F[k]>> \in Nat \X T
    BY <1>4
  <2>2. step[<<k, F[k]>>] = next(k, F[k])
    <3> HIDE DEF next, T
    <3>. QED
      BY <2>1
  <2>. QED
    BY <1>4, <2>2 DEF Follows
<1>6. ASSUME NEW k \in Nat, NEW i \in Nat
      PROVE  F[k + 1][i] = IF i = n - k /\ i # 0 THEN At(s, F[k], i) ELSE F[k][i]
  BY <1>5
<1>7. F[0] = base
  BY <1>4 DEF Follows
<1> HIDE DEF next, step
<1> DEFINE Solved == {k \in Nat : k <= n => \A i \in Nat \ {0} : i > n - k => F[k][i] = At(s, F[k], i)}
<1>8. 0 \in Solved
  <2>1. ASSUME NEW i \in Nat \ {0}, i > n PROVE F[0][i] = At(s, F[0], i)
    <3>1. F[0][i] = <<>>
      BY <1>7
    <3>2. At(s, F[0], i) = <<>>
      BY <2>1, Zenon DEF At
    <3>. QED
      BY <3>1, <3>2
  <2>2. n - 0 = n
    BY <1>0
  <2>. QED
    BY <2>1, <2>2
<1>9. ASSUME NEW k \in Nat, k \in Solved PROVE k + 1 \in Solved
  <2>1. ASSUME k + 1 <= n, NEW i \in Nat \ {0}, i > n - (k + 1)
        PROVE  F[k + 1][i] = At(s, F[k + 1], i)
    <3>1. n - k \in Nat /\ n - k # 0 /\ i >= n - k /\ k <= n /\ i \in Nat
      <4> HIDE DEF n
      <4>. QED
        BY <1>0, <2>1
    <3>2. i + 1 \in Nat /\ i + 3 \in Nat /\ i + 1 # n - k /\ i + 3 # n - k
      <4> HIDE DEF n
      <4>. QED
        BY <1>0, <3>1
    <3>3. F[k + 1][i + 1] = F[k][i + 1] /\ F[k + 1][i + 3] = F[k][i + 3]
      BY <1>6, <3>2
    <3>4. At(s, F[k + 1], i) = At(s, F[k], i)
      BY <3>3, AtSame
    <3>5. F[k + 1][i] = At(s, F[k], i)
      <4>1. CASE i = n - k
        BY <1>6, <3>1, <4>1
      <4>2. CASE i # n - k
        <5>1. i > n - k
          BY <1>0, <3>1, <4>2
        <5>2. F[k][i] = At(s, F[k], i)
          BY <1>9, <3>1, <5>1
        <5>. QED
          BY <1>6, <3>1, <4>2, <5>2
      <4>. QED
        BY <4>1, <4>2
    <3>. QED
      BY <3>4, <3>5
  <2>. QED
    BY <2>1
<1>10. n \in Solved
  <2> HIDE DEF Solved
  <2>. QED
    BY <1>0, <1>8, <1>9, NumberInduction
<1>11. \A i \in Nat \ {0} : F[n][i] = At(s, F[n], i)
  <2>1. n <= n /\ \A i \in Nat \ {0} : i > n - n
    BY <1>0
  <2>. QED
    BY <1>10, <2>1
<1>12. F[n] \in T
  BY <1>0
<1>. QED
  BY <1>11, <1>12 DEF Reads

\* oauth_url_unescape is that solution.
LEMMA UnescapeIs ==
  ASSUME NEW A, NEW U, Unescapes(A, U), NEW s \in Seq(A)
  PROVE  \E f \in [Nat -> Seq(U)] : UrlUnescape(s) = f[1] /\ Reads(f, s)
<1> DEFINE n == Len(s)
           Eq(g) == g = [i \in Nat |->
             IF i > Len(s) THEN <<>>
             ELSE IF s[i] = "%" /\ i + 2 <= Len(s) /\ {s[i + 1], s[i + 2]} \subseteq HexDigit
             THEN <<Unhex(s[i + 1], s[i + 2])>> \o g[i + 3]
             ELSE <<s[i]>> \o g[i + 1]]
           at == CHOOSE g : Eq(g)
<1>0. n \in Nat
  BY LenProperties
<1>1. PICK f \in [Nat -> Seq(U)] : Reads(f, s) /\ \A i \in Nat \ {0} : f[i] = At(s, f, i)
  BY UnescapeExists DEF Reads
<1> DEFINE h == [i \in Nat |-> IF i = 0 THEN At(s, f, 0) ELSE f[i]]
<1>2. \A g : Eq(g) <=> g = [i \in Nat |-> At(s, g, i)]
  BY Zenon DEF At
<1>3. ASSUME NEW i \in Nat PROVE h[i] = At(s, h, i)
  <2>1. i + 1 \in Nat /\ i + 3 \in Nat /\ i + 1 # 0 /\ i + 3 # 0
    OBVIOUS
  <2>2. h[i + 1] = f[i + 1] /\ h[i + 3] = f[i + 3]
    BY <2>1
  <2>3. At(s, h, i) = At(s, f, i)
    <3> HIDE DEF h
    <3>. QED
      BY <2>2, AtSame
  <2>. QED
    BY <1>1, <2>3
<1>4. Eq(h)
  <2> DEFINE k == [i \in Nat |-> At(s, h, i)]
  <2>1. DOMAIN h = Nat /\ DOMAIN k = Nat /\ (h = [i \in DOMAIN h |-> h[i]]) /\ (k = [i \in DOMAIN k |-> k[i]])
    BY Zenon
  <2> HIDE DEF h
  <2>2. \A i \in Nat : k[i] = h[i]
    BY <1>3, Zenon
  <2> HIDE DEF k
  <2>3. k = h
    BY <2>1, <2>2, Zenon
  <2>. QED
    BY <1>2, <2>3, Zenon DEF k
<1>5. Eq(at)
  <2> HIDE DEF Eq
  <2>. QED
    BY <1>4, Zenon
<1>6. \A i \in Nat : at[i] = At(s, at, i)
  <2>1. at = [i \in Nat |-> At(s, at, i)]
    BY <1>2, <1>5, Zenon
  <2> HIDE DEF at
  <2>. QED
    BY <2>1, Zenon
<1>7. UrlUnescape(s) = at[1]
  BY Zenon DEF UrlUnescape, EscapeAt
<1> HIDE DEF at, Eq
<1> DEFINE Same == {k \in Nat : k <= n => \A i \in Nat \ {0} : i > n - k => at[i] = f[i]}
<1>8. 0 \in Same
  <2>1. ASSUME NEW i \in Nat \ {0}, i > n PROVE at[i] = f[i]
    <3>1. At(s, at, i) = <<>> /\ At(s, f, i) = <<>>
      BY <2>1, Zenon DEF At
    <3>. QED
      BY <1>1, <1>6, <3>1
  <2>2. n - 0 = n
    BY <1>0
  <2>. QED
    BY <2>1, <2>2
<1>9. ASSUME NEW k \in Nat, k \in Same PROVE k + 1 \in Same
  <2>1. ASSUME k + 1 <= n, NEW i \in Nat \ {0}, i > n - (k + 1)
        PROVE  at[i] = f[i]
    <3>1. i + 1 \in Nat \ {0} /\ i + 3 \in Nat \ {0} /\ i + 1 > n - k /\ i + 3 > n - k /\ k <= n
      <4> HIDE DEF n
      <4>. QED
        BY <1>0, <2>1
    <3>2. at[i + 1] = f[i + 1] /\ at[i + 3] = f[i + 3]
      BY <1>9, <3>1
    <3>3. At(s, at, i) = At(s, f, i)
      BY <3>2, AtSame
    <3>. QED
      BY <1>1, <1>6, <3>3
  <2>. QED
    BY <2>1
<1>10. n \in Same
  <2> HIDE DEF Same
  <2>. QED
    BY <1>0, <1>8, <1>9, NumberInduction
<1>11. at[1] = f[1]
  BY <1>0, <1>10
<1>. QED
  BY <1>1, <1>7, <1>11

\* Induction from the end.
LEMMA DownwardInduction ==
  ASSUME NEW n \in Nat, NEW T, n \in T, \A m \in 0 .. n - 1 : m + 1 \in T => m \in T
  PROVE  \A m \in 0 .. n : m \in T
<1> DEFINE U == {k \in Nat : k <= n => n - k \in T}
<1>1. 0 \in U
  OBVIOUS
<1>2. ASSUME NEW k \in Nat, k \in U PROVE k + 1 \in U
  <2>1. SUFFICES ASSUME k + 1 <= n PROVE n - (k + 1) \in T
    OBVIOUS
  <2>2. n - (k + 1) \in 0 .. n - 1 /\ (n - (k + 1)) + 1 = n - k /\ n - k \in T
    BY <1>2, <2>1
  <2>. QED
    BY <2>2
<1>3. \A k \in Nat : k \in U
  <2> HIDE DEF U
  <2>. QED
    BY <1>1, <1>2, NumberInduction
<1>4. ASSUME NEW m \in 0 .. n PROVE m \in T
  <2>1. n - m \in Nat /\ n - m <= n /\ n - (n - m) = m
    OBVIOUS
  <2>. QED
    BY <1>3, <2>1
<1>. QED
  BY <1>4

\* Unescaping passes one piece of an escaped text.
LEMMA PieceIsRead ==
  ASSUME NEW e, Len(e) \in Nat, NEW f, NEW p \in Nat, f[p] = At(e, f, p),
         NEW c \in Symbol, NEW piece, piece = Piece(c), p + Len(piece) - 1 <= Len(e),
         StandsAt(e, p - 1, piece)
  PROVE  Len(piece) \in Nat /\ f[p] = <<c>> \o f[p + Len(piece)]
<1>0. ASSUME NEW j \in 1 .. Len(piece), j \in Nat PROVE e[p + j - 1] = piece[j]
  <2>1. (p - 1) + j = p + j - 1
    BY <1>0
  <2>. QED
    BY <1>0, <2>1 DEF StandsAt
<1>1. CASE c \notin Reserved
  <2>1. piece = <<c>> /\ c # "%"
    BY <1>1, PieceIs
  <2>2. Len(piece) = 1 /\ piece[1] = c
    BY <2>1
  <2>3. e[p + 1 - 1] = c /\ p + 1 - 1 = p
    BY <1>0, <2>2
  <2>4. e[p] = c /\ ~(p > Len(e)) /\ e[p] # "%"
    BY <2>1, <2>2, <2>3
  <2>5. At(e, f, p) = <<e[p]>> \o f[p + 1]
    BY <2>4, Zenon DEF At
  <2>. QED
    BY <2>2, <2>4, <2>5
<1>2. CASE c \in Reserved
  <2>1. PICK a \in HexDigit, b \in HexDigit : piece = <<"%", a, b>> /\ Unhex(a, b) = c
    BY <1>2, PieceIs
  <2>2. Len(piece) = 3 /\ piece[1] = "%" /\ piece[2] = a /\ piece[3] = b
    BY <2>1
  <2>3. 1 \in 1 .. Len(piece) /\ 2 \in 1 .. Len(piece) /\ 3 \in 1 .. Len(piece)
    BY <2>2
  <2>4. p + 1 - 1 = p /\ p + 2 - 1 = p + 1 /\ p + 3 - 1 = p + 2
    OBVIOUS
  <2>5. e[p] = "%" /\ e[p + 1] = a /\ e[p + 2] = b
    BY <1>0, <2>2, <2>3, <2>4
  <2>6. p + 2 <= Len(e) /\ ~(p > Len(e)) /\ {e[p + 1], e[p + 2]} \subseteq HexDigit
    BY <2>2, <2>4, <2>5
  <2>7. At(e, f, p) = <<Unhex(e[p + 1], e[p + 2])>> \o f[p + 3]
    BY <2>5, <2>6, Zenon DEF At
  <2>. QED
    BY <2>1, <2>2, <2>5, <2>7
<1>. QED
  BY <1>1, <1>2

\* Whatever is escaped, unescaping gives it back.
THEOREM EscapedIsReadBack ==
  ASSUME NEW s \in Seq(Symbol)
  PROVE  UrlUnescape(UrlEscape(s)) = s
<1> DEFINE U == Plain \cup {Unhex(a, b) : a \in HexDigit, b \in HexDigit}
<1>0. Len(s) \in Nat /\ \A i \in 1 .. Len(s) : s[i] \in Symbol
  BY LenProperties, ElementOfSeq
<1>1. PICK e, seqs : /\ e = UrlEscape(s) /\ e = FlattenSeq(seqs) /\ e \in Seq(Plain)
                     /\ seqs \in Seq(Seq(Plain)) /\ Len(seqs) = Len(s)
                     /\ \A i \in 1 .. Len(s) : seqs[i] = Piece(s[i])
  BY EscapeIs
<1>2. PICK fl \in [0 .. Len(seqs) -> Seq(Plain)] : 
                   JoinOf(Plain, seqs, fl) /\ Joins(fl, seqs) /\ e = fl[Len(seqs)]
  BY <1>1, FlattenJoins DEF JoinOf
<1>3. Unescapes(Plain, U)
  BY DEF Unescapes
<1>4. PICK f : UrlUnescape(e) = f[1] /\ Reads(f, e) /\ \A i \in Nat \ {0} : f[i] = At(e, f, i)
  <2> HIDE DEF U
  <2>1. \E f \in [Nat -> Seq(U)] : UrlUnescape(e) = f[1] /\ Reads(f, e)
    BY <1>1, <1>3, UnescapeIs
  <2>. QED
    BY <2>1 DEF Reads
<1>5. Len(e) \in Nat
  BY <1>1, LenProperties
<1> DEFINE Good(m) == f[Len(fl[m]) + 1] = SubSeq(s, m + 1, Len(s))
           Back == {m \in Nat : Good(m)}
<1>6. Good(Len(s))
  <2>1. Len(fl[Len(s)]) + 1 = Len(e) + 1 /\ Len(e) + 1 \in Nat \ {0} /\ Len(e) + 1 > Len(e)
    BY <1>1, <1>2, <1>5
  <2>2. f[Len(e) + 1] = At(e, f, Len(e) + 1)
    BY <1>4, <2>1
  <2>3. At(e, f, Len(e) + 1) = <<>>
    BY <2>1, Zenon DEF At
  <2>4. SubSeq(s, Len(s) + 1, Len(s)) = <<>>
    BY <1>0, SubSeqEmpty
  <2>. QED
    BY <2>1, <2>2, <2>3, <2>4, Zenon
<1>7. ASSUME NEW m \in 0 .. Len(s) - 1, Good(m + 1) PROVE Good(m)
  <2> DEFINE piece == seqs[m + 1]
             p == Len(fl[m]) + 1
             c == s[m + 1]
  <2>1. m \in 0 .. Len(seqs) - 1 /\ m + 1 \in 1 .. Len(s) /\ (m + 1) + 1 = m + 2
    BY <1>0, <1>1
  <2>2. /\ Len(fl[m]) \in Nat /\ piece \in Seq(Plain) /\ Len(fl[m + 1]) = Len(fl[m]) + Len(piece)
        /\ Len(fl[m + 1]) <= Len(e)
        /\ StandsAt(e, Len(fl[m]), piece)
    BY <1>2, <2>1, JoinPlace
  <2>3. c \in Symbol /\ piece = Piece(c) /\ Len(piece) \in Nat
    BY <1>0, <1>1, <2>1, <2>2, LenProperties
  <2>4. f[Len(fl[m + 1]) + 1] = SubSeq(s, m + 2, Len(s))
    BY <1>7, <2>1
  <2> HIDE DEF Good, piece, c
  <2>5. p \in Nat \ {0} /\ p + Len(piece) - 1 <= Len(e) /\ p + Len(piece) = Len(fl[m + 1]) + 1
    BY <2>2, <2>3
  <2>6. StandsAt(e, p - 1, piece)
    <3>1. p - 1 = Len(fl[m])
      BY <2>2
    <3>. QED
      BY <2>2, <3>1
  <2>7. f[p] = At(e, f, p)
    BY <1>4, <2>5
  <2> HIDE DEF p
  <2>8. f[p] = <<c>> \o f[p + Len(piece)]
    <3>1. p \in Nat /\ Len(e) \in Nat /\ c \in Symbol /\ piece = Piece(c) /\ p + Len(piece) - 1 <= Len(e)
      BY <1>5, <2>3, <2>5
    <3>. QED
      BY <2>6, <2>7, <3>1, PieceIsRead, SMTT(60)
  <2>9. SubSeq(s, m + 1, Len(s)) = <<c>> \o SubSeq(s, m + 2, Len(s))
    <3> DEFINE i == m + 1
               n == Len(s)
    <3>1. i \in 1 .. Len(s) /\ n \in i .. Len(s) /\ i + 1 = m + 2
      BY <1>0, <2>1
    <3> HIDE DEF i, n
    <3>2. SubSeq(s, i, n) = <<s[i]>> \o SubSeq(s, i + 1, n)
      BY <3>1, SubSeqRecursiveFirst
    <3>. QED
      BY <3>1, <3>2 DEF c, i, n
  <2>. QED
    BY <2>4, <2>5, <2>8, <2>9 DEF Good, p
<1>8. 0 \in Back
  <2>1. Len(s) \in Back
    BY <1>0, <1>6
  <2>2. \A m \in 0 .. Len(s) - 1 : m + 1 \in Back => m \in Back
    <3> HIDE DEF Good
    <3>. QED
      BY <1>0, <1>7
  <2>3. 0 \in 0 .. Len(s)
    BY <1>0
  <2> HIDE DEF Back
  <2>. QED
    BY <1>0, <2>1, <2>2, <2>3, DownwardInduction
<1>9. Len(fl[0]) = 0
  BY <1>2 DEF Joins
<1>10. SubSeq(s, 1, Len(s)) = s
  BY SubSeqFull
<1>11. f[0 + 1] = SubSeq(s, 0 + 1, Len(s)) /\ 0 + 1 = 1
  BY <1>8, <1>9
<1>. QED
  BY <1>1, <1>4, <1>10, <1>11

\* The service reads back what was escaped.
LEMMA DecodesEscaped ==
  ASSUME NEW s \in Seq(Symbol)
  PROVE  /\ Decode(UrlEscape(s)) = s
         /\ UrlEscape(s) \in Seq(Symbol)
         /\ \A i \in 1 .. Len(UrlEscape(s)) : UrlEscape(s)[i] \notin {"=", "&"}
<1> DEFINE e == UrlEscape(s)
           r == Replace(e, "+", " ")
<1>1. e \in Seq(Plain) /\ Len(e) \in Nat /\ DOMAIN e = 1 .. Len(e)
  BY EscapeIs, LenProperties
<1>2. \A i \in 1 .. Len(e) : e[i] \in Symbol /\ e[i] \notin {"+", "=", "&"}
  <2>1. \A i \in 1 .. Len(e) : e[i] \in Plain
    BY <1>1, ElementOfSeq
  <2> HIDE DEF e
  <2>. QED
    BY <2>1, ReservedIs DEF Plain
<1>3. UrlUnescape(e) = s
  BY EscapedIsReadBack
<1> HIDE DEF e
<1>4. r = e
  <2>1. DOMAIN r = 1 .. Len(e) /\ \A i \in 1 .. Len(e) : r[i] = IF e[i] = "+" THEN " " ELSE e[i]
    BY <1>1 DEF Replace
  <2>2. \A i \in 1 .. Len(e) : r[i] = e[i]
    BY <1>2, <2>1
  <2>3. r = [i \in DOMAIN r |-> r[i]] /\ e = [i \in DOMAIN e |-> e[i]]
    BY <1>1 DEF Replace
  <2> HIDE DEF r
  <2>. QED
    BY <1>1, <2>1, <2>2, <2>3, Zenon
<1>5. Decode(e) = s
  BY <1>3, <1>4, Zenon DEF Decode
<1>6. e \in Seq(Symbol)
  <2>1. e \in [1 .. Len(e) -> Symbol]
    BY <1>1, <1>2
  <2>. QED
    BY <1>1, <2>1, IsSeq
<1>. QED
  BY <1>2, <1>5, <1>6 DEF e

-----------------------------------------------------------------------------
(* Comparing.                                                              *)

\* Each symbol has its place in the order of strcmp.
LEMMA CodeIs ==
  /\ \A c \in Symbol : Code[c] \in Nat \ {0}
  /\ \A c, d \in Symbol : Code[c] = Code[d] => c = d
<1>2. DOMAIN Ascii = 1 .. 40
  BY DEF Ascii
<1>3. ASSUME NEW c \in Symbol PROVE Code[c] \in DOMAIN Ascii /\ Ascii[Code[c]] = c
  <2>1. \E i \in DOMAIN Ascii : Ascii[i] = c
    BY DEF Symbol, ToSet
  <2>2. Code[c] = CHOOSE i \in DOMAIN Ascii : Ascii[i] = c
    BY DEF Code
  <2>. QED
    BY <2>1, <2>2
<1>4. ASSUME NEW c \in Symbol PROVE Code[c] \in Nat \ {0}
  BY <1>2, <1>3
<1>5. ASSUME NEW c \in Symbol, NEW d \in Symbol, Code[c] = Code[d] PROVE c = d
  BY <1>3, <1>5
<1>. QED
  BY <1>4, <1>5

\* Texts that begin alike, place by place.
LEMMA SameStart ==
  ASSUME NEW S, NEW s \in Seq(S), NEW t \in Seq(S), NEW n \in Nat, n <= Len(s), n <= Len(t)
  PROVE  SubSeq(s, 1, n) = SubSeq(t, 1, n) <=> \A k \in 1 .. n : s[k] = t[k]
<1>0. /\ Len(s) \in Nat /\ Len(t) \in Nat /\ 1 \in Int /\ n \in Int /\ n - 1 + 1 = n
      /\ \A i \in 1 .. n : s[i] \in S /\ t[i] \in S
  BY LenProperties, ElementOfSeq
<1> DEFINE a == SubSeq(s, 1, n)
           b == SubSeq(t, 1, n)
<1>1. /\ a \in Seq(S) /\ Len(a) = (IF 1 <= n THEN n - 1 + 1 ELSE 0)
      /\ \A i \in 1 .. n - 1 + 1 : a[i] = s[1 + i - 1]
  BY <1>0, SubSeqProperties
<1>2. /\ b \in Seq(S) /\ Len(b) = (IF 1 <= n THEN n - 1 + 1 ELSE 0)
      /\ \A i \in 1 .. n - 1 + 1 : b[i] = t[1 + i - 1]
  BY <1>0, SubSeqProperties
<1> HIDE DEF a, b
<1>3. Len(a) = n /\ Len(b) = n /\ \A i \in 1 .. n : a[i] = s[i] /\ b[i] = t[i]
  BY <1>0, <1>1, <1>2
<1>4. ASSUME a = b PROVE \A k \in 1 .. n : s[k] = t[k]
  BY <1>3, <1>4
<1>5. ASSUME \A k \in 1 .. n : s[k] = t[k] PROVE a = b
  BY <1>1, <1>2, <1>3, <1>5, SeqEqual
<1>. QED
  BY <1>4, <1>5 DEF a, b

\* What strcmp compares at a place; the end of a text is before all else.
Key(s, i) == IF i <= Len(s) THEN Code[s[i]] ELSE 0
SameKeys(s, t, n) == \A k \in 1 .. n : Key(s, k) = Key(t, k)
Differs(s, t, i) == SameKeys(s, t, i - 1) /\ Key(s, i) < Key(t, i)

\* The end of a text comes before all symbols.
LEMMA KeyIs ==
  ASSUME NEW s \in Seq(Symbol), NEW i \in Nat \ {0}
  PROVE  /\ Key(s, i) \in Nat /\ Len(s) \in Nat
         /\ i <= Len(s) => s[i] \in Symbol /\ Key(s, i) = Code[s[i]] /\ Key(s, i) # 0
         /\ ~(i <= Len(s)) => Key(s, i) = 0
<1>0. Len(s) \in Nat
  BY LenProperties
<1>1. CASE i <= Len(s)
  <2>1. s[i] \in Symbol
    BY <1>0, <1>1, ElementOfSeq
  <2>2. Key(s, i) = Code[s[i]]
    BY <1>1 DEF Key
  <2>. QED
    BY <1>0, <1>1, <2>1, <2>2, CodeIs
<1>2. CASE ~(i <= Len(s))
  BY <1>0, <1>2 DEF Key
<1>. QED
  BY <1>1, <1>2

\* strcmp decides at the first difference.
LEMMA BeforeIs ==
  ASSUME NEW s \in Seq(Symbol), NEW t \in Seq(Symbol)
  PROVE  Before(s, t) <=> \E i \in Nat \ {0} : Differs(s, t, i)
<1>0. Len(s) \in Nat /\ Len(t) \in Nat /\ DOMAIN s = 1 .. Len(s) /\ DOMAIN t = 1 .. Len(t)
  BY LenProperties
<1>1. ASSUME IsStrictPrefix(s, t) PROVE \E i \in Nat \ {0} : Differs(s, t, i)
  <2> DEFINE n == Len(s)
  <2>1. n <= Len(t) /\ SubSeq(s, 1, n) = SubSeq(t, 1, n) /\ s # t
    BY <1>1 DEF IsStrictPrefix, IsPrefix
  <2>2. \A k \in 1 .. n : s[k] = t[k]
    BY <1>0, <2>1, SameStart
  <2>3. n # Len(t)
    BY <1>0, <2>1, <2>2, SeqEqual
  <2>4. n + 1 \in Nat \ {0} /\ (n + 1) - 1 = n /\ ~(n + 1 <= Len(s)) /\ n + 1 <= Len(t)
    <3>1. n \in Nat /\ n <= Len(t) /\ n # Len(t) /\ Len(t) \in Nat
      BY <1>0, <2>1, <2>3
    <3>2. ~(n + 1 <= n)
      BY <3>1
    <3>. QED
      BY <3>1, <3>2
  <2>5. Key(s, n + 1) = 0 /\ Key(t, n + 1) \in Nat /\ Key(t, n + 1) # 0
    BY <2>4, KeyIs
  <2>6. SameKeys(s, t, n)
    <3>1. ASSUME NEW k \in 1 .. n PROVE Key(s, k) = Key(t, k)
      <4>1. k <= Len(s) /\ k <= Len(t) /\ s[k] = t[k]
        BY <1>0, <2>1, <2>2
      <4>. QED
        BY <4>1 DEF Key
    <3>. QED
      BY <3>1 DEF SameKeys
  <2> HIDE DEF n
  <2>7. Differs(s, t, n + 1)
    BY <2>4, <2>5, <2>6 DEF Differs
  <2>. QED
    BY <2>4, <2>7
<1>2. ASSUME NEW i \in DOMAIN s \cap DOMAIN t, SubSeq(s, 1, i - 1) = SubSeq(t, 1, i - 1),
             Code[s[i]] < Code[t[i]]
      PROVE  \E j \in Nat \ {0} : Differs(s, t, j)
  <2>1. i \in Nat \ {0} /\ i <= Len(s) /\ i <= Len(t) /\ i - 1 \in Nat /\ i - 1 <= Len(s) /\ i - 1 <= Len(t)
    BY <1>0
  <2>2. \A k \in 1 .. i - 1 : s[k] = t[k]
    BY <1>2, <2>1, SameStart
  <2>3. SameKeys(s, t, i - 1)
    <3>1. ASSUME NEW k \in 1 .. i - 1 PROVE Key(s, k) = Key(t, k)
      <4>1. k <= Len(s) /\ k <= Len(t) /\ s[k] = t[k]
        BY <1>0, <2>1, <2>2
      <4>. QED
        BY <4>1 DEF Key
    <3>. QED
      BY <3>1 DEF SameKeys
  <2>4. Key(s, i) < Key(t, i)
    BY <1>2, <2>1 DEF Key
  <2>. QED
    BY <2>1, <2>3, <2>4 DEF Differs
<1>3. ASSUME NEW i \in Nat \ {0}, Differs(s, t, i) PROVE Before(s, t)
  <2>1. SameKeys(s, t, i - 1) /\ Key(s, i) < Key(t, i) /\ Key(s, i) \in Nat
    BY <1>3, KeyIs DEF Differs
  <2>2. i <= Len(t)
    BY <1>0, <2>1, KeyIs
  <2>3. ASSUME NEW k \in 1 .. i - 1 PROVE k <= Len(s) /\ s[k] = t[k]
    <3>1. k \in Nat \ {0} /\ k <= Len(t)
      BY <1>0, <2>2
    <3>2. Key(s, k) = Key(t, k)
      BY <2>1 DEF SameKeys
    <3>3. Key(t, k) # 0 /\ Key(t, k) = Code[t[k]] /\ t[k] \in Symbol
      BY <3>1, KeyIs
    <3>4. k <= Len(s)
      BY <3>1, <3>2, <3>3, KeyIs
    <3>5. Key(s, k) = Code[s[k]] /\ s[k] \in Symbol
      BY <3>1, <3>4, KeyIs
    <3>. QED
      BY <3>2, <3>3, <3>4, <3>5, CodeIs
  <2>4. i - 1 \in Nat /\ i - 1 <= Len(t) /\ i - 1 <= Len(s)
    <3>1. CASE i = 1
      BY <1>0, <3>1
    <3>2. CASE i # 1
      <4>1. i - 1 \in 1 .. i - 1
        BY <3>2
      <4>. QED
        BY <1>0, <2>2, <2>3, <4>1
    <3>. QED
      BY <3>1, <3>2
  <2>5. SubSeq(s, 1, i - 1) = SubSeq(t, 1, i - 1)
    <3> DEFINE n == i - 1
    <3>1. n \in Nat /\ n <= Len(s) /\ n <= Len(t) /\ \A k \in 1 .. n : s[k] = t[k]
      BY <2>3, <2>4
    <3> HIDE DEF n
    <3>2. SubSeq(s, 1, n) = SubSeq(t, 1, n)
      BY <3>1, SameStart
    <3>. QED
      BY <3>2 DEF n
  <2>6. CASE i <= Len(s)
    <3>1. Code[s[i]] < Code[t[i]]
      BY <2>1, <2>2, <2>6 DEF Key
    <3>2. i \in DOMAIN s \cap DOMAIN t
      BY <1>0, <2>2, <2>6
    <3>. QED
      BY <2>5, <3>1, <3>2, Zenon DEF Before
  <2>7. CASE ~(i <= Len(s))
    <3>1. i - 1 = Len(s) /\ Len(s) <= Len(t) /\ Len(s) # Len(t)
      <4> DEFINE a == Len(s)
                 b == Len(t)
      <4>1. a \in Nat /\ b \in Nat /\ i <= b /\ i - 1 <= a /\ ~(i <= a) /\ i \in Nat
        BY <1>0, <2>2, <2>4, <2>7
      <4> HIDE DEF a, b
      <4>2. i - 1 = a /\ a <= b /\ a # b
        BY <4>1
      <4>. QED
        BY <4>2 DEF a, b
    <3>2. IsStrictPrefix(s, t)
      BY <2>5, <3>1 DEF IsStrictPrefix, IsPrefix
    <3>. QED
      BY <3>2, Zenon DEF Before
  <2>. QED
    BY <2>6, <2>7
<1>. QED
  <2>1. Before(s, t) => \E i \in Nat \ {0} : Differs(s, t, i)
    BY <1>1, <1>2, Zenon DEF Before
  <2>. QED
    BY <1>3, <2>1

\* strcmp is a strict order.
LEMMA BeforeOrders ==
  ASSUME NEW s \in Seq(Symbol), NEW t \in Seq(Symbol), NEW u \in Seq(Symbol)
  PROVE  ~Before(s, s) /\ (Before(s, t) /\ Before(t, u) => Before(s, u))
<1>1. ~Before(s, s)
  <2>1. ASSUME NEW i \in Nat \ {0} PROVE ~Differs(s, s, i)
    <3>1. Key(s, i) \in Nat
      BY KeyIs
    <3>2. ~(Key(s, i) < Key(s, i))
      BY <3>1
    <3>. QED
      BY <3>2 DEF Differs
  <2>. QED
    BY <2>1, BeforeIs
<1>2. ASSUME Before(s, t), Before(t, u) PROVE Before(s, u)
  <2>1. PICK i \in Nat \ {0} : Differs(s, t, i)
    BY <1>2, BeforeIs
  <2>2. PICK j \in Nat \ {0} : Differs(t, u, j)
    BY <1>2, BeforeIs
  <2>3. \E m \in Nat \ {0} : m <= i /\ m <= j /\ (m = i \/ m = j)
    <3>1. CASE i <= j
      BY <3>1
    <3>2. CASE ~(i <= j)
      <4>1. j <= i
        BY <3>2
      <4>. QED
        BY <4>1
    <3>. QED
      BY <3>1, <3>2
  <2>4. PICK m \in Nat \ {0} : m <= i /\ m <= j /\ (m = i \/ m = j)
    BY <2>3
  <2>5. \A k \in 1 .. m - 1 : Key(s, k) = Key(t, k) /\ Key(t, k) = Key(u, k)
    <3>1. \A k \in 1 .. m - 1 : k \in 1 .. i - 1 /\ k \in 1 .. j - 1
      BY <2>4
    <3>. QED
      BY <2>1, <2>2, <3>1 DEF Differs, SameKeys
  <2>6. Key(s, m) \in Nat /\ Key(t, m) \in Nat /\ Key(u, m) \in Nat
    BY KeyIs
  <2>7. Key(s, m) <= Key(t, m) /\ (m = i => Key(s, m) < Key(t, m))
    <3>1. CASE m = i
      BY <2>1, <2>6, <3>1 DEF Differs
    <3>2. CASE m # i
      <4>1. m \in 1 .. i - 1
        BY <2>4, <3>2
      <4>2. Key(s, m) = Key(t, m)
        BY <2>1, <4>1 DEF Differs, SameKeys
      <4>. QED
        BY <2>6, <3>2, <4>2
    <3>. QED
      BY <3>1, <3>2
  <2>8. Key(t, m) <= Key(u, m) /\ (m = j => Key(t, m) < Key(u, m))
    <3>1. CASE m = j
      BY <2>2, <2>6, <3>1 DEF Differs
    <3>2. CASE m # j
      <4>1. m \in 1 .. j - 1
        BY <2>4, <3>2
      <4>2. Key(t, m) = Key(u, m)
        BY <2>2, <4>1 DEF Differs, SameKeys
      <4>. QED
        BY <2>6, <3>2, <4>2
    <3>. QED
      BY <3>1, <3>2
  <2>9. Key(s, m) < Key(u, m)
    BY <2>4, <2>6, <2>7, <2>8
  <2>10. Differs(s, u, m)
    BY <2>5, <2>9 DEF Differs, SameKeys
  <2>. QED
    BY <2>10, BeforeIs
<1>. QED
  BY <1>1, <1>2

-----------------------------------------------------------------------------
(* Names and values.                                                       *)

\* The first of some places.
LEMMA MinPlace ==
  ASSUME NEW n \in Nat, NEW I \in SUBSET (1 .. n), I # {}
  PROVE  Min(I) \in I /\ \A y \in I : Min(I) <= y
<1>1. I \in SUBSET Nat
  OBVIOUS
<1>2. \E x \in I : \A y \in I : x <= y
  BY <1>1, LeastNumber
<1>. QED
  BY <1>2 DEF Min

Places(p) == {i \in 1 .. Len(p) : p[i] = "="}

\* A name ends before the first "=", and a value begins after it.
LEMMA NameIs ==
  ASSUME NEW S, NEW p \in Seq(S)
  PROVE  /\ Name(p) \in Seq(S) /\ Value(p) \in Seq(S)
         /\ ~HasValue(p) => Name(p) = p /\ Value(p) = <<>>
         /\ HasValue(p) => \E n \in 1 .. Len(p) :
              /\ p[n] = "=" /\ \A k \in 1 .. n - 1 : p[k] # "="
              /\ Name(p) = SubSeq(p, 1, n - 1) /\ Value(p) = SubSeq(p, n + 1, Len(p))
<1>0. Len(p) \in Nat /\ \A i \in 1 .. Len(p) : p[i] \in S
  BY LenProperties, ElementOfSeq
<1>1. HasValue(p) <=> Places(p) # {}
  BY Zenon DEF HasValue, Contains, Places
<1>2. CASE ~HasValue(p)
  <2>1. Name(p) = p
    BY <1>2, Zenon DEF Name
  <2>2. Value(p) = <<>>
    <3> DEFINE n == Len(p)
               m == n + 2
    <3>1. m \in Int /\ n \in Int /\ n < m
      BY <1>0
    <3>2. Value(p) = SubSeq(p, m, n)
      BY <2>1, Zenon DEF Value
    <3> HIDE DEF m, n
    <3>. QED
      BY <3>1, <3>2, SubSeqEmpty
  <2>3. Value(p) \in Seq(S)
    BY <2>2, EmptySeq
  <2>. QED
    BY <1>2, <2>1, <2>2, <2>3
<1>3. CASE HasValue(p)
  <2>1. Places(p) \in SUBSET (1 .. Len(p)) /\ Places(p) # {}
    BY <1>1, <1>3 DEF Places
  <2>2. SelectInSeq(p, LAMBDA c : c = "=") = Min(Places(p))
    BY <2>1, Zenon DEF SelectInSeq, Places
  <2>3. PICK n : n = Min(Places(p)) /\ n \in Places(p) /\ \A y \in Places(p) : n <= y
    BY <1>0, <2>1, MinPlace
  <2>4. n \in 1 .. Len(p) /\ p[n] = "="
    BY <2>3 DEF Places
  <2>5. ASSUME NEW k \in 1 .. n - 1 PROVE p[k] # "="
    <3>1. k \in 1 .. Len(p) /\ ~(n <= k)
      BY <1>0, <2>4
    <3>. QED
      BY <2>3, <3>1 DEF Places
  <2>6. Name(p) = SubSeq(p, 1, n - 1)
    BY <1>3, <2>2, <2>3, Zenon DEF Name
  <2>7. \A i \in 1 .. n - 1 : p[i] \in S
    BY <1>0, <2>4
  <2>8. SubSeq(p, 1, n - 1) \in Seq(S) /\ Len(SubSeq(p, 1, n - 1)) = n - 1
    <3> DEFINE m == n - 1
    <3>1. m \in Int /\ 1 \in Int /\ \A i \in 1 .. m : p[i] \in S
      BY <2>4, <2>7
    <3>2. (IF 1 <= m THEN m - 1 + 1 ELSE 0) = n - 1
      BY <2>4
    <3> HIDE DEF m
    <3>3. SubSeq(p, 1, m) \in Seq(S) /\ Len(SubSeq(p, 1, m)) = (IF 1 <= m THEN m - 1 + 1 ELSE 0)
      BY <3>1, SubSeqProperties
    <3>. QED
      BY <3>2, <3>3 DEF m
  <2>9. Value(p) = SubSeq(p, n + 1, Len(p))
    <3>1. Value(p) = SubSeq(p, Len(Name(p)) + 2, Len(p))
      BY Zenon DEF Value
    <3>2. Len(Name(p)) + 2 = n + 1
      BY <2>4, <2>6, <2>8
    <3>. QED
      BY <3>1, <3>2
  <2>10. SubSeq(p, n + 1, Len(p)) \in Seq(S)
    <3>1. n + 1 \in Int /\ Len(p) \in Int /\ \A i \in n + 1 .. Len(p) : p[i] \in S
      BY <1>0, <2>4
    <3>. QED
      BY <3>1, SubSeqProperties
  <2>. QED
    BY <1>3, <2>4, <2>5, <2>6, <2>8, <2>9, <2>10
<1>. QED
  BY <1>2, <1>3

\* A name and a value are found again.
LEMMA NameOf ==
  ASSUME NEW S, "=" \in S, NEW a \in Seq(S), NEW b \in Seq(S),
         \A i \in 1 .. Len(a) : a[i] # "=",
         NEW p, p = a \o <<"=">> \o b
  PROVE  p \in Seq(S) /\ HasValue(p) /\ Name(p) = a /\ Value(p) = b
<1> DEFINE e == <<"=">>
           ae == a \o e
           n == Len(a)
<1>1. e \in Seq(S) /\ Len(e) = 1 /\ e[1] = "="
  OBVIOUS
<1>2. p = ae \o b
  OBVIOUS
<1> HIDE DEF e
<1>3. /\ ae \in Seq(S) /\ Len(ae) = n + 1
      /\ \A i \in 1 .. n + 1 : ae[i] = IF i <= n THEN a[i] ELSE e[i - n]
  <2>1. /\ ae \in Seq(S) /\ Len(ae) = Len(a) + Len(e)
        /\ \A i \in 1 .. Len(a) + Len(e) : ae[i] = IF i <= Len(a) THEN a[i] ELSE e[i - Len(a)]
    BY <1>1, ConcatProperties
  <2>. QED
    BY <1>1, <2>1, Zenon
<1> HIDE DEF ae
<1>4. n \in Nat /\ Len(b) \in Nat
  BY LenProperties
<1>5. /\ p \in Seq(S) /\ Len(p) = n + 1 + Len(b)
      /\ \A i \in 1 .. n + 1 + Len(b) : p[i] = IF i <= n + 1 THEN ae[i] ELSE b[i - (n + 1)]
  BY <1>2, <1>3, ConcatProperties
<1>6. ASSUME NEW i \in 1 .. n PROVE p[i] = a[i]
  BY <1>3, <1>4, <1>5
<1>7. p[n + 1] = "="
  <2> HIDE DEF n
  <2>1. n + 1 \in 1 .. n + 1 /\ n + 1 \in 1 .. n + 1 + Len(b) /\ ~(n + 1 <= n) /\ (n + 1) - n = 1
    BY <1>4
  <2>2. p[n + 1] = ae[n + 1] /\ ae[n + 1] = e[(n + 1) - n]
    BY <1>3, <1>5, <2>1
  <2>. QED
    BY <1>1, <2>1, <2>2
<1>8. ASSUME NEW i \in 1 .. Len(b) PROVE p[n + 1 + i] = b[i]
  <2> HIDE DEF n
  <2>1. n + 1 + i \in 1 .. n + 1 + Len(b) /\ ~(n + 1 + i <= n + 1) /\ (n + 1 + i) - (n + 1) = i
    BY <1>4
  <2>. QED
    BY <1>5, <2>1
<1>9. HasValue(p)
  <2>1. n + 1 \in 1 .. Len(p)
    BY <1>4, <1>5
  <2>. QED
    BY <1>7, <2>1 DEF HasValue, Contains
<1>10. PICK m \in 1 .. Len(p) : /\ p[m] = "=" /\ \A k \in 1 .. m - 1 : p[k] # "="
                               /\ Name(p) = SubSeq(p, 1, m - 1) /\ Value(p) = SubSeq(p, m + 1, Len(p))
  BY <1>5, <1>9, NameIs
<1>11. m = n + 1
  <2>1. CASE m < n + 1
    <3>1. m \in 1 .. n
      BY <1>4, <2>1
    <3>. QED
      BY <1>6, <1>10, <3>1
  <2>2. CASE m > n + 1
    <3>1. n + 1 \in 1 .. m - 1
      BY <1>4, <2>2
    <3>. QED
      BY <1>7, <1>10, <3>1
  <2>3. m \in Int /\ n + 1 \in Int
    BY <1>4, <1>5
  <2>. QED
    BY <2>1, <2>2, <2>3
<1> HIDE DEF n
<1>12. Name(p) = a
  <2>1. m - 1 = n /\ n \in Nat /\ n <= Len(a) /\ n <= Len(p)
    BY <1>4, <1>5, <1>11 DEF n
  <2>2. SubSeq(p, 1, n) = SubSeq(a, 1, n)
    BY <1>5, <1>6, <2>1, SameStart
  <2>3. SubSeq(a, 1, n) = a
    BY SubSeqFull DEF n
  <2>. QED
    BY <1>10, <2>1, <2>2, <2>3
<1>13. Value(p) = b
  <2> DEFINE v == SubSeq(p, n + 2, n + 1 + Len(b))
             j == n + 2
             l == n + 1 + Len(b)
  <2>1. Value(p) = v
    <3>1. m + 1 = n + 2
      BY <1>4, <1>11
    <3>. QED
      BY <1>5, <1>10, <3>1
  <2>2. j \in Int /\ l \in Int /\ \A i \in j .. l : i \in 1 .. Len(p)
    BY <1>4, <1>5
  <2>3. \A i \in j .. l : p[i] \in S
    BY <1>5, <2>2, ElementOfSeq
  <2>4. v = SubSeq(p, j, l)
    OBVIOUS
  <2>5. (IF j <= l THEN l - j + 1 ELSE 0) = Len(b) /\ l - j + 1 = Len(b) /\ \A i \in 1 .. Len(b) : j + i - 1 = n + 1 + i
    BY <1>4
  <2> HIDE DEF v, j, l
  <2>6. v \in Seq(S) /\ Len(v) = (IF j <= l THEN l - j + 1 ELSE 0) /\ \A i \in 1 .. l - j + 1 : v[i] = p[j + i - 1]
    <3>1. /\ SubSeq(p, j, l) \in Seq(S) /\ Len(SubSeq(p, j, l)) = (IF j <= l THEN l - j + 1 ELSE 0)
          /\ \A i \in 1 .. l - j + 1 : SubSeq(p, j, l)[i] = p[j + i - 1]
      <4>1. j \in Int /\ l \in Int
        BY <2>2
      <4>2. \A i \in j .. l : p[i] \in S
        BY <2>3
      <4>. QED
        BY ONLY <4>1, <4>2, SubSeqProperties
    <3>. QED
      BY <2>4, <3>1, Zenon
  <2>7. \A i \in 1 .. Len(b) : v[i] = b[i]
    BY <1>8, <2>5, <2>6
  <2>8. v = b
    BY <2>5, <2>6, <2>7, SeqEqual
  <2>. QED
    BY <2>1, <2>8
<1>. QED
  BY <1>5, <1>9, <1>12, <1>13

-----------------------------------------------------------------------------
(* Sorting.                                                                *)

\* A part of a sequence, place by place.
LEMMA SubIs ==
  ASSUME NEW S, NEW s \in Seq(S), NEW m \in Nat \ {0}, NEW n \in Nat, m <= n + 1, n <= Len(s)
  PROVE  /\ SubSeq(s, m, n) \in Seq(S) /\ Len(SubSeq(s, m, n)) = n - m + 1
         /\ \A i \in 1 .. n - m + 1 : SubSeq(s, m, n)[i] = s[m + i - 1]
<1>1. m \in Int /\ n \in Int /\ Len(s) \in Nat
  BY LenProperties
<1>2. \A i \in m .. n : s[i] \in S
  BY <1>1, ElementOfSeq
<1>3. /\ SubSeq(s, m, n) \in Seq(S) /\ Len(SubSeq(s, m, n)) = (IF m <= n THEN n - m + 1 ELSE 0)
      /\ \A i \in 1 .. n - m + 1 : SubSeq(s, m, n)[i] = s[m + i - 1]
  <2>1. m \in Int /\ n \in Int
    BY <1>1
  <2>. QED
    BY ONLY <1>2, <2>1, SubSeqProperties
<1>4. (IF m <= n THEN n - m + 1 ELSE 0) = n - m + 1
  BY <1>1
<1>. QED
  BY <1>3, <1>4

\* x stands at place n of r, between the elements of s.
IsInserted(r, s, x, n) ==
  /\ r[n] = x
  /\ \A i \in 1 .. n - 1 : r[i] = s[i]
  /\ \A i \in n .. Len(s) : r[i + 1] = s[i]

\* Inserting one element.
LEMMA InsertAtIs ==
  ASSUME NEW S, NEW s \in Seq(S), NEW x \in S, NEW n \in 1 .. Len(s)
  PROVE  InsertAt(s, n, x) \in Seq(S) /\ Len(InsertAt(s, n, x)) = Len(s) + 1 /\ IsInserted(InsertAt(s, n, x), s, x, n)
<1> DEFINE a == SubSeq(s, 1, n - 1)
           e == <<x>>
           b == SubSeq(s, n, Len(s))
           ae == a \o e
           r == ae \o b
           l == Len(s)
<1>0. l \in Nat /\ n \in Nat \ {0} /\ n - 1 \in Nat /\ n - 1 <= l /\ n <= l
  BY LenProperties
<1>1. a \in Seq(S) /\ Len(a) = n - 1 /\ \A i \in 1 .. n - 1 : a[i] = s[i]
  <2> DEFINE m == n - 1
  <2>1. m \in Nat /\ m <= Len(s) /\ 1 <= m + 1 /\ m - 1 + 1 = m /\ \A i \in 1 .. m : 1 + i - 1 = i
    BY <1>0
  <2> HIDE DEF m
  <2>2. /\ SubSeq(s, 1, m) \in Seq(S) /\ Len(SubSeq(s, 1, m)) = m - 1 + 1
        /\ \A i \in 1 .. m - 1 + 1 : SubSeq(s, 1, m)[i] = s[1 + i - 1]
    BY <2>1, SubIs
  <2>3. SubSeq(s, 1, m) \in Seq(S) /\ Len(SubSeq(s, 1, m)) = m /\ \A i \in 1 .. m : SubSeq(s, 1, m)[i] = s[i]
    BY <2>1, <2>2
  <2>. QED
    BY <2>3, Zenon DEF m
<1>2. e \in Seq(S) /\ Len(e) = 1 /\ e[1] = x
  OBVIOUS
<1>3. b \in Seq(S) /\ Len(b) = l - n + 1 /\ \A i \in 1 .. l - n + 1 : b[i] = s[n + i - 1]
  <2>1. n <= l + 1 /\ l <= Len(s)
    BY <1>0
  <2>. QED
    BY <1>0, <2>1, SubIs
<1>4. InsertAt(s, n, x) = r
  BY DEF InsertAt
<1> HIDE DEF a, e, b
<1>5. /\ ae \in Seq(S) /\ Len(ae) = Len(a) + Len(e)
      /\ \A i \in 1 .. Len(a) + Len(e) : ae[i] = IF i <= Len(a) THEN a[i] ELSE e[i - Len(a)]
  BY <1>1, <1>2, ConcatProperties
<1> HIDE DEF ae
<1>6. /\ r \in Seq(S) /\ Len(r) = Len(ae) + Len(b)
      /\ \A i \in 1 .. Len(ae) + Len(b) : r[i] = IF i <= Len(ae) THEN ae[i] ELSE b[i - Len(ae)]
  <2>1. ae \in Seq(S) /\ b \in Seq(S)
    BY <1>3, <1>5
  <2>. QED
    BY ONLY <2>1, ConcatProperties
<1> HIDE DEF r
<1>7. Len(ae) = n /\ Len(r) = l + 1
  <2> HIDE DEF l
  <2>. QED
    BY <1>0, <1>1, <1>2, <1>3, <1>5, <1>6
<1>8. r[n] = x
  <2>1. n \in 1 .. Len(ae) + Len(b) /\ n <= Len(ae) /\ n \in 1 .. Len(a) + Len(e)
        /\ ~(n <= Len(a)) /\ n - Len(a) = 1
    <3> HIDE DEF l
    <3>. QED
      BY <1>0, <1>1, <1>2, <1>3, <1>7
  <2>. QED
    BY <1>2, <1>5, <1>6, <2>1
<1>9. ASSUME NEW i \in 1 .. n - 1 PROVE r[i] = s[i]
  <2>1. i \in 1 .. Len(ae) + Len(b) /\ i <= Len(ae) /\ i \in 1 .. Len(a) + Len(e) /\ i <= Len(a)
    <3> HIDE DEF l
    <3>. QED
      BY <1>0, <1>1, <1>2, <1>3, <1>7
  <2>. QED
    BY <1>1, <1>5, <1>6, <2>1
<1>10. ASSUME NEW i \in n .. l PROVE r[i + 1] = s[i]
  <2> DEFINE k == i + 1
  <2>1. /\ k \in 1 .. Len(ae) + Len(b) /\ ~(k <= Len(ae)) /\ k - Len(ae) = i - n + 1
        /\ i - n + 1 \in 1 .. l - n + 1 /\ n + (i - n + 1) - 1 = i
    <3> HIDE DEF l
    <3>. QED
      BY <1>0, <1>3, <1>7
  <2> HIDE DEF k
  <2>2. r[k] = b[i - n + 1]
    BY <1>6, <2>1
  <2>3. b[i - n + 1] = s[n + (i - n + 1) - 1]
    BY <1>3, <2>1
  <2>. QED
    BY <2>1, <2>2, <2>3 DEF k
<1>. QED
  BY <1>4, <1>6, <1>7, <1>8, <1>9, <1>10 DEF IsInserted

\* x is inserted before the first of the places in I.
InsertBefore(s, x, I) == IF I = {} THEN Append(s, x) ELSE InsertAt(s, Min(I), x)

\* Inserting before the first of some places.
LEMMA InsertBeforeIs ==
  ASSUME NEW S, NEW s \in Seq(S), NEW x \in S, NEW I \in SUBSET (1 .. Len(s)),
         NEW r, r = InsertBefore(s, x, I)
  PROVE  /\ r \in Seq(S) /\ Len(r) = Len(s) + 1
         /\ \E n \in 1 .. Len(s) + 1 :
              /\ IsInserted(r, s, x, n) /\ \A i \in 1 .. n - 1 : i \notin I
              /\ n <= Len(s) => n \in I
<1>0. Len(s) \in Nat
  BY LenProperties
<1>1. CASE I = {}
  <2>1. r = Append(s, x)
    BY <1>1 DEF InsertBefore
  <2>2. r \in Seq(S) /\ Len(r) = Len(s) + 1 /\ r[Len(s) + 1] = x /\ \A i \in 1 .. Len(s) : r[i] = s[i]
    BY <2>1, AppendProperties
  <2> DEFINE n == Len(s) + 1
  <2>3. n \in 1 .. Len(s) + 1 /\ n - 1 = Len(s) /\ ~(n <= Len(s)) /\ n .. Len(s) = {}
    BY <1>0
  <2> HIDE DEF n
  <2>4. IsInserted(r, s, x, n)
    BY <2>2, <2>3 DEF IsInserted, n
  <2>. QED
    BY <1>1, <2>2, <2>3, <2>4
<1>2. CASE I # {}
  <2>1. PICK n : n = Min(I) /\ n \in I /\ \A y \in I : n <= y
    BY <1>0, <1>2, MinPlace
  <2>2. n \in 1 .. Len(s) /\ n \in 1 .. Len(s) + 1 /\ n \in Nat
    BY <1>0, <2>1
  <2>3. r = InsertAt(s, n, x)
    BY <1>2, <2>1 DEF InsertBefore
  <2>4. r \in Seq(S) /\ Len(r) = Len(s) + 1 /\ IsInserted(r, s, x, n)
    BY <2>2, <2>3, InsertAtIs
  <2>5. ASSUME NEW i \in 1 .. n - 1 PROVE i \notin I
    <3>1. ~(n <= i)
      BY <2>2
    <3>. QED
      BY <2>1, <3>1
  <2>. QED
    BY <2>1, <2>2, <2>4, <2>5
<1>. QED
  BY <1>1, <1>2

StrictOrder(R, S) ==
  /\ \A x \in S : <<x, x>> \notin R
  /\ \A x, y, z \in S : <<x, y>> \in R /\ <<y, z>> \in R => <<x, z>> \in R
After(s, x, R) == {i \in 1 .. Len(s) : <<x, s[i]>> \in R}
Ordered(t, R) == \A j \in 1 .. Len(t) : \A i \in 1 .. j - 1 : <<t[j], t[i]>> \notin R

\* An element inserted before the first that is greater leaves the rest in order.
LEMMA InsertOrders ==
  ASSUME NEW S, NEW s \in Seq(S), NEW x \in S, NEW R, StrictOrder(R, S), Ordered(s, R),
         NEW r, r = InsertBefore(s, x, After(s, x, R))
  PROVE  r \in Seq(S) /\ Len(r) = Len(s) + 1 /\ Ordered(r, R)
<1> DEFINE I == After(s, x, R)
           l == Len(s)
<1>0. l \in Nat /\ \A i \in 1 .. l : s[i] \in S
  BY LenProperties, ElementOfSeq
<1>1. I \in SUBSET (1 .. Len(s)) /\ \A i \in 1 .. Len(s) : i \in I <=> <<x, s[i]>> \in R
  BY DEF After
<1> HIDE DEF I
<1>2. r = InsertBefore(s, x, I)
  BY DEF I
<1>3. /\ r \in Seq(S) /\ Len(r) = Len(s) + 1
      /\ \E n \in 1 .. Len(s) + 1 :
           /\ IsInserted(r, s, x, n) /\ \A i \in 1 .. n - 1 : i \notin I
           /\ n <= Len(s) => n \in I
  BY <1>1, <1>2, InsertBeforeIs
<1>4. PICK n \in 1 .. Len(s) + 1 :
           /\ IsInserted(r, s, x, n) /\ \A i \in 1 .. n - 1 : i \notin I
           /\ n <= Len(s) => n \in I
  BY <1>3
<1>5. \A y, z \in S : <<y, z>> \in R => <<z, y>> \notin R
  BY DEF StrictOrder
<1> HIDE DEF l
<1>6. /\ r[n] = x /\ \A i \in 1 .. n - 1 : i \in 1 .. l /\ r[i] = s[i] /\ <<x, s[i]>> \notin R
      /\ \A i \in n + 1 .. l + 1 : i - 1 \in 1 .. l /\ i - 1 \in n .. l /\ r[i] = s[i - 1]
  <2>1. n \in 1 .. l + 1
    BY <1>4 DEF l
  <2>2. \A i \in 1 .. n - 1 : i \in 1 .. l
    BY <1>0, <2>1
  <2>3. \A i \in n + 1 .. l + 1 : i - 1 \in 1 .. l /\ i - 1 \in n .. l /\ (i - 1) + 1 = i
    BY <1>0, <2>1
  <2>4. r[n] = x /\ (\A i \in 1 .. n - 1 : r[i] = s[i]) /\ \A i \in n .. l : r[i + 1] = s[i]
    BY <1>4 DEF IsInserted, l
  <2>5. \A i \in 1 .. n - 1 : <<x, s[i]>> \notin R
    BY <1>1, <1>4, <2>2 DEF l
  <2>6. \A i \in n + 1 .. l + 1 : r[i] = s[i - 1]
    BY <2>3, <2>4
  <2>. QED
    BY <2>2, <2>3, <2>4, <2>5, <2>6
<1>7. \A j \in 1 .. l : \A i \in 1 .. j - 1 : <<s[j], s[i]>> \notin R
  BY DEF Ordered, l
<1>8. ASSUME NEW k \in n .. l PROVE <<s[k], x>> \notin R
  <2>1. n \in 1 .. l /\ k \in 1 .. l /\ <<x, s[n]>> \in R
    BY <1>0, <1>1, <1>4, <1>8 DEF l
  <2>2. s[n] \in S /\ s[k] \in S
    BY <1>0, <2>1
  <2>3. CASE k = n
    BY <1>5, <2>1, <2>2, <2>3
  <2>4. CASE k # n
    <3>1. n \in 1 .. k - 1
      BY <2>1, <2>4
    <3>2. <<s[k], s[n]>> \notin R
      BY <1>7, <2>1, <3>1
    <3>. QED
      BY <2>1, <2>2, <3>2 DEF StrictOrder
  <2>. QED
    BY <2>3, <2>4
<1>9. ASSUME NEW j \in 1 .. l + 1, NEW i \in 1 .. j - 1 PROVE <<r[j], r[i]>> \notin R
  <2>0. n \in 1 .. l + 1
    BY <1>4 DEF l
  <2>1. CASE j < n
    <3>1. j \in 1 .. n - 1 /\ i \in 1 .. n - 1
      BY <1>0, <2>0, <2>1
    <3>. QED
      BY <1>6, <1>7, <3>1
  <2>2. CASE j = n
    <3>1. i \in 1 .. n - 1
      BY <2>2
    <3>. QED
      BY <1>6, <2>2, <3>1
  <2>3. CASE j > n
    <3>1. j \in n + 1 .. l + 1 /\ j - 1 \in n .. l /\ j - 1 \in 1 .. l
      BY <1>0, <2>0, <2>3
    <3>2. r[j] = s[j - 1]
      BY <1>6, <3>1
    <3>3. CASE i < n
      <4>1. i \in 1 .. n - 1 /\ i \in 1 .. (j - 1) - 1
        BY <1>0, <2>0, <3>1, <3>3
      <4>. QED
        BY <1>6, <1>7, <3>1, <3>2, <4>1
    <3>4. CASE i = n
      BY <1>6, <1>8, <3>1, <3>2, <3>4
    <3>5. CASE i > n
      <4>1. i \in n + 1 .. l + 1 /\ i - 1 \in 1 .. (j - 1) - 1
        BY <1>0, <2>0, <3>1, <3>5
      <4>2. r[i] = s[i - 1]
        BY <1>6, <4>1
      <4>. QED
        BY <1>7, <3>1, <3>2, <4>1, <4>2
    <3>. QED
      BY <2>0, <3>3, <3>4, <3>5
  <2>. QED
    BY <2>0, <2>1, <2>2, <2>3
<1>. QED
  BY <1>3, <1>9 DEF Ordered, l

\* The parameters are sorted by inserting one after the other.
Inserts(f, s, R) ==
  /\ f[0] = <<>>
  /\ \A k \in 0 .. Len(s) - 1 : f[k + 1] = InsertBefore(f[k], s[k + 1], After(f[k], s[k + 1], R))

Cmp == {q \in Seq(Symbol) \X Seq(Symbol) : Cmpstringp(q[1], q[2])}

\* Insert, for the order of the parameters.
LEMMA InsertIsCmp ==
  ASSUME NEW s \in Seq(Seq(Symbol)), NEW x \in Seq(Symbol)
  PROVE  Insert(s, x, Cmpstringp) = InsertBefore(s, x, After(s, x, Cmp))
<1> DEFINE I == {i \in 1 .. Len(s) : Cmpstringp(x, s[i])}
<1>0. Len(s) \in Nat /\ \A i \in 1 .. Len(s) : s[i] \in Seq(Symbol)
  BY LenProperties, ElementOfSeq
<1>1. After(s, x, Cmp) = I
  <2>1. \A i \in 1 .. Len(s) : <<x, s[i]>> \in Cmp <=> Cmpstringp(x, s[i])
    BY <1>0 DEF Cmp
  <2>. QED
    BY <2>1 DEF After
<1>2. SelectInSeq(s, LAMBDA y : Cmpstringp(x, y)) = IF I # {} THEN Min(I) ELSE 0
  BY Zenon DEF SelectInSeq
<1>3. I # {} => Min(I) # 0
  <2> HIDE DEF I
  <2>1. I \in SUBSET (1 .. Len(s))
    BY DEF I
  <2>2. I # {} => Min(I) \in I
    BY <1>0, <2>1, MinPlace
  <2>. QED
    BY <2>1, <2>2
<1> HIDE DEF I
<1>4. Insert(s, x, Cmpstringp) = IF I = {} THEN Append(s, x) ELSE InsertAt(s, Min(I), x)
  BY <1>2, <1>3, Zenon DEF Insert
<1>. QED
  BY <1>1, <1>4 DEF InsertBefore

\* Sorting inserts one by one.
LEMMA SortedByCmp ==
  ASSUME NEW C \in SUBSET Seq(Symbol), NEW s \in Seq(C)
  PROVE  \E f \in [0 .. Len(s) -> Seq(C)] : Inserts(f, s, Cmp) /\ Sorted(s, Cmpstringp) = f[Len(s)]
<1> DEFINE n == Len(s)
           T == Seq(C)
           base == <<>>
           ins(t, x) == InsertBefore(t, x, After(t, x, Cmp))
           step == [q \in T \X (1 .. n) |-> ins(q[1], s[q[2]])]
           Eq(g) == g = [p \in SUBSET DOMAIN s |->
                           IF p = {} THEN base ELSE Insert(g[p \ {Max(p)}], s[Max(p)], Cmpstringp)]
           chosen == CHOOSE g : Eq(g)
<1>1. n \in Nat /\ DOMAIN s = 1 .. n /\ \A i \in 1 .. n : s[i] \in C
  BY LenProperties, ElementOfSeq
<1>2. base \in T
  BY EmptySeq
<1>3. ASSUME NEW t \in T, NEW x \in C
      PROVE  ins(t, x) \in T /\ Insert(t, x, Cmpstringp) = ins(t, x)
  <2> DEFINE I == After(t, x, Cmp)
             r == InsertBefore(t, x, I)
  <2>1. I \in SUBSET (1 .. Len(t))
    BY DEF After
  <2> HIDE DEF I
  <2>2. r \in Seq(C)
    BY <2>1, InsertBeforeIs
  <2>3. t \in Seq(Seq(Symbol)) /\ x \in Seq(Symbol)
    BY SeqMonotonic
  <2>4. Insert(t, x, Cmpstringp) = InsertBefore(t, x, After(t, x, Cmp))
    BY <2>3, InsertIsCmp
  <2>. QED
    BY <2>2, <2>4 DEF I
<1> HIDE DEF ins
<1>4. step \in [T \X (1 .. n) -> T]
  <2>1. ASSUME NEW q \in T \X (1 .. n) PROVE ins(q[1], s[q[2]]) \in T
    BY <1>1, <1>3
  <2>. QED
    BY <2>1, Zenon
<1> HIDE DEF step, base, T
<1>5. PICK iter \in [SUBSET (1 .. n) -> T] : Folds(iter, n, base, step)
  BY <1>1, <1>2, <1>4, FoldExists
<1>6. Eq(iter)
  <2>1. ASSUME NEW p \in SUBSET (1 .. n)
        PROVE  iter[p] = IF p = {} THEN base
                         ELSE Insert(iter[p \ {Max(p)}], s[Max(p)], Cmpstringp)
    <3>1. CASE p = {}
      BY <1>5, <3>1 DEF Folds
    <3>2. CASE p # {}
      <4>1. Max(p) \in 1 .. n
        BY <1>1, <3>2, MaxIs
      <4>2. <<iter[p \ {Max(p)}], Max(p)>> \in T \X (1 .. n)
        BY <4>1
      <4>3. step[<<iter[p \ {Max(p)}], Max(p)>>] = ins(iter[p \ {Max(p)}], s[Max(p)])
        BY <4>2 DEF step
      <4>4. iter[p] = step[<<iter[p \ {Max(p)}], Max(p)>>]
        BY <1>5, <3>2 DEF Folds
      <4>5. iter[p \ {Max(p)}] \in T /\ s[Max(p)] \in C
        BY <1>1, <4>1
      <4>6. Insert(iter[p \ {Max(p)}], s[Max(p)], Cmpstringp) = ins(iter[p \ {Max(p)}], s[Max(p)])
        BY <1>3, <4>5
      <4>. QED
        BY <3>2, <4>3, <4>4, <4>6
    <3>. QED
      BY <3>1, <3>2
  <2>. QED
    BY <1>1, <2>1
<1>7. Eq(chosen)
  BY <1>6, Zenon
<1>8. Sorted(s, Cmpstringp) = chosen[1 .. n]
  BY <1>1, Zenon DEF Sorted, FoldLeft, MapThenFoldSet, base
<1> HIDE DEF chosen
<1>9. \A p \in SUBSET (1 .. n) :
        chosen[p] = IF p = {} THEN base ELSE Insert(chosen[p \ {Max(p)}], s[Max(p)], Cmpstringp)
  BY <1>1, <1>7, Zenon
<1> DEFINE f == [k \in 0 .. n |-> chosen[1 .. k]]
<1>10. f[0] = base
  <2>1. 1 .. 0 = {} /\ {} \in SUBSET (1 .. n) /\ 0 \in 0 .. n
    BY <1>1
  <2>. QED
    BY <1>9, <2>1
<1>11. ASSUME NEW k \in 0 .. n - 1 PROVE f[k + 1] = Insert(f[k], s[k + 1], Cmpstringp)
  <2>1. k \in 0 .. n /\ k + 1 \in 0 .. n
    BY <1>1
  <2>2. f[k] = chosen[1 .. k] /\ f[k + 1] = chosen[1 .. k + 1]
    BY <2>1, Zenon
  <2>3. chosen[1 .. k + 1] = Insert(chosen[1 .. k], s[k + 1], Cmpstringp)
    BY <1>1, <1>9, PlaceBefore
  <2>. QED
    BY <2>2, <2>3
<1>12. f[n] = chosen[1 .. n] /\ f = [k \in 0 .. n |-> f[k]] /\ 0 \in Nat
  BY <1>1
<1> HIDE DEF f
<1> DEFINE Typed == {k \in Nat : k <= n => f[k] \in T}
<1>13. 0 \in Typed
  BY <1>2, <1>10
<1>14. ASSUME NEW k \in Nat, k \in Typed PROVE k + 1 \in Typed
  <2>1. ASSUME k + 1 <= n PROVE f[k + 1] \in T
    <3>1. k \in 0 .. n - 1 /\ k <= n /\ k + 1 \in 1 .. n
      BY <1>1, <2>1
    <3>2. f[k] \in T /\ s[k + 1] \in C
      BY <1>1, <1>14, <3>1
    <3>. QED
      BY <1>3, <1>11, <3>1, <3>2
  <2>. QED
    BY <2>1
<1>15. ASSUME NEW k \in 0 .. n PROVE f[k] \in T
  <2>1. k \in Typed
    <3> HIDE DEF Typed
    <3>1. k \in Nat
      OBVIOUS
    <3>2. \A i \in Nat : i \in Typed => i + 1 \in Typed
      BY <1>14
    <3>. QED
      BY <1>13, <3>1, <3>2, NumberInduction
  <2>. QED
    BY <2>1
<1>16. f \in [0 .. n -> T]
  BY <1>12, <1>15
<1>17. Inserts(f, s, Cmp)
  <2>1. ASSUME NEW k \in 0 .. n - 1 PROVE f[k + 1] = InsertBefore(f[k], s[k + 1], After(f[k], s[k + 1], Cmp))
    <3>1. k \in 0 .. n /\ k + 1 \in 1 .. n
      BY <1>1
    <3>. QED
      BY <1>1, <1>3, <1>11, <1>15, <3>1 DEF ins
  <2>. QED
    BY <1>10, <2>1 DEF Inserts, base
<1>. QED
  BY <1>8, <1>12, <1>16, <1>17 DEF T

\* An escaped text is a text.
LEMMA EscapeType ==
  ASSUME NEW s \in Seq(Symbol)
  PROVE  UrlEscape(s) \in Seq(Symbol)
  BY DecodesEscaped

\* The empty text.
LEMMA NothingEscaped == UrlEscape(<<>>) = <<>>
<1> DEFINE s == <<>>
<1>1. s \in Seq(Symbol) /\ Len(s) = 0
  BY EmptySeq
<1> HIDE DEF s
<1>2. /\ UrlEscape(s) = FlattenSeq(Pieces(s)) /\ Len(Pieces(s)) = 0 /\ Pieces(s) \in Seq(Seq(Plain))
  BY <1>1, EscapeIs
<1>3. Pieces(s) = <<>>
  BY <1>2, EmptySeq
<1>. QED
  BY <1>2, <1>3, FlattenEmpty DEF s

\* Nothing comes before the empty text.
LEMMA BeforeNothing ==
  ASSUME NEW s \in Seq(Symbol)
  PROVE  ~Before(s, <<>>)
<1> DEFINE t == <<>>
<1>1. t \in Seq(Symbol) /\ Len(t) = 0
  BY EmptySeq
<1> HIDE DEF t
<1>2. ASSUME NEW i \in Nat \ {0} PROVE ~Differs(s, t, i)
  <2>1. Key(t, i) = 0 /\ Key(s, i) \in Nat
    <3>1. ~(i <= Len(t))
      BY <1>1
    <3>. QED
      BY <1>1, <3>1, KeyIs
  <2>. QED
    BY <2>1 DEF Differs
<1>3. ~Before(s, t)
  BY <1>1, <1>2, BeforeIs
<1>. QED
  BY <1>3 DEF t

\* oauth_cmpstringp is a strict order of all parameters, so qsort may use it.
THEOREM CmpOrders == StrictOrder(Cmp, Seq(Symbol))
<1> DEFINE N(p) == UrlEscape(Name(p))
           V(p) == UrlEscape(Value(p))
<1>1. \A p \in Seq(Symbol) : N(p) \in Seq(Symbol) /\ V(p) \in Seq(Symbol)
  BY NameIs, EscapeType
<1>2. \A p, q : Cmpstringp(p, q) <=> \/ Before(N(p), N(q))
                                      \/ /\ N(p) = N(q) /\ HasValue(q)
                                         /\ ~HasValue(p) \/ Before(V(p), V(q))
  BY Zenon DEF Cmpstringp
<1>3. \A p, q \in Seq(Symbol) : <<p, q>> \in Cmp <=> Cmpstringp(p, q)
  BY DEF Cmp
<1> HIDE DEF N, V
<1>4. ASSUME NEW p \in Seq(Symbol) PROVE ~Cmpstringp(p, p)
  <2>1. ~Before(N(p), N(p)) /\ ~Before(V(p), V(p))
    BY <1>1, BeforeOrders
  <2>. QED
    BY <1>2, <2>1
<1>5. ASSUME NEW p \in Seq(Symbol), NEW q \in Seq(Symbol), NEW r \in Seq(Symbol),
             Cmpstringp(p, q), Cmpstringp(q, r)
      PROVE  Cmpstringp(p, r)
  <2>1. /\ Before(N(p), N(q)) /\ Before(N(q), N(r)) => Before(N(p), N(r))
        /\ Before(V(p), V(q)) /\ Before(V(q), V(r)) => Before(V(p), V(r))
    BY <1>1, BeforeOrders
  <2>. QED
    BY <1>2, <1>5, <2>1
<1>. QED
  BY <1>3, <1>4, <1>5 DEF StrictOrder

\* What oauth_sign_url2 sorts is in order.
LEMMA SortedIs ==
  ASSUME NEW C \in SUBSET Seq(Symbol), NEW s \in Seq(C), NEW t, t = Sorted(s, Cmpstringp)
  PROVE  /\ t \in Seq(C) /\ Len(t) = Len(s)
         /\ \A j \in 1 .. Len(t) : \A i \in 1 .. j - 1 : ~Cmpstringp(t[j], t[i])
<1>0. Len(s) \in Nat /\ \A i \in 1 .. Len(s) : s[i] \in C
  BY LenProperties, ElementOfSeq
<1>1. PICK f \in [0 .. Len(s) -> Seq(C)] : Inserts(f, s, Cmp) /\ t = f[Len(s)]
  BY SortedByCmp
<1>2. StrictOrder(Cmp, C)
  BY CmpOrders DEF StrictOrder
<1> DEFINE Good(k) == Len(f[k]) = k /\ Ordered(f[k], Cmp)
           Done == {k \in Nat : k <= Len(s) => Good(k)}
<1>3. Good(0)
  <2> DEFINE e == <<>>
  <2>1. Len(e) = 0
    BY EmptySeq
  <2>2. f[0] = e
    BY <1>1 DEF Inserts
  <2> HIDE DEF e
  <2>3. Ordered(e, Cmp)
    BY <2>1 DEF Ordered
  <2>. QED
    BY <2>1, <2>2, <2>3
<1>4. ASSUME NEW k \in 0 .. Len(s) - 1, Good(k) PROVE Good(k + 1)
  <2>1. k \in 0 .. Len(s) /\ k + 1 \in 1 .. Len(s)
    BY <1>0
  <2>2. PICK g \in Seq(C), x \in C : g = f[k] /\ x = s[k + 1]
    BY <1>0, <1>1, <2>1
  <2> DEFINE r == f[k + 1]
  <2>3. r = InsertBefore(g, x, After(g, x, Cmp))
    BY <1>1, <2>2 DEF Inserts
  <2> HIDE DEF r
  <2>4. Ordered(g, Cmp) /\ Len(g) = k
    BY <1>4, <2>2
  <2>5. Len(r) = Len(g) + 1 /\ Ordered(r, Cmp)
    BY <1>2, <2>3, <2>4, InsertOrders
  <2>. QED
    BY <2>2, <2>4, <2>5 DEF r
<1>5. Good(Len(s))
  <2> HIDE DEF Good
  <2>1. 0 \in Done
    BY <1>3
  <2>2. ASSUME NEW k \in Nat, k \in Done PROVE k + 1 \in Done
    <3>1. ASSUME k + 1 <= Len(s) PROVE Good(k + 1)
      <4>1. k \in 0 .. Len(s) - 1 /\ k <= Len(s)
        BY <1>0, <3>1
      <4>. QED
        BY <1>4, <2>2, <4>1
    <3>. QED
      BY <3>1
  <2> HIDE DEF Done
  <2>3. Len(s) \in Done
    BY <1>0, <2>1, <2>2, NumberInduction
  <2>. QED
    BY <1>0, <2>3 DEF Done
<1>6. t \in Seq(C)
  BY <1>0, <1>1
<1>7. ASSUME NEW j \in 1 .. Len(t), NEW i \in 1 .. j - 1 PROVE ~Cmpstringp(t[j], t[i])
  <2>1. <<t[j], t[i]>> \notin Cmp
    BY <1>1, <1>5 DEF Ordered
  <2>2. i \in 1 .. Len(t)
    BY <1>1, <1>5, <1>0
  <2>3. t[j] \in Seq(Symbol) /\ t[i] \in Seq(Symbol)
    BY <1>6, <2>2, ElementOfSeq
  <2>. QED
    BY <2>1, <2>3 DEF Cmp
<1>. QED
  BY <1>1, <1>5, <1>6, <1>7

\* What is in order stays as it is.
LEMMA SortedAlready ==
  ASSUME NEW P, NEW s \in Seq(P),
         \A j \in 1 .. Len(s) : \A i \in 1 .. j - 1 : ~PairBefore(s[j], s[i])
  PROVE  Sorted(s, PairBefore) = s
<1> DEFINE n == Len(s)
           T == Seq(P)
           base == <<>>
           ins(t, x) == Insert(t, x, PairBefore)
           Where(t, x) == {i \in 1 .. Len(t) : PairBefore(x, t[i])}
           step == [q \in T \X (1 .. n) |-> ins(q[1], s[q[2]])]
           Eq(g) == g = [p \in SUBSET DOMAIN s |->
                           IF p = {} THEN base ELSE Insert(g[p \ {Max(p)}], s[Max(p)], PairBefore)]
           chosen == CHOOSE g : Eq(g)
<1>1. n \in Nat /\ DOMAIN s = 1 .. n /\ \A i \in 1 .. n : s[i] \in P
  BY LenProperties, ElementOfSeq
<1>2. base \in T
  BY EmptySeq
<1>3. ASSUME NEW t \in T, NEW x \in P
      PROVE  ins(t, x) = InsertBefore(t, x, Where(t, x)) /\ ins(t, x) \in T
  <2> DEFINE I == Where(t, x)
             r == InsertBefore(t, x, I)
  <2>1. I \in SUBSET (1 .. Len(t)) /\ Len(t) \in Nat
    BY LenProperties
  <2>2. SelectInSeq(t, LAMBDA y : PairBefore(x, y)) = IF I # {} THEN Min(I) ELSE 0
    BY Zenon DEF SelectInSeq
  <2> HIDE DEF Where
  <2>3. I # {} => Min(I) # 0
    <3>1. I # {} => Min(I) \in I
      BY <2>1, MinPlace
    <3>. QED
      BY <2>1, <3>1
  <2>4. ins(t, x) = IF I = {} THEN Append(t, x) ELSE InsertAt(t, Min(I), x)
    BY <2>2, <2>3, Zenon DEF Insert
  <2>5. ins(t, x) = r
    BY <2>4 DEF InsertBefore
  <2>6. r \in Seq(P)
    BY <2>1, InsertBeforeIs
  <2>. QED
    BY <2>5, <2>6
<1> HIDE DEF ins, step, base, T
<1>4. step \in [T \X (1 .. n) -> T]
  <2>1. ASSUME NEW q \in T \X (1 .. n) PROVE ins(q[1], s[q[2]]) \in T
    BY <1>1, <1>3
  <2>. QED
    BY <2>1, Zenon DEF step
<1>5. PICK iter \in [SUBSET (1 .. n) -> T] : Folds(iter, n, base, step)
  BY <1>1, <1>2, <1>4, FoldExists
<1>6. Eq(iter)
  <2>1. ASSUME NEW p \in SUBSET (1 .. n)
        PROVE  iter[p] = IF p = {} THEN base
                         ELSE Insert(iter[p \ {Max(p)}], s[Max(p)], PairBefore)
    <3>1. CASE p = {}
      BY <1>5, <3>1 DEF Folds
    <3>2. CASE p # {}
      <4>1. Max(p) \in 1 .. n
        BY <1>1, <3>2, MaxIs
      <4>2. <<iter[p \ {Max(p)}], Max(p)>> \in T \X (1 .. n)
        BY <4>1
      <4>3. step[<<iter[p \ {Max(p)}], Max(p)>>] = ins(iter[p \ {Max(p)}], s[Max(p)])
        BY <4>2 DEF step
      <4>4. iter[p] = step[<<iter[p \ {Max(p)}], Max(p)>>]
        BY <1>5, <3>2 DEF Folds
      <4>. QED
        BY <3>2, <4>3, <4>4 DEF ins
    <3>. QED
      BY <3>1, <3>2
  <2>. QED
    BY <1>1, <2>1
<1>7. Eq(chosen)
  BY <1>6, Zenon
<1>8. Sorted(s, PairBefore) = chosen[1 .. n]
  BY <1>1, Zenon DEF Sorted, FoldLeft, MapThenFoldSet, base
<1> HIDE DEF chosen
<1>9. \A p \in SUBSET (1 .. n) :
        chosen[p] = IF p = {} THEN base ELSE ins(chosen[p \ {Max(p)}], s[Max(p)])
  BY <1>1, <1>7, Zenon DEF ins
<1> DEFINE Done == {k \in Nat : k <= n => chosen[1 .. k] = SubSeq(s, 1, k)}
<1>10. 0 \in Done
  <2>1. 1 .. 0 = {} /\ {} \in SUBSET (1 .. n)
    OBVIOUS
  <2>2. SubSeq(s, 1, 0) = <<>>
    BY SubSeqEmpty
  <2>. QED
    BY <1>9, <2>1, <2>2 DEF base
<1>11. ASSUME NEW k \in Nat, k \in Done PROVE k + 1 \in Done
  <2>1. SUFFICES ASSUME k + 1 <= n PROVE chosen[1 .. k + 1] = SubSeq(s, 1, k + 1)
    OBVIOUS
  <2>2. k \in 0 .. n - 1 /\ k <= n /\ k + 1 \in 1 .. n /\ 1 <= k + 1 /\ k - 1 + 1 = k /\ 1 \in Nat \ {0}
    BY <1>1, <2>1
  <2>3. chosen[1 .. k + 1] = ins(chosen[1 .. k], s[k + 1])
    BY <1>1, <1>9, <2>2, PlaceBefore
  <2>4. PICK t : t = SubSeq(s, 1, k)
    OBVIOUS
  <2>5. t \in Seq(P) /\ Len(t) = k /\ \A i \in 1 .. k : t[i] = s[i]
    <3>1. /\ t \in Seq(P) /\ Len(t) = k - 1 + 1
          /\ \A i \in 1 .. k - 1 + 1 : t[i] = s[1 + i - 1]
      BY <2>2, <2>4, SubIs
    <3>2. \A i \in 1 .. k : 1 + i - 1 = i
      OBVIOUS
    <3>. QED
      BY <2>2, <3>1, <3>2
  <2>6. PICK x \in P : x = s[k + 1]
    BY <1>1, <2>2
  <2>7. Where(t, x) = {}
    <3>1. ASSUME NEW i \in 1 .. Len(t) PROVE ~PairBefore(x, t[i])
      <4>1. i \in 1 .. (k + 1) - 1 /\ t[i] = s[i]
        BY <2>5
      <4>. QED
        BY <2>2, <2>6, <4>1
    <3>. QED
      BY <3>1
  <2>8. ins(t, x) = Append(t, x)
    <3>1. ins(t, x) = InsertBefore(t, x, Where(t, x))
      BY <1>3, <2>5 DEF T
    <3>. QED
      BY <2>7, <3>1 DEF InsertBefore
  <2>9. SubSeq(s, 1, k + 1) = Append(t, x)
    BY <2>1, <2>4, <2>6, OneFurther
  <2>10. chosen[1 .. k] = t
    BY <1>11, <2>2, <2>4
  <2>. QED
    BY <2>3, <2>6, <2>8, <2>9, <2>10
<1>12. n \in Done
  <2> HIDE DEF Done
  <2>. QED
    BY <1>1, <1>10, <1>11, NumberInduction
<1>13. chosen[1 .. n] = SubSeq(s, 1, n)
  BY <1>1, <1>12
<1>. QED
  BY <1>8, <1>13, SubSeqFull

-----------------------------------------------------------------------------
(* The elements of a sequence, put together one by one.                    *)

\* The first n elements, when the others are left out.
LEMMA FlattenSingles ==
  ASSUME NEW S, NEW s \in Seq(S), NEW n \in 0 .. Len(s), NEW seqs,
         DOMAIN seqs = 1 .. Len(s), seqs = [i \in DOMAIN seqs |-> seqs[i]],
         \A i \in 1 .. Len(s) : seqs[i] = IF i <= n THEN <<s[i]>> ELSE <<>>
  PROVE  FlattenSeq(seqs) = SubSeq(s, 1, n)
<1> DEFINE l == Len(s)
           m(k) == IF k <= n THEN k ELSE n
           e == <<>>
<1>0. l \in Nat /\ n \in Nat /\ n <= l /\ \A i \in 1 .. l : s[i] \in S
  BY LenProperties, ElementOfSeq
<1>1. \A i \in 1 .. l : seqs[i] \in Seq(S)
  <2>1. ASSUME NEW x \in S PROVE <<x>> \in Seq(S)
    OBVIOUS
  <2>2. e \in Seq(S)
    BY EmptySeq
  <2>. QED
    BY <1>0, <2>1, <2>2, Zenon
<1>2. seqs \in Seq(Seq(S)) /\ Len(seqs) = l
  <2>1. seqs \in [1 .. l -> Seq(S)]
    BY <1>1
  <2>. QED
    BY <1>0, <2>1, IsSeq
<1>3. PICK fl \in [0 .. l -> Seq(S)] : Joins(fl, seqs) /\ FlattenSeq(seqs) = fl[l]
  BY <1>2, FlattenJoins
<1> DEFINE Done == {k \in Nat : k <= l => fl[k] = SubSeq(s, 1, m(k))}
<1>4. 0 \in Done
  <2>1. SubSeq(s, 1, 0) = <<>>
    BY SubSeqEmpty
  <2>2. fl[0] = <<>>
    BY <1>3 DEF Joins
  <2>3. m(0) = 0
    BY <1>0
  <2>. QED
    BY <2>1, <2>2, <2>3
<1>5. ASSUME NEW k \in Nat, k \in Done PROVE k + 1 \in Done
  <2>1. SUFFICES ASSUME k + 1 <= l PROVE fl[k + 1] = SubSeq(s, 1, m(k + 1))
    OBVIOUS
  <2>2. k \in 0 .. Len(seqs) - 1 /\ k + 1 \in 1 .. l /\ k <= l /\ m(k) \in Nat /\ m(k) <= l
    BY <1>0, <1>2, <2>1
  <2>3. fl[k + 1] = fl[k] \o seqs[k + 1]
    BY <1>3, <2>2 DEF Joins
  <2>4. PICK t : t = SubSeq(s, 1, m(k)) /\ fl[k] = t
    BY <1>5, <2>2
  <2>5. t \in Seq(S)
    BY <1>3, <2>2, <2>4
  <2>6. CASE k + 1 <= n
    <3>1. m(k) = k /\ m(k + 1) = k + 1
      BY <1>0, <2>6
    <3>2. SubSeq(s, 1, k + 1) = Append(t, s[k + 1])
      BY <2>1, <2>4, <3>1, OneFurther
    <3>3. Append(t, s[k + 1]) = t \o <<s[k + 1]>>
      BY <1>0, <2>2, <2>5, AppendIsConcat
    <3>4. seqs[k + 1] = <<s[k + 1]>>
      BY <2>2, <2>6
    <3>. QED
      BY <2>3, <2>4, <3>1, <3>2, <3>3, <3>4
  <2>7. CASE ~(k + 1 <= n)
    <3>1. m(k) = n /\ m(k + 1) = n
      BY <1>0, <2>7
    <3>2. seqs[k + 1] = <<>>
      BY <2>2, <2>7
    <3>3. t \o <<>> = t
      BY <2>5, ConcatEmptySeq
    <3>. QED
      BY <2>3, <2>4, <3>1, <3>2, <3>3
  <2>. QED
    BY <2>6, <2>7
<1>6. l \in Done
  <2> HIDE DEF Done
  <2>. QED
    BY <1>0, <1>4, <1>5, NumberInduction
<1>7. m(l) = n
  BY <1>0
<1>. QED
  BY <1>0, <1>3, <1>6, <1>7

\* Parts that are not empty are all kept.
LEMMA AllHaveContent ==
  ASSUME NEW S, NEW parts \in Seq(Seq(S)), \A i \in 1 .. Len(parts) : parts[i] # <<>>
  PROVE  WithContent(parts) = parts
<1> DEFINE seqs == [i \in DOMAIN parts |-> IF parts[i] # <<>> THEN <<parts[i]>> ELSE <<>>]
           n == Len(parts)
<1>0. n \in Nat /\ DOMAIN parts = 1 .. n /\ n \in 0 .. Len(parts)
  BY LenProperties
<1>1. WithContent(parts) = FlattenSeq(seqs)
  BY Zenon DEF WithContent, Sift
<1>2. DOMAIN seqs = 1 .. n /\ seqs = [i \in DOMAIN seqs |-> seqs[i]]
  BY <1>0
<1>3. \A i \in 1 .. n : seqs[i] = IF i <= n THEN <<parts[i]>> ELSE <<>>
  BY <1>0
<1> HIDE DEF seqs
<1>4. FlattenSeq(seqs) = SubSeq(parts, 1, n)
  BY <1>0, <1>2, <1>3, FlattenSingles
<1>. QED
  BY <1>1, <1>4, SubSeqFull

-----------------------------------------------------------------------------
(* Joining texts and taking them apart.                                    *)

\* A text that stands in another is a part of it.
LEMMA StandsSub ==
  ASSUME NEW S, NEW text \in Seq(S), NEW t \in Seq(S), NEW a \in Nat, NEW m,
         m = a + Len(t), m <= Len(text), StandsAt(text, a, t)
  PROVE  SubSeq(text, a + 1, m) = t
<1> DEFINE n == Len(t)
           b == a + 1
<1>1. n \in Nat /\ Len(text) \in Nat /\ b \in Nat \ {0} /\ m \in Nat /\ b <= m + 1 /\ m - b + 1 = n
  BY LenProperties
<1>2. \A i \in 1 .. n : b + i - 1 = a + i
  BY <1>1
<1>3. \A i \in 1 .. n : text[a + i] = t[i]
  BY DEF StandsAt
<1> HIDE DEF b, n
<1>4. PICK r : r = SubSeq(text, b, m)
  OBVIOUS
<1>5. r \in Seq(S) /\ Len(r) = m - b + 1 /\ \A i \in 1 .. m - b + 1 : r[i] = text[b + i - 1]
  BY <1>1, <1>4, SubIs
<1>6. Len(r) = Len(t) /\ \A i \in 1 .. Len(r) : r[i] = t[i]
  BY <1>1, <1>2, <1>3, <1>5 DEF n
<1>7. r = t
  BY <1>5, <1>6, SeqEqual
<1>. QED
  BY <1>4, <1>7 DEF b

NoAmp(t) == \A j \in 1 .. Len(t) : t[j] # "&"
Full(parts) == \A i \in 1 .. Len(parts) : parts[i] # <<>> /\ NoAmp(parts[i])
Joinable(parts, i) == IF i = 1 THEN parts[i] ELSE <<"&">> \o parts[i]

\* The ampersand as a text.
LEMMA Ampersand == <<"&">> \in Seq(Symbol) /\ Len(<<"&">>) = 1 /\ <<"&">>[1] = "&"
<1>1. "&" \in Symbol
  BY DigitsAreSymbols
<1>. QED
  BY <1>1

\* What is joined, as a sequence of pieces.
LEMMA JoinIs ==
  ASSUME NEW parts \in Seq(Seq(Symbol))
  PROVE  \E seqs \in Seq(Seq(Symbol)) :
           /\ Join(parts, <<"&">>) = FlattenSeq(seqs) /\ Len(seqs) = Len(parts)
           /\ \A i \in 1 .. Len(parts) : seqs[i] = Joinable(parts, i)
<1> DEFINE n == Len(parts)
           seqs == [i \in 1 .. n |-> Joinable(parts, i)]
<1>0. n \in Nat /\ DOMAIN parts = 1 .. n /\ \A i \in 1 .. n : parts[i] \in Seq(Symbol)
  BY LenProperties, ElementOfSeq
<1>1. ASSUME NEW i \in 1 .. n PROVE Joinable(parts, i) \in Seq(Symbol)
  <2> DEFINE amp == <<"&">>
  <2>1. amp \in Seq(Symbol)
    BY Ampersand
  <2> HIDE DEF amp
  <2>2. amp \o parts[i] \in Seq(Symbol)
    BY <1>0, <2>1, ConcatProperties
  <2>. QED
    BY <1>0, <2>2 DEF Joinable, amp
<1>2. seqs \in [1 .. n -> Seq(Symbol)]
  BY <1>1
<1>3. seqs \in Seq(Seq(Symbol)) /\ Len(seqs) = n
  BY <1>0, <1>2, IsSeq
<1>4. Join(parts, <<"&">>) = FlattenSeq(seqs)
  BY <1>0, Zenon DEF Join, Joinable
<1>5. \A i \in 1 .. n : seqs[i] = Joinable(parts, i)
  OBVIOUS
<1>. QED
  BY <1>3, <1>4, <1>5

\* What is joined with ampersands is found again between them.
THEOREM JoinTokens ==
  ASSUME NEW parts \in Seq(Seq(Symbol)), Full(parts), Len(parts) # 0,
         NEW text, text = Join(parts, <<"&">>)
  PROVE  text \in Seq(Symbol) /\ Tokens(text, {"&"}) = parts
<1> DEFINE n == Len(parts)
           separators == {"&"}
           amp == <<"&">>
<1>0. n \in Nat /\ n # 0 /\ \A i \in 1 .. n : parts[i] \in Seq(Symbol)
  BY LenProperties, ElementOfSeq
<1>1. PICK seqs \in Seq(Seq(Symbol)) :
           /\ text = FlattenSeq(seqs) /\ Len(seqs) = n
           /\ \A i \in 1 .. n : seqs[i] = Joinable(parts, i)
  BY JoinIs
<1>2. PICK fl \in [0 .. n -> Seq(Symbol)] : JoinOf(Symbol, seqs, fl) /\ fl[0] = <<>> /\ text = fl[n]
  <2>1. PICK fl \in [0 .. Len(seqs) -> Seq(Symbol)] : Joins(fl, seqs) /\ FlattenSeq(seqs) = fl[Len(seqs)]
    BY <1>1, FlattenJoins
  <2>. QED
    BY <1>1, <2>1 DEF JoinOf, Joins
<1>3. text \in Seq(Symbol) /\ Len(text) \in Nat
  BY <1>1, FlattenType, LenProperties
<1> HIDE DEF n
<1>4. ASSUME NEW k \in 0 .. n - 1
      PROVE  /\ Len(fl[k]) \in Nat /\ Len(fl[k + 1]) \in Nat /\ Len(fl[k + 1]) <= Len(text)
             /\ Len(fl[k + 1]) = Len(fl[k]) + Len(Joinable(parts, k + 1))
             /\ StandsAt(text, Len(fl[k]), Joinable(parts, k + 1))
  <2>1. k \in 0 .. Len(seqs) - 1 /\ k + 1 \in 1 .. n /\ k + 1 \in 0 .. n /\ k \in 0 .. n
    BY <1>0, <1>1
  <2>2. /\ Len(fl[k]) \in Nat
        /\ Len(fl[k + 1]) = Len(fl[k]) + Len(seqs[k + 1]) /\ Len(fl[k + 1]) <= Len(text)
        /\ StandsAt(text, Len(fl[k]), seqs[k + 1])
    <3>1. text = fl[Len(seqs)] /\ JoinOf(Symbol, seqs, fl) /\ k \in 0 .. Len(seqs) - 1
      BY <1>1, <1>2, <2>1
    <3>2. /\ Len(fl[k]) \in Nat /\ seqs[k + 1] \in Seq(Symbol)
          /\ Len(fl[k + 1]) = Len(fl[k]) + Len(seqs[k + 1]) /\ Len(fl[k + 1]) <= Len(text)
          /\ StandsAt(text, Len(fl[k]), seqs[k + 1])
      BY <3>1, JoinPlace
    <3>. QED
      BY <3>2
  <2>3. Len(fl[k + 1]) \in Nat
    BY <1>2, <2>1, LenProperties
  <2>. QED
    BY <1>1, <2>1, <2>2, <2>3
<1>5. PICK cut : IsCut(cut, text, separators)
  BY <1>3, CutExists
<1> HIDE DEF separators
<1>6. \A i \in 1 .. n : NoAmp(parts[i]) /\ parts[i] # <<>>
  BY DEF Full, n
<1> DEFINE Good(k) == cut[Len(fl[k])] = SubSeq(parts, 1, k)
           Done == {k \in Nat : k + 1 <= n => Good(k + 1)}
<1>7. ASSUME NEW k \in 0 .. n - 1, NEW a \in 0 .. Len(text), NEW m \in a .. Len(text),
             NEW t, t = parts[k + 1], m = a + Len(t), StandsAt(text, a, t),
             NEW D \in Seq(Seq(Symbol)), Opens(cut[a], D)
      PROVE  cut[m] = Append(D, t)
  <2>1. k + 1 \in 1 .. n /\ a \in Nat
    BY <1>0
  <2>2. t \in Seq(Symbol) /\ Len(t) \in Nat /\ NoAmp(t)
    BY <1>0, <1>6, <1>7, <2>1, LenProperties
  <2>3. SubSeq(text, a + 1, m) = t
    <3>1. m <= Len(text) /\ m = a + Len(t) /\ a \in Nat /\ StandsAt(text, a, t)
      BY <1>3, <1>7, <2>1
    <3>. QED
      BY ONLY <1>3, <2>2, <3>1, StandsSub
  <2>4. NoneIn(text, a, m, separators)
    <3>1. ASSUME NEW i \in a + 1 .. m PROVE text[i] # "&"
      <4>1. i - a \in 1 .. Len(t) /\ a + (i - a) = i
        BY <1>3, <1>7, <2>2
      <4>2. text[a + (i - a)] = t[i - a] /\ t[i - a] # "&"
        BY <1>7, <2>2, <4>1 DEF StandsAt, NoAmp
      <4>. QED
        BY <4>1, <4>2
    <3>. QED
      BY <3>1 DEF NoneIn, separators
  <2>5. cut[m] = Append(D, SubSeq(text, a + 1, m))
    <3>1. a \in 0 .. Len(text) /\ m \in a .. Len(text) /\ D \in Seq(Seq(Symbol)) /\ Opens(cut[a], D)
      BY <1>7
    <3>. QED
      BY ONLY <1>3, <1>5, <2>4, <3>1, OverToken
  <2>. QED
    BY <2>3, <2>5
<1>8. ASSUME NEW k \in 0 .. n - 1
      PROVE  SubSeq(parts, 1, k + 1) = Append(SubSeq(parts, 1, k), parts[k + 1]) /\ SubSeq(parts, 1, k) \in Seq(Seq(Symbol))
  BY <1>0, OneFurther DEF n
<1>9. 0 \in Done
  <2> DEFINE D == SubSeq(parts, 1, 0)
             m == Len(fl[1])
             t == parts[1]
  <2>1. 0 \in 0 .. n - 1 /\ 0 + 1 = 1 /\ 1 \in 1 .. n
    BY <1>0
  <2>2. D = <<>> /\ D \in Seq(Seq(Symbol))
    BY <1>8, <2>1, SubSeqEmpty
  <2>3. Opens(cut[0], D)
    <3>1. cut[0] = << <<>> >>
      BY <1>5 DEF IsCut
    <3>2. Append(<<>>, <<>>) = << <<>> >>
      OBVIOUS
    <3>. QED
      BY <2>2, <3>1, <3>2 DEF Opens
  <2>4. Joinable(parts, 1) = t
    BY DEF Joinable
  <2>5. Len(fl[0]) = 0
    BY <1>2, EmptySeq
  <2>6. m \in Nat /\ m <= Len(text) /\ m = 0 + Len(t) /\ StandsAt(text, 0, t)
    BY <1>4, <2>1, <2>4, <2>5
  <2> HIDE DEF D, m, t
  <2>7. t = parts[0 + 1]
    BY DEF t
  <2>8. 0 \in 0 .. Len(text) /\ m \in 0 .. Len(text)
    BY <1>3, <2>6
  <2>9. cut[m] = Append(D, t)
    <3>1. 0 \in 0 .. n - 1 /\ 0 \in 0 .. Len(text) /\ m \in 0 .. Len(text) /\ D \in Seq(Seq(Symbol))
      BY <2>1, <2>2, <2>8
    <3>. QED
      BY <1>7, <2>3, <2>6, <2>7, <3>1
  <2>10. SubSeq(parts, 1, 0 + 1) = Append(D, parts[0 + 1])
    BY <1>8, <2>1 DEF D
  <2>. QED
    BY <2>1, <2>7, <2>9, <2>10 DEF m
<1>10. ASSUME NEW j \in Nat, j \in Done PROVE j + 1 \in Done
  <2>1. SUFFICES ASSUME j + 1 + 1 <= n PROVE Good(j + 1 + 1)
    OBVIOUS
  <2>2. PICK k : k = j + 1
    OBVIOUS
  <2>3. k \in 0 .. n - 1 /\ k + 1 # 1 /\ k + 1 \in 1 .. n /\ k = j + 1 /\ k <= n
    BY <1>0, <2>1, <2>2
  <2>4. Good(k)
    BY <1>10, <2>2, <2>3
  <2> DEFINE D == SubSeq(parts, 1, k)
             t == parts[k + 1]
             at == amp \o t
             b == Len(fl[k])
             m == Len(fl[k + 1])
  <2>5. Joinable(parts, k + 1) = at
    BY <2>3 DEF Joinable
  <2>6. t \in Seq(Symbol) /\ D \in Seq(Seq(Symbol))
    BY <1>0, <1>8, <2>3
  <2>7. amp \in Seq(Symbol) /\ Len(amp) = 1 /\ amp[1] = "&"
    BY Ampersand
  <2>8. b \in Nat /\ m \in Nat /\ m <= Len(text) /\ m = b + Len(at) /\ StandsAt(text, b, at)
    BY <1>4, <2>3, <2>5
  <2>9. cut[b] = D
    BY <2>4
  <2>10. Len(t) \in Nat
    BY <2>6, LenProperties
  <2> HIDE DEF amp, t, b, m, D
  <2>11. Len(at) = Len(amp) + Len(t) /\ \A i \in 1 .. Len(amp) + Len(t) : at[i] = IF i <= Len(amp) THEN amp[i] ELSE t[i - Len(amp)]
    BY <2>6, <2>7, ConcatProperties
  <2> HIDE DEF at
  <2>12. Len(at) = 1 + Len(t) /\ at[1] = "&"
    BY <2>7, <2>10, <2>11
  <2>13. \A i \in 1 .. Len(t) : at[i + 1] = t[i]
    <3>1. \A i \in 1 .. Len(t) : i + 1 \in 1 .. Len(amp) + Len(t) /\ ~(i + 1 <= Len(amp)) /\ (i + 1) - Len(amp) = i
      BY <2>7, <2>10
    <3>. QED
      BY <2>11, <3>1
  <2>14. text[b + 1] = "&"
    <3>1. 1 \in 1 .. Len(at)
      BY <2>10, <2>12
    <3>. QED
      BY <2>8, <2>12, <3>1 DEF StandsAt
  <2>15. cut[b + 1] = AddChar(D, "&", separators)
    <3>1. b \in 0 .. Len(text) - 1
      BY <1>3, <2>8, <2>10, <2>12
    <3>. QED
      BY <1>5, <2>9, <2>14, <3>1 DEF IsCut
  <2>16. Opens(cut[b + 1], D)
    BY <2>15 DEF AddChar, separators, Opens
  <2> DEFINE a == b + 1
  <2>17. a \in 0 .. Len(text) /\ m \in a .. Len(text) /\ m = a + Len(t)
    BY <1>3, <2>8, <2>10, <2>12
  <2>18. StandsAt(text, a, t)
    <3>1. \A i \in 1 .. Len(t) : i + 1 \in 1 .. Len(at) /\ a + i = b + (i + 1)
      BY <2>8, <2>10, <2>12
    <3>. QED
      BY <2>8, <2>13, <3>1 DEF StandsAt
  <2>19. t = parts[k + 1]
    BY DEF t
  <2> HIDE DEF a
  <2>20. cut[m] = Append(D, t)
    <3>1. Opens(cut[a], D)
      BY <2>16 DEF a
    <3>. QED
      BY <1>7, <2>3, <2>6, <2>17, <2>18, <2>19, <3>1
  <2>21. SubSeq(parts, 1, k + 1) = Append(D, t)
    BY <1>8, <2>3 DEF D, t
  <2>22. Good(k + 1)
    BY <2>20, <2>21 DEF m
  <2>. QED
    BY <2>2, <2>22
<1>11. Good(n)
  <2> HIDE DEF Good
  <2>1. \A k \in Nat : k \in Done
    <3> HIDE DEF Done
    <3>. QED
      BY <1>9, <1>10, NumberInduction
  <2>2. n - 1 \in Nat /\ (n - 1) + 1 = n
    BY <1>0
  <2>3. n - 1 \in Done
    BY <2>1, <2>2
  <2>. QED
    BY <2>2, <2>3, <1>0
<1>12. SubSeq(parts, 1, n) = parts
  BY SubSeqFull DEF n
<1>13. Tokens(text, separators) = WithContent(cut[Len(text)])
  BY <1>5 DEF IsCut
<1>14. WithContent(parts) = parts
  BY <1>6, AllHaveContent DEF n
<1>. QED
  BY <1>2, <1>3, <1>11, <1>12, <1>13, <1>14 DEF separators

-----------------------------------------------------------------------------
(* What the service puts together.                                         *)

\* More symbols.
LEMMA NamesAreSymbols ==
  {"GET", "POST", "_method", "oauth_consumer_key", "oauth_nonce", "oauth_signature",
   "oauth_timestamp", "oauth_token", "oauth_version", "value", "x", ":", "80", "/",
   "http"} \subseteq Symbol
<1>1. /\ Ascii[22] = "GET" /\ Ascii[23] = "POST" /\ Ascii[27] = "_method"
      /\ Ascii[33] = "oauth_consumer_key" /\ Ascii[34] = "oauth_nonce" /\ Ascii[35] = "oauth_signature"
      /\ Ascii[36] = "oauth_timestamp" /\ Ascii[37] = "oauth_token" /\ Ascii[38] = "oauth_version"
      /\ Ascii[39] = "value" /\ Ascii[40] = "x" /\ Ascii[15] = ":" /\ Ascii[14] = "80"
      /\ Ascii[7] = "/" /\ Ascii[32] = "http"
  BY DEF Ascii
<1>2. {7, 14, 15, 22, 23, 27, 32, 33, 34, 35, 36, 37, 38, 39, 40} \subseteq DOMAIN Ascii
  BY DEF Ascii
<1>. QED
  BY <1>1, <1>2 DEF Symbol, ToSet

\* A short parameter, taken apart.
LEMMA ShortParameters ==
  ASSUME NEW S, "=" \in S, NEW x \in S, NEW y \in S, NEW z \in S
  PROVE  /\ <<x>> \o <<"=">> \o <<y>> = <<x, "=", y>>
         /\ <<x>> \o <<"=">> \o <<y, z>> = <<x, "=", y, z>>
         /\ <<x, y>> \o <<"=">> \o <<z>> = <<x, y, "=", z>>
         /\ <<x>> \o <<"=">> = <<x, "=">>
<1> DEFINE one == <<x>>
           two == <<x, y>>
           e == <<"=">>
           v == <<y>>
           w == <<y, z>>
           u == <<z>>
           xe == <<x, "=">>
           xye == <<x, y, "=">>
           a == <<x, "=", y>>
           b == <<x, "=", y, z>>
           c == <<x, y, "=", z>>
<1>1. /\ one \in Seq(S) /\ Len(one) = 1 /\ one[1] = x
      /\ two \in Seq(S) /\ Len(two) = 2 /\ two[1] = x /\ two[2] = y
      /\ e \in Seq(S) /\ Len(e) = 1 /\ e[1] = "="
  OBVIOUS
<1>2. /\ v \in Seq(S) /\ Len(v) = 1 /\ v[1] = y
      /\ w \in Seq(S) /\ Len(w) = 2 /\ w[1] = y /\ w[2] = z
      /\ u \in Seq(S) /\ Len(u) = 1 /\ u[1] = z
  OBVIOUS
<1>3. /\ xe \in Seq(S) /\ Len(xe) = 2 /\ xe[1] = x /\ xe[2] = "="
      /\ xye \in Seq(S) /\ Len(xye) = 3 /\ xye[1] = x /\ xye[2] = y /\ xye[3] = "="
  OBVIOUS
<1>4. /\ a \in Seq(S) /\ Len(a) = 3 /\ a[1] = x /\ a[2] = "=" /\ a[3] = y
      /\ b \in Seq(S) /\ Len(b) = 4 /\ b[1] = x /\ b[2] = "=" /\ b[3] = y /\ b[4] = z
      /\ c \in Seq(S) /\ Len(c) = 4 /\ c[1] = x /\ c[2] = y /\ c[3] = "=" /\ c[4] = z
  OBVIOUS
<1> HIDE DEF one, two, e, v, w, u, xe, xye, a, b, c
<1>5. ASSUME NEW p \in Seq(S), NEW q \in Seq(S), NEW r \in Seq(S), Len(r) = Len(p) + Len(q),
             \A i \in 1 .. Len(p) : r[i] = p[i], \A i \in 1 .. Len(q) : r[Len(p) + i] = q[i]
      PROVE  p \o q = r
  <2> DEFINE pq == p \o q
  <2>1. /\ pq \in Seq(S) /\ Len(pq) = Len(p) + Len(q)
        /\ \A i \in 1 .. Len(p) + Len(q) : pq[i] = IF i <= Len(p) THEN p[i] ELSE q[i - Len(p)]
    BY ConcatProperties
  <2> HIDE DEF pq
  <2>2. Len(p) \in Nat /\ Len(q) \in Nat
    BY LenProperties
  <2>3. ASSUME NEW i \in 1 .. Len(pq) PROVE pq[i] = r[i]
    <3>1. CASE i <= Len(p)
      BY <1>5, <2>1, <2>2, <3>1
    <3>2. CASE ~(i <= Len(p))
      <4>1. i - Len(p) \in 1 .. Len(q) /\ Len(p) + (i - Len(p)) = i
        BY <2>1, <2>2, <3>2
      <4>2. pq[i] = q[i - Len(p)]
        BY <2>1, <3>2
      <4>3. r[Len(p) + (i - Len(p))] = q[i - Len(p)]
        BY <1>5, <4>1
      <4>. QED
        BY <4>1, <4>2, <4>3
    <3>. QED
      BY <3>1, <3>2
  <2>4. pq = r
    BY <1>5, <2>1, <2>3, SeqEqual
  <2>. QED
    BY <2>4 DEF pq
<1>6. one \o e = xe
  <2>1. Len(xe) = Len(one) + Len(e) /\ (\A i \in 1 .. Len(one) : xe[i] = one[i]) /\ \A i \in 1 .. Len(e) : xe[Len(one) + i] = e[i]
    BY <1>1, <1>3
  <2>. QED
    BY <1>1, <1>3, <1>5, <2>1
<1>7. two \o e = xye
  <2>1. Len(xye) = Len(two) + Len(e) /\ (\A i \in 1 .. Len(two) : xye[i] = two[i]) /\ \A i \in 1 .. Len(e) : xye[Len(two) + i] = e[i]
    BY <1>1, <1>3
  <2>. QED
    BY <1>1, <1>3, <1>5, <2>1
<1>8. xe \o v = a
  <2>1. Len(a) = Len(xe) + Len(v) /\ (\A i \in 1 .. Len(xe) : a[i] = xe[i]) /\ \A i \in 1 .. Len(v) : a[Len(xe) + i] = v[i]
    BY <1>2, <1>3, <1>4
  <2>. QED
    BY <1>2, <1>3, <1>4, <1>5, <2>1
<1>9. xe \o w = b
  <2>1. Len(b) = Len(xe) + Len(w) /\ (\A i \in 1 .. Len(xe) : b[i] = xe[i]) /\ \A i \in 1 .. Len(w) : b[Len(xe) + i] = w[i]
    BY <1>2, <1>3, <1>4
  <2>. QED
    BY <1>2, <1>3, <1>4, <1>5, <2>1
<1>10. xye \o u = c
  <2>1. Len(c) = Len(xye) + Len(u) /\ (\A i \in 1 .. Len(xye) : c[i] = xye[i]) /\ \A i \in 1 .. Len(u) : c[Len(xye) + i] = u[i]
    BY <1>2, <1>3, <1>4
  <2>. QED
    BY <1>2, <1>3, <1>4, <1>5, <2>1
<1>. QED
  BY <1>6, <1>7, <1>8, <1>9, <1>10, Zenon DEF one, two, e, v, w, u, xe, xye, a, b, c

\* A text without reserved symbols is not changed.
LEMMA NoneEscaped ==
  ASSUME NEW p \in Seq(Symbol), ToSet(p) \cap Reserved = {}
  PROVE  UrlEscape(p) = p
<1> DEFINE n == Len(p)
<1>0. n \in Nat /\ DOMAIN p = 1 .. n /\ n \in 0 .. Len(p)
  BY LenProperties
<1>1. UrlEscape(p) = FlattenSeq(Pieces(p)) /\ \A i \in 1 .. Len(p) : Pieces(p)[i] = Piece(p[i])
  BY EscapeIs
<1>2. DOMAIN Pieces(p) = 1 .. Len(p) /\ Pieces(p) = [i \in DOMAIN Pieces(p) |-> Pieces(p)[i]]
  BY <1>0 DEF Pieces
<1>3. ASSUME NEW i \in 1 .. n PROVE Pieces(p)[i] = <<p[i]>>
  <2>1. p[i] \notin Reserved
    BY <1>0 DEF ToSet
  <2>. QED
    BY <1>1, <2>1 DEF Piece
<1>4. \A i \in 1 .. Len(p) : Pieces(p)[i] = IF i <= n THEN <<p[i]>> ELSE <<>>
  BY <1>0, <1>3
<1>5. FlattenSeq(Pieces(p)) = SubSeq(p, 1, n)
  BY <1>0, <1>2, <1>4, FlattenSingles
<1>. QED
  BY <1>1, <1>5, SubSeqFull

\* A parameter as oauth_serialize_url writes it.
Ser(p) == IF HasValue(p) THEN UrlEscape(Name(p)) \o <<"=">> \o UrlEscape(Value(p))
          ELSE Append(p, "=")
Param == {p \in Seq(Symbol) : HasValue(p) \/ ToSet(p) \cap Reserved = {}}

\* A parameter that is written has the name and the value it had.
LEMMA SerIs ==
  ASSUME NEW p \in Param
  PROVE  /\ Ser(p) = UrlEscape(Name(p)) \o <<"=">> \o UrlEscape(Value(p))
         /\ Ser(p) \in Seq(Symbol) /\ Ser(p) # <<>> /\ NoAmp(Ser(p))
         /\ Decode(Name(Ser(p))) = Name(p) /\ Decode(Value(Ser(p))) = Value(p)
<1>0. p \in Seq(Symbol) /\ Name(p) \in Seq(Symbol) /\ Value(p) \in Seq(Symbol)
  BY NameIs DEF Param
<1> DEFINE a == UrlEscape(Name(p))
           b == UrlEscape(Value(p))
           e == <<"=">>
           t == a \o e \o b
<1>1. Ser(p) = t
  <2>1. CASE HasValue(p)
    BY <2>1 DEF Ser
  <2>2. CASE ~HasValue(p)
    <3>1. Name(p) = p /\ Value(p) = <<>>
      BY <1>0, <2>2, NameIs
    <3>2. a = p
      BY <1>0, <2>2, <3>1, NoneEscaped DEF Param
    <3>3. b = <<>>
      BY <3>1, NothingEscaped
    <3>4. Append(p, "=") = p \o e /\ p \o e \in Seq(Symbol)
      <4>1. "=" \in Symbol
        BY DigitsAreSymbols
      <4>2. Append(p, "=") \in Seq(Symbol)
        BY <1>0, <4>1, AppendProperties
      <4>. QED
        BY <1>0, <4>1, <4>2, AppendIsConcat
    <3>5. (p \o e) \o <<>> = p \o e
      BY <3>4, ConcatEmptySeq
    <3>6. Ser(p) = p \o e
      BY <2>2, <3>4 DEF Ser
    <3> HIDE DEF a, b, e
    <3>. QED
      BY <3>2, <3>3, <3>5, <3>6
  <2>. QED
    BY <2>1, <2>2
<1>2. /\ a \in Seq(Symbol) /\ b \in Seq(Symbol) /\ Decode(a) = Name(p) /\ Decode(b) = Value(p)
      /\ (\A i \in 1 .. Len(a) : a[i] \notin {"=", "&"}) /\ \A i \in 1 .. Len(b) : b[i] \notin {"=", "&"}
  BY <1>0, DecodesEscaped
<1>3. "=" \in Symbol
  BY DigitsAreSymbols
<1>4. e \in Seq(Symbol) /\ Len(e) = 1 /\ e[1] = "="
  BY <1>3
<1> HIDE DEF a, b
<1>5. t \in Seq(Symbol) /\ Name(t) = a /\ Value(t) = b
  <2>1. \A i \in 1 .. Len(a) : a[i] # "="
    BY <1>2
  <2>2. PICK u : u = t
    OBVIOUS
  <2>3. u = a \o <<"=">> \o b
    BY <2>2
  <2> HIDE DEF t
  <2>4. u \in Seq(Symbol) /\ Name(u) = a /\ Value(u) = b
    <3>1. a \in Seq(Symbol) /\ b \in Seq(Symbol)
      BY <1>2
    <3>. QED
      BY <1>3, <2>1, <2>3, <3>1, NameOf, Zenon
  <2>. QED
    BY <2>2, <2>4
<1> DEFINE ae == a \o e
<1> HIDE DEF e
<1>6. ae \in Seq(Symbol) /\ Len(ae) = Len(a) + Len(e) /\ \A i \in 1 .. Len(a) + Len(e) : ae[i] = IF i <= Len(a) THEN a[i] ELSE e[i - Len(a)]
  BY <1>2, <1>4, ConcatProperties
<1>7. t = ae \o b
  OBVIOUS
<1> HIDE DEF ae, t
<1>8. Len(t) = Len(ae) + Len(b) /\ \A i \in 1 .. Len(ae) + Len(b) : t[i] = IF i <= Len(ae) THEN ae[i] ELSE b[i - Len(ae)]
  BY <1>2, <1>6, <1>7, ConcatProperties
<1>9. Len(a) \in Nat /\ Len(b) \in Nat
  BY <1>2, LenProperties
<1>10. t # <<>>
  BY <1>4, <1>5, <1>6, <1>8, <1>9, EmptySeq
<1>11. ASSUME NEW i \in 1 .. Len(ae) PROVE ae[i] # "&"
  <2>1. CASE i <= Len(a)
    BY <1>2, <1>4, <1>6, <1>9, <2>1
  <2>2. CASE ~(i <= Len(a))
    <3>1. i - Len(a) = 1
      BY <1>4, <1>6, <1>9, <2>2
    <3>. QED
      BY <1>4, <1>6, <2>2, <3>1
  <2>. QED
    BY <2>1, <2>2
<1>12. ASSUME NEW i \in 1 .. Len(t) PROVE t[i] # "&"
  <2>1. CASE i <= Len(ae)
    <3>1. i \in 1 .. Len(ae)
      BY <2>1, <1>4, <1>6, <1>9
    <3>. QED
      BY <1>8, <1>11, <2>1, <3>1
  <2>2. CASE ~(i <= Len(ae))
    <3>1. i - Len(ae) \in 1 .. Len(b)
      BY <1>4, <1>6, <1>8, <1>9, <2>2
    <3>. QED
      BY <1>2, <1>8, <2>2, <3>1
  <2>. QED
    BY <2>1, <2>2
<1>. QED
  BY <1>1, <1>2, <1>5, <1>10, <1>12 DEF a, b, e, t, NoAmp

SigName == <<"oauth_signature">>
Written(P) == [i \in DOMAIN P |-> Ser(P[i])]
NameAndValue(p) == [name |-> Name(p), value |-> Value(p)]

\* The signature is such a parameter.
LEMMA SignatureIs ==
  /\ Signature \in Param /\ HasValue(Signature) /\ Name(Signature) = SigName
<1> DEFINE a == <<"oauth_signature">>
           b == <<"value", "=">>
<1>1. "=" \in Symbol /\ "oauth_signature" \in Symbol /\ "value" \in Symbol
  BY DigitsAreSymbols, NamesAreSymbols
<1>2. a \in Seq(Symbol) /\ b \in Seq(Symbol) /\ Len(a) = 1 /\ a[1] = "oauth_signature"
  BY <1>1
<1>3. a \o <<"=">> \o b = Signature
  BY <1>1, ShortParameters DEF Signature
<1>4. \A i \in 1 .. Len(a) : a[i] # "="
  BY <1>2
<1> HIDE DEF a, b
<1>5. Signature \in Seq(Symbol) /\ HasValue(Signature) /\ Name(Signature) = a
  BY <1>1, <1>2, <1>3, <1>4, NameOf
<1>. QED
  BY <1>5 DEF Param, SigName, a

\* The parameters as they are written.
LEMMA WrittenIs ==
  ASSUME NEW P \in Seq(Param)
  PROVE  /\ SerializeUrl(P) = Join(Written(P), <<"&">>)
         /\ Written(P) \in Seq(Seq(Symbol)) /\ Len(Written(P)) = Len(P) /\ Full(Written(P))
         /\ \A i \in 1 .. Len(P) : Written(P)[i] = Ser(P[i]) /\ P[i] \in Param
<1>0. Len(P) \in Nat /\ DOMAIN P = 1 .. Len(P) /\ \A i \in 1 .. Len(P) : P[i] \in Param
  BY LenProperties, ElementOfSeq
<1>1. SerializeUrl(P) = Join(Written(P), <<"&">>)
  BY Zenon DEF SerializeUrl, Written, Ser
<1>2. Written(P) \in [1 .. Len(P) -> Seq(Symbol)] /\ \A i \in 1 .. Len(P) : Written(P)[i] = Ser(P[i])
  BY <1>0, SerIs DEF Written
<1>3. Written(P) \in Seq(Seq(Symbol)) /\ Len(Written(P)) = Len(P)
  BY <1>0, <1>2, IsSeq
<1>4. Full(Written(P))
  BY <1>0, <1>2, <1>3, SerIs DEF Full
<1>. QED
  BY <1>0, <1>1, <1>2, <1>3, <1>4

\* The service reads the names and values that were written.
LEMMA ReceivedIs ==
  ASSUME NEW Q \in Seq(Param), Len(Q) # 0
  PROVE  Received(SerializeUrl(Q)) = [i \in 1 .. Len(Q) |-> NameAndValue(Q[i])]
<1> DEFINE parts == Written(Q)
           text == SerializeUrl(Q)
           got(t) == [name |-> Decode(Name(t)), value |-> Decode(Value(t))]
<1>0. Len(Q) \in Nat
  BY LenProperties
<1>1. /\ text = Join(parts, <<"&">>) /\ parts \in Seq(Seq(Symbol)) /\ Len(parts) = Len(Q)
      /\ Full(parts) /\ \A i \in 1 .. Len(Q) : parts[i] = Ser(Q[i]) /\ Q[i] \in Param
  BY WrittenIs
<1> HIDE DEF parts, text
<1>2. Tokens(text, {"&"}) = parts
  BY <1>0, <1>1, JoinTokens
<1>3. DOMAIN parts = 1 .. Len(Q)
  BY <1>1, LenProperties
<1>4. Received(text) = [i \in 1 .. Len(Q) |-> got(parts[i])]
  BY <1>2, <1>3, Zenon DEF Received
<1>5. ASSUME NEW i \in 1 .. Len(Q) PROVE got(parts[i]) = NameAndValue(Q[i])
  <2>1. parts[i] = Ser(Q[i]) /\ Q[i] \in Param
    BY <1>1
  <2>2. Decode(Name(parts[i])) = Name(Q[i]) /\ Decode(Value(parts[i])) = Value(Q[i])
    BY <2>1, SerIs
  <2>. QED
    BY <2>2 DEF NameAndValue
<1> HIDE DEF got
<1>6. [i \in 1 .. Len(Q) |-> got(parts[i])] = [i \in 1 .. Len(Q) |-> NameAndValue(Q[i])]
  BY <1>5, Zenon
<1>. QED
  BY <1>4, <1>6 DEF text

\* The pairs that the service sorts.
Pair(p) == <<UrlEscape(Name(p)), UrlEscape(Value(p))>>
Pairs(P) == [i \in 1 .. Len(P) |-> Pair(P[i])]
InOrder(P) == \A j \in 1 .. Len(P) : \A i \in 1 .. j - 1 : ~Cmpstringp(P[j], P[i])

\* What oauth_sign_url2 put in order is in order for the service.
LEMMA PairsInOrder ==
  ASSUME NEW P \in Seq(Param), InOrder(P)
  PROVE  /\ Pairs(P) \in Seq(Seq(Symbol) \X Seq(Symbol)) /\ Len(Pairs(P)) = Len(P)
         /\ \A i \in 1 .. Len(P) : Pairs(P)[i] = Pair(P[i]) /\ P[i] \in Param
         /\ Sorted(Pairs(P), PairBefore) = Pairs(P)
<1>0. Len(P) \in Nat /\ \A i \in 1 .. Len(P) : P[i] \in Param /\ P[i] \in Seq(Symbol)
  BY LenProperties, ElementOfSeq DEF Param
<1>1. ASSUME NEW p \in Seq(Symbol) PROVE Name(p) \in Seq(Symbol) /\ Value(p) \in Seq(Symbol)
                                           /\ UrlEscape(Name(p)) \in Seq(Symbol) /\ UrlEscape(Value(p)) \in Seq(Symbol)
  BY NameIs, EscapeType
<1>2. Pairs(P) \in [1 .. Len(P) -> Seq(Symbol) \X Seq(Symbol)]
  BY <1>0, <1>1 DEF Pairs, Pair
<1>3. Pairs(P) \in Seq(Seq(Symbol) \X Seq(Symbol)) /\ Len(Pairs(P)) = Len(P)
  BY <1>0, <1>2, IsSeq
<1>4. \A i \in 1 .. Len(P) : Pairs(P)[i] = Pair(P[i])
  BY DEF Pairs
<1>5. ASSUME NEW p \in Seq(Symbol), NEW q \in Seq(Symbol), PairBefore(Pair(q), Pair(p))
      PROVE  Cmpstringp(q, p)
  <2>1. \/ Before(UrlEscape(Name(q)), UrlEscape(Name(p)))
        \/ UrlEscape(Name(q)) = UrlEscape(Name(p)) /\ Before(UrlEscape(Value(q)), UrlEscape(Value(p)))
    BY <1>5 DEF PairBefore, Pair
  <2>2. CASE Before(UrlEscape(Name(q)), UrlEscape(Name(p)))
    BY <2>2, Zenon DEF Cmpstringp
  <2>3. CASE UrlEscape(Name(q)) = UrlEscape(Name(p)) /\ Before(UrlEscape(Value(q)), UrlEscape(Value(p)))
    <3>1. HasValue(p)
      <4>1. SUFFICES ASSUME ~HasValue(p) PROVE FALSE
        OBVIOUS
      <4>2. UrlEscape(Value(p)) = <<>>
        BY <4>1, NameIs, NothingEscaped
      <4>3. ~Before(UrlEscape(Value(q)), <<>>)
        BY <1>1, BeforeNothing
      <4>. QED
        BY <2>3, <4>2, <4>3
    <3>. QED
      BY <2>3, <3>1, Zenon DEF Cmpstringp
  <2>. QED
    BY <2>1, <2>2, <2>3
<1>6. ASSUME NEW j \in 1 .. Len(Pairs(P)), NEW i \in 1 .. j - 1
      PROVE  ~PairBefore(Pairs(P)[j], Pairs(P)[i])
  <2>1. j \in 1 .. Len(P) /\ i \in 1 .. Len(P)
    BY <1>0, <1>3
  <2>2. ~Cmpstringp(P[j], P[i])
    BY <2>1 DEF InOrder
  <2>3. ~PairBefore(Pair(P[j]), Pair(P[i]))
    BY <1>0, <1>5, <2>1, <2>2
  <2>. QED
    BY <1>4, <2>1, <2>3
<1>7. Sorted(Pairs(P), PairBefore) = Pairs(P)
  BY <1>3, <1>6, SortedAlready
<1>. QED
  BY <1>0, <1>3, <1>4, <1>7

\* The service verifies what was signed.
LEMMA VerifiedIs ==
  ASSUME NEW P \in Seq(Param), InOrder(P), \A i \in 1 .. Len(P) : Name(P[i]) # SigName,
         NEW url, Normal(url) = url,
         NEW r, r.url = url, r.params = SerializeUrl(Append(P, Signature)),
         r.signed = Catenc(<<Method, url, SerializeUrl(P)>>)
  PROVE  Verified(r) = r.signed
<1> DEFINE n == Len(P)
           Q == Append(P, Signature)
           got == [i \in 1 .. n + 1 |-> NameAndValue(Q[i])]
           params == Sift(Received(r.params), LAMBDA q : q.name # <<"oauth_signature">>)
           pairs == [i \in DOMAIN params |-> <<UrlEscape(params[i].name), UrlEscape(params[i].value)>>]
           sorted == Sorted(pairs, PairBefore)
           written == [i \in DOMAIN sorted |-> sorted[i][1] \o <<"=">> \o sorted[i][2]]
<1>0. n \in Nat
  BY LenProperties
<1>1. Verified(r) = Catenc(<<Method, Normal(r.url), Join(written, <<"&">>)>>)
  BY Zenon DEF Verified
<1>2. /\ Q \in Seq(Param) /\ Len(Q) = n + 1 /\ Q[n + 1] = Signature
      /\ \A i \in 1 .. n : Q[i] = P[i]
  BY SignatureIs, AppendProperties
<1> HIDE DEF Q
<1>3. Received(r.params) = got
  <2>1. Len(Q) # 0
    BY <1>0, <1>2
  <2>. QED
    BY <1>2, <2>1, ReceivedIs DEF Q
<1>4. params = SubSeq(got, 1, n)
  <2> DEFINE R == {got[i] : i \in 1 .. n + 1}
             seqs == [i \in DOMAIN got |-> IF got[i].name # <<"oauth_signature">> THEN <<got[i]>> ELSE <<>>]
  <2>1. got \in Seq(R) /\ Len(got) = n + 1 /\ DOMAIN got = 1 .. n + 1
    <3>1. got \in [1 .. n + 1 -> R] /\ DOMAIN got = 1 .. n + 1
      OBVIOUS
    <3> HIDE DEF got, R
    <3>. QED
      BY <1>0, <3>1, IsSeq
  <2>2. params = FlattenSeq(seqs)
    BY <1>3, Zenon DEF Sift
  <2>3. \A i \in 1 .. n + 1 : got[i].name = Name(Q[i])
    BY DEF NameAndValue
  <2>4. \A i \in 1 .. n + 1 : got[i].name # <<"oauth_signature">> <=> i <= n
    <3>1. ASSUME NEW i \in 1 .. n PROVE got[i].name # <<"oauth_signature">>
      <4>1. i \in 1 .. n + 1 /\ Q[i] = P[i] /\ Name(P[i]) # SigName
        BY <1>0, <1>2
      <4>. QED
        BY <2>3, <4>1 DEF SigName
    <3>2. got[n + 1].name = <<"oauth_signature">>
      BY <1>0, <1>2, <2>3, SignatureIs DEF SigName
    <3> HIDE DEF got
    <3>3. \A i \in 1 .. n + 1 : i <= n => i \in 1 .. n
      BY <1>0
    <3>4. \A i \in 1 .. n + 1 : ~(i <= n) => i = n + 1
      BY <1>0
    <3>. QED
      BY <3>1, <3>2, <3>3, <3>4
  <2> HIDE DEF got, R
  <2>5. DOMAIN seqs = 1 .. Len(got) /\ seqs = [i \in DOMAIN seqs |-> seqs[i]]
    BY <2>1
  <2>6. \A i \in 1 .. Len(got) : seqs[i] = IF i <= n THEN <<got[i]>> ELSE <<>>
    BY <2>1, <2>4, Zenon
  <2>7. n \in 0 .. Len(got)
    BY <1>0, <2>1
  <2> HIDE DEF seqs
  <2>8. FlattenSeq(seqs) = SubSeq(got, 1, n)
    BY <2>1, <2>5, <2>6, <2>7, FlattenSingles
  <2>. QED
    BY <2>2, <2>8
<1> HIDE DEF params
<1>5. DOMAIN params = 1 .. n /\ \A i \in 1 .. n : params[i] = NameAndValue(P[i])
  <2> DEFINE R == {got[i] : i \in 1 .. n + 1}
  <2>1. got \in [1 .. n + 1 -> R]
    OBVIOUS
  <2>2. \A i \in 1 .. n : got[i] = NameAndValue(P[i])
    BY <1>0, <1>2
  <2> HIDE DEF got, R
  <2>3. got \in Seq(R) /\ Len(got) = n + 1
    BY <1>0, <2>1, IsSeq
  <2>4. 1 \in Nat \ {0} /\ 1 <= n + 1 /\ n <= Len(got) /\ n - 1 + 1 = n /\ \A i \in 1 .. n : 1 + i - 1 = i
    BY <1>0, <2>3
  <2>5. /\ params \in Seq(R) /\ Len(params) = n - 1 + 1
        /\ \A i \in 1 .. n - 1 + 1 : params[i] = got[1 + i - 1]
    BY <1>0, <1>4, <2>3, <2>4, SubIs
  <2>6. DOMAIN params = 1 .. Len(params)
    BY <2>5, LenProperties
  <2>. QED
    BY <2>2, <2>4, <2>5, <2>6
<1> HIDE DEF got
<1>6. pairs = Pairs(P)
  <2>1. \A i \in 1 .. n : <<UrlEscape(params[i].name), UrlEscape(params[i].value)>> = Pair(P[i])
    BY <1>5 DEF Pair, NameAndValue
  <2>. QED
    BY <1>5, <2>1, Zenon DEF Pairs
<1> HIDE DEF pairs
<1>7. /\ sorted = Pairs(P) /\ Len(sorted) = n /\ sorted \in Seq(Seq(Symbol) \X Seq(Symbol))
      /\ \A i \in 1 .. n : sorted[i] = Pair(P[i]) /\ P[i] \in Param
  BY <1>6, PairsInOrder
<1> HIDE DEF sorted
<1>8. written = Written(P)
  <2>1. DOMAIN sorted = 1 .. n /\ DOMAIN P = 1 .. n
    BY <1>7, LenProperties
  <2>2. ASSUME NEW i \in 1 .. n PROVE sorted[i][1] \o <<"=">> \o sorted[i][2] = Ser(P[i])
    <3>1. sorted[i][1] = UrlEscape(Name(P[i])) /\ sorted[i][2] = UrlEscape(Value(P[i]))
      BY <1>7 DEF Pair
    <3>2. Ser(P[i]) = UrlEscape(Name(P[i])) \o <<"=">> \o UrlEscape(Value(P[i]))
      BY <1>7, SerIs
    <3>. QED
      BY <3>1, <3>2
  <2>. QED
    BY <2>1, <2>2, Zenon DEF Written
<1> HIDE DEF written
<1>9. Join(written, <<"&">>) = SerializeUrl(P)
  BY <1>8, WrittenIs
<1>. QED
  BY <1>1, <1>9

-----------------------------------------------------------------------------
(* What is signed.                                                         *)

\* What may follow the URL.
Sendable == {p \in Param : Name(p) # SigName}
AllSendable(args) ==
  /\ args \in Seq(Seq(Symbol)) /\ args # <<>>
  /\ \A i \in 2 .. Len(args) : args[i] \in Sendable

\* A parameter more.
LEMMA SendableAppend ==
  ASSUME NEW args, AllSendable(args), NEW p \in Sendable
  PROVE  AllSendable(Append(args, p)) /\ Append(args, p)[1] = args[1]
<1> DEFINE more == Append(args, p)
           n == Len(args)
<1>1. args \in Seq(Seq(Symbol)) /\ args # <<>> /\ p \in Seq(Symbol)
  BY DEF AllSendable, Sendable, Param
<1>2. n \in Nat \ {0}
  BY <1>1, EmptySeq
<1>3. /\ more \in Seq(Seq(Symbol)) /\ more # <<>> /\ Len(more) = n + 1 /\ more[n + 1] = p
      /\ \A i \in 1 .. n : more[i] = args[i]
  BY <1>1, AppendProperties
<1> HIDE DEF more
<1>4. ASSUME NEW i \in 2 .. n + 1 PROVE more[i] \in Sendable
  <2>1. CASE i = n + 1
    BY <1>3, <2>1
  <2>2. CASE i # n + 1
    <3>1. i \in 2 .. n /\ i \in 1 .. n
      BY <1>2, <2>2
    <3>. QED
      BY <1>3, <3>1 DEF AllSendable
  <2>. QED
    BY <2>1, <2>2
<1>5. more[1] = args[1]
  BY <1>2, <1>3
<1>. QED
  BY <1>3, <1>4, <1>5 DEF AllSendable, more

Valued(k) == <<k, "=", "value">>

\* The parameters of the protocol.
LEMMA ProtocolIsSendable ==
  /\ \A k \in {"oauth_nonce", "oauth_timestamp", "oauth_version", "oauth_consumer_key"} : Valued(k) \in Sendable
  /\ <<"oauth_signature", "_method", "=", "value">> \in Sendable
  /\ <<"oauth_token", "=">> \o <<"x">> \in Sendable
<1>0. /\ "=" \in Symbol /\ "value" \in Symbol /\ "x" \in Symbol /\ "_method" \in Symbol
      /\ "oauth_signature" \in Symbol /\ "oauth_token" \in Symbol
  BY DigitsAreSymbols, NamesAreSymbols
<1>1. ASSUME NEW a \in Seq(Symbol), NEW b \in Seq(Symbol), \A i \in 1 .. Len(a) : a[i] # "=",
             a # SigName, NEW p, p = a \o <<"=">> \o b
      PROVE  p \in Sendable
  <2>1. p \in Seq(Symbol) /\ HasValue(p) /\ Name(p) = a
    BY <1>0, <1>1, NameOf, Zenon
  <2>. QED
    BY <1>1, <2>1 DEF Sendable, Param
<1>2. ASSUME NEW k \in Symbol, NEW v \in Symbol, k # "=", k # "oauth_signature"
      PROVE  <<k, "=", v>> \in Sendable
  <2> DEFINE a == <<k>>
             b == <<v>>
  <2>1. a \in Seq(Symbol) /\ b \in Seq(Symbol) /\ Len(a) = 1 /\ a[1] = k
    OBVIOUS
  <2>2. a # SigName
    BY <1>2 DEF SigName
  <2>3. a \o <<"=">> \o b = <<k, "=", v>>
    BY <1>0, ShortParameters
  <2>4. \A i \in 1 .. Len(a) : a[i] # "="
    BY <1>2, <2>1
  <2>5. PICK p : p = a \o <<"=">> \o b
    OBVIOUS
  <2> HIDE DEF a, b
  <2>6. p \in Sendable
    BY <1>1, <2>1, <2>2, <2>4, <2>5
  <2>. QED
    BY <2>3, <2>5, <2>6
<1>3. ASSUME NEW k \in {"oauth_nonce", "oauth_timestamp", "oauth_version", "oauth_consumer_key"}
      PROVE  Valued(k) \in Sendable
  <2>1. k \in Symbol /\ k # "=" /\ k # "oauth_signature"
    BY NamesAreSymbols
  <2>. QED
    BY <1>0, <1>2, <2>1 DEF Valued
<1>4. <<"oauth_signature", "_method", "=", "value">> \in Sendable
  <2> DEFINE a == <<"oauth_signature", "_method">>
             b == <<"value">>
  <2>1. a \in Seq(Symbol) /\ b \in Seq(Symbol) /\ Len(a) = 2 /\ a[1] = "oauth_signature" /\ a[2] = "_method"
    BY <1>0
  <2>2. a # SigName
    BY <2>1 DEF SigName
  <2>3. a \o <<"=">> \o b = <<"oauth_signature", "_method", "=", "value">>
    BY <1>0, ShortParameters
  <2>4. \A i \in 1 .. Len(a) : a[i] # "="
    BY <2>1
  <2>5. PICK p : p = a \o <<"=">> \o b
    OBVIOUS
  <2> HIDE DEF a, b
  <2>6. p \in Sendable
    BY <1>1, <2>1, <2>2, <2>4, <2>5
  <2>. QED
    BY <2>3, <2>5, <2>6
<1>5. <<"oauth_token", "=">> \o <<"x">> \in Sendable
  <2>1. <<"oauth_token">> \o <<"=">> = <<"oauth_token", "=">> /\ <<"oauth_token">> \o <<"=">> \o <<"x">> = <<"oauth_token", "=", "x">>
    BY <1>0, ShortParameters
  <2>2. <<"oauth_token", "=", "x">> \in Sendable
    BY <1>0, <1>2
  <2>3. <<"oauth_token", "=">> \o <<"x">> = <<"oauth_token", "=", "x">>
    BY <2>1, Zenon
  <2>. QED
    BY <2>2, <2>3
<1>. QED
  BY <1>3, <1>4, <1>5

\* Two elements more.
LEMMA TwoAppends ==
  ASSUME NEW S, NEW s \in Seq(S), NEW x \in S, NEW y \in S
  PROVE  s \o <<x, y>> = Append(Append(s, x), y)
<1> DEFINE one == <<x>>
           two == <<y>>
           both == <<x, y>>
<1>1. one \in Seq(S) /\ two \in Seq(S) /\ both \in Seq(S)
  OBVIOUS
<1>2. one \o two = both
  <2> DEFINE c == one \o two
  <2>1. Len(one) = 1 /\ one[1] = x /\ Len(two) = 1 /\ two[1] = y /\ Len(both) = 2 /\ both[1] = x /\ both[2] = y
    OBVIOUS
  <2> HIDE DEF one, two, both
  <2>2. /\ c \in Seq(S) /\ Len(c) = Len(one) + Len(two)
        /\ \A i \in 1 .. Len(one) + Len(two) : c[i] = IF i <= Len(one) THEN one[i] ELSE two[i - Len(one)]
    BY <1>1, ConcatProperties
  <2> HIDE DEF c
  <2>3. \A i \in 1 .. 2 : c[i] = IF i <= 1 THEN one[i] ELSE two[i - 1]
    BY <2>1, <2>2
  <2>4. Len(c) = 2 /\ c[1] = x /\ c[2] = y
    BY <2>1, <2>2, <2>3
  <2>5. c = both
    BY <1>1, <2>1, <2>2, <2>4, SeqEqual
  <2>. QED
    BY <2>5 DEF c
<1>3. Append(s, x) = s \o one /\ Append(s, x) \in Seq(S)
  BY AppendIsConcat, AppendProperties
<1>4. Append(Append(s, x), y) = Append(s, x) \o two
  BY <1>3, AppendIsConcat
<1> HIDE DEF one, two, both
<1>5. (s \o one) \o two = s \o (one \o two)
  BY <1>1, ConcatAssociative
<1>6. s \o both = Append(Append(s, x), y)
  BY <1>2, <1>3, <1>4, <1>5
<1>. QED
  BY <1>6 DEF both

\* oauth_add_protocol leaves the URL where it is and adds parameters.
LEMMA ProtocolAdded ==
  ASSUME NEW args, AllSendable(args), NEW tKey \in {<<>>, <<"x">>}
  PROVE  AllSendable(AddProtocol(args, tKey)) /\ AddProtocol(args, tKey)[1] = args[1]
<1>1. ASSUME NEW s, AllSendable(s), NEW k \in {"oauth_nonce", "oauth_timestamp", "oauth_version"}
      PROVE  AllSendable(AddNew(s, k)) /\ AddNew(s, k)[1] = s[1]
  <2>1. Valued(k) \in Sendable
    BY ProtocolIsSendable
  <2>2. AddNew(s, k) = s \/ AddNew(s, k) = Append(s, Valued(k))
    BY Zenon DEF AddNew, Valued
  <2> DEFINE p == Valued(k)
  <2> HIDE DEF p
  <2>3. AllSendable(Append(s, p)) /\ Append(s, p)[1] = s[1]
    BY <1>1, <2>1, SendableAppend DEF p
  <2>. QED
    BY <1>1, <2>2, <2>3, Zenon DEF p
<1> DEFINE named == AddNew(AddNew(args, "oauth_nonce"), "oauth_timestamp")
           token == IF tKey = <<>> THEN named ELSE Append(named, <<"oauth_token", "=">> \o tKey)
           a == <<"oauth_consumer_key", "=", "value">>
           b == <<"oauth_signature", "_method", "=", "value">>
           all == token \o <<a, b>>
<1>2. AddProtocol(args, tKey) = AddNew(all, "oauth_version")
  BY Zenon DEF AddProtocol
<1>3. AllSendable(named) /\ named[1] = args[1]
  <2> DEFINE s == AddNew(args, "oauth_nonce")
  <2>1. AllSendable(s) /\ s[1] = args[1]
    BY <1>1
  <2> HIDE DEF s
  <2>2. AllSendable(AddNew(s, "oauth_timestamp")) /\ AddNew(s, "oauth_timestamp")[1] = s[1]
    BY <1>1, <2>1
  <2>. QED
    BY <2>1, <2>2 DEF s
<1> HIDE DEF named
<1>4. AllSendable(token) /\ token[1] = args[1]
  <2>1. CASE tKey = <<>>
    BY <1>3, <2>1
  <2>2. CASE tKey # <<>>
    <3>1. tKey = <<"x">>
      BY <2>2
    <3> DEFINE p == <<"oauth_token", "=">> \o tKey
    <3>2. p \in Sendable
      BY <3>1, ProtocolIsSendable
    <3>3. token = Append(named, p)
      BY <2>2
    <3> HIDE DEF p, token
    <3>. QED
      BY <1>3, <3>2, <3>3, SendableAppend
  <2>. QED
    BY <2>1, <2>2
<1>5. a \in Sendable /\ b \in Sendable
  BY ProtocolIsSendable DEF Valued
<1> HIDE DEF token, a, b
<1>6. AllSendable(all) /\ all[1] = args[1]
  <2> DEFINE s == Append(token, a)
             t == Append(s, b)
  <2>1. token \in Seq(Seq(Symbol)) /\ a \in Seq(Symbol) /\ b \in Seq(Symbol)
    BY <1>4, <1>5 DEF AllSendable, Sendable, Param
  <2>2. all = t
    BY <2>1, TwoAppends
  <2> HIDE DEF all
  <2>3. AllSendable(s) /\ s[1] = token[1]
    BY <1>4, <1>5, SendableAppend
  <2> HIDE DEF s
  <2>4. AllSendable(t) /\ t[1] = s[1]
    BY <1>5, <2>3, SendableAppend
  <2>. QED
    BY <1>4, <2>2, <2>3, <2>4
<1> HIDE DEF all
<1>7. AllSendable(AddNew(all, "oauth_version")) /\ AddNew(all, "oauth_version")[1] = all[1]
  BY <1>1, <1>6
<1>. QED
  BY <1>2, <1>6, <1>7

\* Whatever stands after a URL that is in its normal form, the service
\* verifies the signature.
LEMMA RequestVerifies ==
  ASSUME NEW tKey \in {<<>>, <<"x">>},
         NEW args, args = SplitParameters(Url, ~form.post), AllSendable(args),
         Normal(args[1]) = args[1]
  PROVE  LET r == Request(tKey) IN Verified(r) = r.signed
<1> DEFINE all == AddProtocol(args, tKey)
           P == Sorted(Tail(all), Cmpstringp)
           r == Request(tKey)
<1>1. r = [signed |-> Catenc(<<Method, Head(all), SerializeUrl(P)>>), url |-> Head(all),
           params |-> SerializeUrl(Append(P, Signature))]
  BY Zenon DEF Request
<1>2. AllSendable(all) /\ all[1] = args[1]
  BY ProtocolAdded
<1> HIDE DEF all, r
<1>3. all \in Seq(Seq(Symbol)) /\ all # <<>> /\ Len(all) \in Nat \ {0} /\ \A i \in 2 .. Len(all) : all[i] \in Sendable
  <2>1. all \in Seq(Seq(Symbol)) /\ all # <<>> /\ \A i \in 2 .. Len(all) : all[i] \in Sendable
    BY <1>2 DEF AllSendable
  <2>. QED
    BY <2>1, EmptySeq
<1>4. Head(all) = all[1]
  BY <1>3
<1>5. Tail(all) \in Seq(Sendable)
  <2>1. Tail(all) = SubSeq(all, 2, Len(all))
    BY <1>3, TailIsSubSeq
  <2>2. SubSeq(all, 2, Len(all)) \in Seq(Sendable)
    <3>1. 2 \in Int /\ Len(all) \in Int
      BY <1>3
    <3>. QED
      BY <1>3, <3>1, SubSeqProperties
  <2>. QED
    BY <2>1, <2>2
<1>6. Sendable \in SUBSET Seq(Symbol)
  BY DEF Sendable, Param
<1>7. P \in Seq(Sendable) /\ InOrder(P)
  BY <1>5, <1>6, SortedIs DEF InOrder
<1> HIDE DEF P
<1>8. P \in Seq(Param) /\ \A i \in 1 .. Len(P) : Name(P[i]) # SigName
  <2>1. \A i \in 1 .. Len(P) : P[i] \in Sendable
    BY <1>7, ElementOfSeq
  <2>2. Sendable \subseteq Param
    BY DEF Sendable
  <2>. QED
    BY <1>7, <2>1, <2>2, SeqMonotonic DEF Sendable
<1> DEFINE url == Head(all)
<1>9. Normal(url) = url
  BY <1>2, <1>4
<1>10. /\ r.url = url /\ r.params = SerializeUrl(Append(P, Signature))
       /\ r.signed = Catenc(<<Method, url, SerializeUrl(P)>>)
  BY <1>1
<1> HIDE DEF url
<1>11. Verified(r) = r.signed
  BY <1>7, <1>8, <1>9, <1>10, VerifiedIs
<1>. QED
  BY <1>11 DEF r

-----------------------------------------------------------------------------
(* The URL is the first part of the text.                                  *)

\* What is left of the parts begins with the URL.
Leads(A, base, D) ==
  /\ Unsigned(WithContent(D)) \in Seq(Seq(A)) /\ Unsigned(WithContent(D)) # <<>>
  /\ Unsigned(WithContent(D))[1] = base

\* The URL stays the first part.
LEMMA LeadsStill ==
  ASSUME NEW A, NEW base, NEW D \in Seq(Seq(A)), NEW t \in Seq(A), Leads(A, base, D)
  PROVE  Leads(A, base, Append(D, t))
<1> DEFINE W == WithContent(D)
           u == Unsigned(W)
<1>1. W \in Seq(Seq(A)) /\ WithContent(Append(D, t)) = IF t = <<>> THEN W ELSE Append(W, t)
  BY WithContentAppend
<1>2. u \in Seq(Seq(A)) /\ u # <<>> /\ u[1] = base
  BY DEF Leads
<1> HIDE DEF W
<1>3. Unsigned(Append(W, t)) = IF IsSignature(t) THEN u ELSE Append(u, t)
  BY <1>1, UnsignedAppend
<1> HIDE DEF u
<1>4. Append(u, t) \in Seq(Seq(A)) /\ Append(u, t) # <<>> /\ Append(u, t)[1] = base
  <2>1. Len(u) \in Nat \ {0}
    BY <1>2, EmptySeq
  <2>2. 1 \in 1 .. Len(u)
    BY <2>1
  <2>. QED
    BY <1>2, <2>2, AppendProperties
<1>5. CASE t = <<>>
  BY <1>1, <1>5 DEF Leads, W
<1>6. CASE t # <<>> /\ IsSignature(t)
  <2>1. Unsigned(WithContent(Append(D, t))) = u
    BY <1>1, <1>3, <1>6
  <2>. QED
    BY <1>2, <2>1 DEF Leads
<1>7. CASE t # <<>> /\ ~IsSignature(t)
  <2>1. Unsigned(WithContent(Append(D, t))) = Append(u, t)
    BY <1>1, <1>3, <1>7
  <2>. QED
    BY <1>4, <2>1 DEF Leads
<1>. QED
  BY <1>5, <1>6, <1>7

\* It is the first part.
LEMMA LeadsFirst ==
  ASSUME NEW A, NEW base \in Seq(A), base # <<>>, ~IsSignature(base)
  PROVE  Leads(A, base, Append(<<>>, base))
<1> DEFINE e == <<>>
           one == Append(e, base)
<1>1. e \in Seq(Seq(A)) /\ Len(e) = 0
  BY EmptySeq
<1>2. WithContent(e) = e /\ Unsigned(e) = e
  <2> DEFINE a == [i \in DOMAIN e |-> IF e[i] # <<>> THEN <<e[i]>> ELSE <<>>]
             b == [i \in DOMAIN e |-> IF ~IsSignature(e[i]) THEN <<e[i]>> ELSE <<>>]
  <2>1. a = e /\ b = e
    OBVIOUS
  <2>2. WithContent(e) = FlattenSeq(a) /\ Unsigned(e) = FlattenSeq(b)
    BY Zenon DEF WithContent, Unsigned, Sift
  <2>. QED
    BY <2>1, <2>2, FlattenEmpty
<1>3. one \in Seq(Seq(A)) /\ one # <<>> /\ one[1] = base
  BY <1>1, AppendProperties
<1> HIDE DEF e
<1>4. WithContent(one) = one
  BY <1>1, <1>2, WithContentAppend
<1>5. Unsigned(one) = one
  BY <1>1, <1>2, UnsignedAppend
<1> HIDE DEF one
<1>6. Leads(A, base, one)
  BY <1>3, <1>4, <1>5 DEF Leads
<1>. QED
  BY <1>6 DEF one, e

\* The text begins with the URL, and a separator follows or nothing.
StartsWith(text, base) ==
  /\ Len(base) <= Len(text) /\ \A i \in 1 .. Len(base) : text[i] = base[i]
  /\ Len(text) = Len(base) \/ text[Len(base) + 1] \in Separator

\* A character that does not separate goes on with the last part.
LEMMA AddCharGoesOn ==
  ASSUME NEW S, NEW D, D \in Seq(Seq(S)), NEW t, t \in Seq(S), NEW c, c \in S,
         NEW separators, NEW parts, parts = Append(D, t), NEW e, e = <<>>,
         NEW next, next = AddChar(parts, c, separators),
         c \notin separators
  PROVE  next = Append(D, Append(t, c))
BY AddCharAppend

\* The first part of the text is the URL.
LEMMA FirstPart ==
  ASSUME NEW A \in SUBSET Symbol, NEW base \in Seq(A), base # <<>>, ~IsSignature(base),
         \A i \in 1 .. Len(base) : base[i] \notin Separator,
         NEW text \in Seq(A), StartsWith(text, base),
         NEW tokens, tokens = Unsigned(Tokens(text, Separator))
  PROVE  tokens \in Seq(Seq(A)) /\ tokens # <<>> /\ tokens[1] = base
<1> DEFINE e == <<>>
           b == Len(base)
           n == Len(text)
<1>0. /\ b \in Nat /\ n \in Nat /\ b <= n /\ b # 0 /\ text \in Seq(Symbol)
      /\ \A i \in 1 .. n : text[i] \in A
  BY LenProperties, ElementOfSeq, EmptySeq, SeqMonotonic DEF StartsWith
<1>1. PICK cut : IsCut(cut, text, Separator)
  BY <1>0, CutExists
<1>2. cut[b] = Append(e, base)
  <2>1. Opens(cut[0], e)
    <3>1. cut[0] = << <<>> >>
      BY <1>1 DEF IsCut
    <3>2. Append(<<>>, <<>>) = << <<>> >>
      OBVIOUS
    <3>. QED
      BY <3>1, <3>2 DEF Opens
  <2>2. e \in Seq(Seq(Symbol))
    BY EmptySeq
  <2> HIDE DEF e
  <2>3. NoneIn(text, 0, b, Separator)
    BY DEF NoneIn, StartsWith
  <2>4. 0 \in 0 .. Len(text) /\ b \in 0 .. Len(text)
    BY <1>0
  <2> HIDE DEF b, n
  <2>5. cut[b] = Append(e, SubSeq(text, 0 + 1, b))
    BY <1>0, <1>1, <2>1, <2>2, <2>3, <2>4, OverToken
  <2>6. SubSeq(text, 0 + 1, b) = base
    <3>1. base \in Seq(Symbol)
      BY SeqMonotonic
    <3>2. StandsAt(text, 0, base)
      BY DEF StandsAt, StartsWith, b
    <3>3. b = 0 + Len(base) /\ b <= Len(text) /\ 0 \in Nat
      BY <1>0, <2>4 DEF b
    <3>. QED
      BY <1>0, <3>1, <3>2, <3>3, StandsSub
  <2>. QED
    BY <2>5, <2>6
<1>3. Leads(A, base, Append(e, base))
  BY LeadsFirst
<1>4. e \in Seq(Seq(A)) /\ e \in Seq(A)
  BY EmptySeq
<1>5. Tokens(text, Separator) = WithContent(cut[n])
  BY <1>1 DEF IsCut
<1> HIDE DEF e
<1>6. Leads(A, base, cut[n])
  <2>1. CASE n = b
    BY <1>2, <1>3, <2>1
  <2>2. CASE n # b
    <3> DEFINE Inv(k) == \E D \in Seq(Seq(A)), t \in Seq(A) : cut[k] = Append(D, t) /\ Leads(A, base, D)
               Done == {i \in Nat : b + 1 + i <= n => Inv(b + 1 + i)}
    <3>0. text[b + 1] \in Separator /\ b \in 0 .. n - 1 /\ b + 1 \in 1 .. n
      BY <1>0, <2>2 DEF StartsWith
    <3>1. Inv(b + 1)
      <4> DEFINE D == Append(e, base)
      <4>1. cut[b + 1] = AddChar(cut[b], text[b + 1], Separator)
        BY <1>1, <3>0 DEF IsCut
      <4>2. cut[b + 1] = Append(D, e)
        BY <1>2, <3>0, <4>1 DEF AddChar, e
      <4>3. D \in Seq(Seq(A))
        BY <1>4, AppendProperties
      <4>. QED
        BY <1>3, <1>4, <4>2, <4>3
    <3>2. ASSUME NEW k \in b + 1 .. n - 1, Inv(k) PROVE Inv(k + 1)
      <4>1. k \in 0 .. n - 1 /\ k + 1 \in 1 .. n
        BY <1>0
      <4>2. PICK D \in Seq(Seq(A)), t \in Seq(A) : cut[k] = Append(D, t) /\ Leads(A, base, D)
        BY <3>2
      <4>3. PICK c \in A : c = text[k + 1]
        BY <1>0, <4>1
      <4>4. cut[k + 1] = AddChar(Append(D, t), c, Separator)
        BY <1>1, <4>1, <4>2, <4>3 DEF IsCut
      <4>5. cut[k + 1] = IF c \in Separator THEN Append(Append(D, t), e) ELSE Append(D, Append(t, c))
        <5>1. D \in Seq(Seq(A)) /\ t \in Seq(A) /\ c \in A
          OBVIOUS
        <5>2. PICK none : none = <<>> /\ none = e
          BY DEF e
        <5>3. PICK parts : parts = Append(D, t)
          OBVIOUS
        <5>4. PICK next : next = AddChar(parts, c, Separator)
          OBVIOUS
        <5>5. next = IF c \in Separator THEN Append(parts, e) ELSE Append(D, Append(t, c))
          <6>0. next = AddChar(parts, c, Separator)
            BY <5>4
          <6>1. CASE c \in Separator
            <7>0. none = <<>>
              BY <5>2
            <7>1. next = Append(parts, none)
              BY ONLY <7>0, <6>0, <6>1 DEF AddChar
            <7>. QED
              BY ONLY <6>1, <7>1, <5>2
          <6>2. CASE c \notin Separator
            <7>1. next = Append(D, Append(t, c))
              BY ONLY <5>1, <5>2, <5>3, <6>0, <6>2, AddCharGoesOn
            <7>. QED
              BY ONLY <6>2, <7>1
          <6>. QED
            BY <6>1, <6>2
        <5>6. cut[k + 1] = next
          BY ONLY <4>4, <5>3, <5>4
        <5>. QED
          BY ONLY <5>3, <5>5, <5>6
      <4>6. Append(D, t) \in Seq(Seq(A)) /\ Append(t, c) \in Seq(A)
        BY AppendProperties
      <4>7. Leads(A, base, Append(D, t))
        BY <4>2, LeadsStill
      <4>8. CASE c \in Separator
        <5>1. cut[k + 1] = Append(Append(D, t), e)
          BY <4>5, <4>8
        <5>. QED
          BY <1>4, <4>6, <4>7, <5>1
      <4>9. CASE c \notin Separator
        <5>1. cut[k + 1] = Append(D, Append(t, c))
          BY <4>5, <4>9
        <5>. QED
          BY <4>2, <4>6, <5>1
      <4>. QED
        BY <4>8, <4>9
    <3> HIDE DEF Inv
    <3>3. 0 \in Done
      <4>1. b + 1 + 0 = b + 1
        BY <1>0
      <4>. QED
        BY <3>1, <4>1
    <3>4. ASSUME NEW i \in Nat, i \in Done PROVE i + 1 \in Done
      <4>1. SUFFICES ASSUME b + 1 + (i + 1) <= n PROVE Inv(b + 1 + (i + 1))
        OBVIOUS
      <4>2. PICK k : k = b + 1 + i
        OBVIOUS
      <4>3. k \in b + 1 .. n - 1 /\ k <= n /\ b + 1 + (i + 1) = k + 1
        <5> HIDE DEF b, n
        <5>. QED
          BY <1>0, <4>1, <4>2
      <4>4. Inv(k)
        BY <3>4, <4>2, <4>3
      <4>. QED
        BY <3>2, <4>3, <4>4
    <3> HIDE DEF Done
    <3>5. n - (b + 1) \in Nat /\ b + 1 + (n - (b + 1)) = n
      BY <3>0, <1>0
    <3>6. n - (b + 1) \in Done
      BY <3>3, <3>4, <3>5, NumberInduction
    <3>7. Inv(n)
      <4>1. PICK i \in Nat : i = n - (b + 1)
        BY <3>5
      <4>2. i \in Done /\ b + 1 + i = n
        BY <3>5, <3>6, <4>1
      <4>. QED
        BY <1>0, <4>2 DEF Done
    <3>8. PICK D \in Seq(Seq(A)), t \in Seq(A) : cut[n] = Append(D, t) /\ Leads(A, base, D)
      BY <3>7 DEF Inv
    <3>. QED
      BY <3>8, LeadsStill
  <2>. QED
    BY <2>1, <2>2
<1>. QED
  BY <1>5, <1>6 DEF Leads

-----------------------------------------------------------------------------
(* The URL.                                                                *)

\* A URL with a host up to h and a port or none up to p, place by place.
UrlParts(url, h, p) ==
  /\ url \in Seq(Symbol) /\ h \in 5 .. Len(url) /\ p \in 5 .. Len(url)
  /\ url[1] = "http" /\ url[2] = ":" /\ url[3] = "/" /\ url[4] = "/"
  /\ \/ p = h
     \/ p = h + 2 /\ url[h + 1] = ":" /\ url[h + 2] = "80"
  /\ p = Len(url) \/ url[p + 1] = "/"
  /\ \A i \in 5 .. h : url[i] # "/"
  /\ \A i \in 5 .. h : url[i] # ":"
  /\ \A i \in p + 1 .. Len(url) : url[i] # ":"

\* A URL, place by place.
LEMMA UrlHasParts ==
  ASSUME NEW url \in Seq(Symbol), IsUrl(url)
  PROVE  /\ \E h, p : UrlParts(url, h, p)
         /\ url # <<>> /\ url[1] = "http"
         /\ \A i \in 1 .. Len(url) : url[i] \notin {"?", "&", "%", "+", "SOH"}
<1> DEFINE n == Len(url)
<1>0. n \in Nat
  BY LenProperties
<1>1. PICK h \in 5 .. n, p \in 5 .. n :
        /\ SubSeq(url, 1, 4) = <<"http", ":", "/", "/">>
        /\ SubSeq(url, h + 1, p) \in {<<>>, <<":", "80">>} /\ h <= p
        /\ p = n \/ url[p + 1] = "/"
        /\ \A i \in 5 .. h : url[i] # "/"
        /\ \A i \in (5 .. h) \cup (p + 1 .. n) : url[i] \notin {":", "?", "&", "%", "+", "SOH"}
  BY Zenon DEF IsUrl
<1>2. url[1] = "http" /\ url[2] = ":" /\ url[3] = "/" /\ url[4] = "/"
  <2> DEFINE a == SubSeq(url, 1, 4)
  <2>1. \A i \in 1 .. 4 - 1 + 1 : a[i] = url[1 + i - 1]
    BY <1>0, <1>1, SubIs
  <2>2. a = <<"http", ":", "/", "/">>
    BY <1>1
  <2>3. a[1] = url[1] /\ a[2] = url[2] /\ a[3] = url[3] /\ a[4] = url[4]
    <3> HIDE DEF a
    <3>. QED
      BY <2>1
  <2> HIDE DEF a
  <2>. QED
    BY <2>2, <2>3
<1>3. \/ p = h
      \/ p = h + 2 /\ url[h + 1] = ":" /\ url[h + 2] = "80"
  <2> DEFINE b == SubSeq(url, h + 1, p)
  <2>0. h + 1 \in Nat \ {0} /\ p \in Nat /\ h + 1 <= p + 1 /\ p <= n
    BY <1>0, <1>1
  <2>1. Len(b) = p - (h + 1) + 1 /\ \A i \in 1 .. p - (h + 1) + 1 : b[i] = url[(h + 1) + i - 1]
    BY <2>0, SubIs
  <2>2. b = <<>> \/ b = <<":", "80">>
    BY <1>1
  <2> HIDE DEF b
  <2>3. CASE b = <<>>
    <3>1. Len(b) = 0
      BY <2>3
    <3>. QED
      BY <1>0, <1>1, <2>1, <3>1
  <2>4. CASE b = <<":", "80">>
    <3>1. Len(b) = 2 /\ b[1] = ":" /\ b[2] = "80"
      BY <2>4
    <3>2. p - (h + 1) + 1 = 2
      BY <2>1, <3>1
    <3>3. b[1] = url[(h + 1) + 1 - 1] /\ b[2] = url[(h + 1) + 2 - 1]
      BY <2>1, <3>2
    <3>4. p = h + 2 /\ (h + 1) + 1 - 1 = h + 1 /\ (h + 1) + 2 - 1 = h + 2
      BY <1>0, <1>1, <3>2
    <3>. QED
      BY <3>1, <3>3, <3>4
  <2>. QED
    BY <2>2, <2>3, <2>4
<1>4. UrlParts(url, h, p)
  <2>1. \A i \in 5 .. h : url[i] # ":"
    BY <1>1
  <2>2. \A i \in p + 1 .. n : url[i] # ":"
    BY <1>1
  <2>. QED
    BY <1>1, <1>2, <1>3, <2>1, <2>2 DEF UrlParts
<1>5. \A i \in 1 .. n : url[i] \notin {"?", "&", "%", "+", "SOH"}
  <2>1. ASSUME NEW i \in 1 .. n PROVE url[i] \notin {"?", "&", "%", "+", "SOH"}
    <3>1. CASE i \in 1 .. 4
      <4>1. i = 1 \/ i = 2 \/ i = 3 \/ i = 4
        BY <3>1
      <4>. QED
        BY <1>2, <4>1
    <3>2. CASE i \in (5 .. h) \cup (p + 1 .. n)
      BY <1>1, <3>2
    <3>3. CASE i \in h + 1 .. p
      <4>1. i = h + 1 \/ i = h + 2
        BY <1>0, <1>1, <1>3, <3>3
      <4>. QED
        BY <1>0, <1>1, <1>3, <3>3, <4>1
    <3>. QED
      BY <1>0, <1>1, <3>1, <3>2, <3>3
  <2>. QED
    BY <2>1
<1>6. url # <<>>
  <2>1. n # 0
    BY <1>0, <1>1
  <2>. QED
    BY <2>1, EmptySeq
<1>. QED
  BY <1>2, <1>4, <1>5, <1>6

\* Where the first ":" that a "/" follows is.
LEMMA ColonSlash ==
  ASSUME NEW url, NEW h, NEW p, UrlParts(url, h, p)
  PROVE  Find(url, <<":", "/">>) = {2}
<1> DEFINE n == Len(url)
           part == <<":", "/">>
<1>0. n \in Nat /\ n >= 5 /\ h \in Nat /\ p \in Nat
  BY LenProperties DEF UrlParts
<1>1. part \in Seq(Symbol) /\ Len(part) = 2 /\ part[1] = ":" /\ part[2] = "/"
  <2>1. ":" \in Symbol /\ "/" \in Symbol
    <3>1. Ascii[15] = ":" /\ Ascii[7] = "/" /\ 15 \in DOMAIN Ascii /\ 7 \in DOMAIN Ascii
      BY DEF Ascii
    <3>. QED
      BY <3>1 DEF Symbol, ToSet
  <2>. QED
    BY <2>1
<1> HIDE DEF part
<1>2. \A i : i \in Find(url, part) <=> i \in 1 .. n + 1 - 2 /\ SubSeq(url, i, i + 2 - 1) = part
  BY <1>1 DEF Find
<1>3. ASSUME NEW i \in 1 .. n + 1 - 2
      PROVE  SubSeq(url, i, i + 2 - 1) = part <=> url[i] = ":" /\ url[i + 1] = "/"
  <2> DEFINE b == SubSeq(url, i, i + 2 - 1)
  <2>1. url \in Seq(Symbol) /\ i \in Nat \ {0} /\ i + 2 - 1 \in Nat /\ i <= (i + 2 - 1) + 1 /\ i + 2 - 1 <= n
    BY <1>0 DEF UrlParts
  <2>2. /\ b \in Seq(Symbol) /\ Len(b) = (i + 2 - 1) - i + 1
        /\ \A j \in 1 .. (i + 2 - 1) - i + 1 : b[j] = url[i + j - 1]
    BY <2>1, SubIs
  <2>3. Len(b) = 2 /\ b[1] = url[i] /\ b[2] = url[i + 1]
    <3> HIDE DEF b, n
    <3>1. (i + 2 - 1) - i + 1 = 2 /\ i + 1 - 1 = i /\ i + 2 - 1 = i + 1
      BY <2>1
    <3>2. 1 \in 1 .. (i + 2 - 1) - i + 1 /\ 2 \in 1 .. (i + 2 - 1) - i + 1
      BY <3>1
    <3>. QED
      BY <2>2, <3>1, <3>2
  <2> HIDE DEF b
  <2>4. ASSUME url[i] = ":", url[i + 1] = "/" PROVE b = part
    <3>1. \A j \in 1 .. 2 : b[j] = part[j]
      <4>1. \A j \in 1 .. 2 : j = 1 \/ j = 2
        OBVIOUS
      <4>. QED
        BY <1>1, <2>3, <2>4, <4>1
    <3>. QED
      BY <1>1, <2>2, <2>3, <3>1, SeqEqual
  <2>. QED
    BY <1>1, <2>3, <2>4 DEF b
<1>4. 2 \in Find(url, part)
  <2>1. 2 \in 1 .. n + 1 - 2
    BY <1>0
  <2>2. url[2] = ":" /\ url[2 + 1] = "/"
    BY DEF UrlParts
  <2>. QED
    BY <1>2, <1>3, <2>1, <2>2
<1>5. ASSUME NEW i, i \in Find(url, part) PROVE i = 2
  <2>1. i \in 1 .. n + 1 - 2 /\ url[i] = ":" /\ url[i + 1] = "/"
    BY <1>2, <1>3, <1>5
  <2>2. i \in 1 .. 4 \/ i \in 5 .. h \/ i \in h + 1 .. p \/ i \in p + 1 .. n
    BY <1>0, <2>1
  <2>3. CASE i \in 1 .. 4
    <3>1. i = 1 \/ i = 2 \/ i = 3 \/ i = 4
      BY <2>3
    <3>. QED
      BY <2>1, <3>1 DEF UrlParts
  <2>4. CASE i \in h + 1 .. p
    <3>1. p = h + 2 /\ url[h + 1] = ":" /\ url[h + 2] = "80" /\ (i = h + 1 \/ i = h + 2)
      BY <1>0, <2>4 DEF UrlParts
    <3>2. h + 1 + 1 = h + 2
      BY <1>0
    <3>. QED
      BY <2>1, <3>1, <3>2
  <2>. QED
    BY <2>1, <2>2, <2>3, <2>4 DEF UrlParts
<1>. QED
  BY <1>4, <1>5 DEF part

\* Whether it has a path.
LEMMA NoPathIs ==
  ASSUME NEW url, NEW h, NEW p, UrlParts(url, h, p)
  PROVE  NoPath(url) <=> p = Len(url)
<1> DEFINE n == Len(url)
<1>0. n \in Nat /\ n >= 5 /\ h \in Nat /\ p \in Nat /\ p <= n /\ h >= 5 /\ p >= 5
  BY LenProperties DEF UrlParts
<1>1. Find(url, <<":", "/">>) = {2}
  BY ColonSlash
<1>2. NoPath(url) <=> \E i \in {2} :
         /\ \A k \in {2} : i <= k
         /\ \E k \in i + 2 .. n + 1 :
              /\ \A m \in i + 1 .. k - 1 : url[m] = "/"
              /\ \A m \in k .. n : url[m] # "/"
  BY <1>1, Zenon DEF NoPath
<1>3. NoPath(url) <=> \E k \in 4 .. n + 1 :
         /\ \A m \in 3 .. k - 1 : url[m] = "/"
         /\ \A m \in k .. n : url[m] # "/"
  <2>1. 2 + 2 = 4 /\ 2 + 1 = 3 /\ 2 <= 2
    OBVIOUS
  <2>. QED
    BY <1>2, <2>1
<1>4. ASSUME p = n PROVE NoPath(url)
  <2>1. \A m \in 3 .. 5 - 1 : url[m] = "/"
    <3>1. \A m \in 3 .. 5 - 1 : m = 3 \/ m = 4
      OBVIOUS
    <3>. QED
      BY <3>1 DEF UrlParts
  <2>2. ASSUME NEW m \in 5 .. n PROVE url[m] # "/"
    <3>1. CASE m \in 5 .. h
      BY <3>1 DEF UrlParts
    <3>2. CASE m \notin 5 .. h
      <4>1. p = h + 2 /\ url[h + 1] = ":" /\ url[h + 2] = "80" /\ (m = h + 1 \/ m = h + 2)
        BY <1>0, <1>4, <3>2 DEF UrlParts
      <4>. QED
        BY <4>1
    <3>. QED
      BY <3>1, <3>2
  <2>3. 5 \in 4 .. n + 1
    BY <1>0
  <2>. QED
    BY <1>3, <2>1, <2>2, <2>3
<1>5. ASSUME p # n, NoPath(url) PROVE FALSE
  <2>1. url[p + 1] = "/" /\ p + 1 \in 5 .. n
    BY <1>0, <1>5 DEF UrlParts
  <2>2. PICK k \in 4 .. n + 1 : /\ \A m \in 3 .. k - 1 : url[m] = "/"
                                /\ \A m \in k .. n : url[m] # "/"
    BY <1>3, <1>5
  <2>3. k > p + 1
    BY <1>0, <2>1, <2>2
  <2>4. 5 \in 3 .. k - 1
    BY <1>0, <2>1, <2>2, <2>3
  <2>5. url[5] # "/"
    <3>1. 5 \in 5 .. h
      BY <1>0
    <3>. QED
      BY <3>1 DEF UrlParts
  <2>. QED
    BY <2>2, <2>4, <2>5
<1>. QED
  BY <1>4, <1>5

\* A URL without a path gets one.
LEMMA PathAdded ==
  ASSUME NEW url, NEW h, NEW p, UrlParts(url, h, p), p = Len(url)
  PROVE  UrlParts(Append(url, "/"), h, p) /\ p < Len(Append(url, "/"))
<1> DEFINE n == Len(url)
           e == Append(url, "/")
<1>0. n \in Nat /\ n >= 5 /\ h \in Nat /\ p \in Nat /\ h <= n /\ h >= 5 /\ url \in Seq(Symbol) /\ p = n
  BY LenProperties DEF UrlParts
<1>1. "/" \in Symbol
  <2>1. Ascii[7] = "/" /\ 7 \in DOMAIN Ascii
    BY DEF Ascii
  <2>. QED
    BY <2>1 DEF Symbol, ToSet
<1>2. e \in Seq(Symbol) /\ Len(e) = n + 1 /\ e[n + 1] = "/" /\ \A i \in 1 .. n : e[i] = url[i]
  BY <1>0, <1>1, AppendProperties
<1> HIDE DEF e
<1>3. \A i \in 5 .. h : i \in 1 .. n
  BY <1>0
<1>4. h \in 5 .. Len(e) /\ p \in 5 .. Len(e) /\ p < Len(e)
  BY <1>0, <1>2
<1>5. e[1] = "http" /\ e[2] = ":" /\ e[3] = "/" /\ e[4] = "/"
  <2>1. 1 \in 1 .. n /\ 2 \in 1 .. n /\ 3 \in 1 .. n /\ 4 \in 1 .. n
    BY <1>0
  <2>. QED
    BY <1>2, <2>1 DEF UrlParts
<1>6. \/ p = h
      \/ p = h + 2 /\ e[h + 1] = ":" /\ e[h + 2] = "80"
  <2>1. CASE p = h + 2
    <3>1. h + 1 \in 1 .. n /\ h + 2 \in 1 .. n /\ p # h
      BY <1>0, <2>1
    <3>. QED
      BY <1>2, <2>1, <3>1 DEF UrlParts
  <2>. QED
    BY <2>1 DEF UrlParts
<1>7. \A i \in 5 .. h : e[i] # "/" /\ e[i] # ":"
  BY <1>2, <1>3 DEF UrlParts
<1>8. \A i \in p + 1 .. Len(e) : e[i] # ":"
  <2>1. \A i \in p + 1 .. Len(e) : i = n + 1
    BY <1>0, <1>2
  <2>. QED
    BY <1>2, <2>1
<1>9. p = Len(e) \/ e[p + 1] = "/"
  BY <1>0, <1>2
<1>10. UrlParts(e, h, p)
  BY <1>2, <1>4, <1>5, <1>6, <1>7, <1>8, <1>9 DEF UrlParts
<1>. QED
  BY <1>4, <1>10 DEF e

\* Where ":80/" is.
LEMMA ColonPort ==
  ASSUME NEW url, NEW h, NEW p, UrlParts(url, h, p), p < Len(url)
  PROVE  Find(url, <<":", "80", "/">>) = IF p = h THEN {} ELSE {h + 1}
<1> DEFINE n == Len(url)
           part == <<":", "80", "/">>
<1>0. n \in Nat /\ n >= 5 /\ h \in Nat /\ p \in Nat /\ h >= 5 /\ h <= p
  BY LenProperties DEF UrlParts
<1>1. part \in Seq(Symbol) /\ Len(part) = 3 /\ part[1] = ":" /\ part[2] = "80" /\ part[3] = "/"
  <2>1. ":" \in Symbol /\ "/" \in Symbol /\ "80" \in Symbol
    <3>1. Ascii[15] = ":" /\ Ascii[7] = "/" /\ Ascii[14] = "80" /\ 15 \in DOMAIN Ascii /\ 7 \in DOMAIN Ascii
          /\ 14 \in DOMAIN Ascii
      BY DEF Ascii
    <3>. QED
      BY <3>1 DEF Symbol, ToSet
  <2>. QED
    BY <2>1
<1> HIDE DEF part
<1>2. \A i : i \in Find(url, part) <=> i \in 1 .. n + 1 - 3 /\ SubSeq(url, i, i + 3 - 1) = part
  BY <1>1 DEF Find
<1>3. ASSUME NEW i \in 1 .. n + 1 - 3
      PROVE  SubSeq(url, i, i + 3 - 1) = part <=>
               url[i] = ":" /\ url[i + 1] = "80" /\ url[i + 2] = "/"
  <2> DEFINE b == SubSeq(url, i, i + 3 - 1)
  <2>1. url \in Seq(Symbol) /\ i \in Nat \ {0} /\ i + 3 - 1 \in Nat /\ i <= (i + 3 - 1) + 1 /\ i + 3 - 1 <= n
    BY <1>0 DEF UrlParts
  <2>2. /\ b \in Seq(Symbol) /\ Len(b) = (i + 3 - 1) - i + 1
        /\ \A j \in 1 .. (i + 3 - 1) - i + 1 : b[j] = url[i + j - 1]
    BY <2>1, SubIs
  <2>3. Len(b) = 3 /\ b[1] = url[i] /\ b[2] = url[i + 1] /\ b[3] = url[i + 2]
    <3> HIDE DEF b, n
    <3>1. (i + 3 - 1) - i + 1 = 3 /\ i + 1 - 1 = i /\ i + 2 - 1 = i + 1 /\ i + 3 - 1 = i + 2
      BY <2>1
    <3>2. 1 \in 1 .. (i + 3 - 1) - i + 1 /\ 2 \in 1 .. (i + 3 - 1) - i + 1 /\ 3 \in 1 .. (i + 3 - 1) - i + 1
      BY <3>1
    <3>. QED
      BY <2>2, <3>1, <3>2
  <2> HIDE DEF b
  <2>4. ASSUME url[i] = ":", url[i + 1] = "80", url[i + 2] = "/" PROVE b = part
    <3>1. \A j \in 1 .. 3 : b[j] = part[j]
      <4>1. \A j \in 1 .. 3 : j = 1 \/ j = 2 \/ j = 3
        OBVIOUS
      <4>. QED
        BY <1>1, <2>3, <2>4, <4>1
    <3>. QED
      BY <1>1, <2>2, <2>3, <3>1, SeqEqual
  <2>. QED
    BY <1>1, <2>3, <2>4 DEF b
<1>4. ASSUME NEW i, i \in Find(url, part) PROVE i = h + 1 /\ p # h
  <2>1. i \in 1 .. n + 1 - 3 /\ url[i] = ":" /\ url[i + 1] = "80" /\ url[i + 2] = "/"
    BY <1>2, <1>3, <1>4
  <2>2. i \in 1 .. 4 \/ i \in 5 .. h \/ i \in h + 1 .. p \/ i \in p + 1 .. n
    BY <1>0, <2>1
  <2>3. CASE i \in 1 .. 4
    <3>1. i = 1 \/ i = 2 \/ i = 3 \/ i = 4
      BY <2>3
    <3>2. i = 2
      BY <2>1, <3>1 DEF UrlParts
    <3>3. url[2 + 1] = "/"
      BY DEF UrlParts
    <3>. QED
      BY <2>1, <3>2, <3>3
  <2>4. CASE i \in h + 1 .. p
    <3>1. p = h + 2 /\ url[h + 1] = ":" /\ url[h + 2] = "80" /\ (i = h + 1 \/ i = h + 2)
      BY <1>0, <2>4 DEF UrlParts
    <3>. QED
      BY <1>0, <2>1, <3>1
  <2>. QED
    BY <2>1, <2>2, <2>3, <2>4 DEF UrlParts
<1>5. ASSUME p # h PROVE h + 1 \in Find(url, part)
  <2>1. p = h + 2 /\ url[h + 1] = ":" /\ url[h + 2] = "80" /\ url[p + 1] = "/" /\ p + 1 <= n
    BY <1>0, <1>5 DEF UrlParts
  <2>2. h + 1 \in 1 .. n + 1 - 3 /\ h + 1 + 1 = h + 2 /\ h + 1 + 2 = p + 1
    BY <1>0, <2>1
  <2>. QED
    BY <1>2, <1>3, <2>1, <2>2
<1>. QED
  BY <1>4, <1>5 DEF part

\* Without the port the host is followed by the path.
LEMMA PortGone ==
  ASSUME NEW url, NEW h, NEW p, UrlParts(url, h, p), p < Len(url)
  PROVE  UrlParts(WithoutPort(url), h, h) /\ h < Len(WithoutPort(url))
<1> DEFINE n == Len(url)
           at == Find(url, <<":", "80", "/">>)
<1>0. n \in Nat /\ n >= 5 /\ h \in Nat /\ p \in Nat /\ h >= 5 /\ h <= p /\ url \in Seq(Symbol)
  BY LenProperties DEF UrlParts
<1>1. CASE p = h
  <2>1. at = {}
    BY <1>1, ColonPort
  <2>2. WithoutPort(url) = url
    BY <2>1, Zenon DEF WithoutPort
  <2>. QED
    BY <1>1, <2>2
<1>2. CASE p # h
  <2> DEFINE a == SubSeq(url, 1, h)
             b == SubSeq(url, h + 3, n)
             r == a \o b
  <2>0. /\ p = h + 2 /\ url[h + 1] = ":" /\ url[h + 2] = "80" /\ p + 1 = h + 3
        /\ url[h + 3] = "/" /\ h + 3 <= n
    BY <1>0, <1>2 DEF UrlParts
  <2>1. at = {h + 1}
    BY <1>2, ColonPort
  <2>2. WithoutPort(url) = SubSeq(url, 1, (h + 1) - 1) \o SubSeq(url, (h + 1) + 2, n)
    <3>1. (CHOOSE i \in {h + 1} : \A k \in {h + 1} : i <= k) = h + 1
      BY <1>0
    <3>2. {h + 1} # {}
      OBVIOUS
    <3>. QED
      BY <2>1, <3>1, <3>2, Zenon DEF WithoutPort
  <2>3. WithoutPort(url) = r
    <3>1. (h + 1) - 1 = h /\ (h + 1) + 2 = h + 3
      BY <1>0
    <3>. QED
      BY <2>2, <3>1
  <2>4. a \in Seq(Symbol) /\ Len(a) = h /\ \A i \in 1 .. h : a[i] = url[i]
    <3>1. 1 \in Nat \ {0} /\ h \in Nat /\ 1 <= h + 1 /\ h <= n
      BY <1>0, <2>0
    <3>2. /\ a \in Seq(Symbol) /\ Len(a) = h - 1 + 1
          /\ \A i \in 1 .. h - 1 + 1 : a[i] = url[1 + i - 1]
      BY <1>0, <3>1, SubIs
    <3>3. h - 1 + 1 = h /\ \A i \in 1 .. h : 1 + i - 1 = i
      BY <1>0
    <3> HIDE DEF a
    <3>. QED
      BY <3>2, <3>3
  <2>5. b \in Seq(Symbol) /\ Len(b) = n - h - 2 /\ \A i \in 1 .. n - h - 2 : b[i] = url[h + 2 + i]
    <3>1. h + 3 \in Nat \ {0} /\ n \in Nat /\ h + 3 <= n + 1 /\ n <= n
      BY <1>0, <2>0
    <3>2. /\ b \in Seq(Symbol) /\ Len(b) = n - (h + 3) + 1
          /\ \A i \in 1 .. n - (h + 3) + 1 : b[i] = url[(h + 3) + i - 1]
      BY <1>0, <3>1, SubIs
    <3>3. n - (h + 3) + 1 = n - h - 2 /\ \A i \in 1 .. n - h - 2 : (h + 3) + i - 1 = h + 2 + i
      BY <1>0
    <3> HIDE DEF b
    <3>. QED
      BY <3>2, <3>3
  <2> HIDE DEF a, b, n
  <2>6. /\ r \in Seq(Symbol) /\ Len(r) = Len(a) + Len(b)
        /\ \A i \in 1 .. Len(a) + Len(b) : r[i] = IF i <= Len(a) THEN a[i] ELSE b[i - Len(a)]
    BY <2>4, <2>5, ConcatProperties
  <2> HIDE DEF r
  <2>7. /\ Len(r) = n - 2
        /\ \A i \in 1 .. h : r[i] = url[i]
        /\ \A i \in h + 1 .. n - 2 : r[i] = url[i + 2]
    <3>1. Len(a) + Len(b) = n - 2
      BY <1>0, <2>0, <2>4, <2>5
    <3>2. ASSUME NEW i \in 1 .. h PROVE r[i] = url[i]
      <4>1. i \in 1 .. Len(a) + Len(b) /\ i <= Len(a)
        BY <1>0, <2>0, <2>4, <3>1
      <4>. QED
        BY <2>4, <2>6, <4>1
    <3>3. ASSUME NEW i \in h + 1 .. n - 2 PROVE r[i] = url[i + 2]
      <4>1. i \in 1 .. Len(a) + Len(b) /\ ~(i <= Len(a)) /\ i - h \in 1 .. n - h - 2 /\ h + 2 + (i - h) = i + 2
        BY <1>0, <2>0, <2>4, <3>1
      <4>2. r[i] = b[i - h]
        BY <2>4, <2>6, <4>1
      <4>3. b[i - h] = url[h + 2 + (i - h)]
        BY <2>5, <4>1
      <4>. QED
        BY <4>1, <4>2, <4>3
    <3>. QED
      BY <2>6, <3>1, <3>2, <3>3
  <2>8. h \in 5 .. Len(r) /\ h < Len(r)
    BY <1>0, <2>0, <2>7
  <2>9. r[1] = "http" /\ r[2] = ":" /\ r[3] = "/" /\ r[4] = "/"
    <3>1. 1 \in 1 .. h /\ 2 \in 1 .. h /\ 3 \in 1 .. h /\ 4 \in 1 .. h
      BY <1>0
    <3>. QED
      BY <2>7, <3>1 DEF UrlParts
  <2>10. r[h + 1] = "/"
    <3>1. h + 1 \in h + 1 .. n - 2 /\ h + 1 + 2 = h + 3
      BY <1>0, <2>0
    <3>. QED
      BY <2>0, <2>7, <3>1
  <2>11. \A i \in 5 .. h : r[i] # "/" /\ r[i] # ":"
    <3>1. \A i \in 5 .. h : i \in 1 .. h
      BY <1>0
    <3>. QED
      BY <2>7, <3>1 DEF UrlParts
  <2>12. ASSUME NEW i \in h + 1 .. Len(r) PROVE r[i] # ":"
    <3>1. i \in h + 1 .. n - 2 /\ i + 2 \in p + 1 .. n
      BY <1>0, <2>0, <2>7
    <3>2. url[i + 2] # ":"
      BY <3>1 DEF UrlParts, n
    <3>. QED
      BY <2>7, <3>1, <3>2
  <2>13. UrlParts(r, h, h)
    BY <2>6, <2>8, <2>9, <2>10, <2>11, <2>12 DEF UrlParts
  <2>. QED
    BY <2>3, <2>8, <2>13
<1>. QED
  BY <1>1, <1>2

\* Nothing is done to a text without a "%".
LEMMA NothingToUnescape ==
  ASSUME NEW A, NEW U, Unescapes(A, U), NEW s \in Seq(A), \A i \in 1 .. Len(s) : s[i] # "%"
  PROVE  UrlUnescape(s) = s
<1> DEFINE n == Len(s)
<1>0. n \in Nat /\ \A i \in 1 .. n : s[i] \in U
  BY LenProperties, ElementOfSeq DEF Unescapes
<1>1. PICK f \in [Nat -> Seq(U)] : UrlUnescape(s) = f[1] /\ Reads(f, s)
  BY UnescapeIs
<1>2. s \in Seq(U)
  <2>1. A \subseteq U
    BY DEF Unescapes
  <2>. QED
    BY <2>1, SeqMonotonic
<1> DEFINE T == {m \in Nat : f[m + 1] = SubSeq(s, m + 1, n)}
<1>3. n \in T
  <2>1. n + 1 \in Nat \ {0} /\ n + 1 > n
    BY <1>0
  <2>2. f[n + 1] = At(s, f, n + 1)
    BY <1>1, <2>1 DEF Reads
  <2>3. At(s, f, n + 1) = <<>>
    BY <2>1 DEF At
  <2>4. SubSeq(s, n + 1, n) = <<>>
    <3>1. n \in Nat /\ n + 1 <= n + 1 /\ n <= n /\ n - (n + 1) + 1 = 0
      BY <1>0
    <3>2. SubSeq(s, n + 1, n) \in Seq(U) /\ Len(SubSeq(s, n + 1, n)) = n - (n + 1) + 1
      BY <1>2, <2>1, <3>1, SubIs
    <3> DEFINE z == SubSeq(s, n + 1, n)
    <3> HIDE DEF z
    <3>3. z \in Seq(U) /\ Len(z) = 0
      BY <3>1, <3>2 DEF z
    <3>4. z = <<>>
      BY <3>3, EmptySeq
    <3>. QED
      BY <3>4 DEF z
  <2>. QED
    BY <1>0, <2>2, <2>3, <2>4
<1>4. ASSUME NEW m \in 0 .. n - 1, m + 1 \in T PROVE m \in T
  <2>1. m \in Nat /\ m + 1 \in 1 .. n /\ m + 1 \in Nat \ {0} /\ ~(m + 1 > n) /\ m + 1 + 1 = m + 2
    BY <1>0
  <2>2. f[m + 1] = At(s, f, m + 1)
    BY <1>1, <2>1 DEF Reads
  <2>3. At(s, f, m + 1) = <<s[m + 1]>> \o f[m + 1 + 1]
    <3>1. s[m + 1] # "%"
      BY <2>1
    <3>. QED
      BY <2>1, <3>1, Zenon DEF At
  <2>4. f[m + 1 + 1] = SubSeq(s, m + 1 + 1, n)
    BY <1>4
  <2> DEFINE c == s[m + 1]
             one == <<c>>
             rest == SubSeq(s, m + 1 + 1, n)
             all == SubSeq(s, m + 1, n)
  <2>5. /\ rest \in Seq(U) /\ Len(rest) = n - m - 1
        /\ \A i \in 1 .. n - m - 1 : rest[i] = s[m + 1 + i]
    <3>1. m + 1 + 1 \in Nat \ {0} /\ n \in Nat /\ m + 1 + 1 <= n + 1 /\ n <= n
      BY <1>0, <2>1
    <3>2. /\ rest \in Seq(U) /\ Len(rest) = n - (m + 1 + 1) + 1
          /\ \A i \in 1 .. n - (m + 1 + 1) + 1 : rest[i] = s[(m + 1 + 1) + i - 1]
      BY <1>2, <3>1, SubIs
    <3>3. n - (m + 1 + 1) + 1 = n - m - 1 /\ \A i \in 1 .. n - m - 1 : (m + 1 + 1) + i - 1 = m + 1 + i
      BY <1>0
    <3> HIDE DEF rest
    <3>. QED
      BY <3>2, <3>3
  <2>6. /\ all \in Seq(U) /\ Len(all) = n - m
        /\ \A i \in 1 .. n - m : all[i] = s[m + i]
    <3>1. m + 1 \in Nat \ {0} /\ n \in Nat /\ m + 1 <= n + 1 /\ n <= n
      BY <1>0, <2>1
    <3>2. /\ all \in Seq(U) /\ Len(all) = n - (m + 1) + 1
          /\ \A i \in 1 .. n - (m + 1) + 1 : all[i] = s[(m + 1) + i - 1]
      BY <1>2, <3>1, SubIs
    <3>3. n - (m + 1) + 1 = n - m /\ \A i \in 1 .. n - m : (m + 1) + i - 1 = m + i
      BY <1>0
    <3> HIDE DEF all
    <3>. QED
      BY <3>2, <3>3
  <2>7. one \in Seq(U) /\ Len(one) = 1 /\ one[1] = c
    <3>1. c \in U
      BY <1>0, <2>1
    <3> HIDE DEF c
    <3>. QED
      BY <3>1
  <2> HIDE DEF one, rest, all, n
  <2>8. /\ one \o rest \in Seq(U) /\ Len(one \o rest) = Len(one) + Len(rest)
        /\ \A i \in 1 .. Len(one) + Len(rest) :
             (one \o rest)[i] = IF i <= Len(one) THEN one[i] ELSE rest[i - Len(one)]
    <3>1. one \in Seq(U) /\ rest \in Seq(U)
      BY <2>5, <2>7
    <3>. QED
      BY ONLY <3>1, ConcatProperties
  <2>9. PICK w : w = one \o rest
    OBVIOUS
  <2>10. /\ w \in Seq(U) /\ Len(w) = n - m
         /\ \A i \in 1 .. n - m : w[i] = IF i <= 1 THEN one[i] ELSE rest[i - 1]
    <3>1. 1 + (n - m - 1) = n - m
      BY <1>0, <2>1
    <3>. QED
      BY <2>5, <2>7, <2>8, <2>9, <3>1
  <2>11. ASSUME NEW i \in 1 .. n - m PROVE w[i] = all[i]
    <3>1. CASE i = 1
      <4>1. w[1] = one[1] /\ all[1] = s[m + 1]
        BY <2>6, <2>10, <3>1
      <4>. QED
        BY <2>7, <3>1, <4>1
    <3>2. CASE i # 1
      <4>1. i - 1 \in 1 .. n - m - 1 /\ m + 1 + (i - 1) = m + i /\ ~(i <= 1)
        BY <1>0, <2>1, <3>2
      <4>2. rest[i - 1] = s[m + 1 + (i - 1)]
        BY <2>5, <4>1
      <4>. QED
        BY <2>6, <2>10, <4>1, <4>2
    <3>. QED
      BY <3>1, <3>2
  <2>12. w = all
    <3>1. Len(w) = Len(all) /\ \A i \in 1 .. Len(w) : w[i] = all[i]
      BY <2>6, <2>10, <2>11
    <3>. QED
      BY <2>6, <2>10, <3>1, SeqEqual
  <2>13. f[m + 1] = all
    BY <2>2, <2>3, <2>4, <2>9, <2>12 DEF one, c, rest
  <2>. QED
    BY <2>1, <2>13 DEF all
<1>5. 0 \in T
  <2>1. \A m \in 0 .. n - 1 : m + 1 \in T => m \in T
    BY <1>4
  <2>2. \A m \in 0 .. n : m \in T
    <3> HIDE DEF T, n
    <3>. QED
      BY <1>0, <1>3, <2>1, DownwardInduction
  <2>. QED
    BY <1>0, <2>2
<1>6. f[0 + 1] = SubSeq(s, 0 + 1, n)
  BY <1>5
<1>7. SubSeq(s, 1, n) = s
  BY SubSeqFull
<1>8. 0 + 1 = 1
  OBVIOUS
<1>. QED
  BY <1>1, <1>6, <1>7, <1>8

\* The service finds the URL as it is.
LEMMA NormalIs ==
  ASSUME NEW url, NEW h, UrlParts(url, h, h), h < Len(url)
  PROVE  Normal(url) = url
<1> DEFINE n == Len(url)
           a == SubSeq(url, 5, n)
           I == {i \in 1 .. Len(a) : a[i] = "/"}
           slash == SelectInSeq(a, LAMBDA c : c = "/")
           host == SubSeq(a, 1, slash - 1)
           path == SubSeq(a, slash, Len(a))
<1>0. n \in Nat /\ n >= 5 /\ h \in Nat /\ h >= 5 /\ h + 1 <= n /\ url \in Seq(Symbol) /\ url[h + 1] = "/"
  BY LenProperties DEF UrlParts
<1>1. a \in Seq(Symbol) /\ Len(a) = n - 4 /\ \A i \in 1 .. n - 4 : a[i] = url[i + 4]
  <2>1. 5 \in Nat \ {0} /\ 5 <= n + 1 /\ n <= n
    BY <1>0
  <2>2. a \in Seq(Symbol) /\ Len(a) = n - 5 + 1 /\ \A i \in 1 .. n - 5 + 1 : a[i] = url[5 + i - 1]
    BY <1>0, <2>1, SubIs
  <2>3. n - 5 + 1 = n - 4 /\ \A i \in 1 .. n - 4 : 5 + i - 1 = i + 4
    BY <1>0
  <2> HIDE DEF a
  <2>. QED
    BY <2>2, <2>3
<1> HIDE DEF a, n
<1>2. slash = h - 3 /\ slash # 0
  <2>1. slash = IF I # {} THEN Min(I) ELSE 0
    BY Zenon DEF SelectInSeq
  <2>2. h - 3 \in I
    <3>1. h - 3 \in 1 .. n - 4 /\ h - 3 + 4 = h + 1
      BY <1>0
    <3>. QED
      BY <1>0, <1>1, <3>1
  <2>3. \A i \in I : i >= h - 3
    <3>1. ASSUME NEW i \in I PROVE i >= h - 3
      <4>1. i \in 1 .. n - 4 /\ a[i] = "/" /\ url[i + 4] = "/"
        BY <1>1
      <4>2. i + 4 \notin 5 .. h
        BY <4>1 DEF UrlParts
      <4>. QED
        BY <1>0, <4>1, <4>2
    <3>. QED
      BY <3>1
  <2>4. I \in SUBSET (1 .. n - 4) /\ n - 4 \in Nat
    BY <1>0, <1>1
  <2> HIDE DEF I, slash
  <2>5. Min(I) \in I /\ \A y \in I : Min(I) <= y
    BY <2>2, <2>4, MinPlace
  <2>6. Min(I) = h - 3
    <3>1. PICK m : m = Min(I)
      OBVIOUS
    <3>2. m \in I /\ m <= h - 3
      BY <2>2, <2>5, <3>1
    <3>3. m >= h - 3 /\ m \in 1 .. n - 4
      BY <2>3, <2>4, <3>2
    <3>4. m = h - 3
      BY <1>0, <3>2, <3>3
    <3>. QED
      BY <3>1, <3>4
  <2>. QED
    BY <1>0, <2>1, <2>2, <2>6
<1> HIDE DEF slash
<1>3. host \in Seq(Symbol) /\ Len(host) = h - 4 /\ \A i \in 1 .. h - 4 : host[i] = url[i + 4]
  <2>1. 1 \in Nat \ {0} /\ h - 4 \in Nat /\ 1 <= (h - 4) + 1 /\ h - 4 <= Len(a) /\ slash - 1 = h - 4
    BY <1>0, <1>1, <1>2
  <2> DEFINE b == SubSeq(a, 1, h - 4)
  <2>2. b \in Seq(Symbol) /\ Len(b) = (h - 4) - 1 + 1 /\ \A i \in 1 .. (h - 4) - 1 + 1 : b[i] = a[1 + i - 1]
    BY <1>1, <2>1, SubIs
  <2>3. (h - 4) - 1 + 1 = h - 4 /\ \A i \in 1 .. h - 4 : 1 + i - 1 = i /\ i \in 1 .. n - 4
    BY <1>0
  <2> HIDE DEF b
  <2>4. b \in Seq(Symbol) /\ Len(b) = h - 4 /\ \A i \in 1 .. h - 4 : b[i] = url[i + 4]
    BY <1>1, <2>2, <2>3
  <2>5. host = b
    BY <2>1 DEF b
  <2> HIDE DEF host
  <2>. QED
    BY <2>4, <2>5
<1>4. path \in Seq(Symbol) /\ Len(path) = n - h /\ \A i \in 1 .. n - h : path[i] = url[h + i]
  <2>1. h - 3 \in Nat \ {0} /\ n - 4 \in Nat /\ h - 3 <= (n - 4) + 1 /\ n - 4 <= Len(a) /\ Len(a) = n - 4
    BY <1>0, <1>1, <1>2
  <2> DEFINE b == SubSeq(a, h - 3, n - 4)
  <2>2. /\ b \in Seq(Symbol) /\ Len(b) = (n - 4) - (h - 3) + 1
        /\ \A i \in 1 .. (n - 4) - (h - 3) + 1 : b[i] = a[(h - 3) + i - 1]
    BY <1>1, <2>1, SubIs
  <2>3. /\ (n - 4) - (h - 3) + 1 = n - h
        /\ \A i \in 1 .. n - h : (h - 3) + i - 1 \in 1 .. n - 4 /\ ((h - 3) + i - 1) + 4 = h + i
    BY <1>0
  <2> HIDE DEF b
  <2>4. b \in Seq(Symbol) /\ Len(b) = n - h /\ \A i \in 1 .. n - h : b[i] = url[h + i]
    BY <1>1, <2>2, <2>3
  <2>5. path = b
    BY <1>2, <2>1 DEF b
  <2> HIDE DEF path
  <2>. QED
    BY <2>4, <2>5
<1> HIDE DEF host, path
<1>5. ~IsSuffix(<<":", "80">>, host)
  <2> DEFINE port == <<":", "80">>
             x == Reverse(port)
             y == Reverse(host)
  <2>1. SUFFICES ASSUME IsPrefix(x, y) PROVE FALSE
    BY DEF IsSuffix
  <2>2. x = [i \in 1 .. 2 |-> port[(2 - i) + 1]]
    <3>1. Len(port) = 2
      OBVIOUS
    <3>. QED
      BY <3>1 DEF Reverse
  <2>3. Len(x) = 2 /\ x[2] = ":" /\ x \in Seq({":", "80"})
    <3>1. port[1] = ":" /\ port[2] = "80"
      OBVIOUS
    <3> HIDE DEF port
    <3>2. \A i \in 1 .. 2 : port[(2 - i) + 1] \in {":", "80"}
      <4>1. \A i \in 1 .. 2 : (2 - i) + 1 = 1 \/ (2 - i) + 1 = 2
        OBVIOUS
      <4>. QED
        BY <3>1, <4>1
    <3>3. x \in [1 .. 2 -> {":", "80"}]
      <4> HIDE DEF x
      <4>. QED
        BY <2>2, <3>2
    <3>4. x \in Seq({":", "80"}) /\ Len(x) = 2
      <4> HIDE DEF x
      <4>. QED
        BY <3>3, IsSeq
    <3>5. x[2] = port[(2 - 2) + 1]
      <4> HIDE DEF x
      <4>. QED
        BY <2>2
    <3>. QED
      BY <3>1, <3>4, <3>5
  <2>4. y \in Seq(Symbol) /\ Len(y) = h - 4 /\ \A i \in 1 .. h - 4 : y[i] = host[((h - 4) - i) + 1]
    <3>1. y = [i \in 1 .. h - 4 |-> host[((h - 4) - i) + 1]]
      BY <1>3 DEF Reverse
    <3>2. \A i \in 1 .. h - 4 : host[((h - 4) - i) + 1] \in Symbol
      <4>1. \A i \in 1 .. h - 4 : ((h - 4) - i) + 1 \in 1 .. h - 4
        BY <1>0
      <4>2. \A j \in 1 .. h - 4 : host[j] \in Symbol
        BY <1>3, ElementOfSeq
      <4>. QED
        BY <4>1, <4>2
    <3> HIDE DEF y
    <3>3. y \in [1 .. h - 4 -> Symbol] /\ h - 4 \in Nat
      BY <1>0, <3>1, <3>2
    <3>4. y \in Seq(Symbol) /\ Len(y) = h - 4
      BY <3>3, IsSeq
    <3>. QED
      BY <3>1, <3>4
  <2> HIDE DEF x, y
  <2>5. 2 <= h - 4 /\ SubSeq(x, 1, 2) = SubSeq(y, 1, 2)
    BY <2>1, <2>3, <2>4 DEF IsPrefix
  <2>6. SubSeq(x, 1, 2)[2] = x[2]
    <3>1. 1 \in Nat \ {0} /\ 2 \in Nat /\ 1 <= 2 + 1 /\ 2 <= Len(x)
      BY <2>3
    <3>2. \A i \in 1 .. 2 - 1 + 1 : SubSeq(x, 1, 2)[i] = x[1 + i - 1]
      BY <2>3, <3>1, SubIs
    <3>3. 2 \in 1 .. 2 - 1 + 1 /\ 1 + 2 - 1 = 2
      OBVIOUS
    <3>. QED
      BY <3>2, <3>3
  <2>7. SubSeq(y, 1, 2)[2] = y[2]
    <3>1. 1 \in Nat \ {0} /\ 2 \in Nat /\ 1 <= 2 + 1 /\ 2 <= Len(y)
      BY <1>0, <2>4, <2>5
    <3>2. \A i \in 1 .. 2 - 1 + 1 : SubSeq(y, 1, 2)[i] = y[1 + i - 1]
      BY <2>4, <3>1, SubIs
    <3>3. 2 \in 1 .. 2 - 1 + 1 /\ 1 + 2 - 1 = 2
      OBVIOUS
    <3>. QED
      BY <3>2, <3>3
  <2>8. y[2] = host[((h - 4) - 2) + 1] /\ ((h - 4) - 2) + 1 \in 1 .. h - 4
    BY <1>0, <2>4, <2>5
  <2>9. host[((h - 4) - 2) + 1] = url[((h - 4) - 2) + 1 + 4] /\ ((h - 4) - 2) + 1 + 4 \in 5 .. h
    BY <1>0, <1>3, <2>8
  <2>10. url[((h - 4) - 2) + 1 + 4] # ":"
    BY <2>9 DEF UrlParts
  <2>. QED
    BY <2>3, <2>5, <2>6, <2>7, <2>8, <2>9, <2>10
<1>6. Normal(url) = SubSeq(url, 1, 4) \o host \o path
  <2>1. Normal(url) = SubSeq(url, 1, 4)
          \o (IF IsSuffix(<<":", "80">>, IF slash = 0 THEN a ELSE SubSeq(a, 1, slash - 1))
              THEN SubSeq(IF slash = 0 THEN a ELSE SubSeq(a, 1, slash - 1), 1,
                          Len(IF slash = 0 THEN a ELSE SubSeq(a, 1, slash - 1)) - 2)
              ELSE IF slash = 0 THEN a ELSE SubSeq(a, 1, slash - 1))
          \o (IF slash = 0 THEN <<"/">> ELSE SubSeq(a, slash, Len(a)))
    BY Zenon DEF Normal, a, slash, n
  <2>2. (IF slash = 0 THEN a ELSE SubSeq(a, 1, slash - 1)) = host
    BY <1>2 DEF host
  <2>3. (IF slash = 0 THEN <<"/">> ELSE SubSeq(a, slash, Len(a))) = path
    BY <1>2 DEF path
  <2>4. Normal(url) = SubSeq(url, 1, 4)
          \o (IF IsSuffix(<<":", "80">>, host) THEN SubSeq(host, 1, Len(host) - 2) ELSE host) \o path
    BY <2>1, <2>2, <2>3, Zenon
  <2>. QED
    BY <1>5, <2>4, Zenon
<1>7. SubSeq(url, 1, 4) \o host = SubSeq(url, 1, h) /\ SubSeq(url, 1, h) \o path = url
  <2>1. host = SubSeq(url, 5, h) /\ path = SubSeq(url, h + 1, n)
    <3>1. 5 \in Nat \ {0} /\ 5 <= h + 1 /\ h <= n /\ h - 5 + 1 = h - 4
      BY <1>0
    <3>2. SubSeq(url, 5, h) \in Seq(Symbol) /\ Len(SubSeq(url, 5, h)) = h - 5 + 1
          /\ \A i \in 1 .. h - 5 + 1 : SubSeq(url, 5, h)[i] = url[5 + i - 1]
      BY <1>0, <3>1, SubIs DEF n
    <3> DEFINE c == SubSeq(url, 5, h)
    <3>3. \A i \in 1 .. h - 4 : 5 + i - 1 = i + 4
      OBVIOUS
    <3> HIDE DEF c
    <3>4. c \in Seq(Symbol) /\ Len(c) = Len(host) /\ \A i \in 1 .. Len(c) : c[i] = host[i]
      BY <1>3, <3>1, <3>2, <3>3 DEF c
    <3>5. c = host
      BY <1>3, <3>4, SeqEqual
    <3>6. h + 1 \in Nat \ {0} /\ h + 1 <= n + 1 /\ n <= n /\ n - (h + 1) + 1 = n - h
      BY <1>0
    <3>7. SubSeq(url, h + 1, n) \in Seq(Symbol) /\ Len(SubSeq(url, h + 1, n)) = n - (h + 1) + 1
          /\ \A i \in 1 .. n - (h + 1) + 1 : SubSeq(url, h + 1, n)[i] = url[(h + 1) + i - 1]
      BY <1>0, <3>6, SubIs DEF n
    <3> DEFINE d == SubSeq(url, h + 1, n)
    <3>8. \A i \in 1 .. n - h : (h + 1) + i - 1 = h + i
      BY <1>0
    <3> HIDE DEF d
    <3>9. d \in Seq(Symbol) /\ Len(d) = Len(path) /\ \A i \in 1 .. Len(d) : d[i] = path[i]
      BY <1>4, <3>6, <3>7, <3>8 DEF d
    <3>10. d = path
      BY <1>4, <3>9, SeqEqual
    <3>. QED
      BY <3>5, <3>10 DEF c, d
  <2>2. 4 \in 0 .. Len(url) /\ h \in 4 .. Len(url) /\ 4 + 1 = 5
    BY <1>0 DEF n
  <2>3. SubSeq(url, 1, 4) \o SubSeq(url, 4 + 1, h) = SubSeq(url, 1, h)
    BY <1>0, <2>2, PartsMeet
  <2>4. h \in 0 .. Len(url) /\ n \in h .. Len(url)
    BY <1>0 DEF n
  <2>5. SubSeq(url, 1, h) \o SubSeq(url, h + 1, n) = SubSeq(url, 1, n)
    BY <1>0, <2>4, PartsMeet
  <2>6. SubSeq(url, 1, n) = url
    BY <1>0, SubSeqFull DEF n
  <2>. QED
    BY <2>1, <2>2, <2>3, <2>5, <2>6
<1>. QED
  BY <1>6, <1>7

-----------------------------------------------------------------------------
(* Every request.                                                          *)

\* A request of a URL, and what it and its query are made of.
Asked == form \in Form /\ form.base # <<>> /\ query \in Seq(form.symbols)
Alphabet == ToSet(form.base) \cup form.symbols \cup {"?", " "}

\* What a request is made of are symbols, and its escape sequences stand for some.
LEMMA AlphabetIs ==
  ASSUME Asked
  PROVE  /\ Alphabet \in SUBSET Symbol /\ "?" \in Alphabet /\ " " \in Alphabet
         /\ form.base \in Seq(Alphabet) /\ query \in Seq(Alphabet)
         /\ Unescapes(Alphabet \cup {"&"}, Symbol)
         /\ IsUrl(form.base) /\ form.base \in Seq(Symbol)
<1>1. /\ form.base \in Seq(Symbol) /\ form.symbols \subseteq Symbol /\ IsUrl(form.base)
  BY Zenon, FormAssumption DEF Asked
<1>2. DOMAIN form.base = 1 .. Len(form.base) /\ Len(form.base) \in Nat
  BY <1>1, LenProperties
<1>3. ToSet(form.base) \subseteq Symbol
  <2>1. \A i \in 1 .. Len(form.base) : form.base[i] \in Symbol
    BY <1>1, ElementOfSeq
  <2>. QED
    BY <1>2, <2>1 DEF ToSet
<1>4. Alphabet \in SUBSET Symbol /\ "?" \in Alphabet /\ " " \in Alphabet
  BY <1>1, <1>3, InAscii DEF Alphabet
<1>5. form.base \in Seq(Alphabet)
  <2>1. \A i \in 1 .. Len(form.base) : form.base[i] \in Alphabet
    BY <1>2 DEF ToSet, Alphabet
  <2>2. form.base = [i \in 1 .. Len(form.base) |-> form.base[i]]
    BY <1>1, <1>2
  <2>3. \A f : f = [i \in 1 .. Len(form.base) |-> f[i]]
                 /\ (\A i \in 1 .. Len(form.base) : f[i] \in Alphabet) => f \in Seq(Alphabet)
    <3>1. TAKE f
    <3>2. HAVE f = [i \in 1 .. Len(form.base) |-> f[i]] /\ \A i \in 1 .. Len(form.base) : f[i] \in Alphabet
    <3>3. f \in [1 .. Len(form.base) -> Alphabet]
      BY <3>2
    <3>. QED
      BY <1>2, <3>3, IsSeq
  <2>. QED
    BY <2>1, <2>2, <2>3
<1>6. query \in Seq(Alphabet)
  <2>1. form.symbols \subseteq Alphabet /\ query \in Seq(form.symbols)
    BY DEF Alphabet, Asked
  <2>. QED
    BY <2>1, SeqMonotonic
<1>7. Unescapes(Alphabet \cup {"&"}, Symbol)
  <2>1. DOMAIN Hex \subseteq Symbol
    <3>1. DOMAIN Hex = Reserved \cup Unreserved
      BY DEF Reserved, Unreserved, Hex
    <3>2. Reserved \subseteq Symbol
      <4>1. "SOH" \in Symbol /\ "\"" \in Symbol /\ "+" \in Symbol /\ "R" \in Symbol /\ "U" \in Symbol
            /\ "V" \in Symbol /\ "b" \in Symbol /\ "e" \in Symbol /\ "f" \in Symbol
        <5>1. /\ Ascii[1] = "SOH" /\ Ascii[3] = "\"" /\ Ascii[6] = "+" /\ Ascii[24] = "R" /\ Ascii[25] = "U"
              /\ Ascii[26] = "V" /\ Ascii[28] = "b" /\ Ascii[29] = "e" /\ Ascii[30] = "f"
              /\ {1, 3, 6, 24, 25, 26, 28, 29, 30} \subseteq DOMAIN Ascii
          BY DEF Ascii
        <5>. QED
          BY <5>1 DEF Symbol, ToSet
      <4>2. {":", "/"} \subseteq Symbol
        BY NamesAreSymbols
      <4>. QED
        BY <4>1, <4>2, ReservedIs, InAscii, DigitsAreSymbols
    <3>3. Unreserved \subseteq Symbol
      <4>1. /\ Ascii[24] = "R" /\ Ascii[25] = "U" /\ Ascii[26] = "V" /\ Ascii[28] = "b" /\ Ascii[29] = "e"
            /\ Ascii[30] = "f" /\ {24, 25, 26, 28, 29, 30} \subseteq DOMAIN Ascii
        BY DEF Ascii
      <4>. QED
        BY <4>1 DEF Symbol, ToSet, Unreserved
    <3>. QED
      BY <3>1, <3>2, <3>3
  <2>2. ASSUME NEW a \in (Alphabet \cup {"&"}) \cap HexDigit, NEW b \in (Alphabet \cup {"&"}) \cap HexDigit
        PROVE  Unhex(a, b) \in Symbol
    <3>1. Unhex(a, b) \in DOMAIN Hex
      BY UnhexIs, Zenon
    <3>. QED
      BY <2>1, <3>1
  <2>3. Alphabet \cup {"&"} \subseteq Symbol
    BY <1>4, DigitsAreSymbols
  <2>. QED
    BY <2>2, <2>3 DEF Unescapes
<1>. QED
  BY <1>1, <1>4, <1>5, <1>6, <1>7

\* The text that is split begins with the URL.
LEMMA WholeIs ==
  ASSUME Asked
  PROVE  Whole \in Seq(Alphabet) /\ StartsWith(Whole, form.base)
<1> DEFINE b == form.base
           n == Len(b)
           u == Url
           q == <<"?">>
<1>0. b \in Seq(Alphabet) /\ query \in Seq(Alphabet) /\ "?" \in Alphabet /\ " " \in Alphabet /\ b # <<>>
  BY AlphabetIs DEF Asked
<1>1. n \in Nat /\ Len(query) \in Nat
  BY <1>0, LenProperties
<1>2. \A i \in 1 .. n : b[i] # "+"
  BY AlphabetIs, UrlHasParts
<1>3. q \in Seq(Alphabet) /\ Len(q) = 1 /\ q[1] = "?"
  <2>1. \A c \in Alphabet : <<c>> \in Seq(Alphabet)
    OBVIOUS
  <2>2. Len(q) = 1 /\ q[1] = "?"
    OBVIOUS
  <2>. QED
    BY <1>0, <2>1, <2>2, Zenon
<1> HIDE DEF q
<1>4. /\ u \in Seq(Alphabet) /\ n <= Len(u) /\ (\A i \in 1 .. n : u[i] = b[i])
      /\ Len(u) = n \/ u[n + 1] = "?"
  <2> HIDE DEF b, n, u
  <2>1. CASE query = <<>>
    <3>1. u = b \o query
      BY <2>1 DEF u, b, Url
    <3>2. b \o query = b
      BY <1>0, <2>1, ConcatEmptySeq
    <3>3. u = b /\ Len(u) = n
      BY <3>1, <3>2 DEF n
    <3>4. u \in Seq(Alphabet)
      BY ONLY <1>0, <3>3
    <3>5. n <= Len(u)
      BY ONLY <1>1, <3>3
    <3>6. \A i \in 1 .. n : u[i] = b[i]
      BY ONLY <3>3
    <3>. QED
      BY ONLY <3>3, <3>4, <3>5, <3>6
  <2>2. CASE query # <<>>
    <3> DEFINE v == b \o q
               w == v \o query
    <3>1. u = w
      <4>1. b # <<>>
        BY <1>0
      <4>. QED
        BY <2>2, <4>1, Zenon DEF u, b, q, Url
    <3>2. /\ v \in Seq(Alphabet) /\ Len(v) = n + 1
          /\ \A i \in 1 .. n + 1 : v[i] = IF i <= n THEN b[i] ELSE q[i - n]
      <4>1. b \in Seq(Alphabet) /\ q \in Seq(Alphabet)
        BY <1>0, <1>3
      <4>2. /\ b \o q \in Seq(Alphabet) /\ Len(b \o q) = Len(b) + Len(q)
            /\ \A i \in 1 .. Len(b) + Len(q) :
                 (b \o q)[i] = IF i <= Len(b) THEN b[i] ELSE q[i - Len(b)]
        BY ONLY <4>1, ConcatProperties
      <4>3. Len(b) = n /\ Len(q) = 1 /\ v = b \o q
        BY <1>3 DEF n
      <4> HIDE DEF v
      <4>. QED
        BY ONLY <4>2, <4>3
    <3> HIDE DEF v
    <3>3. /\ w \in Seq(Alphabet) /\ Len(w) = n + 1 + Len(query)
          /\ \A i \in 1 .. n + 1 + Len(query) : w[i] = IF i <= n + 1 THEN v[i] ELSE query[i - (n + 1)]
      <4>1. v \in Seq(Alphabet) /\ query \in Seq(Alphabet)
        BY <1>0, <3>2
      <4>2. /\ v \o query \in Seq(Alphabet) /\ Len(v \o query) = Len(v) + Len(query)
            /\ \A i \in 1 .. Len(v) + Len(query) :
                 (v \o query)[i] = IF i <= Len(v) THEN v[i] ELSE query[i - Len(v)]
        BY ONLY <4>1, ConcatProperties
      <4>3. Len(v) = n + 1 /\ w = v \o query
        BY <3>2
      <4> HIDE DEF w
      <4>. QED
        BY ONLY <4>2, <4>3
    <3> HIDE DEF w
    <3>4. ASSUME NEW i \in 1 .. n PROVE w[i] = b[i]
      <4>1. i \in 1 .. n + 1 /\ i \in 1 .. n + 1 + Len(query) /\ i <= n /\ i <= n + 1
        BY <1>1
      <4>. QED
        BY <3>2, <3>3, <4>1
    <3>5. w[n + 1] = "?"
      <4>1. n + 1 \in 1 .. n + 1 /\ n + 1 \in 1 .. n + 1 + Len(query) /\ ~(n + 1 <= n) /\ (n + 1) - n = 1
        BY <1>1
      <4>2. w[n + 1] = v[n + 1]
        BY <3>3, <4>1
      <4>3. v[n + 1] = q[1]
        BY <3>2, <4>1
      <4>. QED
        BY <1>3, <4>2, <4>3
    <3>. QED
      BY <1>1, <3>1, <3>3, <3>4, <3>5
  <2>. QED
    BY <2>1, <2>2
<1> DEFINE r == Replace(u, "+", " ")
<1>5. r \in Seq(Alphabet) /\ Len(r) = Len(u) /\ \A i \in 1 .. Len(u) : r[i] = IF u[i] = "+" THEN " " ELSE u[i]
  <2> HIDE DEF b, n, u
  <2> DEFINE m == Len(u)
  <2>1. m \in Nat /\ DOMAIN u = 1 .. m /\ \A i \in 1 .. m : u[i] \in Alphabet
    BY <1>4, LenProperties, ElementOfSeq
  <2>2. r = [i \in 1 .. m |-> IF u[i] = "+" THEN " " ELSE u[i]]
    BY <2>1 DEF Replace
  <2> HIDE DEF r, m
  <2>3. r \in [1 .. m -> Alphabet]
    BY <1>0, <2>1, <2>2
  <2>4. r \in Seq(Alphabet) /\ Len(r) = m
    BY <2>1, <2>3, IsSeq
  <2>5. \A i \in 1 .. m : r[i] = IF u[i] = "+" THEN " " ELSE u[i]
    BY <2>2
  <2>. QED
    BY <2>4, <2>5 DEF m
<1>6. Len(u) \in Nat
  BY <1>4, LenProperties
<1> HIDE DEF u, r, n
<1>7. StartsWith(u, b)
  <2>1. Len(u) = n \/ u[n + 1] \in Separator
    BY <1>4 DEF Separator
  <2>. QED
    BY <1>4, <2>1 DEF StartsWith, n
<1>8. StartsWith(r, b)
  <2>1. \A i \in 1 .. n : i \in 1 .. Len(u)
    BY <1>1, <1>4, <1>6
  <2>2. \A i \in 1 .. n : r[i] = b[i]
    BY <1>2, <1>4, <1>5, <2>1 DEF n
  <2>3. Len(r) = n \/ r[n + 1] \in Separator
    <3>1. CASE Len(u) = n
      BY <1>5, <3>1
    <3>2. CASE Len(u) # n
      <4>1. n + 1 \in 1 .. Len(u) /\ u[n + 1] = "?"
        BY <1>1, <1>4, <1>6, <3>2
      <4>2. r[n + 1] = "?"
        BY <1>5, <4>1
      <4>. QED
        BY <4>2 DEF Separator
    <3>. QED
      BY <3>1, <3>2
  <2>4. n <= Len(r)
    BY <1>4, <1>5
  <2>. QED
    BY <2>2, <2>3, <2>4 DEF StartsWith, n
<1>9. Whole = u \/ Whole = r
  BY DEF Whole, Plus, u, r
<1>. QED
  BY <1>4, <1>5, <1>7, <1>8, <1>9

\* A URL is not taken for an old signature.
LEMMA UrlIsNoSignature ==
  ASSUME NEW url \in Seq(Symbol), url # <<>>, url[1] = "http"
  PROVE  ~IsSignature(url)
<1> DEFINE x == <<"oauth_signature", "=">>
<1>1. SUFFICES ASSUME IsPrefix(x, url) PROVE FALSE
  BY DEF IsSignature
<1>2. x \in Seq(Symbol) /\ Len(x) = 2 /\ x[1] = "oauth_signature"
  <2>1. "oauth_signature" \in Symbol /\ "=" \in Symbol
    BY NamesAreSymbols, DigitsAreSymbols
  <2>. QED
    BY <2>1
<1> HIDE DEF x
<1>3. 2 <= Len(url) /\ SubSeq(x, 1, 2) = SubSeq(url, 1, 2) /\ Len(url) \in Nat
  BY <1>1, <1>2, LenProperties DEF IsPrefix
<1>4. 1 \in Nat \ {0} /\ 2 \in Nat /\ 1 <= 2 + 1 /\ 2 <= Len(x) /\ 1 \in 1 .. 2 - 1 + 1 /\ 1 + 1 - 1 = 1
  BY <1>2
<1>5. \A i \in 1 .. 2 - 1 + 1 : SubSeq(x, 1, 2)[i] = x[1 + i - 1]
  BY <1>2, <1>4, SubIs
<1>6. \A i \in 1 .. 2 - 1 + 1 : SubSeq(url, 1, 2)[i] = url[1 + i - 1]
  BY <1>3, <1>4, SubIs
<1>7. x[1] = url[1]
  <2>1. SubSeq(x, 1, 2)[1] = x[1 + 1 - 1] /\ SubSeq(url, 1, 2)[1] = url[1 + 1 - 1]
    BY <1>4, <1>5, <1>6
  <2>. QED
    BY <1>3, <1>4, <2>1
<1>. QED
  BY <1>2, <1>7

\* The URL is sent with a path and without the default port, which is how the
\* service takes it.
LEMMA FirstElement ==
  ASSUME Asked
  PROVE  LET url == Element(1, form.base)
         IN url \in Seq(Symbol) /\ Normal(url) = url /\ url[1] = "http"
<1> DEFINE b == form.base
           n == Len(b)
<1>0. /\ b \in Seq(Alphabet) /\ b \in Seq(Symbol) /\ IsUrl(b)
      /\ Unescapes(Alphabet \cup {"&"}, Symbol)
  BY AlphabetIs
<1>1. n \in Nat /\ DOMAIN b = 1 .. n
  BY <1>0, LenProperties
<1>2. PICK h, p : UrlParts(b, h, p)
  BY <1>0, UrlHasParts
<1>3. \A i \in 1 .. n : b[i] \notin {"?", "&", "%", "+", "SOH"}
  BY <1>0, UrlHasParts
<1>4. Replace(b, "SOH", "&") = b
  <2> HIDE DEF b, n
  <2>1. Replace(b, "SOH", "&") = [i \in 1 .. n |-> IF b[i] = "SOH" THEN "&" ELSE b[i]]
    BY <1>1 DEF Replace
  <2>2. b = [i \in 1 .. n |-> b[i]]
    BY <1>0, <1>1, LenProperties DEF n
  <2>3. [i \in 1 .. n |-> IF b[i] = "SOH" THEN "&" ELSE b[i]] = [i \in 1 .. n |-> b[i]]
    <3>1. \A i \in 1 .. n : (IF b[i] = "SOH" THEN "&" ELSE b[i]) = b[i]
      BY <1>3
    <3>. QED
      BY <3>1, Zenon
  <2>. QED
    BY <2>1, <2>2, <2>3, Zenon
<1>5. UrlUnescape(b) = b
  <2>1. b \in Seq(Alphabet \cup {"&"})
    <3>1. Alphabet \subseteq Alphabet \cup {"&"}
      OBVIOUS
    <3>. QED
      BY <1>0, <3>1, SeqMonotonic
  <2>2. \A i \in 1 .. Len(b) : b[i] # "%"
    BY <1>3
  <2> HIDE DEF b
  <2>. QED
    BY <1>0, <2>1, <2>2, NothingToUnescape
<1>6. Element(1, b) = WithoutPort(IF NoPath(b) THEN Append(b, "/") ELSE b)
  <2>1. Element(1, b) = WithoutPort(IF NoPath(Replace(b, "SOH", "&"))
                                    THEN Append(Replace(b, "SOH", "&"), "/")
                                    ELSE UrlUnescape(Replace(b, "SOH", "&")))
    <3> HIDE DEF b
    <3>. QED
      BY Zenon DEF Element
  <2> HIDE DEF b
  <2>. QED
    BY <1>4, <1>5, <2>1, Zenon
<1> HIDE DEF b
<1>7. \E e : Element(1, b) = WithoutPort(e) /\ UrlParts(e, h, p) /\ p < Len(e)
  <2>1. CASE p = n
    <3>1. NoPath(b)
      BY <1>2, <2>1, NoPathIs
    <3>2. Element(1, b) = WithoutPort(Append(b, "/"))
      BY <1>6, <3>1, Zenon
    <3>3. UrlParts(Append(b, "/"), h, p) /\ p < Len(Append(b, "/"))
      BY <1>2, <2>1, PathAdded
    <3>. QED
      BY <3>2, <3>3, Zenon
  <2>2. CASE p # n
    <3>1. ~NoPath(b)
      BY <1>2, <2>2, NoPathIs
    <3>2. Element(1, b) = WithoutPort(b)
      BY <1>6, <3>1, Zenon
    <3>3. p < Len(b)
      <4>1. p \in 5 .. Len(b)
        BY <1>2 DEF UrlParts
      <4>2. p # Len(b) /\ Len(b) \in Nat
        BY <1>1, <2>2
      <4>. QED
        BY ONLY <4>1, <4>2
    <3>. QED
      BY <1>2, <3>2, <3>3
  <2>. QED
    BY <2>1, <2>2
<1>8. PICK url : url = Element(1, b)
  OBVIOUS
<1>9. UrlParts(url, h, h) /\ h < Len(url)
  BY <1>7, <1>8, PortGone
<1>10. Normal(url) = url /\ url \in Seq(Symbol) /\ url[1] = "http"
  <2>1. url \in Seq(Symbol) /\ url[1] = "http"
    BY <1>9 DEF UrlParts
  <2>. QED
    BY <1>9, <2>1, NormalIs
<1>. QED
  BY <1>8, <1>10 DEF b

\* The other elements are texts.
LEMMA OtherElement ==
  ASSUME Asked, NEW t \in Seq(Alphabet), NEW i \in Nat, i # 1
  PROVE  Element(i, t) \in Seq(Symbol)
<1> DEFINE A == Alphabet \cup {"&"}
           n == Len(t)
           r == Replace(t, "SOH", "&")
<1>0. n \in Nat /\ DOMAIN t = 1 .. n /\ \A k \in 1 .. n : t[k] \in Alphabet
  BY LenProperties, ElementOfSeq
<1>1. r \in Seq(A)
  <2>1. r = [k \in 1 .. n |-> IF t[k] = "SOH" THEN "&" ELSE t[k]]
    BY <1>0 DEF Replace
  <2>2. \A k \in 1 .. n : (IF t[k] = "SOH" THEN "&" ELSE t[k]) \in A
    BY <1>0
  <2> HIDE DEF r, A, n
  <2>3. r \in [1 .. n -> A]
    BY <2>1, <2>2
  <2>. QED
    BY <1>0, <2>3, IsSeq
<1>2. Unescapes(A, Symbol)
  BY AlphabetIs
<1> HIDE DEF A, r
<1>3. PICK f \in [Nat -> Seq(Symbol)] : UrlUnescape(r) = f[1] /\ Reads(f, r)
  BY <1>1, <1>2, UnescapeIs
<1>4. UrlUnescape(r) \in Seq(Symbol)
  <2>1. f[1] \in Seq(Symbol)
    OBVIOUS
  <2>. QED
    BY <1>3, <2>1
<1>5. Element(i, t) = UrlUnescape(r)
  BY Zenon DEF Element, r
<1>. QED
  BY <1>4, <1>5

\* What is split off, when it is clean.
LEMMA SplitIsSendable ==
  ASSUME Asked, Clean, NEW args, args = SplitParameters(Url, ~form.post)
  PROVE  AllSendable(args) /\ Normal(args[1]) = args[1]
<1> DEFINE b == form.base
           A == Alphabet
<1>0. /\ A \in SUBSET Symbol /\ b \in Seq(A) /\ b \in Seq(Symbol) /\ IsUrl(b) /\ b # <<>>
      /\ Whole \in Seq(A) /\ StartsWith(Whole, b)
  BY AlphabetIs, WholeIs DEF Asked
<1>1. /\ ~IsSignature(b)
      /\ \A i \in 1 .. Len(b) : b[i] \notin Separator
  <2>1. b[1] = "http" /\ \A i \in 1 .. Len(b) : b[i] \notin {"?", "&", "%", "+", "SOH"}
    BY <1>0, UrlHasParts
  <2>2. ~IsSignature(b)
    BY <1>0, <2>1, UrlIsNoSignature
  <2>. QED
    BY <2>1, <2>2 DEF Separator
<1>2. PICK tokens : tokens = Unsigned(Tokens(Whole, Separator))
  OBVIOUS
<1> HIDE DEF A, b
<1>3. tokens \in Seq(Seq(A)) /\ tokens # <<>> /\ tokens[1] = b
  BY <1>0, <1>1, <1>2, FirstPart
<1> DEFINE n == Len(tokens)
<1>4. n \in Nat \ {0} /\ DOMAIN tokens = 1 .. n /\ \A i \in 1 .. n : tokens[i] \in Seq(A)
  BY <1>3, LenProperties, ElementOfSeq, EmptySeq
<1>5. args = [i \in 1 .. n |-> Element(i, tokens[i])]
  <2>1. SplitParameters(Url, ~form.post) = Params(Tokens(Whole, Separator))
    BY Zenon DEF SplitParameters, Params, Elements, Unsigned, Whole, Separator
  <2>2. args = Elements(tokens)
    BY <1>2, <2>1 DEF Params
  <2>. QED
    BY <1>4, <2>2 DEF Elements
<1>6. Element(1, b) \in Seq(Symbol) /\ Normal(Element(1, b)) = Element(1, b)
  BY FirstElement DEF b
<1>7. \A i \in 1 .. n : Element(i, tokens[i]) \in Seq(Symbol)
  <2>1. ASSUME NEW i \in 1 .. n PROVE Element(i, tokens[i]) \in Seq(Symbol)
    <3>1. CASE i = 1
      BY <1>3, <1>6, <3>1
    <3>2. CASE i # 1
      <4>1. tokens[i] \in Seq(Alphabet) /\ i \in Nat
        BY <1>4 DEF A
      <4>. QED
        BY <3>2, <4>1, OtherElement
    <3>. QED
      BY <3>1, <3>2
  <2>. QED
    BY <2>1
<1> HIDE DEF n
<1>8. args \in Seq(Seq(Symbol)) /\ Len(args) = n
  <2>1. args \in [1 .. n -> Seq(Symbol)] /\ n \in Nat
    BY <1>4, <1>5, <1>7
  <2>. QED
    BY <2>1, IsSeq
<1>9. args[1] = Element(1, b)
  <2>1. 1 \in 1 .. n
    BY <1>4
  <2>. QED
    BY <1>3, <1>5, <2>1
<1>10. args # <<>>
  BY <1>4, <1>8, EmptySeq
<1>11. ASSUME NEW i \in 2 .. Len(args) PROVE args[i] \in Sendable
  <2>1. args[i] \in Seq(Symbol)
    BY <1>8, ElementOfSeq
  <2>2. args[i] \in ToSet(Tail(args))
    <3> DEFINE t == Tail(args)
    <3>1. t \in Seq(Seq(Symbol)) /\ Len(t) = Len(args) - 1 /\ \A k \in 1 .. Len(t) : t[k] = args[k + 1]
      BY <1>8, <1>10, HeadTailProperties
    <3>2. DOMAIN t = 1 .. Len(t)
      BY <3>1, LenProperties
    <3> HIDE DEF t
    <3>3. i - 1 \in 1 .. Len(t) /\ (i - 1) + 1 = i
      BY <1>4, <1>8, <3>1
    <3>4. t[i - 1] = args[i]
      BY <3>1, <3>3
    <3>5. args[i] \in ToSet(t)
      BY <3>2, <3>3, <3>4 DEF ToSet
    <3>. QED
      BY <3>5 DEF t
  <2>3. /\ HasValue(args[i]) \/ ToSet(args[i]) \cap Reserved = {}
        /\ Name(args[i]) # <<"oauth_signature">>
    BY <2>2, Zenon DEF Clean
  <2>. QED
    BY <2>1, <2>3 DEF Sendable, Param, SigName
<1>12. AllSendable(args)
  BY <1>8, <1>10, <1>11 DEF AllSendable
<1>. QED
  BY <1>6, <1>9, <1>12

\* For all forms of request and queries of any length that are clean, with and
\* without a token: the text that oauth_sign_url2 signs is the one the service puts
\* together from the method, the URL and the parameters it receives.
THEOREM SignedIsVerified == Spec => []SignatureVerifies
<1> DEFINE Inv == form \in Form /\ query \in Seq(form.symbols)
<1>1. Init => Inv
  BY EmptySeq DEF Init
<1>2. Inv /\ [Extend]_<<form, query>> => Inv'
  <2>1. ASSUME Inv, [Extend]_<<form, query>> PROVE Inv'
    <3>1. CASE Extend
      <4>1. PICK c \in form.symbols : query' = Append(query, c) /\ form' = form
        BY <3>1 DEF Extend
      <4>2. Append(query, c) \in Seq(form.symbols)
        BY <2>1, AppendProperties
      <4>. QED
        BY <2>1, <4>1, <4>2
    <3>2. CASE UNCHANGED <<form, query>>
      BY <2>1, <3>2
    <3>. QED
      BY <2>1, <3>1, <3>2
  <2>. QED
    BY <2>1
<1>3. Inv => SignatureVerifies
  <2>1. SUFFICES ASSUME Inv, form.base # <<>>, Clean, NEW tKey \in {<<>>, <<"x">>}
                 PROVE  LET r == Request(tKey) IN Verified(r) = r.signed
    BY Zenon DEF SignatureVerifies
  <2>2. Asked
    BY <2>1 DEF Asked
  <2>3. PICK args : args = SplitParameters(Url, ~form.post)
    OBVIOUS
  <2>4. AllSendable(args) /\ Normal(args[1]) = args[1]
    BY <2>1, <2>2, <2>3, SplitIsSendable
  <2>. QED
    BY <2>1, <2>3, <2>4, RequestVerifies
<1>. QED
  BY <1>1, <1>2, <1>3, PTL DEF Spec

-----------------------------------------------------------------------------
(* How often something is there.                                           *)

Times(s, r) == Len(Sift(s, LAMBDA t : t = r))
PlacesOf(s, r, n) == {i \in 1 .. n : s[i] = r}

\* The next place counts or not.
LEMMA PlacesNext ==
  ASSUME NEW n \in Nat, NEW H, NEW K, IsFiniteSet(H), H \in SUBSET (1 .. n), NEW b \in BOOLEAN,
         K = IF b THEN H \cup {n + 1} ELSE H
  PROVE  IsFiniteSet(K) /\ Cardinality(K) = Cardinality(H) + IF b THEN 1 ELSE 0
<1>1. n + 1 \notin H /\ Cardinality(H) \in Nat
  BY FS_CardinalityType
<1>2. /\ IsFiniteSet(H \cup {n + 1})
      /\ Cardinality(H \cup {n + 1}) = IF n + 1 \in H THEN Cardinality(H) ELSE Cardinality(H) + 1
  BY FS_AddElement
<1>3. CASE b
  BY <1>1, <1>2, <1>3
<1>4. CASE ~b
  BY <1>1, <1>4
<1>. QED
  BY <1>3, <1>4

\* It is as often there as there are places of it.
LEMMA TimesIs ==
  ASSUME NEW R, NEW s \in Seq(R), NEW r
  PROVE  Times(s, r) = Cardinality(PlacesOf(s, r, Len(s)))
<1> DEFINE n == Len(s)
           one(x) == IF x = r THEN <<x>> ELSE <<>>
           seqs == [i \in 1 .. n |-> one(s[i])]
<1>0. n \in Nat /\ DOMAIN s = 1 .. n /\ \A i \in 1 .. n : s[i] \in R
  BY LenProperties, ElementOfSeq
<1>1. \A x \in R : one(x) \in Seq(R) /\ Len(one(x)) = IF x = r THEN 1 ELSE 0
  <2>1. \A x \in R : <<x>> \in Seq(R) /\ Len(<<x>>) = 1
    OBVIOUS
  <2>2. <<>> \in Seq(R) /\ Len(<<>>) = 0
    OBVIOUS
  <2>. QED
    BY <2>1, <2>2
<1>2. Sift(s, LAMBDA t : t = r) = FlattenSeq(seqs)
  BY <1>0, Zenon DEF Sift
<1>3. seqs \in Seq(Seq(R)) /\ Len(seqs) = n /\ \A i \in 1 .. n : seqs[i] = one(s[i])
  <2> HIDE DEF one
  <2>1. \A i \in 1 .. n : seqs[i] = one(s[i])
    BY <1>0
  <2>2. seqs \in [1 .. n -> Seq(R)]
    BY <1>0, <1>1
  <2> HIDE DEF seqs
  <2>. QED
    BY <1>0, <2>1, <2>2, IsSeq
<1> HIDE DEF seqs
<1>4. PICK fl \in [0 .. Len(seqs) -> Seq(R)] : Joins(fl, seqs) /\ FlattenSeq(seqs) = fl[Len(seqs)]
  BY <1>3, FlattenJoins
<1> DEFINE H(k) == PlacesOf(s, r, k)
           Counted(k) == IsFiniteSet(H(k)) /\ Len(fl[k]) = Cardinality(H(k))
           Done == {k \in Nat : k <= n => Counted(k)}
<1>5. Counted(0)
  <2>1. H(0) = {}
    BY DEF PlacesOf
  <2>2. fl[0] = <<>>
    BY <1>4 DEF Joins
  <2>3. Len(fl[0]) = 0
    BY <2>2
  <2>. QED
    BY <2>1, <2>3, FS_EmptySet
<1>6. ASSUME NEW k \in 0 .. n - 1, Counted(k) PROVE Counted(k + 1)
  <2>1. k \in Nat /\ k + 1 \in 1 .. n /\ k \in 0 .. n /\ k + 1 \in 0 .. n
    BY <1>0
  <2>2. fl[k + 1] = fl[k] \o one(s[k + 1])
    BY <1>3, <1>4, <2>1 DEF Joins
  <2>3. fl[k] \in Seq(R) /\ one(s[k + 1]) \in Seq(R) /\ Len(one(s[k + 1])) = IF s[k + 1] = r THEN 1 ELSE 0
    BY <1>0, <1>1, <1>3, <1>4, <2>1
  <2> HIDE DEF one
  <2>4. Len(fl[k + 1]) = Len(fl[k]) + IF s[k + 1] = r THEN 1 ELSE 0
    BY <2>2, <2>3, ConcatProperties
  <2>5. PICK b \in BOOLEAN : b <=> s[k + 1] = r
    OBVIOUS
  <2>6. H(k + 1) = IF b THEN H(k) \cup {k + 1} ELSE H(k)
    <3>1. 1 .. k + 1 = (1 .. k) \cup {k + 1}
      BY <2>1
    <3>. QED
      BY <2>5, <3>1 DEF PlacesOf
  <2>7. H(k) \in SUBSET (1 .. k)
    BY DEF PlacesOf
  <2>8. IsFiniteSet(H(k)) /\ Len(fl[k]) = Cardinality(H(k))
    BY <1>6
  <2> HIDE DEF H
  <2>9. IsFiniteSet(H(k + 1)) /\ Cardinality(H(k + 1)) = Cardinality(H(k)) + IF b THEN 1 ELSE 0
    BY <2>1, <2>6, <2>7, <2>8, PlacesNext
  <2>10. Len(fl[k + 1]) = Cardinality(H(k + 1))
    BY <2>4, <2>5, <2>8, <2>9
  <2>. QED
    BY <2>9, <2>10
<1> HIDE DEF Counted
<1>7. Counted(n)
  <2>1. 0 \in Done
    BY <1>5
  <2>2. ASSUME NEW k \in Nat, k \in Done PROVE k + 1 \in Done
    <3>1. ASSUME k + 1 <= n PROVE Counted(k + 1)
      <4>1. k \in 0 .. n - 1 /\ k <= n
        BY <1>0, <3>1
      <4>. QED
        BY <1>6, <2>2, <4>1
    <3>. QED
      BY <3>1
  <2> HIDE DEF Done
  <2>3. n \in Done
    BY <1>0, <2>1, <2>2, NumberInduction
  <2>. QED
    BY <1>0, <2>3 DEF Done
<1>. QED
  BY <1>2, <1>3, <1>4, <1>7 DEF Counted, Times

-----------------------------------------------------------------------------
(* Sorting keeps what there is.                                            *)

\* The places up to n of a parameter with a name and value.
Sent(s, v, n) == {i \in 1 .. n : NameAndValue(s[i]) = v}

\* They are finitely many.
LEMMA SentFinite ==
  ASSUME NEW s, NEW v, NEW n \in Nat
  PROVE  IsFiniteSet(Sent(s, v, n)) /\ Cardinality(Sent(s, v, n)) \in Nat
<1>1. IsFiniteSet(1 .. n)
  BY FS_Interval
<1>2. Sent(s, v, n) \in SUBSET (1 .. n)
  BY DEF Sent
<1>. QED
  BY <1>1, <1>2, FS_Subset, FS_CardinalityType

\* The next place is one of them or not.
LEMMA SentNext ==
  ASSUME NEW s, NEW v, NEW n \in Nat
  PROVE  Cardinality(Sent(s, v, n + 1)) =
           Cardinality(Sent(s, v, n)) + IF NameAndValue(s[n + 1]) = v THEN 1 ELSE 0
<1>1. PICK b \in BOOLEAN : b <=> NameAndValue(s[n + 1]) = v
  OBVIOUS
<1>2. Sent(s, v, n + 1) = IF b THEN Sent(s, v, n) \cup {n + 1} ELSE Sent(s, v, n)
  <2>1. 1 .. n + 1 = (1 .. n) \cup {n + 1}
    OBVIOUS
  <2>. QED
    BY <1>1, <2>1 DEF Sent
<1>3. Sent(s, v, n) \in SUBSET (1 .. n) /\ IsFiniteSet(Sent(s, v, n))
  BY SentFinite DEF Sent
<1>4. Cardinality(Sent(s, v, n + 1)) = Cardinality(Sent(s, v, n)) + IF b THEN 1 ELSE 0
  <2> DEFINE H == Sent(s, v, n)
             K == Sent(s, v, n + 1)
  <2>1. K = (IF b THEN H \cup {n + 1} ELSE H) /\ IsFiniteSet(H) /\ H \in SUBSET (1 .. n)
    BY <1>2, <1>3
  <2> HIDE DEF H, K
  <2>2. Cardinality(K) = Cardinality(H) + IF b THEN 1 ELSE 0
    <3>1. n \in Nat /\ b \in BOOLEAN
      OBVIOUS
    <3>2. \A B \in BOOLEAN : \A X, Y :
            IsFiniteSet(X) /\ X \in SUBSET (1 .. n) /\ Y = (IF B THEN X \cup {n + 1} ELSE X)
            => Cardinality(Y) = Cardinality(X) + IF B THEN 1 ELSE 0
      BY ONLY <3>1, PlacesNext
    <3>. QED
      BY ONLY <2>1, <3>1, <3>2, Zenon
  <2>. QED
    BY <2>2 DEF H, K
<1>. QED
  BY <1>1, <1>4

\* A parameter that is put in is one more of its kind.
LEMMA SentInserted ==
  ASSUME NEW s, NEW q, NEW x, NEW l \in Nat, Len(s) = l, NEW n \in 1 .. l + 1,
         IsInserted(q, s, x, n), NEW v
  PROVE  Cardinality(Sent(q, v, l + 1)) =
           Cardinality(Sent(s, v, l)) + IF NameAndValue(x) = v THEN 1 ELSE 0
<1> DEFINE H == Sent(s, v, l)
           K == Sent(q, v, l + 1)
           J == K \ {n}
           g == [i \in H |-> IF i < n THEN i ELSE i + 1]
<1>1. IsFiniteSet(H) /\ IsFiniteSet(K) /\ Cardinality(H) \in Nat /\ Cardinality(K) \in Nat
  BY SentFinite
<1>2. /\ q[n] = x /\ \A i \in 1 .. n - 1 : q[i] = s[i]
      /\ \A i \in n .. l : q[i + 1] = s[i]
  BY DEF IsInserted
<1>3. ASSUME NEW i \in H PROVE (IF i < n THEN i ELSE i + 1) \in J
  <2>1. i \in 1 .. l /\ NameAndValue(s[i]) = v
    BY DEF Sent
  <2>2. CASE i < n
    <3>1. i \in 1 .. n - 1 /\ i \in 1 .. l + 1 /\ i # n
      BY <2>1, <2>2
    <3>2. NameAndValue(q[i]) = v
      BY <1>2, <2>1, <3>1
    <3>. QED
      BY <2>2, <3>1, <3>2 DEF Sent
  <2>3. CASE ~(i < n)
    <3>1. i \in n .. l /\ i + 1 \in 1 .. l + 1 /\ i + 1 # n
      BY <2>1, <2>3
    <3>2. NameAndValue(q[i + 1]) = v
      BY <1>2, <2>1, <3>1
    <3>. QED
      BY <2>3, <3>1, <3>2 DEF Sent
  <2>. QED
    BY <2>2, <2>3
<1>4. ASSUME NEW j \in J PROVE \E i \in H : j = IF i < n THEN i ELSE i + 1
  <2>1. j \in 1 .. l + 1 /\ j # n /\ NameAndValue(q[j]) = v
    BY DEF Sent
  <2>2. CASE j < n
    <3>1. j \in 1 .. n - 1 /\ j \in 1 .. l
      BY <2>1, <2>2
    <3>2. NameAndValue(s[j]) = v
      BY <1>2, <2>1, <3>1
    <3>3. j \in H
      BY <3>1, <3>2 DEF Sent
    <3> HIDE DEF H
    <3>. QED
      BY <2>2, <3>3
  <2>3. CASE ~(j < n)
    <3>1. j - 1 \in n .. l /\ j - 1 \in 1 .. l /\ (j - 1) + 1 = j /\ ~(j - 1 < n)
      BY <2>1, <2>3
    <3>2. NameAndValue(s[j - 1]) = v
      BY <1>2, <2>1, <3>1
    <3>3. j - 1 \in H
      BY <3>1, <3>2 DEF Sent
    <3> HIDE DEF H
    <3>. QED
      BY <3>1, <3>3
  <2>. QED
    BY <2>2, <2>3
<1>5. \A i \in H : i \in Nat
  BY DEF Sent
<1> HIDE DEF H, J
<1>6. g \in [H -> J] /\ \A i \in H : g[i] = IF i < n THEN i ELSE i + 1
  BY <1>3
<1> HIDE DEF g
<1>7. \A a, b \in H : g[a] = g[b] => a = b
  <2>1. ASSUME NEW a \in H, NEW b \in H, g[a] = g[b] PROVE a = b
    <3>1. a \in Nat /\ b \in Nat /\ n \in Nat
      BY <1>5
    <3>2. (IF a < n THEN a ELSE a + 1) = (IF b < n THEN b ELSE b + 1)
      BY <1>6, <2>1
    <3>. QED
      BY <3>1, <3>2
  <2>. QED
    BY <2>1
<1>8. \A j \in J : \E i \in H : g[i] = j
  <2>1. ASSUME NEW j \in J PROVE \E i \in H : g[i] = j
    <3>1. PICK i \in H : j = IF i < n THEN i ELSE i + 1
      BY <1>4
    <3>. QED
      BY <1>6, <3>1
  <2>. QED
    BY <2>1
<1>9. g \in Bijection(H, J)
  <2>1. g \in Injection(H, J)
    BY <1>6, <1>7, Zenon DEF Injection, IsInjective
  <2>2. g \in Surjection(H, J)
    BY <1>6, <1>8, Zenon DEF Surjection
  <2>. QED
    BY <2>1, <2>2 DEF Bijection
<1>10. Cardinality(J) = Cardinality(H)
  <2>1. ExistsBijection(H, J)
    BY <1>9 DEF ExistsBijection
  <2>. QED
    BY <1>1, <2>1, FS_Bijection
<1>11. Cardinality(J) = IF n \in K THEN Cardinality(K) - 1 ELSE Cardinality(K)
  BY <1>1, FS_RemoveElement DEF J
<1>12. n \in K <=> NameAndValue(x) = v
  BY <1>2 DEF Sent
<1> HIDE DEF K
<1>13. Cardinality(K) = Cardinality(H) + IF NameAndValue(x) = v THEN 1 ELSE 0
  BY <1>1, <1>10, <1>11, <1>12
<1>. QED
  BY <1>13 DEF K, H

\* Sorting leaves each parameter in as often as it is there.
LEMMA SortedKeeps ==
  ASSUME NEW C \in SUBSET Seq(Symbol), NEW s \in Seq(C), NEW v
  PROVE  Cardinality(Sent(Sorted(s, Cmpstringp), v, Len(s))) = Cardinality(Sent(s, v, Len(s)))
<1> DEFINE n == Len(s)
<1>0. n \in Nat /\ \A i \in 1 .. n : s[i] \in C
  BY LenProperties, ElementOfSeq
<1>1. PICK f \in [0 .. n -> Seq(C)] : Inserts(f, s, Cmp) /\ Sorted(s, Cmpstringp) = f[n]
  BY SortedByCmp
<1> DEFINE Kept(k) == Len(f[k]) = k /\ Cardinality(Sent(f[k], v, k)) = Cardinality(Sent(s, v, k))
           Done == {k \in Nat : k <= n => Kept(k)}
<1>2. Kept(0)
  <2>1. f[0] = <<>>
    BY <1>1 DEF Inserts
  <2>2. Len(f[0]) = 0
    BY <2>1
  <2>3. Sent(f[0], v, 0) = {} /\ Sent(s, v, 0) = {}
    BY DEF Sent
  <2>. QED
    BY <2>2, <2>3
<1>3. ASSUME NEW k \in 0 .. n - 1, Kept(k) PROVE Kept(k + 1)
  <2>1. k \in 0 .. n /\ k + 1 \in 1 .. n /\ k \in Nat
    BY <1>0
  <2>2. PICK g \in Seq(C), x \in C : g = f[k] /\ x = s[k + 1]
    BY <1>0, <1>1, <2>1
  <2> DEFINE r == f[k + 1]
             I == After(g, x, Cmp)
  <2>3. r = InsertBefore(g, x, I)
    BY <1>1, <2>2 DEF Inserts
  <2>4. I \in SUBSET (1 .. Len(g))
    BY DEF After
  <2> HIDE DEF r, I
  <2>5. Len(r) = Len(g) + 1 /\ \E m \in 1 .. Len(g) + 1 : IsInserted(r, g, x, m)
    BY <2>3, <2>4, InsertBeforeIs
  <2>6. PICK m \in 1 .. Len(g) + 1 : IsInserted(r, g, x, m)
    BY <2>5
  <2>7. Len(g) = k /\ Cardinality(Sent(g, v, k)) = Cardinality(Sent(s, v, k))
    BY <1>3, <2>2
  <2>8. m \in 1 .. k + 1
    BY <2>7
  <2>9. Cardinality(Sent(r, v, k + 1)) = Cardinality(Sent(g, v, k)) + IF NameAndValue(x) = v THEN 1 ELSE 0
    BY <2>1, <2>6, <2>7, <2>8, SentInserted
  <2>10. Cardinality(Sent(s, v, k + 1)) = Cardinality(Sent(s, v, k)) + IF NameAndValue(s[k + 1]) = v THEN 1 ELSE 0
    BY <2>1, SentNext
  <2>11. Cardinality(Sent(r, v, k + 1)) = Cardinality(Sent(s, v, k + 1))
    BY <2>2, <2>7, <2>9, <2>10
  <2>. QED
    BY <2>5, <2>7, <2>11 DEF r
<1> HIDE DEF Kept
<1>4. Kept(n)
  <2>1. 0 \in Done
    BY <1>2
  <2>2. ASSUME NEW k \in Nat, k \in Done PROVE k + 1 \in Done
    <3>1. ASSUME k + 1 <= n PROVE Kept(k + 1)
      <4>1. k \in 0 .. n - 1 /\ k <= n
        BY <1>0, <3>1
      <4>. QED
        BY <1>3, <2>2, <4>1
    <3>. QED
      BY <3>1
  <2> HIDE DEF Done
  <2>3. n \in Done
    BY <1>0, <2>1, <2>2, NumberInduction
  <2>. QED
    BY <1>0, <2>3 DEF Done
<1>. QED
  BY <1>1, <1>4 DEF Kept

-----------------------------------------------------------------------------
(* What oauth_add_protocol adds.                                           *)

OwnNames == {"oauth_consumer_key", "oauth_nonce", "oauth_signature", "oauth_timestamp",
             "oauth_version"}
\* A text that does not begin with a name of the protocol.
Foreign(p) == p = <<>> \/ p[1] \notin OwnNames

\* The names of the protocol are symbols that nothing is done to.
LEMMA OwnNamesAre ==
  /\ OwnNames \subseteq Symbol /\ OwnNames \cap DOMAIN Hex = {} /\ OwnNames \cap HexDigit = {}
  /\ OwnNames \cap {"=", " ", "http", "&", "/", "?"} = {}
<1>1. OwnNames \subseteq Symbol
  BY NamesAreSymbols DEF OwnNames
<1>2. DOMAIN Hex = {"SOH", " ", "\"", "%", "&", "+", "/", ":", "=", "?", "R", "U", "V", "b", "e", "f"}
  BY DEF Hex
<1>. QED
  BY <1>1, <1>2 DEF OwnNames, HexDigit

\* A text with another first symbol is not the parameter.
LEMMA OtherStart ==
  ASSUME NEW key \in Symbol, NEW p \in Seq(Symbol), p = <<>> \/ p[1] # key
  PROVE  ~IsPrefix(<<key, "=">>, p)
<1> DEFINE x == <<key, "=">>
<1>1. SUFFICES ASSUME IsPrefix(x, p) PROVE FALSE
  OBVIOUS
<1>2. x \in Seq(Symbol) /\ Len(x) = 2 /\ x[1] = key
  <2>1. "=" \in Symbol
    BY DigitsAreSymbols
  <2>. QED
    BY <2>1
<1> HIDE DEF x
<1>3. 2 <= Len(p) /\ SubSeq(x, 1, 2) = SubSeq(p, 1, 2) /\ Len(p) \in Nat
  BY <1>1, <1>2, LenProperties DEF IsPrefix
<1>4. 1 \in Nat \ {0} /\ 2 \in Nat /\ 1 <= 2 + 1 /\ 2 <= Len(x) /\ 1 \in 1 .. 2 - 1 + 1 /\ 1 + 1 - 1 = 1
  BY <1>2
<1>5. \A i \in 1 .. 2 - 1 + 1 : SubSeq(x, 1, 2)[i] = x[1 + i - 1]
  BY <1>2, <1>4, SubIs
<1>6. \A i \in 1 .. 2 - 1 + 1 : SubSeq(p, 1, 2)[i] = p[1 + i - 1]
  BY <1>3, <1>4, SubIs
<1>7. x[1] = p[1]
  <2>1. SubSeq(x, 1, 2)[1] = x[1 + 1 - 1] /\ SubSeq(p, 1, 2)[1] = p[1 + 1 - 1]
    BY <1>4, <1>5, <1>6
  <2>. QED
    BY <1>3, <1>4, <2>1
<1>8. p # <<>>
  <2>1. SUFFICES ASSUME p = <<>> PROVE FALSE
    OBVIOUS
  <2>2. Len(p) = 0
    BY <2>1
  <2>. QED
    BY <1>3, <2>2
<1>. QED
  BY <1>2, <1>7, <1>8

\* Nothing in s begins with the symbol.
NoneBegins(s, key) == \A i \in 1 .. Len(s) : s[i] = <<>> \/ s[i][1] # key

\* Then the parameter is added.
LEMMA AddsNew ==
  ASSUME NEW key \in Symbol, NEW s \in Seq(Seq(Symbol)), NoneBegins(s, key)
  PROVE  AddNew(s, key) = Append(s, Valued(key))
<1>1. DOMAIN s = 1 .. Len(s) /\ \A i \in 1 .. Len(s) : s[i] \in Seq(Symbol)
  BY LenProperties, ElementOfSeq
<1>2. ~ParamExists(s, key)
  <2>1. SUFFICES ASSUME NEW i \in DOMAIN s, IsPrefix(<<key, "=">>, s[i]) PROVE FALSE
    BY Zenon DEF ParamExists
  <2>2. i \in 1 .. Len(s) /\ s[i] \in Seq(Symbol) /\ (s[i] = <<>> \/ s[i][1] # key)
    BY <1>1 DEF NoneBegins
  <2>. QED
    BY <2>1, <2>2, OtherStart
<1>. QED
  BY <1>2, Zenon DEF AddNew, Valued

\* One that begins with another symbol may stand in front of it.
LEMMA NoneBeginsStill ==
  ASSUME NEW key \in Symbol, NEW s \in Seq(Seq(Symbol)), NoneBegins(s, key),
         NEW p \in Seq(Symbol), p[1] # key
  PROVE  NoneBegins(Append(s, p), key)
<1> DEFINE r == Append(s, p)
<1>1. Len(s) \in Nat
  BY LenProperties
<1>2. Len(r) = Len(s) + 1 /\ r[Len(s) + 1] = p /\ \A i \in 1 .. Len(s) : r[i] = s[i]
  BY AppendProperties
<1> HIDE DEF r
<1>3. ASSUME NEW i \in 1 .. Len(r) PROVE r[i] = <<>> \/ r[i][1] # key
  <2>1. CASE i = Len(s) + 1
    BY <1>2, <2>1
  <2>2. CASE i # Len(s) + 1
    <3>1. i \in 1 .. Len(s)
      BY <1>1, <1>2, <2>2
    <3>. QED
      BY <1>2, <3>1 DEF NoneBegins
  <2>. QED
    BY <2>1, <2>2
<1>. QED
  BY <1>3 DEF NoneBegins, r

SignatureMethod == <<"oauth_signature", "_method", "=", "value">>

\* Without a token the five parameters of the protocol are added, when none of
\* them is there.
LEMMA FiveAdded ==
  ASSUME NEW args \in Seq(Seq(Symbol)), \A i \in 1 .. Len(args) : Foreign(args[i])
  PROVE  AddProtocol(args, <<>>) =
           Append(Append(Append(Append(Append(args, Valued("oauth_nonce")),
                                       Valued("oauth_timestamp")),
                                Valued("oauth_consumer_key")),
                         SignatureMethod),
                  Valued("oauth_version"))
<1> DEFINE nonce == Valued("oauth_nonce")
           stamp == Valued("oauth_timestamp")
           key == Valued("oauth_consumer_key")
           version == Valued("oauth_version")
           n1 == Append(args, nonce)
           n2 == Append(n1, stamp)
           n3 == Append(n2, key)
           n4 == Append(n3, SignatureMethod)
<1>0. /\ nonce \in Seq(Symbol) /\ stamp \in Seq(Symbol) /\ key \in Seq(Symbol) /\ version \in Seq(Symbol)
      /\ SignatureMethod \in Seq(Symbol)
  BY ProtocolIsSendable DEF Sendable, Param, SignatureMethod
<1>1. /\ nonce[1] = "oauth_nonce" /\ stamp[1] = "oauth_timestamp" /\ key[1] = "oauth_consumer_key"
      /\ SignatureMethod[1] = "oauth_signature"
  BY DEF Valued, SignatureMethod
<1>2. \A k \in OwnNames : k \in Symbol /\ NoneBegins(args, k)
  BY OwnNamesAre DEF Foreign, NoneBegins
<1>3. AddNew(args, "oauth_nonce") = n1 /\ n1 \in Seq(Seq(Symbol))
  <2>1. "oauth_nonce" \in OwnNames
    BY DEF OwnNames
  <2>. QED
    BY <1>0, <1>2, <2>1, AddsNew, AppendProperties
<1>4. NoneBegins(n1, "oauth_timestamp") /\ NoneBegins(n1, "oauth_version")
  <2>1. "oauth_timestamp" \in OwnNames /\ "oauth_version" \in OwnNames
    BY DEF OwnNames
  <2>2. nonce[1] # "oauth_timestamp" /\ nonce[1] # "oauth_version"
    BY <1>1
  <2> HIDE DEF nonce
  <2>. QED
    BY <1>0, <1>2, <2>1, <2>2, NoneBeginsStill
<1>5. "oauth_timestamp" \in Symbol /\ "oauth_version" \in Symbol
  BY NamesAreSymbols
<1> HIDE DEF n1
<1>6. AddNew(n1, "oauth_timestamp") = n2 /\ n2 \in Seq(Seq(Symbol))
  BY <1>0, <1>3, <1>4, <1>5, AddsNew, AppendProperties
<1>7. NoneBegins(n2, "oauth_version")
  <2>1. stamp[1] # "oauth_version"
    BY <1>1
  <2> HIDE DEF stamp
  <2>. QED
    BY <1>0, <1>3, <1>4, <1>5, <2>1, NoneBeginsStill
<1> HIDE DEF n2
<1>8. n3 \in Seq(Seq(Symbol)) /\ NoneBegins(n3, "oauth_version")
  <2>1. key[1] # "oauth_version"
    BY <1>1
  <2> HIDE DEF key
  <2>. QED
    BY <1>0, <1>5, <1>6, <1>7, <2>1, NoneBeginsStill, AppendProperties
<1> HIDE DEF n3
<1>9. n4 \in Seq(Seq(Symbol)) /\ NoneBegins(n4, "oauth_version")
  <2>1. SignatureMethod[1] # "oauth_version"
    BY <1>1
  <2>. QED
    BY <1>0, <1>5, <1>8, <2>1, NoneBeginsStill, AppendProperties
<1> HIDE DEF n4
<1>10. AddNew(n4, "oauth_version") = Append(n4, version)
  BY <1>5, <1>9, AddsNew
<1>11. n2 \o <<key, SignatureMethod>> = n4
  <2> HIDE DEF key
  <2>. QED
    BY <1>0, <1>6, TwoAppends DEF n3, n4
<1>12. AddProtocol(args, <<>>) = AddNew(n2 \o <<key, SignatureMethod>>, "oauth_version")
  <2> DEFINE named == AddNew(AddNew(args, "oauth_nonce"), "oauth_timestamp")
             token == IF <<>> = <<>> THEN named ELSE Append(named, <<"oauth_token", "=">> \o <<>>)
  <2>1. AddProtocol(args, <<>>) =
          AddNew(token \o << <<"oauth_consumer_key", "=", "value">>,
                             <<"oauth_signature", "_method", "=", "value">> >>, "oauth_version")
    BY Zenon DEF AddProtocol
  <2>2. token = n2
    <3>1. named = n2
      BY <1>3, <1>6
    <3> HIDE DEF named
    <3>. QED
      BY <3>1, Zenon
  <2> HIDE DEF token
  <2>. QED
    BY <2>1, <2>2, Zenon DEF Valued, SignatureMethod
<1>. QED
  BY <1>10, <1>11, <1>12 DEF n1, n2, n3, n4

-----------------------------------------------------------------------------
(* The parts of the query follow the URL.                                  *)

\* Nothing of a URL alone is left out.
LEMMA UrlIsLeft ==
  ASSUME NEW A, NEW base \in Seq(A), base # <<>>, ~IsSignature(base)
  PROVE  /\ WithContent(<<>>) = <<>>
         /\ Unsigned(WithContent(Append(<<>>, base))) = Append(<<>>, base)
<1> DEFINE e == <<>>
           one == Append(e, base)
<1>1. e \in Seq(Seq(A)) /\ Len(e) = 0
  BY EmptySeq
<1>2. WithContent(e) = e /\ Unsigned(e) = e
  <2> DEFINE a == [i \in DOMAIN e |-> IF e[i] # <<>> THEN <<e[i]>> ELSE <<>>]
             b == [i \in DOMAIN e |-> IF ~IsSignature(e[i]) THEN <<e[i]>> ELSE <<>>]
  <2>1. a = e /\ b = e
    OBVIOUS
  <2>2. WithContent(e) = FlattenSeq(a) /\ Unsigned(e) = FlattenSeq(b)
    BY Zenon DEF WithContent, Unsigned, Sift
  <2>. QED
    BY <2>1, <2>2, FlattenEmpty
<1> HIDE DEF e
<1>4. WithContent(one) = one
  BY <1>1, <1>2, WithContentAppend
<1>5. Unsigned(one) = one
  BY <1>1, <1>2, UnsignedAppend
<1>. QED
  BY <1>2, <1>4, <1>5 DEF one, e

\* u is base with w after it.
Behind(base, u, w) ==
  Len(u) = Len(w) + 1 /\ u[1] = base /\ \A i \in 1 .. Len(w) : u[i + 1] = w[i]

\* A part more, on both sides.
LEMMA BehindAppend ==
  ASSUME NEW base, NEW X, NEW u \in Seq(X), NEW Y, NEW w \in Seq(Y), NEW t \in X, t \in Y,
         Behind(base, u, w)
  PROVE  Behind(base, Append(u, t), Append(w, t))
<1> DEFINE v == Append(u, t)
           z == Append(w, t)
           n == Len(w)
<1>1. n \in Nat /\ Len(u) = n + 1 /\ u[1] = base /\ \A i \in 1 .. n : u[i + 1] = w[i]
  BY LenProperties DEF Behind
<1>2. Len(v) = Len(u) + 1 /\ v[Len(u) + 1] = t /\ \A i \in 1 .. Len(u) : v[i] = u[i]
  BY AppendProperties
<1>3. Len(z) = n + 1 /\ z[n + 1] = t /\ \A i \in 1 .. n : z[i] = w[i]
  BY AppendProperties
<1> HIDE DEF v, z, n
<1>4. v[1] = base /\ Len(v) = Len(z) + 1
  BY <1>1, <1>2, <1>3
<1>5. ASSUME NEW i \in 1 .. Len(z) PROVE v[i + 1] = z[i]
  <2>1. CASE i = n + 1
    BY <1>1, <1>2, <1>3, <2>1
  <2>2. CASE i # n + 1
    <3>1. i \in 1 .. n /\ i + 1 \in 1 .. Len(u)
      BY <1>1, <1>3, <2>2
    <3>. QED
      BY <1>1, <1>2, <1>3, <3>1
  <2>. QED
    BY <2>1, <2>2
<1>. QED
  BY <1>4, <1>5 DEF Behind, v, z

\* What is left of the parts E is the URL with what is left of D after it.
PartsBehind(base, E, D) == Behind(base, Unsigned(WithContent(E)), WithContent(D))

\* A symbol more of the query: the parts still follow the URL.
LEMMA PartsBehindStill ==
  ASSUME NEW A \in SUBSET Symbol, NEW B \in SUBSET A, "oauth_signature" \notin B, NEW base,
         NEW E \in Seq(Seq(A)), NEW D \in Seq(Seq(B)), NEW t \in Seq(B), PartsBehind(base, E, D)
  PROVE  PartsBehind(base, Append(E, t), Append(D, t))
<1> DEFINE W == WithContent(E)
           u == Unsigned(W)
           w == WithContent(D)
<1>0. t \in Seq(A) /\ t \in Seq(Symbol)
  <2>1. A \subseteq Symbol /\ B \subseteq A
    OBVIOUS
  <2>. QED
    BY <2>1, SeqMonotonic
<1>1. W \in Seq(Seq(A)) /\ WithContent(Append(E, t)) = IF t = <<>> THEN W ELSE Append(W, t)
  BY <1>0, WithContentAppend
<1>2. w \in Seq(Seq(B)) /\ WithContent(Append(D, t)) = IF t = <<>> THEN w ELSE Append(w, t)
  BY WithContentAppend
<1>3. ~IsSignature(t)
  <2>1. t = <<>> \/ t[1] # "oauth_signature"
    <3>1. ASSUME t # <<>> PROVE t[1] \in B
      <4>1. 1 \in 1 .. Len(t)
        BY <3>1, EmptySeq, LenProperties
      <4>. QED
        BY <4>1, ElementOfSeq
    <3>. QED
      BY <3>1
  <2>2. "oauth_signature" \in Symbol
    BY NamesAreSymbols
  <2>. QED
    BY <1>0, <2>1, <2>2, OtherStart DEF IsSignature
<1> HIDE DEF W
<1>4. u \in Seq(Seq(A)) /\ Unsigned(Append(W, t)) = Append(u, t)
  BY <1>0, <1>1, <1>3, UnsignedAppend
<1>5. Behind(base, u, w)
  BY DEF PartsBehind, W
<1> HIDE DEF u, w
<1>6. CASE t = <<>>
  BY <1>1, <1>2, <1>5, <1>6 DEF PartsBehind, u
<1>7. CASE t # <<>>
  <2>1. Behind(base, Append(u, t), Append(w, t))
    BY <1>0, <1>2, <1>4, <1>5, BehindAppend
  <2>2. Unsigned(WithContent(Append(E, t))) = Append(u, t) /\ WithContent(Append(D, t)) = Append(w, t)
    BY <1>1, <1>2, <1>4, <1>7
  <2>. QED
    BY <2>1, <2>2 DEF PartsBehind
<1>. QED
  BY <1>6, <1>7

\* The text is the URL and the query.
IsWhole(text, base, q) ==
  /\ Len(text) = Len(base) + 1 + Len(q) /\ text[Len(base) + 1] = "?"
  /\ \A i \in 1 .. Len(base) : text[i] = base[i]
  /\ \A i \in 1 .. Len(q) : text[Len(base) + 1 + i] = q[i]

\* The parts of the text are the URL and the parts of the query.
LEMMA PartsFollow ==
  ASSUME NEW A \in SUBSET Symbol, NEW B \in SUBSET A, "?" \notin B, "oauth_signature" \notin B,
         NEW base \in Seq(A), base # <<>>, ~IsSignature(base),
         \A i \in 1 .. Len(base) : base[i] \notin Separator,
         NEW q \in Seq(B), NEW text \in Seq(A), (text = base /\ q = <<>>) \/ IsWhole(text, base, q)
  PROVE  /\ Behind(base, Unsigned(Tokens(text, Separator)), Tokens(q, {"&"}))
         /\ Tokens(q, {"&"}) \in Seq(Seq(B)) /\ Unsigned(Tokens(text, Separator)) \in Seq(Seq(A))
<1> DEFINE e == <<>>
           b == Len(base)
           n == Len(q)
           D0 == Append(e, base)
<1>0. /\ b \in Nat /\ n \in Nat /\ text \in Seq(Symbol) /\ base \in Seq(Symbol) /\ b <= Len(text)
      /\ \A i \in 1 .. n : q[i] \in B /\ q[i] \in A
      /\ \A i \in 1 .. b : text[i] = base[i]
  <2>1. b \in Nat /\ n \in Nat /\ \A i \in 1 .. n : q[i] \in B
    BY LenProperties, ElementOfSeq
  <2>2. text \in Seq(Symbol) /\ base \in Seq(Symbol)
    BY SeqMonotonic
  <2>3. b <= Len(text)
    BY <2>1 DEF IsWhole
  <2>4. \A i \in 1 .. b : text[i] = base[i]
    BY DEF IsWhole
  <2>. QED
    BY <2>1, <2>2, <2>3, <2>4
<1>1. PICK cut : IsCut(cut, text, Separator)
  BY <1>0, CutExists
<1>2. PICK sub : IsCut(sub, q, {"&"})
  BY CutExists
<1>3. cut[b] = D0
  <2>1. Opens(cut[0], e)
    <3>1. cut[0] = << <<>> >>
      BY <1>1 DEF IsCut
    <3>2. Append(<<>>, <<>>) = << <<>> >>
      OBVIOUS
    <3>. QED
      BY <3>1, <3>2 DEF Opens
  <2>2. e \in Seq(Seq(Symbol))
    BY EmptySeq
  <2> HIDE DEF e
  <2>3. NoneIn(text, 0, b, Separator)
    BY <1>0 DEF NoneIn
  <2>4. 0 \in 0 .. Len(text) /\ b \in 0 .. Len(text) /\ b \in 0 .. Len(text)
    BY <1>0
  <2>5. cut[b] = Append(e, SubSeq(text, 0 + 1, b))
    <3> HIDE DEF b
    <3>. QED
      BY <1>0, <1>1, <2>1, <2>2, <2>3, <2>4, OverToken
  <2>6. SubSeq(text, 0 + 1, b) = base
    <3>1. StandsAt(text, 0, base)
      BY <1>0 DEF StandsAt
    <3>2. b = 0 + Len(base) /\ b <= Len(text) /\ 0 \in Nat
      BY <1>0, <2>4
    <3>. QED
      BY <1>0, <3>1, <3>2, StandsSub
  <2>. QED
    BY <2>5, <2>6
<1>4. e \in Seq(Seq(A)) /\ e \in Seq(A) /\ e \in Seq(B) /\ e \in Seq(Seq(B))
  BY EmptySeq
<1>5. D0 \in Seq(Seq(A))
  BY <1>4, AppendProperties
<1>6. PartsBehind(base, D0, e)
  <2>1. Unsigned(WithContent(D0)) = D0 /\ WithContent(e) = e
    BY UrlIsLeft
  <2>2. Len(D0) = 1 /\ D0[1] = base /\ Len(e) = 0
    <3>1. Len(e) = 0
      OBVIOUS
    <3> HIDE DEF e
    <3>. QED
      BY <1>4, <3>1, AppendProperties
  <2> HIDE DEF e, D0
  <2>3. Behind(base, D0, e)
    BY <2>2 DEF Behind
  <2>. QED
    BY <2>1, <2>3 DEF PartsBehind
<1>7. Tokens(text, Separator) = WithContent(cut[Len(text)]) /\ Tokens(q, {"&"}) = WithContent(sub[n])
  BY <1>1, <1>2 DEF IsCut
<1>8. sub[0] = Append(e, e)
  <2>1. sub[0] = << <<>> >>
    BY <1>2 DEF IsCut
  <2>2. Append(<<>>, <<>>) = << <<>> >>
    OBVIOUS
  <2>. QED
    BY <2>1, <2>2
<1> HIDE DEF e, b, n
<1>9. \E E \in Seq(Seq(A)), D \in Seq(Seq(B)) :
        E = cut[Len(text)] /\ D = sub[n] /\ PartsBehind(base, E, D)
  <2>1. CASE text = base /\ q = <<>>
    <3>1. Len(text) = b /\ n = 0
      BY <2>1 DEF b, n
    <3>2. Append(e, e) \in Seq(Seq(B))
      BY <1>4, AppendProperties
    <3>3. WithContent(Append(e, e)) = WithContent(e)
      <4>1. e = <<>>
        BY DEF e
      <4>. QED
        BY <1>4, <4>1, WithContentAppend
    <3>4. PartsBehind(base, D0, Append(e, e))
      BY <1>6, <3>3 DEF PartsBehind
    <3>. QED
      BY <1>3, <1>5, <1>8, <3>1, <3>2, <3>4
  <2>2. CASE IsWhole(text, base, q)
    <3> DEFINE Inv(k) == \E E \in Seq(Seq(A)), D \in Seq(Seq(B)), t \in Seq(B) :
                           /\ cut[b + 1 + k] = Append(E, t) /\ sub[k] = Append(D, t)
                           /\ PartsBehind(base, E, D)
               Done == {k \in Nat : k <= n => Inv(k)}
    <3>1. /\ Len(text) = b + 1 + n /\ text[b + 1] = "?"
          /\ \A i \in 1 .. n : text[b + 1 + i] = q[i]
      BY <2>2 DEF IsWhole, b, n
    <3>2. Inv(0)
      <4>1. b \in 0 .. Len(text) - 1 /\ b + 1 + 0 = b + 1
        BY <1>0, <3>1
      <4>2. cut[b + 1] = AddChar(cut[b], text[b + 1], Separator)
        BY <1>1, <4>1 DEF IsCut
      <4>3. text[b + 1] \in Separator
        BY <3>1 DEF Separator
      <4>4. cut[b + 1] = Append(D0, e)
        BY <1>3, <4>2, <4>3 DEF AddChar, e
      <4>. QED
        BY <1>4, <1>5, <1>6, <1>8, <4>1, <4>4
    <3>3. ASSUME NEW k \in 0 .. n - 1, Inv(k) PROVE Inv(k + 1)
      <4>1. /\ k \in Nat /\ k + 1 \in 1 .. n /\ b + 1 + k \in 0 .. Len(text) - 1
            /\ b + 1 + (k + 1) = (b + 1 + k) + 1 /\ k \in 0 .. Len(q) - 1
        BY <1>0, <3>1 DEF n
      <4>2. PICK E \in Seq(Seq(A)), D \in Seq(Seq(B)), t \in Seq(B) :
                   /\ cut[b + 1 + k] = Append(E, t) /\ sub[k] = Append(D, t)
                   /\ PartsBehind(base, E, D)
        BY <3>3
      <4>3. PICK c \in B : c = q[k + 1]
        BY <1>0, <4>1
      <4>4. c \in A /\ t \in Seq(A) /\ (c \in Separator <=> c \in {"&"})
        <5>1. c # "?"
          OBVIOUS
        <5>2. t \in Seq(A)
          BY SeqMonotonic
        <5>. QED
          BY <5>1, <5>2 DEF Separator
      <4>5. text[(b + 1 + k) + 1] = c
        BY <3>1, <4>1, <4>3
      <4>6. cut[(b + 1 + k) + 1] = AddChar(Append(E, t), c, Separator)
        <5>1. cut[(b + 1 + k) + 1] = AddChar(cut[b + 1 + k], text[(b + 1 + k) + 1], Separator)
          BY <1>1, <4>1 DEF IsCut
        <5>. QED
          BY <4>2, <4>5, <5>1
      <4>7. sub[k + 1] = AddChar(Append(D, t), c, {"&"})
        <5>1. sub[k + 1] = AddChar(sub[k], q[k + 1], {"&"})
          BY <1>2, <4>1 DEF IsCut
        <5>. QED
          BY <4>2, <4>3, <5>1
      <4>8. cut[(b + 1 + k) + 1] = IF c \in Separator THEN Append(Append(E, t), e) ELSE Append(E, Append(t, c))
        <5>1. PICK none : none = <<>> /\ none = e
          BY DEF e
        <5>2. PICK parts : parts = Append(E, t)
          OBVIOUS
        <5>3. PICK next : next = AddChar(parts, c, Separator)
          OBVIOUS
        <5>4. /\ c \in Separator => next = Append(parts, e)
              /\ c \notin Separator => next = Append(E, Append(t, c))
          <6>1. CASE c \in Separator
            <7>1. next = Append(parts, none)
              BY ONLY <5>1, <5>3, <6>1 DEF AddChar
            <7>. QED
              BY ONLY <5>1, <6>1, <7>1
          <6>2. CASE c \notin Separator
            <7>0. E \in Seq(Seq(A)) /\ t \in Seq(A) /\ c \in A
              BY <4>4
            <7>1. next = Append(E, Append(t, c))
              BY ONLY <7>0, <5>1, <5>2, <5>3, <6>2, AddCharGoesOn
            <7>. QED
              BY ONLY <6>2, <7>1
          <6>. QED
            BY <6>1, <6>2
        <5>. QED
          BY ONLY <4>6, <5>2, <5>3, <5>4
      <4>9. sub[k + 1] = IF c \in {"&"} THEN Append(Append(D, t), e) ELSE Append(D, Append(t, c))
        <5>1. PICK none : none = <<>> /\ none = e
          BY DEF e
        <5>2. PICK parts : parts = Append(D, t)
          OBVIOUS
        <5>3. PICK next, seps : next = AddChar(parts, c, seps) /\ seps = {"&"}
          OBVIOUS
        <5>4. /\ c \in seps => next = Append(parts, e)
              /\ c \notin seps => next = Append(D, Append(t, c))
          <6>1. CASE c \in seps
            <7>1. next = Append(parts, none)
              BY ONLY <5>1, <5>3, <6>1 DEF AddChar
            <7>. QED
              BY ONLY <5>1, <6>1, <7>1
          <6>2. CASE c \notin seps
            <7>0. D \in Seq(Seq(B)) /\ t \in Seq(B) /\ c \in B
              BY <4>4
            <7>1. next = Append(D, Append(t, c))
              BY ONLY <7>0, <5>1, <5>2, <5>3, <6>2, AddCharGoesOn
            <7>. QED
              BY ONLY <6>2, <7>1
          <6>. QED
            BY <6>1, <6>2
        <5>. QED
          BY ONLY <4>7, <5>2, <5>3, <5>4
      <4>10. CASE c \in Separator
        <5>1. cut[b + 1 + (k + 1)] = Append(Append(E, t), e) /\ sub[k + 1] = Append(Append(D, t), e)
          BY ONLY <4>1, <4>4, <4>8, <4>9, <4>10
        <5>2. Append(E, t) \in Seq(Seq(A)) /\ Append(D, t) \in Seq(Seq(B))
          BY <4>4, AppendProperties
        <5>3. PartsBehind(base, Append(E, t), Append(D, t))
          BY <4>2, PartsBehindStill
        <5>. QED
          BY <1>4, <5>1, <5>2, <5>3
      <4>11. CASE c \notin Separator
        <5>1. cut[b + 1 + (k + 1)] = Append(E, Append(t, c)) /\ sub[k + 1] = Append(D, Append(t, c))
          BY ONLY <4>1, <4>4, <4>8, <4>9, <4>11
        <5>2. Append(t, c) \in Seq(B)
          BY AppendProperties
        <5>. QED
          BY <4>2, <5>1, <5>2
      <4>. QED
        BY <4>10, <4>11
    <3> HIDE DEF Inv
    <3>4. Inv(n)
      <4>1. 0 \in Done
        BY <3>2
      <4>2. ASSUME NEW k \in Nat, k \in Done PROVE k + 1 \in Done
        <5>1. ASSUME k + 1 <= n PROVE Inv(k + 1)
          <6>1. k \in 0 .. n - 1 /\ k <= n
            BY <1>0, <5>1
          <6>. QED
            BY <3>3, <4>2, <6>1
        <5>. QED
          BY <5>1
      <4> HIDE DEF Done
      <4>3. n \in Done
        BY <1>0, <4>1, <4>2, NumberInduction
      <4>. QED
        BY <1>0, <4>3 DEF Done
    <3>5. PICK E \in Seq(Seq(A)), D \in Seq(Seq(B)), t \in Seq(B) :
                   /\ cut[b + 1 + n] = Append(E, t) /\ sub[n] = Append(D, t)
                   /\ PartsBehind(base, E, D)
      BY <3>4 DEF Inv
    <3>6. PartsBehind(base, Append(E, t), Append(D, t))
      BY <3>5, PartsBehindStill
    <3>7. Append(E, t) \in Seq(Seq(A)) /\ Append(D, t) \in Seq(Seq(B))
      <4>1. t \in Seq(A)
        BY SeqMonotonic
      <4>. QED
        BY <4>1, AppendProperties
    <3>. QED
      BY <3>1, <3>5, <3>6, <3>7
  <2>. QED
    BY <2>1, <2>2
<1>10. PICK E \in Seq(Seq(A)), D \in Seq(Seq(B)) :
        E = cut[Len(text)] /\ D = sub[n] /\ PartsBehind(base, E, D)
  BY <1>9
<1>11. WithContent(E) \in Seq(Seq(A)) /\ WithContent(D) \in Seq(Seq(B))
  BY <1>4, WithContentAppend
<1>12. Unsigned(WithContent(E)) \in Seq(Seq(A))
  BY <1>4, <1>11, UnsignedAppend
<1>. QED
  BY <1>7, <1>10, <1>11, <1>12 DEF PartsBehind

-----------------------------------------------------------------------------
(* A name and a value are unescaped each on its own.                       *)

\* b is what stands in t after place n, and a is what stands before it, where
\* there is an "=".
IsAfter(b, t, n) ==
  n \in Nat /\ Len(b) \in Nat /\ Len(t) = n + Len(b) /\ \A i \in 1 .. Len(b) : b[i] = t[n + i]
IsBefore(a, t, n) ==
  n \in 1 .. Len(t) /\ Len(t) \in Nat /\ t[n] = "=" /\ Len(a) = n - 1 /\ \A i \in 1 .. n - 1 : a[i] = t[i]

\* f reads s and gives texts of U.
ReadsTo(f, s, U) == f \in [Nat -> Seq(U)] /\ Reads(f, s)
\* f gives what g gives, and goes on from place n.
GoesOn(f, g, n) == f[1] = g[1] \o f[n]

\* What is read of t after place n is what is read of the rest of t.
LEMMA ReadsAfter ==
  ASSUME NEW t, NEW b, NEW f, NEW h, Reads(f, t), Reads(h, b), NEW n, IsAfter(b, t, n)
  PROVE  \A k \in Nat \ {0} : f[n + k] = h[k]
<1> DEFINE l == Len(b)
           Good(k) == f[n + k] = h[k]
           T == {m \in Nat : \A k \in Nat \ {0} : k > m => Good(k)}
<1>0. n \in Nat /\ l \in Nat /\ Len(t) = n + l /\ \A i \in 1 .. l : b[i] = t[n + i]
  BY DEF IsAfter
<1>00. \A k \in Nat \ {0} : f[n + k] = At(t, f, n + k) /\ h[k] = At(b, h, k)
  BY <1>0 DEF Reads
<1>1. ASSUME NEW k \in Nat \ {0}, k > l PROVE Good(k)
  <2>1. n + k > Len(t) /\ k > Len(b)
    BY <1>0, <1>1
  <2>2. At(t, f, n + k) = <<>>
    BY <2>1, Zenon DEF At
  <2>3. At(b, h, k) = <<>>
    BY <2>1, Zenon DEF At
  <2>. QED
    BY <1>00, <2>2, <2>3
<1>2. ASSUME NEW k \in 1 .. l, Good(k + 1), Good(k + 3) PROVE Good(k)
  <2>0. /\ k \in Nat \ {0} /\ ~(n + k > Len(t)) /\ ~(k > Len(b)) /\ n + k + 1 = n + (k + 1) /\ n + k + 2 = n + (k + 2)
        /\ n + k + 3 = n + (k + 3) /\ (n + k + 2 <= Len(t) <=> k + 2 <= Len(b))
    BY <1>0
  <2>1. t[n + k] = b[k]
    BY <1>0
  <2>2. f[n + k + 1] = h[k + 1] /\ f[n + k + 3] = h[k + 3]
    BY <1>2, <2>0
  <2> DEFINE ft == t[n + k] = "%" /\ n + k + 2 <= Len(t) /\ {t[n + k + 1], t[n + k + 2]} \subseteq HexDigit
             hb == b[k] = "%" /\ k + 2 <= Len(b) /\ {b[k + 1], b[k + 2]} \subseteq HexDigit
  <2>3. k + 2 <= Len(b) => t[n + k + 1] = b[k + 1] /\ t[n + k + 2] = b[k + 2]
    <3>1. ASSUME k + 2 <= Len(b) PROVE t[n + k + 1] = b[k + 1] /\ t[n + k + 2] = b[k + 2]
      <4>1. k + 1 \in 1 .. l /\ k + 2 \in 1 .. l
        BY <1>0, <3>1
      <4>. QED
        BY <1>0, <2>0, <4>1
    <3>. QED
      BY <3>1
  <2>4. CASE hb
    <3>1. ft /\ t[n + k + 1] = b[k + 1] /\ t[n + k + 2] = b[k + 2]
      BY <2>0, <2>1, <2>3, <2>4
    <3>2. At(t, f, n + k) = <<Unhex(t[n + k + 1], t[n + k + 2])>> \o f[n + k + 3]
      BY <2>0, <3>1, Zenon DEF At
    <3>3. At(b, h, k) = <<Unhex(b[k + 1], b[k + 2])>> \o h[k + 3]
      BY <2>0, <2>4, Zenon DEF At
    <3>. QED
      BY <1>00, <2>0, <2>2, <3>1, <3>2, <3>3, Zenon
  <2>5. CASE ~hb
    <3>1. ~ft
      BY <2>0, <2>1, <2>3, <2>5
    <3>2. At(t, f, n + k) = <<t[n + k]>> \o f[n + k + 1]
      BY <2>0, <3>1, Zenon DEF At
    <3>3. At(b, h, k) = <<b[k]>> \o h[k + 1]
      BY <2>0, <2>5, Zenon DEF At
    <3>. QED
      BY <1>00, <2>0, <2>1, <2>2, <3>2, <3>3, Zenon
  <2>. QED
    BY <2>4, <2>5
<1> HIDE DEF Good, l
<1>3. l \in T
  BY <1>0, <1>1
<1>4. ASSUME NEW m \in 0 .. l - 1, m + 1 \in T PROVE m \in T
  <2>1. SUFFICES ASSUME NEW k \in Nat \ {0}, k > m PROVE Good(k)
    OBVIOUS
  <2>2. CASE k > m + 1
    BY <1>4, <2>2
  <2>3. CASE ~(k > m + 1)
    <3>1. k = m + 1 /\ k \in 1 .. l /\ k + 1 > m + 1 /\ k + 3 > m + 1 /\ k + 1 \in Nat \ {0} /\ k + 3 \in Nat \ {0}
      BY <1>0, <2>1, <2>3
    <3>2. Good(k + 1) /\ Good(k + 3)
      BY <1>4, <3>1
    <3>. QED
      BY <1>2, <3>1, <3>2
  <2>. QED
    BY <2>2, <2>3
<1>5. 0 \in T
  <2> HIDE DEF T
  <2>1. \A m \in 0 .. l - 1 : m + 1 \in T => m \in T
    BY <1>4
  <2>2. 0 \in 0 .. l
    BY <1>0
  <2>. QED
    BY <1>0, <1>3, <2>1, <2>2, DownwardInduction
<1>6. \A k \in Nat \ {0} : Good(k)
  BY <1>5
<1>. QED
  BY <1>6 DEF Good

\* What is read of t up to an "=" is what is read of that part of t.
LEMMA ReadsBefore ==
  ASSUME NEW U, NEW t, NEW a, NEW f, NEW g, ReadsTo(f, t, U), ReadsTo(g, a, U),
         NEW A, Unescapes(A, U), a \in Seq(A), NEW n, IsBefore(a, t, n)
  PROVE  GoesOn(f, g, n)
<1> DEFINE last == f[n]
           Good(k) == f[k] = g[k] \o last
           T == {m \in Nat : \A k \in m + 1 .. n : Good(k)}
<1>. f \in [Nat -> Seq(U)] /\ g \in [Nat -> Seq(U)] /\ Reads(f, t) /\ Reads(g, a)
  BY DEF ReadsTo
<1>. n \in Nat \ {0} /\ Len(t) \in Nat /\ n <= Len(t) /\ t[n] = "=" /\ Len(a) = n - 1 /\ \A i \in 1 .. n - 1 : a[i] = t[i]
  BY DEF IsBefore
<1>0. last \in Seq(U) /\ \A k \in Nat : g[k] \in Seq(U)
  OBVIOUS
<1>00. \A k \in Nat \ {0} : f[k] = At(t, f, k) /\ g[k] = At(a, g, k)
  BY DEF Reads
<1>1. Good(n)
  <2>1. n > Len(a)
    OBVIOUS
  <2>2. At(a, g, n) = <<>>
    BY <2>1, Zenon DEF At
  <2>3. g[n] = <<>>
    BY <1>00, <2>2
  <2>4. <<>> \o last = last
    <3> HIDE DEF last
    <3>. QED
      BY <1>0, ConcatEmptySeq
  <2>. QED
    BY <2>3, <2>4
<1>2. ASSUME NEW x \in U, NEW k \in Nat PROVE (<<x>> \o g[k]) \o last = <<x>> \o (g[k] \o last)
  <2> DEFINE one == <<x>>
             r == g[k]
  <2>1. one \in Seq(U) /\ r \in Seq(U)
    BY <1>0
  <2> HIDE DEF one, r, last
  <2>2. (one \o r) \o last = one \o (r \o last)
    <3>1. one \in Seq(U) /\ r \in Seq(U) /\ last \in Seq(U)
      BY <1>0, <2>1
    <3>. QED
      BY ONLY <3>1, ConcatAssociative
  <2>. QED
    BY <2>2 DEF one, r
<1>3. ASSUME NEW k \in 1 .. n - 1, Good(k + 1), k + 3 <= n => Good(k + 3) PROVE Good(k)
  <2>0. k \in Nat \ {0} /\ ~(k > Len(t)) /\ ~(k > Len(a)) /\ k + 1 \in Nat /\ k + 3 \in Nat
    <3>1. k \in 1 .. n - 1 /\ n \in Nat \ {0} /\ Len(t) \in Nat /\ n <= Len(t) /\ Len(a) = n - 1
      OBVIOUS
    <3>. QED
      BY ONLY <3>1
  <2>1. a[k] = t[k] /\ a[k] \in A
    BY <2>0, ElementOfSeq
  <2> DEFINE ft == t[k] = "%" /\ k + 2 <= Len(t) /\ {t[k + 1], t[k + 2]} \subseteq HexDigit
             ga == a[k] = "%" /\ k + 2 <= Len(a) /\ {a[k + 1], a[k + 2]} \subseteq HexDigit
  <2>2. CASE ga
    <3>1. k + 1 \in 1 .. n - 1 /\ k + 2 \in 1 .. n - 1 /\ k + 1 \in 1 .. Len(a) /\ k + 2 \in 1 .. Len(a) /\ k + 3 <= n
      BY <2>0, <2>2
    <3>2. a[k + 1] = t[k + 1] /\ a[k + 2] = t[k + 2] /\ a[k + 1] \in A /\ a[k + 2] \in A
      BY <3>1, ElementOfSeq
    <3>3. ft
      BY <2>1, <2>2, <3>1, <3>2
    <3>4. At(t, f, k) = <<Unhex(t[k + 1], t[k + 2])>> \o f[k + 3]
      BY <2>0, <3>3, Zenon DEF At
    <3>5. At(a, g, k) = <<Unhex(a[k + 1], a[k + 2])>> \o g[k + 3]
      BY <2>0, <2>2, Zenon DEF At
    <3>6. f[k + 3] = g[k + 3] \o last
      BY <1>3, <3>1
    <3>7. PICK x \in U : x = Unhex(a[k + 1], a[k + 2])
      BY <2>2, <3>2 DEF Unescapes
    <3>8. (<<x>> \o g[k + 3]) \o last = <<x>> \o (g[k + 3] \o last)
      BY <1>2, <2>0
    <3>9. f[k] = <<x>> \o (g[k + 3] \o last) /\ g[k] = <<x>> \o g[k + 3]
      BY <1>00, <2>0, <3>2, <3>4, <3>5, <3>6, <3>7, Zenon
    <3>. QED
      BY <3>8, <3>9, Zenon
  <2>3. CASE ~ga
    <3>1. ~ft
      <4>1. SUFFICES ASSUME ft PROVE FALSE
        OBVIOUS
      <4>2. t[k + 1] # "=" /\ t[k + 2] # "="
        BY <4>1 DEF HexDigit
      <4>3. k + 1 # n /\ k + 2 # n
        BY <4>2
      <4>4. k + 2 <= Len(a)
        BY <2>0, <4>3
      <4>5. k + 1 \in 1 .. n - 1 /\ k + 2 \in 1 .. n - 1
        BY <2>0, <4>4
      <4>6. a[k + 1] = t[k + 1] /\ a[k + 2] = t[k + 2]
        BY <4>5
      <4>. QED
        BY <2>1, <2>3, <4>1, <4>4, <4>6
    <3>2. At(t, f, k) = <<t[k]>> \o f[k + 1]
      BY <2>0, <3>1, Zenon DEF At
    <3>3. At(a, g, k) = <<a[k]>> \o g[k + 1]
      BY <2>0, <2>3, Zenon DEF At
    <3>4. PICK x \in U : x = a[k]
      BY <2>1 DEF Unescapes
    <3>5. (<<x>> \o g[k + 1]) \o last = <<x>> \o (g[k + 1] \o last)
      BY <1>2, <2>0
    <3>6. f[k + 1] = g[k + 1] \o last
      BY <1>3
    <3>7. f[k] = <<x>> \o (g[k + 1] \o last) /\ g[k] = <<x>> \o g[k + 1]
      BY <1>00, <2>0, <2>1, <3>2, <3>3, <3>4, <3>6, Zenon
    <3>. QED
      BY <3>5, <3>7, Zenon
  <2>. QED
    BY <2>2, <2>3
<1> HIDE DEF Good
<1>4. n \in T
  OBVIOUS
<1>5. ASSUME NEW m \in 0 .. n - 1, m + 1 \in T PROVE m \in T
  <2>1. SUFFICES ASSUME NEW k \in m + 1 .. n PROVE Good(k)
    OBVIOUS
  <2>2. CASE k > m + 1
    <3>1. k \in (m + 1) + 1 .. n
      BY <2>2
    <3>. QED
      BY <1>5, <3>1
  <2>3. CASE ~(k > m + 1)
    <3>1. k = m + 1
      BY <2>1, <2>3
    <3>2. CASE k = n
      BY <1>1, <3>2
    <3>3. CASE k # n
      <4>1. k \in 1 .. n - 1 /\ k + 1 \in (m + 1) + 1 .. n
        BY <3>1, <3>3
      <4>2. Good(k + 1)
        BY <1>5, <4>1
      <4>3. k + 3 <= n => Good(k + 3)
        <5>1. ASSUME k + 3 <= n PROVE Good(k + 3)
          <6>1. k + 3 \in (m + 1) + 1 .. n
            BY <3>1, <5>1
          <6>. QED
            BY <1>5, <6>1
        <5>. QED
          BY <5>1
      <4>. QED
        BY <1>3, <4>1, <4>2, <4>3
    <3>. QED
      BY <3>2, <3>3
  <2>. QED
    BY <2>2, <2>3
<1>6. 0 \in T
  <2> HIDE DEF T
  <2>1. \A m \in 0 .. n - 1 : m + 1 \in T => m \in T
    BY <1>5
  <2>2. 0 \in 0 .. n
    OBVIOUS
  <2>. QED
    BY <1>4, <2>1, <2>2, DownwardInduction
<1>7. Good(1)
  <2>1. 1 \in 0 + 1 .. n
    OBVIOUS
  <2>. QED
    BY <1>6, <2>1
<1>. QED
  BY <1>7 DEF Good, GoesOn

\* What the symbols that come of it are.
LEMMA UnescapeType ==
  ASSUME NEW A, NEW U, Unescapes(A, U), NEW s \in Seq(A)
  PROVE  UrlUnescape(s) \in Seq(U)
<1>1. PICK f \in [Nat -> Seq(U)] : UrlUnescape(s) = f[1] /\ Reads(f, s)
  BY UnescapeIs
<1>2. f[1] \in Seq(U)
  OBVIOUS
<1>. QED
  BY <1>1, <1>2

\* Of nothing comes nothing.
LEMMA NothingUnescaped ==
  ASSUME NEW A, NEW U, Unescapes(A, U)
  PROVE  UrlUnescape(<<>>) = <<>>
<1> DEFINE e == <<>>
<1>1. e \in Seq(A) /\ Len(e) = 0
  BY EmptySeq
<1> HIDE DEF e
<1>2. \A i \in 1 .. Len(e) : e[i] # "%"
  BY <1>1
<1>3. UrlUnescape(e) = e
  BY <1>1, <1>2, NothingToUnescape
<1>. QED
  BY <1>3 DEF e

\* What stands before the first "=" and after it is unescaped on its own.
LEMMA UnescapeAround ==
  ASSUME NEW A, NEW U, Unescapes(A, U), "=" \in A, NEW t \in Seq(A), HasValue(t)
  PROVE  UrlUnescape(t) = UrlUnescape(Name(t)) \o <<"=">> \o UrlUnescape(Value(t))
<1> DEFINE a == Name(t)
           b == Value(t)
<1>1. a \in Seq(A) /\ b \in Seq(A)
  BY NameIs
<1>2. PICK n : /\ n \in 1 .. Len(t) /\ t[n] = "=" /\ \A k \in 1 .. n - 1 : t[k] # "="
               /\ a = SubSeq(t, 1, n - 1) /\ b = SubSeq(t, n + 1, Len(t))
  BY NameIs
<1>3. Len(t) \in Nat /\ n \in Nat \ {0} /\ n <= Len(t)
  BY <1>2, LenProperties
<1>4. Len(a) = n - 1 /\ \A i \in 1 .. n - 1 : a[i] = t[i]
  <2> DEFINE m == n - 1
  <2>1. 1 \in Nat \ {0} /\ m \in Nat /\ 1 <= m + 1 /\ m <= Len(t) /\ m - 1 + 1 = m
    BY <1>3
  <2> HIDE DEF m
  <2>2. /\ Len(SubSeq(t, 1, m)) = m - 1 + 1
        /\ \A i \in 1 .. m - 1 + 1 : SubSeq(t, 1, m)[i] = t[1 + i - 1]
    BY <2>1, SubIs
  <2>3. a = SubSeq(t, 1, m)
    BY <1>2, Zenon DEF m
  <2> HIDE DEF a
  <2>4. Len(a) = m /\ \A i \in 1 .. m : a[i] = t[1 + i - 1]
    BY <2>1, <2>2, <2>3
  <2>5. \A i \in 1 .. m : 1 + i - 1 = i
    BY <2>1
  <2>. QED
    BY <2>4, <2>5 DEF m
<1>5. Len(t) = n + Len(b) /\ Len(b) \in Nat /\ \A i \in 1 .. Len(b) : b[i] = t[n + i]
  <2> DEFINE m == n + 1
             l == Len(t)
  <2>1. m \in Nat \ {0} /\ l \in Nat /\ m <= l + 1 /\ l <= Len(t) /\ l - m + 1 = l - n /\ l - n \in Nat
    BY <1>3
  <2>2. \A i \in 1 .. l - n : m + i - 1 = n + i
    BY <1>3
  <2> HIDE DEF m, l
  <2>3. /\ Len(SubSeq(t, m, l)) = l - m + 1
        /\ \A i \in 1 .. l - m + 1 : SubSeq(t, m, l)[i] = t[m + i - 1]
    BY <2>1, SubIs
  <2>4. b = SubSeq(t, m, l)
    BY <1>2, Zenon DEF m, l
  <2> HIDE DEF b
  <2>5. Len(b) = l - n /\ \A i \in 1 .. l - n : b[i] = t[m + i - 1]
    BY <2>1, <2>3, <2>4
  <2>6. l = n + Len(b)
    BY <1>3, <2>1, <2>5
  <2>. QED
    BY <2>1, <2>2, <2>5, <2>6 DEF l
<1> HIDE DEF a, b
<1>6. PICK f : f \in [Nat -> Seq(U)] /\ UrlUnescape(t) = f[1] /\ Reads(f, t)
  BY UnescapeIs
<1>7. PICK g : g \in [Nat -> Seq(U)] /\ UrlUnescape(a) = g[1] /\ Reads(g, a)
  BY <1>1, UnescapeIs
<1>8. PICK h : h \in [Nat -> Seq(U)] /\ UrlUnescape(b) = h[1] /\ Reads(h, b)
  BY <1>1, UnescapeIs
<1>9. f[1] = g[1] \o f[n]
  <2>1. ReadsTo(f, t, U) /\ ReadsTo(g, a, U)
    BY <1>6, <1>7 DEF ReadsTo
  <2>3. Unescapes(A, U) /\ a \in Seq(A)
    BY <1>1
  <2>4. IsBefore(a, t, n)
    BY <1>2, <1>3, <1>4 DEF IsBefore
  <2>5. GoesOn(f, g, n)
    BY ONLY <2>1, <2>3, <2>4, ReadsBefore
  <2>. QED
    BY <2>5 DEF GoesOn
<1>10. f[n + 1] = h[1]
  <2>1. Reads(f, t) /\ Reads(h, b) /\ IsAfter(b, t, n)
    BY <1>3, <1>5, <1>6, <1>8 DEF IsAfter
  <2>2. \A k \in Nat \ {0} : f[n + k] = h[k]
    BY ONLY <2>1, ReadsAfter
  <2>3. 1 \in Nat \ {0}
    OBVIOUS
  <2>. QED
    BY ONLY <2>2, <2>3
<1>11. f[n] = <<"=">> \o f[n + 1]
  <2>1. f[n] = At(t, f, n)
    BY <1>3, <1>6 DEF Reads
  <2>2. ~(n > Len(t)) /\ t[n] # "%" /\ t[n] = "="
    BY <1>2, <1>3
  <2>3. At(t, f, n) = <<t[n]>> \o f[n + 1]
    BY <2>2, Zenon DEF At
  <2>. QED
    BY <2>1, <2>2, <2>3
<1>12. g[1] \in Seq(U) /\ h[1] \in Seq(U)
  BY <1>7, <1>8
<1>13. g[1] \o (<<"=">> \o h[1]) = (g[1] \o <<"=">>) \o h[1]
  <2> DEFINE e == <<"=">>
  <2>1. e \in Seq(U)
    <3>1. "=" \in U
      BY DEF Unescapes
    <3>. QED
      BY <3>1
  <2> DEFINE x == g[1]
             y == h[1]
  <2>2. x \in Seq(U) /\ y \in Seq(U)
    BY <1>12
  <2> HIDE DEF e, x, y
  <2>3. (x \o e) \o y = x \o (e \o y)
    <3>1. x \in Seq(U) /\ y \in Seq(U) /\ e \in Seq(U)
      BY <2>1, <2>2
    <3>. QED
      BY ONLY <3>1, ConcatAssociative
  <2>. QED
    BY <2>3 DEF e, x, y
<1>. QED
  BY <1>6, <1>7, <1>8, <1>9, <1>10, <1>11, <1>13, Zenon DEF a, b

\* A part, unescaped as a whole, has the unescaped name and value, unless an "="
\* is escaped in the name.
LEMMA PartKept ==
  ASSUME NEW A, NEW U, Unescapes(A, U), "=" \in A, NEW t \in Seq(A),
         ~Contains(UrlUnescape(Name(t)), "=")
  PROVE  NameAndValue(UrlUnescape(t)) =
           [name |-> UrlUnescape(Name(t)), value |-> UrlUnescape(Value(t))]
<1> DEFINE a == UrlUnescape(Name(t))
           b == UrlUnescape(Value(t))
           p == UrlUnescape(t)
<1>1. Name(t) \in Seq(A) /\ Value(t) \in Seq(A)
  BY NameIs
<1>2. a \in Seq(U) /\ b \in Seq(U) /\ p \in Seq(U)
  BY <1>1, UnescapeType
<1>3. "=" \in U
  BY DEF Unescapes
<1>4. \A i \in 1 .. Len(a) : a[i] # "="
  BY Zenon DEF Contains
<1>5. Name(p) = a /\ Value(p) = b
  <2>1. CASE HasValue(t)
    <3>1. p = a \o <<"=">> \o b
      BY <2>1, UnescapeAround
    <3> HIDE DEF p, a, b
    <3>. QED
      BY ONLY <1>2, <1>3, <1>4, <3>1, NameOf
  <2>2. CASE ~HasValue(t)
    <3>1. Name(t) = t /\ Value(t) = <<>>
      BY <2>2, NameIs
    <3>2. p = a /\ b = <<>>
      BY <3>1, NothingUnescaped
    <3> HIDE DEF p, a, b
    <3>3. ~HasValue(p)
      BY <1>4, <3>2 DEF HasValue, Contains
    <3>. QED
      BY <1>2, <3>2, <3>3, NameIs
  <2>. QED
    BY <2>1, <2>2
<1>. QED
  BY <1>5, Zenon DEF NameAndValue

-----------------------------------------------------------------------------
(* The parameters that are sent.                                           *)

\* How often a parameter is there after the first element.
Later(s, v) == Cardinality(Sent(Tail(s), v, Len(s) - 1))

\* Another parameter changes nothing.
LEMMA LaterSame ==
  ASSUME NEW s, s \in Seq(Seq(Symbol)), s # <<>>, NEW p, p \in Seq(Symbol), NEW v,
         NameAndValue(p) # v, NEW r, r = Append(s, p)
  PROVE  r \in Seq(Seq(Symbol)) /\ r # <<>> /\ Len(r) = Len(s) + 1 /\ Later(r, v) = Later(s, v)
<1> DEFINE n == Len(s)
           a == Tail(s)
           b == Tail(r)
<1>1. n \in Nat \ {0}
  BY EmptySeq
<1>2. r \in Seq(Seq(Symbol)) /\ r # <<>> /\ Len(r) = n + 1 /\ r[n + 1] = p /\ \A i \in 1 .. n : r[i] = s[i]
  BY AppendProperties
<1>3. Len(a) = n - 1 /\ \A i \in 1 .. Len(a) : a[i] = s[i + 1]
  BY HeadTailProperties
<1>4. Len(b) = n /\ \A i \in 1 .. Len(b) : b[i] = r[i + 1]
  BY <1>1, <1>2, HeadTailProperties
<1> HIDE DEF a, b, n
<1>5. \A i \in 1 .. n - 1 : b[i] = a[i]
  <2>1. ASSUME NEW i \in 1 .. n - 1 PROVE b[i] = a[i]
    <3>1. i \in 1 .. Len(a) /\ i \in 1 .. Len(b) /\ i + 1 \in 1 .. n
      BY <1>1, <1>3, <1>4
    <3>. QED
      BY <1>2, <1>3, <1>4, <3>1
  <2>. QED
    BY <2>1
<1>6. b[n] = p
  BY <1>1, <1>2, <1>4
<1>7. Sent(b, v, n - 1) = Sent(a, v, n - 1)
  BY <1>5 DEF Sent
<1>8. PICK m \in Nat : m = n - 1
  BY <1>1
<1>9. NameAndValue(b[m + 1]) # v
  <2>1. m + 1 = n
    BY <1>1, <1>8
  <2>. QED
    BY <1>6, <2>1
<1>10. Cardinality(Sent(b, v, m + 1)) = Cardinality(Sent(b, v, m))
  <2>1. Cardinality(Sent(b, v, m)) \in Nat
    BY SentFinite
  <2>2. Cardinality(Sent(b, v, m + 1)) = Cardinality(Sent(b, v, m)) + IF NameAndValue(b[m + 1]) = v THEN 1 ELSE 0
    BY SentNext
  <2>. QED
    BY <1>9, <2>1, <2>2
<1>11. Len(r) - 1 = m + 1 /\ Len(s) - 1 = m
  BY <1>1, <1>2, <1>8 DEF n
<1>12. Later(r, v) = Later(s, v)
  BY <1>7, <1>8, <1>10, <1>11 DEF Later, a, b
<1>. QED
  BY <1>2, <1>12 DEF n

\* A parameter whose name begins like one of the protocol is none of the others.
LEMMA OwnIsOther ==
  ASSUME NEW p \in Seq(Symbol), p # <<>>, p[1] \in OwnNames,
         NEW r, r.name \in Seq(Symbol \ OwnNames)
  PROVE  NameAndValue(p) # r
<1>1. 1 \in 1 .. Len(p) /\ Len(p) \in Nat
  BY EmptySeq, LenProperties
<1>2. Len(Name(p)) \in Nat \ {0} /\ Name(p)[1] = p[1]
  <2>1. CASE ~HasValue(p)
    BY <1>1, <2>1, NameIs
  <2>2. CASE HasValue(p)
    <3>1. PICK n \in 1 .. Len(p) : p[n] = "=" /\ Name(p) = SubSeq(p, 1, n - 1)
      BY <2>2, NameIs
    <3>2. n # 1
      BY <3>1, OwnNamesAre
    <3> DEFINE m == n - 1
    <3>3. 1 \in Nat \ {0} /\ m \in Nat \ {0} /\ m \in Nat /\ 1 <= m + 1 /\ m <= Len(p) /\ m - 1 + 1 = m /\ 1 \in 1 .. m - 1 + 1
          /\ 1 + 1 - 1 = 1
      BY <1>1, <3>2
    <3> HIDE DEF m
    <3>4. /\ Len(SubSeq(p, 1, m)) = m - 1 + 1
          /\ \A i \in 1 .. m - 1 + 1 : SubSeq(p, 1, m)[i] = p[1 + i - 1]
      BY <3>3, SubIs
    <3>5. SubSeq(p, 1, m)[1] = p[1 + 1 - 1]
      BY <3>3, <3>4
    <3>6. Name(p) = SubSeq(p, 1, m)
      BY <3>1 DEF m
    <3>. QED
      BY <3>3, <3>4, <3>5, <3>6
  <2>. QED
    BY <2>1, <2>2
<1>3. SUFFICES ASSUME NameAndValue(p) = r PROVE FALSE
  OBVIOUS
<1>4. r.name = Name(p)
  BY <1>3 DEF NameAndValue
<1>5. Name(p)[1] \in Symbol \ OwnNames
  <2>1. 1 \in 1 .. Len(Name(p)) /\ Name(p) \in Seq(Symbol \ OwnNames)
    BY <1>2, <1>4
  <2>. QED
    BY <2>1, ElementOfSeq
<1>. QED
  BY <1>2, <1>5

\* A "+" in the query is a space where the code says so.
IsPlus(text, s, qesc) ==
  /\ Len(text) = Len(s)
  /\ \A i \in 1 .. Len(s) : text[i] = IF qesc /\ s[i] = "+" THEN " " ELSE s[i]

\* This is what qesc does.
LEMMA PlusIs ==
  ASSUME NEW S, " " \in S, NEW s, s \in Seq(S), NEW qesc
  PROVE  Plus(s, qesc) \in Seq(S) /\ IsPlus(Plus(s, qesc), s, qesc)
<1> DEFINE n == Len(s)
           r == Replace(s, "+", " ")
<1>1. n \in Nat /\ DOMAIN s = 1 .. n /\ \A i \in 1 .. n : s[i] \in S
  BY LenProperties, ElementOfSeq
<1>2. CASE ~qesc
  <2>1. Plus(s, qesc) = s
    BY <1>2, Zenon DEF Plus
  <2>2. IsPlus(s, s, qesc)
    BY <1>2 DEF IsPlus
  <2>. QED
    BY <2>1, <2>2
<1>3. CASE qesc
  <2>1. r = [i \in 1 .. n |-> IF s[i] = "+" THEN " " ELSE s[i]]
    BY <1>1, Zenon DEF Replace
  <2> HIDE DEF r, n
  <2>2. r \in [1 .. n -> S] /\ \A i \in 1 .. n : r[i] = IF s[i] = "+" THEN " " ELSE s[i]
    BY <1>1, <2>1
  <2>3. r \in Seq(S) /\ Len(r) = n
    BY <1>1, <2>2, IsSeq
  <2>4. Plus(s, qesc) = r
    BY <1>3, Zenon DEF Plus, r
  <2>5. IsPlus(r, s, qesc)
    BY <1>3, <2>2, <2>3 DEF IsPlus, n
  <2>. QED
    BY <2>3, <2>4, <2>5
<1>. QED
  BY <1>2, <1>3

\* A sequence of these is one of those, when its elements are.
LEMMA InSeq ==
  ASSUME NEW S, NEW s \in Seq(S), NEW T, \A i \in 1 .. Len(s) : s[i] \in T
  PROVE  s \in Seq(T)
<1>1. Len(s) \in Nat /\ s = [i \in 1 .. Len(s) |-> s[i]]
  BY LenProperties
<1>2. s \in [1 .. Len(s) -> T]
  BY <1>1
<1>. QED
  BY <1>1, <1>2, IsSeq

\* The query as it is split, and what it is made of.
Given == Plus(query, ~form.post)
Letters == ToSet(query) \cup {" ", "="}

\* The text that is split is the URL with the query.
LEMMA WholeHasQuery ==
  ASSUME Asked
  PROVE  /\ Given \in Seq(Letters)
         /\ (Whole = form.base /\ Given = <<>>) \/ IsWhole(Whole, form.base, Given)
<1> DEFINE b == form.base
           q == query
           n == Len(b)
           m == Len(q)
           u == Url
           x == <<"?">>
<1>0. /\ b \in Seq(Symbol) /\ q \in Seq(Symbol) /\ "?" \in Symbol /\ " " \in Symbol /\ b # <<>>
      /\ Whole \in Seq(Symbol)
  <2>1. Alphabet \subseteq Symbol /\ b \in Seq(Alphabet) /\ q \in Seq(Alphabet) /\ Whole \in Seq(Alphabet)
    BY AlphabetIs, WholeIs
  <2>. QED
    BY <2>1, SeqMonotonic, InAscii DEF Asked
<1>1. n \in Nat /\ m \in Nat
  BY <1>0, LenProperties
<1>2. \A i \in 1 .. n : b[i] # "+"
  BY AlphabetIs, UrlHasParts
<1>3. q \in Seq(Letters)
  <2>1. \A i \in 1 .. m : q[i] \in Letters
    <3>1. DOMAIN q = 1 .. m
      BY <1>0, LenProperties
    <3>. QED
      BY <3>1 DEF ToSet, Letters
  <2> HIDE DEF q
  <2>. QED
    BY <1>0, <2>1, InSeq
<1>4. /\ Given \in Seq(Letters) /\ Len(Given) = m
      /\ \A i \in 1 .. m : Given[i] = IF ~form.post /\ q[i] = "+" THEN " " ELSE q[i]
  <2>1. " " \in Letters
    BY DEF Letters
  <2>2. Given = Plus(q, ~form.post)
    BY DEF Given
  <2> HIDE DEF q
  <2>3. Given \in Seq(Letters) /\ IsPlus(Given, q, ~form.post)
    BY <1>3, <2>1, <2>2, PlusIs
  <2>. QED
    BY <2>3 DEF IsPlus, m
<1>5. Whole = Plus(u, ~form.post)
  BY DEF Whole
<1>6. CASE query = <<>>
  <2>1. u = b
    <3>1. b \o <<>> = b
      BY <1>0, ConcatEmptySeq
    <3>. QED
      BY <1>6, <3>1 DEF Url
  <2>2. /\ Len(Whole) = n /\ \A i \in 1 .. n : Whole[i] = IF ~form.post /\ b[i] = "+" THEN " " ELSE b[i]
    <3>1. Whole = Plus(b, ~form.post)
      BY <1>5, <2>1
    <3> HIDE DEF b
    <3>2. IsPlus(Whole, b, ~form.post)
      BY <1>0, <3>1, PlusIs
    <3>. QED
      BY <3>2 DEF IsPlus, n
  <2>3. Whole = b
    <3>1. \A i \in 1 .. n : Whole[i] = b[i]
      BY <1>2, <2>2
    <3>. QED
      BY <1>0, <2>2, <3>1, SeqEqual
  <2>4. Given = <<>>
    <3>1. m = 0
      BY <1>6
    <3> HIDE DEF m
    <3>. QED
      BY <1>4, <3>1, EmptySeq
  <2>. QED
    BY <1>4, <2>3, <2>4
<1>7. CASE query # <<>>
  <2> DEFINE v == b \o x
             w == v \o q
  <2>0. x \in Seq(Symbol) /\ Len(x) = 1 /\ x[1] = "?"
    <3>1. \A c \in Symbol : <<c>> \in Seq(Symbol)
      OBVIOUS
    <3>. QED
      BY <1>0, <3>1
  <2>1. u = w
    BY <1>0, <1>7, Zenon DEF Url
  <2> HIDE DEF b, q, x, u, n, m
  <2>2. /\ v \in Seq(Symbol) /\ Len(v) = n + 1
        /\ \A i \in 1 .. n + 1 : v[i] = IF i <= n THEN b[i] ELSE x[i - n]
    <3>1. b \in Seq(Symbol) /\ x \in Seq(Symbol)
      BY <1>0, <2>0
    <3>2. /\ b \o x \in Seq(Symbol) /\ Len(b \o x) = Len(b) + Len(x)
          /\ \A i \in 1 .. Len(b) + Len(x) : (b \o x)[i] = IF i <= Len(b) THEN b[i] ELSE x[i - Len(b)]
      BY ONLY <3>1, ConcatProperties
    <3>3. Len(b) = n /\ Len(x) = 1 /\ v = b \o x
      BY <2>0 DEF n
    <3> HIDE DEF v
    <3>. QED
      BY ONLY <3>2, <3>3
  <2> HIDE DEF v
  <2>3. /\ w \in Seq(Symbol) /\ Len(w) = n + 1 + m
        /\ \A i \in 1 .. n + 1 + m : w[i] = IF i <= n + 1 THEN v[i] ELSE q[i - (n + 1)]
    <3>1. v \in Seq(Symbol) /\ q \in Seq(Symbol)
      BY <1>0, <2>2
    <3>2. /\ v \o q \in Seq(Symbol) /\ Len(v \o q) = Len(v) + Len(q)
          /\ \A i \in 1 .. Len(v) + Len(q) : (v \o q)[i] = IF i <= Len(v) THEN v[i] ELSE q[i - Len(v)]
      BY ONLY <3>1, ConcatProperties
    <3>3. Len(v) = n + 1 /\ Len(q) = m /\ w = v \o q
      BY <2>2 DEF m
    <3> HIDE DEF w
    <3>. QED
      BY ONLY <3>2, <3>3
  <2> HIDE DEF w
  <2>4. \A i \in 1 .. n : w[i] = b[i]
    <3>1. ASSUME NEW i \in 1 .. n PROVE w[i] = b[i]
      <4>1. i \in 1 .. n + 1 /\ i \in 1 .. n + 1 + m /\ i <= n /\ i <= n + 1
        BY <1>1
      <4>. QED
        BY <2>2, <2>3, <4>1
    <3>. QED
      BY <3>1
  <2>5. w[n + 1] = "?"
    <3>1. n + 1 \in 1 .. n + 1 /\ n + 1 \in 1 .. n + 1 + m /\ ~(n + 1 <= n) /\ (n + 1) - n = 1
      BY <1>1
    <3>2. w[n + 1] = v[n + 1] /\ v[n + 1] = x[1]
      BY <2>2, <2>3, <3>1
    <3>. QED
      BY <2>0, <3>2
  <2>6. \A i \in 1 .. m : w[n + 1 + i] = q[i]
    <3>1. ASSUME NEW i \in 1 .. m PROVE w[n + 1 + i] = q[i]
      <4>1. n + 1 + i \in 1 .. n + 1 + m /\ ~(n + 1 + i <= n + 1) /\ (n + 1 + i) - (n + 1) = i
        BY <1>1
      <4>. QED
        BY <2>3, <4>1
    <3>. QED
      BY <3>1
  <2>7. /\ Len(Whole) = n + 1 + m
        /\ \A i \in 1 .. n + 1 + m : Whole[i] = IF ~form.post /\ w[i] = "+" THEN " " ELSE w[i]
    <3>1. w \in Seq(Symbol) /\ " " \in Symbol /\ Whole = Plus(w, ~form.post) /\ Len(w) = n + 1 + m
      BY <1>0, <1>5, <2>1, <2>3
    <3>2. IsPlus(Whole, w, ~form.post)
      BY <3>1, PlusIs
    <3>. QED
      BY <3>1, <3>2 DEF IsPlus
  <2>8. \A i \in 1 .. n : Whole[i] = b[i]
    <3>1. ASSUME NEW i \in 1 .. n PROVE Whole[i] = b[i]
      <4>1. i \in 1 .. n + 1 + m
        BY <1>1
      <4>. QED
        BY <1>2, <2>4, <2>7, <4>1
    <3>. QED
      BY <3>1
  <2>9. Whole[n + 1] = "?"
    <3>1. n + 1 \in 1 .. n + 1 + m
      BY <1>1
    <3>. QED
      BY <2>5, <2>7, <3>1
  <2>10. \A i \in 1 .. m : Whole[n + 1 + i] = Given[i]
    <3>1. ASSUME NEW i \in 1 .. m PROVE Whole[n + 1 + i] = Given[i]
      <4>1. n + 1 + i \in 1 .. n + 1 + m
        BY <1>1
      <4>2. Whole[n + 1 + i] = IF ~form.post /\ q[i] = "+" THEN " " ELSE q[i]
        BY <2>6, <2>7, <4>1
      <4>. QED
        BY <1>4, <4>2
    <3>. QED
      BY <3>1
  <2>11. IsWhole(Whole, b, Given)
    BY <1>4, <2>7, <2>8, <2>9, <2>10 DEF IsWhole, n
  <2>. QED
    BY <1>4, <2>11 DEF b
<1>. QED
  BY <1>6, <1>7

\* The query has none of the symbols that are excepted.
Permitted ==
  ToSet(query) \cap
    {"SOH", "?", "oauth_signature", "oauth_consumer_key", "oauth_nonce",
     "oauth_timestamp", "oauth_version"} = {}
Foreigners == Symbol \ OwnNames

\* What a permitted query is made of: no separator but the ampersand, and
\* nothing that is unescaped gives a name of the protocol.
LEMMA LettersAre ==
  ASSUME Asked, Permitted
  PROVE  /\ Letters \in SUBSET Symbol /\ "?" \notin Letters /\ "oauth_signature" \notin Letters
         /\ "SOH" \notin Letters /\ "=" \in Letters /\ Unescapes(Letters, Foreigners)
<1>1. /\ form.base \in Seq(Symbol) /\ form.symbols \subseteq Symbol /\ query \in Seq(form.symbols)
  BY Zenon, FormAssumption DEF Asked
<1>2. ToSet(query) \subseteq form.symbols
  <2>1. DOMAIN query = 1 .. Len(query) /\ \A i \in 1 .. Len(query) : query[i] \in form.symbols
    BY <1>1, LenProperties, ElementOfSeq
  <2>. QED
    BY <2>1 DEF ToSet
<1>3. ToSet(query) \cap OwnNames = {} /\ "SOH" \notin ToSet(query) /\ "?" \notin ToSet(query)
  BY DEF Permitted, OwnNames
<1>4. " " \in Symbol /\ "=" \in Symbol /\ " " \notin OwnNames /\ "=" \notin OwnNames
  BY InAscii, DigitsAreSymbols, OwnNamesAre
<1>5. Letters \subseteq Foreigners
  BY <1>1, <1>2, <1>3, <1>4 DEF Letters, Foreigners
<1>6. DOMAIN Hex \subseteq Foreigners
  <2>1. DOMAIN Hex \subseteq Symbol
    <3>1. DOMAIN Hex = Reserved \cup Unreserved
      BY DEF Reserved, Unreserved, Hex
    <3>2. /\ Ascii[1] = "SOH" /\ Ascii[3] = "\"" /\ Ascii[6] = "+" /\ Ascii[24] = "R" /\ Ascii[25] = "U"
          /\ Ascii[26] = "V" /\ Ascii[28] = "b" /\ Ascii[29] = "e" /\ Ascii[30] = "f"
          /\ {1, 3, 6, 24, 25, 26, 28, 29, 30} \subseteq DOMAIN Ascii
      BY DEF Ascii
    <3>3. {"SOH", "\"", "+", "R", "U", "V", "b", "e", "f"} \subseteq Symbol
      BY <3>2 DEF Symbol, ToSet
    <3>4. {":", "/"} \subseteq Symbol
      BY NamesAreSymbols
    <3>5. Reserved \subseteq Symbol
      BY <3>3, <3>4, ReservedIs, InAscii, DigitsAreSymbols
    <3>6. Unreserved \subseteq Symbol
      BY <3>3 DEF Unreserved
    <3>. QED
      BY <3>1, <3>5, <3>6
  <2>. QED
    BY <2>1, OwnNamesAre DEF Foreigners
<1>7. ASSUME NEW a \in Letters \cap HexDigit, NEW b \in Letters \cap HexDigit PROVE Unhex(a, b) \in Foreigners
  <2>1. Unhex(a, b) \in DOMAIN Hex
    BY UnhexIs, Zenon
  <2>. QED
    BY <1>6, <2>1
<1>8. Unescapes(Letters, Foreigners)
  BY <1>5, <1>7 DEF Unescapes
<1>9. "?" \notin Letters /\ "oauth_signature" \notin Letters /\ "SOH" \notin Letters /\ "=" \in Letters
  <2>1. "oauth_signature" \notin ToSet(query)
    BY DEF Permitted
  <2>. QED
    BY <1>3, <2>1 DEF Letters
<1>. QED
  BY <1>5, <1>8, <1>9 DEF Foreigners

\* Where there is no alias nothing is put in its place.
LEMMA NothingReplaced ==
  ASSUME NEW S, "SOH" \notin S, NEW t, t \in Seq(S)
  PROVE  Replace(t, "SOH", "&") = t
<1> DEFINE n == Len(t)
<1>1. n \in Nat /\ DOMAIN t = 1 .. n /\ t = [i \in 1 .. n |-> t[i]] /\ \A i \in 1 .. n : t[i] \in S
  BY LenProperties, ElementOfSeq
<1>2. Replace(t, "SOH", "&") = [i \in 1 .. n |-> IF t[i] = "SOH" THEN "&" ELSE t[i]]
  BY <1>1, Zenon DEF Replace
<1>3. \A i \in 1 .. n : (IF t[i] = "SOH" THEN "&" ELSE t[i]) = t[i]
  BY <1>1
<1> HIDE DEF n
<1>4. [i \in 1 .. n |-> IF t[i] = "SOH" THEN "&" ELSE t[i]] = [i \in 1 .. n |-> t[i]]
  BY <1>3, Zenon
<1>. QED
  BY <1>1, <1>2, <1>4, Zenon

\* What is split off are the URL and the unescaped parts of the query.
SplitsTo(args, parts) ==
  /\ parts \in Seq(Seq(Letters)) /\ args \in Seq(Seq(Symbol)) /\ Len(args) = Len(parts) + 1
  /\ args[1][1] = "http"
  /\ \A i \in 1 .. Len(parts) : args[i + 1] = UrlUnescape(parts[i])

\* oauth_split_post_paramters gives the URL and each part of the query unescaped.
LEMMA PartsUnescaped ==
  ASSUME Asked, Permitted, NEW parts, parts = Tokens(Given, {"&"}),
         NEW args, args = SplitParameters(Url, ~form.post)
  PROVE  SplitsTo(args, parts)
<1> DEFINE b == form.base
<1>0. /\ b \in Seq(Symbol) /\ b # <<>> /\ Whole \in Seq(Symbol) /\ Symbol \in SUBSET Symbol
  <2>1. Alphabet \subseteq Symbol /\ b \in Seq(Alphabet) /\ Whole \in Seq(Alphabet)
    BY AlphabetIs, WholeIs
  <2>. QED
    BY <2>1, SeqMonotonic DEF Asked
<1>1. /\ ~IsSignature(b)
      /\ \A i \in 1 .. Len(b) : b[i] \notin Separator
  <2>1. b[1] = "http" /\ \A i \in 1 .. Len(b) : b[i] \notin {"?", "&", "%", "+", "SOH"}
    BY AlphabetIs, UrlHasParts
  <2>2. ~IsSignature(b)
    BY <1>0, <2>1, UrlIsNoSignature
  <2>. QED
    BY <2>1, <2>2 DEF Separator
<1>2. /\ Given \in Seq(Letters)
      /\ (Whole = b /\ Given = <<>>) \/ IsWhole(Whole, b, Given)
  BY WholeHasQuery
<1>3. PICK tokens : tokens = Unsigned(Tokens(Whole, Separator))
  OBVIOUS
<1>4. Letters \in SUBSET Symbol /\ "?" \notin Letters /\ "oauth_signature" \notin Letters
  BY LettersAre
<1> HIDE DEF b
<1>5. Behind(b, tokens, parts) /\ parts \in Seq(Seq(Letters)) /\ tokens \in Seq(Seq(Symbol))
  <2>1. /\ Behind(b, Unsigned(Tokens(Whole, Separator)), Tokens(Given, {"&"}))
        /\ Tokens(Given, {"&"}) \in Seq(Seq(Letters)) /\ Unsigned(Tokens(Whole, Separator)) \in Seq(Seq(Symbol))
    BY ONLY <1>0, <1>1, <1>2, <1>4, PartsFollow
  <2>. QED
    BY <1>3, <2>1
<1> DEFINE n == Len(parts)
<1>6. /\ n \in Nat /\ DOMAIN tokens = 1 .. n + 1 /\ tokens[1] = b
      /\ \A i \in 1 .. n : tokens[i + 1] = parts[i] /\ parts[i] \in Seq(Letters)
  BY <1>5, LenProperties, ElementOfSeq DEF Behind
<1>7. args = [i \in 1 .. n + 1 |-> Element(i, tokens[i])]
  <2>1. SplitParameters(Url, ~form.post) = Params(Tokens(Whole, Separator))
    BY Zenon DEF SplitParameters, Params, Elements, Unsigned, Whole, Separator
  <2>2. args = Elements(tokens)
    BY <1>3, <2>1 DEF Params
  <2>. QED
    BY <1>6, <2>2 DEF Elements
<1>8. Element(1, b) \in Seq(Symbol) /\ Element(1, b)[1] = "http"
  BY FirstElement DEF b
<1>9. ASSUME NEW i \in 1 .. n
      PROVE  Element(i + 1, tokens[i + 1]) = UrlUnescape(parts[i]) /\ UrlUnescape(parts[i]) \in Seq(Symbol)
  <2> DEFINE t == parts[i]
  <2>1. t \in Seq(Letters) /\ tokens[i + 1] = t
    BY <1>6
  <2>2. i + 1 # 1
    BY <1>6
  <2> HIDE DEF t
  <2>3. "SOH" \notin Letters /\ Unescapes(Letters, Foreigners)
    BY LettersAre
  <2>4. Replace(t, "SOH", "&") = t
    BY <2>1, <2>3, NothingReplaced
  <2>5. Element(i + 1, t) = UrlUnescape(Replace(t, "SOH", "&"))
    BY <2>2, Zenon DEF Element
  <2>6. UrlUnescape(t) \in Seq(Foreigners)
    BY <2>1, <2>3, UnescapeType
  <2>7. UrlUnescape(t) \in Seq(Symbol)
    <3>1. Foreigners \subseteq Symbol
      BY DEF Foreigners
    <3>. QED
      BY <2>6, <3>1, SeqMonotonic
  <2>. QED
    BY <2>1, <2>4, <2>5, <2>7 DEF t
<1> HIDE DEF n
<1>10. \A i \in 1 .. n : args[i + 1] = UrlUnescape(parts[i]) /\ UrlUnescape(parts[i]) \in Seq(Symbol)
  <2>1. \A i \in 1 .. n : i + 1 \in 1 .. n + 1
    BY <1>6
  <2>. QED
    BY <1>7, <1>9, <2>1
<1>11. args[1] = Element(1, b)
  <2>1. 1 \in 1 .. n + 1
    BY <1>6
  <2>. QED
    BY <1>6, <1>7, <2>1
<1>12. args \in Seq(Seq(Symbol)) /\ Len(args) = n + 1
  <2>1. ASSUME NEW i \in 1 .. n + 1 PROVE Element(i, tokens[i]) \in Seq(Symbol)
    <3>1. CASE i = 1
      BY <1>6, <1>8, <3>1
    <3>2. CASE i # 1
      <4>1. PICK k \in 1 .. n : i = k + 1
        <5>1. i - 1 \in 1 .. n /\ i = (i - 1) + 1
          BY <1>6, <3>2
        <5>. QED
          BY <5>1
      <4>. QED
        BY <1>9, <4>1 DEF n
    <3>. QED
      BY <3>1, <3>2
  <2>2. args \in [1 .. n + 1 -> Seq(Symbol)] /\ n + 1 \in Nat
    BY <1>6, <1>7, <2>1
  <2>. QED
    BY <2>2, IsSeq
<1>. QED
  BY <1>5, <1>8, <1>10, <1>11, <1>12 DEF SplitsTo, n

\* The five parameters that are added begin with a name of the protocol.
LEMMA FiveOwn ==
  \A p \in {Valued("oauth_nonce"), Valued("oauth_timestamp"), Valued("oauth_consumer_key"),
            SignatureMethod, Valued("oauth_version")} :
    p \in Seq(Symbol) /\ p # <<>> /\ p[1] \in OwnNames
<1>1. ASSUME NEW k \in {"oauth_nonce", "oauth_timestamp", "oauth_consumer_key", "oauth_version"}
      PROVE  Valued(k) \in Seq(Symbol) /\ Valued(k) # <<>> /\ Valued(k)[1] \in OwnNames
  <2>1. Valued(k) \in Seq(Symbol)
    BY ProtocolIsSendable DEF Sendable, Param
  <2>2. Valued(k) # <<>> /\ Valued(k)[1] = k /\ k \in OwnNames
    BY DEF Valued, OwnNames
  <2>. QED
    BY <2>1, <2>2
<1>2. SignatureMethod \in Seq(Symbol) /\ SignatureMethod # <<>> /\ SignatureMethod[1] \in OwnNames
  <2>1. SignatureMethod \in Seq(Symbol)
    BY ProtocolIsSendable DEF Sendable, Param, SignatureMethod
  <2>2. SignatureMethod # <<>> /\ SignatureMethod[1] = "oauth_signature" /\ "oauth_signature" \in OwnNames
    BY DEF SignatureMethod, OwnNames
  <2>. QED
    BY <2>1, <2>2
<1>. QED
  BY <1>1, <1>2

\* They are five.
LEMMA FiveMore ==
  ASSUME NEW args \in Seq(Seq(Symbol)), \A i \in 1 .. Len(args) : Foreign(args[i])
  PROVE  Len(AddProtocol(args, <<>>)) = Len(args) + 5
<1>1. ASSUME NEW s \in Seq(Seq(Symbol)),
             NEW p \in {Valued("oauth_nonce"), Valued("oauth_timestamp"), Valued("oauth_consumer_key"),
                        SignatureMethod, Valued("oauth_version")}
      PROVE  Append(s, p) \in Seq(Seq(Symbol)) /\ Len(Append(s, p)) = Len(s) + 1
  BY <1>1, FiveOwn, AppendProperties
<1> DEFINE n1 == Append(args, Valued("oauth_nonce"))
           n2 == Append(n1, Valued("oauth_timestamp"))
           n3 == Append(n2, Valued("oauth_consumer_key"))
           n4 == Append(n3, SignatureMethod)
           n5 == Append(n4, Valued("oauth_version"))
<1>2. AddProtocol(args, <<>>) = n5
  BY FiveAdded
<1>3. n1 \in Seq(Seq(Symbol)) /\ Len(n1) = Len(args) + 1
  BY <1>1
<1> HIDE DEF n1
<1>4. n2 \in Seq(Seq(Symbol)) /\ Len(n2) = Len(n1) + 1
  BY <1>1, <1>3
<1> HIDE DEF n2
<1>5. n3 \in Seq(Seq(Symbol)) /\ Len(n3) = Len(n2) + 1
  BY <1>1, <1>4
<1> HIDE DEF n3
<1>6. n4 \in Seq(Seq(Symbol)) /\ Len(n4) = Len(n3) + 1
  BY <1>1, <1>5
<1> HIDE DEF n4
<1>7. Len(n5) = Len(n4) + 1
  BY <1>1, <1>6
<1> HIDE DEF n5
<1>8. Len(args) \in Nat
  BY LenProperties
<1>. QED
  BY <1>2, <1>3, <1>4, <1>5, <1>6, <1>7, <1>8

\* They are none of the others.
LEMMA OthersStay ==
  ASSUME NEW args \in Seq(Seq(Symbol)), args # <<>>, \A i \in 1 .. Len(args) : Foreign(args[i]),
         NEW v, v.name \in Seq(Foreigners)
  PROVE  Later(AddProtocol(args, <<>>), v) = Later(args, v)
<1>1. ASSUME NEW s \in Seq(Seq(Symbol)), s # <<>>,
             NEW p \in {Valued("oauth_nonce"), Valued("oauth_timestamp"), Valued("oauth_consumer_key"),
                        SignatureMethod, Valued("oauth_version")}
      PROVE  /\ Append(s, p) \in Seq(Seq(Symbol)) /\ Append(s, p) # <<>>
             /\ Later(Append(s, p), v) = Later(s, v)
  <2>1. p \in Seq(Symbol) /\ p # <<>> /\ p[1] \in OwnNames
    BY <1>1, FiveOwn
  <2>2. NameAndValue(p) # v
    BY <2>1, OwnIsOther DEF Foreigners
  <2>3. PICK r : r = Append(s, p)
    OBVIOUS
  <2>4. r \in Seq(Seq(Symbol)) /\ r # <<>> /\ Later(r, v) = Later(s, v)
    BY <1>1, <2>1, <2>2, <2>3, LaterSame
  <2>. QED
    BY <2>3, <2>4
<1> DEFINE n1 == Append(args, Valued("oauth_nonce"))
           n2 == Append(n1, Valued("oauth_timestamp"))
           n3 == Append(n2, Valued("oauth_consumer_key"))
           n4 == Append(n3, SignatureMethod)
           n5 == Append(n4, Valued("oauth_version"))
<1>2. AddProtocol(args, <<>>) = n5
  BY FiveAdded
<1>3. n1 \in Seq(Seq(Symbol)) /\ n1 # <<>> /\ Later(n1, v) = Later(args, v)
  BY <1>1
<1> HIDE DEF n1
<1>4. n2 \in Seq(Seq(Symbol)) /\ n2 # <<>> /\ Later(n2, v) = Later(n1, v)
  BY <1>1, <1>3
<1> HIDE DEF n2
<1>5. n3 \in Seq(Seq(Symbol)) /\ n3 # <<>> /\ Later(n3, v) = Later(n2, v)
  BY <1>1, <1>4
<1> HIDE DEF n3
<1>6. n4 \in Seq(Seq(Symbol)) /\ n4 # <<>> /\ Later(n4, v) = Later(n3, v)
  BY <1>1, <1>5
<1> HIDE DEF n4
<1>7. Later(n5, v) = Later(n4, v)
  BY <1>1, <1>6
<1>. QED
  BY <1>2, <1>3, <1>4, <1>5, <1>6, <1>7

\* What is received: the parameters in another order, and the signature.
LEMMA SentIsReceived ==
  ASSUME NEW args, args = SplitParameters(Url, ~form.post), AllSendable(args),
         NEW all, all = AddProtocol(args, <<>>),
         NEW received, received = Received(Request(<<>>).params)
  PROVE  \E R : /\ received \in Seq(R) /\ Len(received) = Len(all)
                /\ \A v : v.name \in Seq(Foreigners)
                          => Cardinality(PlacesOf(received, v, Len(received))) = Later(all, v)
<1> DEFINE P == Sorted(Tail(all), Cmpstringp)
           Q == Append(P, Signature)
           n == Len(Tail(all))
<1>1. Request(<<>>).params = SerializeUrl(Q)
  BY Zenon DEF Request
<1>2. AllSendable(all)
  BY ProtocolAdded
<1>3. all \in Seq(Seq(Symbol)) /\ all # <<>> /\ Len(all) \in Nat \ {0} /\ \A i \in 2 .. Len(all) : all[i] \in Sendable
  <2>1. all \in Seq(Seq(Symbol)) /\ all # <<>> /\ \A i \in 2 .. Len(all) : all[i] \in Sendable
    BY <1>2 DEF AllSendable
  <2>. QED
    BY <2>1, EmptySeq
<1>4. Tail(all) \in Seq(Sendable) /\ n \in Nat /\ Len(all) = n + 1
  <2>1. Tail(all) = SubSeq(all, 2, Len(all))
    BY <1>3, TailIsSubSeq
  <2>2. SubSeq(all, 2, Len(all)) \in Seq(Sendable)
    <3>1. 2 \in Int /\ Len(all) \in Int
      BY <1>3
    <3>. QED
      BY <1>3, <3>1, SubSeqProperties
  <2>3. n = Len(all) - 1
    BY <1>3, HeadTailProperties
  <2>4. Tail(all) \in Seq(Sendable)
    BY ONLY <2>1, <2>2, Zenon
  <2> HIDE DEF n
  <2>5. n \in Nat /\ Len(all) = n + 1
    BY <1>3, <2>3
  <2>. QED
    BY <2>4, <2>5
<1>5. Sendable \in SUBSET Seq(Symbol)
  BY DEF Sendable, Param
<1>6. P \in Seq(Sendable) /\ Len(P) = n
  BY <1>4, <1>5, SortedIs
<1>7. \A v : Cardinality(Sent(P, v, n)) = Cardinality(Sent(Tail(all), v, n))
  BY <1>4, <1>5, SortedKeeps
<1> HIDE DEF P, n
<1>8. /\ Q \in Seq(Param) /\ Len(Q) = n + 1 /\ Q[n + 1] = Signature
      /\ \A i \in 1 .. n : Q[i] = P[i]
  <2>1. P \in Seq(Param)
    <3>1. Sendable \subseteq Param
      BY DEF Sendable
    <3>. QED
      BY <1>6, <3>1, SeqMonotonic
  <2>. QED
    BY <1>6, <2>1, SignatureIs, AppendProperties
<1> HIDE DEF Q
<1>9. received = [i \in 1 .. n + 1 |-> NameAndValue(Q[i])]
  <2>1. Len(Q) # 0
    BY <1>4, <1>8
  <2>. QED
    BY <1>1, <1>8, <2>1, ReceivedIs
<1> DEFINE R == {NameAndValue(Q[i]) : i \in 1 .. n + 1}
<1>10. received \in Seq(R) /\ Len(received) = n + 1
  <2>1. received \in [1 .. n + 1 -> R] /\ n + 1 \in Nat
    BY <1>4, <1>9
  <2>. QED
    BY <2>1, IsSeq
<1>11. ASSUME NEW v, v.name \in Seq(Foreigners)
       PROVE  Cardinality(PlacesOf(received, v, Len(received))) = Later(all, v)
  <2>1. PlacesOf(received, v, n + 1) = Sent(Q, v, n + 1)
    BY <1>9 DEF PlacesOf, Sent
  <2>2. NameAndValue(Signature) # v
    <3>1. Signature \in Seq(Symbol) /\ Signature # <<>> /\ Signature[1] = "oauth_signature"
          /\ "oauth_signature" \in OwnNames
      BY SignatureIs DEF Signature, Param, OwnNames
    <3>. QED
      BY <1>11, <3>1, OwnIsOther DEF Foreigners
  <2>3. Cardinality(Sent(Q, v, n + 1)) = Cardinality(Sent(Q, v, n))
    <3>1. Cardinality(Sent(Q, v, n)) \in Nat
      BY <1>4, SentFinite
    <3>2. Cardinality(Sent(Q, v, n + 1)) = Cardinality(Sent(Q, v, n)) + IF NameAndValue(Q[n + 1]) = v THEN 1 ELSE 0
      BY <1>4, SentNext
    <3>. QED
      BY <1>8, <2>2, <3>1, <3>2
  <2>4. Sent(Q, v, n) = Sent(P, v, n)
    BY <1>8 DEF Sent
  <2>5. Later(all, v) = Cardinality(Sent(Tail(all), v, n))
    <3>1. Len(all) - 1 = n
      BY <1>4
    <3>. QED
      BY <3>1, Zenon DEF Later
  <2>. QED
    BY <1>7, <1>10, <2>1, <2>3, <2>4, <2>5
<1>12. Len(received) = Len(all)
  BY <1>4, <1>10
<1>. QED
  BY <1>10, <1>11, <1>12

\* What the service is to receive: the parts of the query, decoded.
DecodedParts(parts) ==
  [i \in DOMAIN parts |-> [name |-> UrlUnescape(Name(parts[i])),
                           value |-> UrlUnescape(Value(parts[i]))]]

\* The elements that are split off are those.
LEMMA GivenIsSplit ==
  ASSUME Asked, Permitted, NEW args, NEW parts, SplitsTo(args, parts),
         NEW given, given = DecodedParts(parts),
         \A i \in 1 .. Len(parts) : ~Contains(given[i].name, "=")
  PROVE  /\ \E R : given \in Seq(R)
         /\ Len(given) = Len(parts)
         /\ \A i \in 1 .. Len(parts) : given[i].name \in Seq(Foreigners)
         /\ \A i \in 1 .. Len(args) : Foreign(args[i])
         /\ \A v : Later(args, v) = Cardinality(PlacesOf(given, v, Len(given)))
<1> DEFINE n == Len(parts)
<1>0. /\ parts \in Seq(Seq(Letters)) /\ args \in Seq(Seq(Symbol)) /\ Len(args) = n + 1
      /\ args[1][1] = "http"
      /\ \A i \in 1 .. n : args[i + 1] = UrlUnescape(parts[i])
  BY DEF SplitsTo
<1>1. Letters \in SUBSET Symbol /\ "=" \in Letters /\ Unescapes(Letters, Foreigners)
  BY LettersAre
<1>2. n \in Nat /\ DOMAIN parts = 1 .. n /\ \A i \in 1 .. n : parts[i] \in Seq(Letters)
  BY <1>0, LenProperties, ElementOfSeq
<1>3. given = [i \in 1 .. n |-> [name |-> UrlUnescape(Name(parts[i])),
                                 value |-> UrlUnescape(Value(parts[i]))]]
  BY <1>2 DEF DecodedParts
<1> HIDE DEF n
<1>4. ASSUME NEW i \in 1 .. n
      PROVE  /\ given[i] = NameAndValue(args[i + 1]) /\ given[i].name \in Seq(Foreigners)
             /\ Foreign(args[i + 1])
  <2> DEFINE t == parts[i]
             r == [name |-> UrlUnescape(Name(t)), value |-> UrlUnescape(Value(t))]
  <2>1. t \in Seq(Letters) /\ given[i] = r /\ args[i + 1] = UrlUnescape(t)
    BY <1>0, <1>2, <1>3
  <2>2. r.name = UrlUnescape(Name(t))
    OBVIOUS
  <2>3. ~Contains(UrlUnescape(Name(t)), "=")
    <3>1. ~Contains(given[i].name, "=")
      BY DEF n
    <3>. QED
      BY <2>1, <2>2, <3>1
  <2> HIDE DEF t
  <2>4. NameAndValue(UrlUnescape(t)) = r
    BY <1>1, <2>1, <2>3, PartKept
  <2>5. UrlUnescape(Name(t)) \in Seq(Foreigners)
    <3>1. Name(t) \in Seq(Letters)
      BY <1>1, <2>1, NameIs
    <3>. QED
      BY <1>1, <3>1, UnescapeType
  <2>6. Foreign(UrlUnescape(t))
    <3> DEFINE p == UrlUnescape(t)
    <3>1. p \in Seq(Foreigners)
      BY <1>1, <2>1, UnescapeType
    <3> HIDE DEF p
    <3>2. ASSUME p # <<>> PROVE p[1] \notin OwnNames
      <4>1. 1 \in 1 .. Len(p)
        BY <3>1, <3>2, EmptySeq
      <4>2. p[1] \in Foreigners
        BY <3>1, <4>1, ElementOfSeq
      <4>. QED
        BY <4>2 DEF Foreigners
    <3>3. Foreign(p)
      BY <3>2, Zenon DEF Foreign
    <3>. QED
      BY <3>3 DEF p
  <2> HIDE DEF r
  <2>7. given[i].name = UrlUnescape(Name(t))
    BY <2>1, <2>2
  <2>. QED
    BY <2>1, <2>4, <2>5, <2>6, <2>7
<1> DEFINE R == {given[i] : i \in 1 .. n}
<1>5. given \in Seq(R) /\ Len(given) = n
  <2>1. given \in [1 .. n -> R]
    BY <1>3
  <2>. QED
    BY <1>2, <2>1, IsSeq
<1> HIDE DEF R
<1>6. ASSUME NEW i \in 1 .. Len(args) PROVE Foreign(args[i])
  <2>1. CASE i = 1
    <3>1. "http" \notin OwnNames
      BY OwnNamesAre
    <3>. QED
      BY <1>0, <2>1, <3>1 DEF Foreign
  <2>2. CASE i # 1
    <3>1. i - 1 \in 1 .. n /\ (i - 1) + 1 = i
      BY <1>0, <1>2, <2>2
    <3>2. Foreign(args[(i - 1) + 1])
      BY <1>4, <3>1
    <3>. QED
      BY <3>1, <3>2
  <2>. QED
    BY <2>1, <2>2
<1>7. ASSUME NEW v PROVE Later(args, v) = Cardinality(PlacesOf(given, v, Len(given)))
  <2> DEFINE a == Tail(args)
  <2>1. args # <<>>
    BY <1>0, <1>2
  <2>2. Len(a) = n /\ \A i \in 1 .. Len(a) : a[i] = args[i + 1]
    <3>1. Len(a) = Len(args) - 1 /\ \A i \in 1 .. Len(a) : a[i] = args[i + 1]
      BY <1>0, <2>1, HeadTailProperties
    <3> HIDE DEF a
    <3>. QED
      BY <1>0, <1>2, <3>1
  <2>3. Later(args, v) = Cardinality(Sent(a, v, n))
    <3>1. Len(args) - 1 = n
      BY <1>0, <1>2
    <3>. QED
      BY <3>1, Zenon DEF Later
  <2> HIDE DEF a
  <2>4. Sent(a, v, n) = PlacesOf(given, v, n)
    BY <1>4, <2>2 DEF Sent, PlacesOf
  <2>. QED
    BY <1>5, <2>3, <2>4
<1>. QED
  BY <1>4, <1>5, <1>6, <1>7 DEF n

\* In each state the parameters are kept.
LEMMA Kept ==
  ASSUME Asked, Clean, Permitted, NEW parts, parts = Tokens(Given, {"&"}),
         NEW given, given = DecodedParts(parts), \A r \in ToSet(given) : ~Contains(r.name, "="),
         NEW received, received = Received(Request(<<>>).params)
  PROVE  /\ \A r \in ToSet(given) : Times(received, r) = Times(given, r)
         /\ Len(received) = Len(given) + Len(AddProtocol(<<>>, <<>>)) + 1
<1>1. PICK args : args = SplitParameters(Url, ~form.post)
  OBVIOUS
<1>2. PICK all : all = AddProtocol(args, <<>>)
  OBVIOUS
<1>3. SplitsTo(args, parts)
  BY <1>1, PartsUnescaped
<1>4. AllSendable(args)
  BY <1>1, SplitIsSendable
<1>5. DOMAIN given = 1 .. Len(parts)
  <2>1. parts \in Seq(Seq(Letters))
    BY <1>3 DEF SplitsTo
  <2>2. DOMAIN parts = 1 .. Len(parts)
    BY <2>1, LenProperties
  <2>. QED
    BY <2>2 DEF DecodedParts
<1>6. \A i \in 1 .. Len(parts) : ~Contains(given[i].name, "=")
  BY <1>5 DEF ToSet
<1>7. /\ \E R : given \in Seq(R)
      /\ Len(given) = Len(parts)
      /\ \A i \in 1 .. Len(parts) : given[i].name \in Seq(Foreigners)
      /\ \A i \in 1 .. Len(args) : Foreign(args[i])
      /\ \A v : Later(args, v) = Cardinality(PlacesOf(given, v, Len(given)))
  BY <1>3, <1>6, GivenIsSplit
<1>8. args \in Seq(Seq(Symbol)) /\ args # <<>> /\ Len(args) = Len(parts) + 1 /\ Len(parts) \in Nat
  <2>1. args \in Seq(Seq(Symbol)) /\ Len(args) = Len(parts) + 1 /\ parts \in Seq(Seq(Letters))
    BY <1>3 DEF SplitsTo
  <2>2. args # <<>>
    BY <1>4 DEF AllSendable
  <2>. QED
    BY <2>1, <2>2, LenProperties
<1>9. PICK R : /\ received \in Seq(R) /\ Len(received) = Len(all)
               /\ \A v : v.name \in Seq(Foreigners)
                         => Cardinality(PlacesOf(received, v, Len(received))) = Later(all, v)
  BY <1>1, <1>2, <1>4, SentIsReceived
<1>10. Len(all) = Len(args) + 5
  BY <1>2, <1>7, <1>8, FiveMore
<1>11. ASSUME NEW r \in ToSet(given) PROVE Times(received, r) = Times(given, r)
  <2>1. r.name \in Seq(Foreigners)
    BY <1>5, <1>7 DEF ToSet
  <2>2. Later(all, r) = Later(args, r)
    BY <1>2, <1>7, <1>8, <2>1, OthersStay
  <2>3. Times(received, r) = Later(all, r)
    BY <1>9, <2>1, TimesIs
  <2>4. Times(given, r) = Later(args, r)
    BY <1>7, TimesIs
  <2>. QED
    BY <2>2, <2>3, <2>4
<1>12. Len(AddProtocol(<<>>, <<>>)) = 5
  <2> DEFINE e == <<>>
  <2>1. e \in Seq(Seq(Symbol)) /\ Len(e) = 0
    BY EmptySeq
  <2> HIDE DEF e
  <2>2. \A i \in 1 .. Len(e) : Foreign(e[i])
    BY <2>1
  <2>3. Len(AddProtocol(e, <<>>)) = Len(e) + 5
    BY <2>1, <2>2, FiveMore
  <2>4. Len(AddProtocol(e, <<>>)) = 5
    BY <2>1, <2>3
  <2>. QED
    BY <2>4 DEF e
<1>13. Len(received) = Len(given) + Len(AddProtocol(<<>>, <<>>)) + 1
  <2> DEFINE m == Len(AddProtocol(<<>>, <<>>))
  <2>1. m = 5 /\ Len(given) = Len(parts) /\ Len(received) = Len(all)
    BY <1>7, <1>9, <1>12
  <2> HIDE DEF m
  <2>2. Len(received) = Len(given) + m + 1
    BY <1>8, <1>10, <2>1
  <2>. QED
    BY <2>2 DEF m
<1>. QED
  BY <1>11, <1>13

\* The parameters of the query reach the service: for all queries of a form,
\* each is received as often as it is given, and with them only the five of
\* the protocol and the signature.
THEOREM ParametersAreKept == Spec => []ParamsKept
<1> DEFINE Inv == form \in Form /\ query \in Seq(form.symbols)
<1>1. Init => Inv
  BY EmptySeq DEF Init
<1>2. Inv /\ [Extend]_<<form, query>> => Inv'
  <2>1. ASSUME Inv, [Extend]_<<form, query>> PROVE Inv'
    <3>1. CASE Extend
      <4>1. PICK c \in form.symbols : query' = Append(query, c) /\ form' = form
        BY <3>1 DEF Extend
      <4>2. Append(query, c) \in Seq(form.symbols)
        BY <2>1, AppendProperties
      <4>. QED
        BY <2>1, <4>1, <4>2
    <3>2. CASE UNCHANGED <<form, query>>
      BY <2>1, <3>2
    <3>. QED
      BY <2>1, <3>1, <3>2
  <2>. QED
    BY <2>1
<1>3. Inv => ParamsKept
  <2>1. SUFFICES ASSUME Inv PROVE ParamsKept
    OBVIOUS
  <2> DEFINE parts == Tokens(IF form.post THEN query ELSE Replace(query, "+", " "), {"&"})
             given == DecodedParts(parts)
             received == Received(Request(<<>>).params)
             times(s, r) == Len(Sift(s, LAMBDA t : t = r))
  <2>2. SUFFICES ASSUME form.base # <<>>, Clean, Permitted,
                        \A r \in ToSet(given) : ~Contains(r.name, "=")
                 PROVE  /\ \A r \in ToSet(given) : times(received, r) = times(given, r)
                        /\ Len(received) = Len(given) + Len(AddProtocol(<<>>, <<>>)) + 1
    BY Zenon DEF ParamsKept, Permitted, DecodedParts
  <2>3. Asked
    BY <2>1, <2>2 DEF Asked
  <2>4. Given = IF form.post THEN query ELSE Replace(query, "+", " ")
    BY Zenon DEF Given, Plus
  <2>5. parts = Tokens(Given, {"&"})
    BY <2>4, Zenon
  <2> HIDE DEF parts, given, received
  <2>6. /\ \A r \in ToSet(given) : Times(received, r) = Times(given, r)
        /\ Len(received) = Len(given) + Len(AddProtocol(<<>>, <<>>)) + 1
    <3>1. given = DecodedParts(parts) /\ received = Received(Request(<<>>).params)
      BY Zenon DEF given, received
    <3>. QED
      BY <2>2, <2>3, <2>5, <3>1, Kept
  <2>. QED
    BY <2>6, Zenon DEF Times
<1>. QED
  BY <1>1, <1>2, <1>3, PTL DEF Spec
=============================================================================
