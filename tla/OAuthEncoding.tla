--------------------------- MODULE OAuthEncoding ---------------------------
(***************************************************************************)
(* Base 64, the hash of a body and the comparison of signatures, on bytes: *)
(* oauth.c and hash.c.  A character is its ASCII code.  The shifts and     *)
(* masks of the code are divisions and remainders here.                    *)
(*                                                                         *)
(* The digest is external: what matters of it is which bytes it was given, *)
(* so the digest of bytes is the bytes.                                    *)
(***************************************************************************)
EXTENDS Integers, Sequences, SequencesExt, FiniteSetsExt

CONSTANT BUFSIZ   \* the size of the blocks in which a file is read

ASSUME BufferAssumption == BUFSIZ \in Nat \ {0}

Pad == 61   \* "="

\* oauth_b64_encode and oauth_b64_decode.
EncodeSextet(u) ==
  CASE u < 26 -> u + 65
    [] u \in 26 .. 51 -> u - 26 + 97
    [] u \in 52 .. 61 -> u - 52 + 48
    [] u = 62 -> 43
    [] OTHER -> 47
DecodeSextet(c) ==
  CASE c \in 65 .. 90 -> c - 65
    [] c \in 97 .. 122 -> c - 97 + 26
    [] c \in 48 .. 57 -> c - 48 + 52
    [] c = 43 -> 62
    [] OTHER -> 63
IsBase64(c) == c \in (65 .. 90) \cup (97 .. 122) \cup (48 .. 57) \cup {43, 47, Pad}

\* The four sextets of three bytes, and back.
Sextets(b1, b2, b3) ==
  <<b1 \div 4, (b1 % 4) * 16 + b2 \div 16, (b2 % 16) * 4 + b3 \div 64, b3 % 64>>
Bytes(s1, s2, s3, s4) ==
  <<(s1 * 4 + s2 \div 16) % 256, (s2 % 16) * 16 + s3 \div 4, (s3 % 4) * 64 + s4>>

\* A text ends at its first NUL.
Text(s) == IF Contains(s, 0) THEN SubSeq(s, 1, SelectInSeq(s, LAMBDA c : c = 0) - 1)
           ELSE s

\* Whether the p-th character, from 0, of the group that starts after i bytes
\* lacks its byte and becomes a "=".
Padded(size, i, p) == i + p > size

\* oauth_encode_base64 of size bytes; size 0 stands for a text.
EncodeBase64(size, src) ==
  LET given == IF size = 0 THEN Text(src) ELSE SubSeq(src, 1, size)
      byte(i) == IF i <= Len(given) THEN given[i] ELSE 0
      group(i) == Sextets(byte(i + 1), byte(i + 2), byte(i + 3))
  IN [n \in 1 .. 4 * ((Len(given) + 2) \div 3) |->
        LET i == 3 * ((n - 1) \div 4)
            p == (n - 1) % 4
        IN IF Padded(Len(given), i, p) THEN Pad ELSE EncodeSextet(group(i)[p + 1])]

\* What is allocated for it.
Allocated(size, src) == ((IF size = 0 THEN Len(Text(src)) ELSE size) * 4) \div 3 + 4

\* oauth_decode_base64 of a text.
DecodeBase64(src) ==
  LET text == Text(src)
      buf == FlattenSeq([i \in DOMAIN text |-> IF IsBase64(text[i]) THEN <<text[i]>> ELSE <<>>])
      c(k) == IF k <= Len(buf) THEN buf[k] ELSE 65
      group(k) ==
        LET bytes == Bytes(DecodeSextet(c(k)), DecodeSextet(c(k + 1)),
                           DecodeSextet(c(k + 2)), DecodeSextet(c(k + 3)))
        IN <<bytes[1]>>
             \o (IF c(k + 2) # Pad THEN <<bytes[2]>> ELSE <<>>)
             \o (IF c(k + 3) # Pad THEN <<bytes[3]>> ELSE <<>>)
  IN FlattenSeq([i \in 1 .. (Len(buf) + 3) \div 4 |-> group(4 * i - 3)])

\* Slip: the digest gets the whole buffer, of which the last read filled a
\* part and the read before the rest.
UpdateWhole(ctx, fb, len) == ctx \o fb
EVP_DigestUpdate(ctx, fb, len) == ctx \o SubSeq(fb, 1, len)

Over(fb, block) == block \o SubSeq(fb, Len(block) + 1, Len(fb))

\* The value of the parameter oauth_body_hash.
BodyHashEncode(len, digest) == EncodeBase64(len, digest)

\* oauth_body_hash_file and oauth_body_hash_data.
BodyHashFile(file) ==
  LET block(i) == SubSeq(file, (i - 1) * BUFSIZ + 1, Min({i * BUFSIZ, Len(file)}))
      read(s, b) == [fb |-> Over(s.fb, b),
                     ctx |-> EVP_DigestUpdate(s.ctx, Over(s.fb, b), Len(b))]
      md == FoldLeft(read, [fb |-> [i \in 1 .. BUFSIZ |-> 0], ctx |-> <<>>],
                     [i \in 1 .. (Len(file) + BUFSIZ - 1) \div BUFSIZ |-> block(i)]).ctx
  IN BodyHashEncode(Len(md), md)
BodyHashData(length, data) ==
  LET md == EVP_DigestUpdate(<<>>, data, length) IN BodyHashEncode(Len(md), md)

\* Whether diff has a bit at the end of the loop.
Differ(a, b) == Len(a) # Len(b) \/ \E i \in DOMAIN a : a[i] # b[((i - 1) % Len(b)) + 1]
\* oauth_time_independent_equals_n
TimeIndependentEquals(a, b) == IF b = <<>> THEN a = <<>> ELSE ~Differ(a, b)

-----------------------------------------------------------------------------
(* Properties of a sequence of bytes.                                      *)

\* Decoding gives back what was encoded, also when the characters are
\* broken into lines, and the encoding fits into its allocation with a NUL.
RoundTrips(src) ==
  LET text == EncodeBase64(Len(src), src)
      lines == FlattenSeq([i \in DOMAIN text |-> <<text[i], 10>>])
  IN src # <<>> =>
       /\ DecodeBase64(text) = src /\ DecodeBase64(lines) = src
       /\ Len(text) + 1 <= Allocated(Len(src), src)

\* The hash of a file is the hash of its bytes, wherever the blocks end, and
\* the parameter that is sent decodes to it.
HashesAll(src) ==
  /\ BodyHashFile(src) = BodyHashData(Len(src), src)
  /\ DecodeBase64(BodyHashFile(src)) = src
=============================================================================
