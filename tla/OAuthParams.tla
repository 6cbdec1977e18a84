---------------------------- MODULE OAuthParams ----------------------------
(***************************************************************************)
(* The parameters of a signed request, as oauth.c splits, sorts, escapes   *)
(* and joins them, and as the service reads them.                          *)
(*                                                                         *)
(* The state is a form of request and a query that grows symbol by symbol, *)
(* so that each query is met.                                              *)
(***************************************************************************)
EXTENDS OAuthText

\* A form of request: the URL before the query, which is <<>> for the text of
\* a reply; whether it is a POST; what its queries are made of; and how long
\* they get (max).
CONSTANT Form

VARIABLES form, query

\* A URL before its query: http, a host up to h, the port up to p if it is
\* there, and a path or nothing.  Nothing in it is escaped or separates.
IsUrl(url) ==
  \E h, p \in 5 .. Len(url) :
    /\ SubSeq(url, 1, 4) = <<"http", ":", "/", "/">>
    /\ SubSeq(url, h + 1, p) \in {<<>>, <<":", "80">>} /\ h <= p
    /\ p = Len(url) \/ url[p + 1] = "/"
    /\ \A i \in 5 .. h : url[i] # "/"
    /\ \A i \in (5 .. h) \cup (p + 1 .. Len(url)) :
         url[i] \notin {":", "?", "&", "%", "+", "SOH"}

\* The digits of the port are in no query, so that no escape sequence ends in
\* the middle of a symbol.
ASSUME FormAssumption ==
  \A f \in Form :
    /\ f.base \in Seq(Symbol) /\ f.post \in BOOLEAN /\ f.symbols \subseteq Symbol \ {"80"}
    /\ f.base = <<>> \/ IsUrl(f.base)

-----------------------------------------------------------------------------
(* Sorting and joining.                                                    *)

HasValue(p) == Contains(p, "=")
Name(p) == IF HasValue(p) THEN SubSeq(p, 1, SelectInSeq(p, LAMBDA c : c = "=") - 1)
           ELSE p
Value(p) == SubSeq(p, Len(Name(p)) + 2, Len(p))

\* s in order.  (SortSeq, in a form that can be reasoned about.  Elements that
\* compare as equal are equal here, so all ways to sort them give the same.)
Insert(s, x, Less(_, _)) ==
  LET n == SelectInSeq(s, LAMBDA y : Less(x, y))
  IN IF n = 0 THEN Append(s, x) ELSE InsertAt(s, n, x)
Sorted(s, Less(_, _)) == FoldLeft(LAMBDA t, x : Insert(t, x, Less), <<>>, s)

\* Slip: the names only.
CmpNames(p, q) == Before(UrlEscape(Name(p)), UrlEscape(Name(q)))
\* oauth_cmpstringp(p, q) < 0
Cmpstringp(p, q) ==
  LET name(r) == UrlEscape(Name(r))
  IN \/ Before(name(p), name(q))
     \/ /\ name(p) = name(q) /\ HasValue(q)
        /\ ~HasValue(p) \/ Before(UrlEscape(Value(p)), UrlEscape(Value(q)))

Join(parts, sep) ==
  FlattenSeq([i \in DOMAIN parts |-> IF i = 1 THEN parts[i] ELSE sep \o parts[i]])

SerializeUrl(argv) ==
  Join([i \in DOMAIN argv |->
          LET p == argv[i]
          IN IF HasValue(p) THEN UrlEscape(Name(p)) \o <<"=">> \o UrlEscape(Value(p))
             ELSE Append(p, "=")], <<"&">>)
Catenc(parts) == Join([i \in DOMAIN parts |-> UrlEscape(parts[i])], <<"&">>)

ParamExists(argv, key) == \E i \in DOMAIN argv : IsPrefix(<<key, "=">>, argv[i])
AddNew(argv, key) ==
  IF ParamExists(argv, key) THEN argv ELSE Append(argv, <<key, "=", "value">>)

\* oauth_add_protocol; without a token tKey is empty.
AddProtocol(argv, tKey) ==
  LET named == AddNew(AddNew(argv, "oauth_nonce"), "oauth_timestamp")
      token == IF tKey = <<>> THEN named
               ELSE Append(named, <<"oauth_token", "=">> \o tKey)
  IN AddNew(token \o << <<"oauth_consumer_key", "=", "value">>,
                        <<"oauth_signature", "_method", "=", "value">> >>,
            "oauth_version")

\* oauth_sign_url2: the URL and the sorted parameters, the text that is
\* signed, and the URL and the parameters that are sent.  Those are the body
\* of a POST.  The signature is in base 64 and ends in "=".
Method == IF form.post THEN <<"POST">> ELSE <<"GET">>
Url == IF form.base = <<>> \/ query = <<>> THEN form.base \o query
       ELSE form.base \o <<"?">> \o query
Signature == <<"oauth_signature", "=", "value", "=">>
Request(tKey) ==
  LET argv == AddProtocol(SplitParameters(Url, ~form.post), tKey)
      params == Sorted(Tail(argv), Cmpstringp)
  IN [signed |-> Catenc(<<Method, Head(argv), SerializeUrl(params)>>),
      url |-> Head(argv),
      params |-> SerializeUrl(Append(params, Signature))]

-----------------------------------------------------------------------------
(* The service: it decodes the names and values of the query or the body,  *)
(* and puts together the text of which it computes the signature.  The URL *)
(* in it has no default port and no empty path.                            *)

Decode(s) == UrlUnescape(Replace(s, "+", " "))
Received(sent) ==
  LET parts == Tokens(sent, {"&"})
  IN [i \in DOMAIN parts |-> [name |-> Decode(Name(parts[i])),
                              value |-> Decode(Value(parts[i]))]]
Normal(url) ==
  LET authority == SubSeq(url, 5, Len(url))   \* after "http", ":", "/", "/"
      slash == SelectInSeq(authority, LAMBDA c : c = "/")
      host == IF slash = 0 THEN authority ELSE SubSeq(authority, 1, slash - 1)
      path == IF slash = 0 THEN <<"/">> ELSE SubSeq(authority, slash, Len(authority))
  IN SubSeq(url, 1, 4)
       \o (IF IsSuffix(<<":", "80">>, host) THEN SubSeq(host, 1, Len(host) - 2) ELSE host)
       \o path
PairBefore(p, q) == \/ Before(p[1], q[1])
                    \/ p[1] = q[1] /\ Before(p[2], q[2])
Verified(request) ==
  LET params == Sift(Received(request.params),
                     LAMBDA r : r.name # <<"oauth_signature">>)
      pairs == [i \in DOMAIN params |-> <<UrlEscape(params[i].name),
                                          UrlEscape(params[i].value)>>]
      sorted == Sorted(pairs, PairBefore)
  IN Catenc(<<Method, Normal(request.url),
              Join([i \in DOMAIN sorted |-> sorted[i][1] \o <<"=">> \o sorted[i][2]],
                   <<"&">>)>>)

-----------------------------------------------------------------------------
Init == form \in Form /\ query = <<>>
\* Each escape sequence of a query stands for one of the symbols.
Extend ==
  /\ Len(query) < form.max
  /\ \E c \in form.symbols :
       Readable(Append(query, c)) /\ query' = Append(query, c)
  /\ UNCHANGED form
Spec == Init /\ [][Extend]_<<form, query>>

\* The code appends the "=" of a parameter without a value and does not
\* escape its name, so such a name must be one that needs no escapes.  It
\* leaves out an old signature only when it is written with its "=".
Clean ==
  \A p \in ToSet(Tail(SplitParameters(Url, ~form.post))) :
    /\ HasValue(p) \/ ToSet(p) \cap Reserved = {}
    /\ Name(p) # <<"oauth_signature">>

\* The text that is signed is the one that the service puts together from the
\* method, the URL and the parameters it receives, whatever characters,
\* separators, escape sequences and repeated names the query has, and
\* whether or not the URL has a path and a port.
SignatureVerifies ==
  form.base # <<>> /\ Clean =>
    \A tKey \in {<<>>, <<"x">>} : LET r == Request(tKey) IN Verified(r) = r.signed

\* The service receives the parameters of the query, each as often as it is
\* there, and else only those of the protocol.  In a POST a "+" is a plus
\* and not a space.  Excepted are what the split takes for a separator: the
\* alias for the ampersand, a question mark, and an escaped "=" in a name;
\* and the names of the protocol's own parameters.
ParamsKept ==
  LET parts == Tokens(IF form.post THEN query ELSE Replace(query, "+", " "), {"&"})
      given == [i \in DOMAIN parts |-> [name |-> UrlUnescape(Name(parts[i])),
                                       value |-> UrlUnescape(Value(parts[i]))]]
      received == Received(Request(<<>>).params)
      times(s, r) == Len(Sift(s, LAMBDA t : t = r))
  IN /\ form.base # <<>> /\ Clean
     /\ ToSet(query) \cap
          {"SOH", "?", "oauth_signature", "oauth_consumer_key", "oauth_nonce",
           "oauth_timestamp", "oauth_version"} = {}
     /\ \A r \in ToSet(given) : ~Contains(r.name, "=")
     => /\ \A r \in ToSet(given) : times(received, r) = times(given, r)
        /\ Len(received) = Len(given) + Len(AddProtocol(<<>>, <<>>)) + 1
=============================================================================
