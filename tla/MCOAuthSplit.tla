---------------------------- MODULE MCOAuthSplit ----------------------------
(***************************************************************************)
(* Two threads that split texts, for TLC: a worker that signs requests and *)
(* takes answers apart, and a handler that signs one.                      *)
(***************************************************************************)
EXTENDS OAuthSplit

CONSTANTS worker, handler

Callers == {worker, handler}

\* The texts of answers, with an old signature at any place, and requests.
Fragment == {<<"x">>, <<"&">>, <<"x", "&">>, <<"oauth_signature">>,
             <<"&", "oauth_signature", "=">>}
Answers == {[url |-> FlattenSeq(q), qesc |-> TRUE] : q \in SeqOf(Fragment, 2)}
             \cup {[url |-> <<"x", "&", "oauth_signature", "=", "&", "x">>, qesc |-> TRUE]}
Site == <<"http", ":", "/", "/", "host", ":", "80">>
Queries == SeqOf({"x", "=", "&", "?", "+", "SOH"}, 1)
Requests == {[url |-> Site \o <<"?">> \o q, qesc |-> TRUE] : q \in Queries}
              \cup {[url |-> Site \o <<"/", "?">> \o q, qesc |-> FALSE] : q \in Queries}

Texts == worker :> Answers \cup Requests
           @@ handler :> {[url |-> <<"x", "&", "x">>, qesc |-> TRUE]}
=============================================================================
