---------------------------- MODULE OAuthSession ----------------------------
(***************************************************************************)
(* The account: the login of the UI (main.js), the token pair that the     *)
(* plugin keeps (oauth in mendeley.c) and that the UI stores (prefs.js),   *)
(* and the jobs that sign requests with the pair while a login changes it. *)
(*                                                                         *)
(* The UI waits for plugin_authorize, the jobs do not.  A token and its    *)
(* secret have the number of the login that made them; 0 is a request made *)
(* without.  A pointer is the number of the text it points to, None is     *)
(* NULL.  What a freed text reads as is Garbage.                           *)
(***************************************************************************)
EXTENDS Naturals, FiniteSets

CONSTANTS Job, None, Garbage, Unread,
          MaxRequest,   \* request tokens that the service makes
          MaxLogin,     \* access tokens that the service makes
          MaxEnd        \* times the app ends

ASSUME SessionAssumption ==
  /\ {MaxRequest, MaxLogin, MaxEnd} \subseteq Nat
  /\ None \notin Nat /\ Garbage \notin Nat \cup {None}
  /\ Unread \notin Nat \cup {None, Garbage}

VARIABLES
  tokens,     \* 'tokens' in localStorage
  alive,      \* whether the plugin runs
  oauth,      \* its res_t_key and res_t_secret
  freed,      \* the texts that it has freed
  popup,      \* the request token newAccount holds, or None if it is closed
  authorize,  \* how far plugin_authorize is
  job,        \* per job, the pointers it has loaded
  sent,       \* the pair that the last request was signed with
  requests, logins, ends,   \* counted for the bounds
  misled,     \* history: whether an error page was taken for an access token
  calm        \* history: jobs under which the pair was not replaced

vars == <<tokens, alive, oauth, freed, popup, authorize, job, sent, requests,
          logins, ends, misled, calm>>
history == <<misled, calm>>
jobs == <<job, sent>>
service == <<requests, logins>>
plugin == <<alive, oauth, freed>>

Field == {"key", "secret"}
Pair(n) == [f \in Field |-> n]
NoPair == Pair(0)
Idle == [at |-> "idle"]
Refusal == [at |-> "refused"]
Orders == {<<"key", "secret">>, <<"secret", "key">>}
\* plugin_authorize replaces the pair.
Replacing == {"key", "secret", "reply"}

Init ==
  /\ tokens = NoPair
  /\ alive = FALSE /\ oauth = Pair(None) /\ freed = {}
  /\ popup = None /\ authorize = Idle
  /\ job = [j \in Job |-> None] /\ sent = None
  /\ requests = 0 /\ logins = 0 /\ ends = 0
  /\ misled = FALSE /\ calm = {}

-----------------------------------------------------------------------------
(* The UI and the handlers.                                                *)

\* plugin_request and setupAccount.  The service answers with four parameters,
\* or the answer is of no use and the popup stays as it is.
RequestToken ==
  \/ /\ requests < MaxRequest
     /\ requests' = requests + 1
     /\ popup' = requests + 1
  \/ UNCHANGED <<requests, popup>>

\* Slip: empty tokens are taken for an account.
AnyAccount(pair) == TRUE
HasAccount(pair) == \A f \in Field : pair[f] # 0

\* pluginReady and plugin_init.
PluginReady ==
  /\ ~alive
  /\ alive' = TRUE
  /\ IF HasAccount(tokens) THEN oauth' = tokens /\ UNCHANGED <<requests, popup>>
     ELSE UNCHANGED oauth /\ RequestToken
  /\ UNCHANGED <<tokens, freed, authorize, jobs, logins, ends, history>>

Account ==
  /\ alive /\ authorize = Idle
  /\ RequestToken
  /\ UNCHANGED <<tokens, plugin, authorize, jobs, logins, ends, history>>

CancelClick ==
  /\ popup # None /\ authorize = Idle
  /\ popup' = None
  /\ UNCHANGED <<tokens, plugin, authorize, jobs, service, ends, history>>

\* confirmClick and the request of plugin_authorize.  The service makes an
\* access token and answers with it and its secret, in either order, or it
\* refuses in a text of one parameter, or with a page that happens to split
\* into several.  No answer ends the plugin, like End.
ConfirmClick ==
  /\ alive /\ popup # None /\ authorize = Idle
  /\ popup' = None
  /\ \/ /\ logins < MaxLogin
        /\ logins' = logins + 1
        /\ \E order \in Orders :
             authorize' = [at |-> "answered", login |-> logins + 1, order |-> order]
     \/ /\ authorize' \in {Refusal,
                           [at |-> "answered", login |-> Garbage,
                            order |-> <<"key", "secret">>]}
        /\ UNCHANGED logins
  /\ UNCHANGED <<tokens, plugin, jobs, requests, ends, history>>

FreePair == freed' = freed \cup {<<f, oauth[f]>> : f \in {g \in Field : oauth[g] # None}}

\* Slip: the old pair is freed before the answer is looked at.
RefusedTooLate ==
  /\ authorize = Refusal
  /\ authorize' = Idle
  /\ FreePair
  /\ UNCHANGED <<tokens, alive, oauth, popup, jobs, service, ends, history>>
Refused ==
  /\ authorize = Refusal
  /\ authorize' = Idle
  /\ UNCHANGED <<tokens, plugin, popup, jobs, service, ends, history>>

FreeTokens ==
  /\ authorize.at = "answered"
  /\ FreePair
  /\ authorize' = [authorize EXCEPT !.at = "key"]
  /\ misled' = (misled \/ authorize.login = Garbage)
  /\ calm' = {}
  /\ UNCHANGED <<tokens, alive, oauth, popup, jobs, service, ends>>

\* Slip: the parameters are used in the order in which they came.
AsReceived(params) == params
\* The parameters after qsort.
InOrder(params) == <<"key", "secret">>

\* The text of the i-th parameter, after as many characters as the i-th name
\* has, is copied to the field.
SetField(f, i) ==
  LET text == IF InOrder(authorize.order)[i] = f THEN authorize.login ELSE Garbage
  IN /\ oauth' = [oauth EXCEPT ![f] = text]
     /\ freed' = freed \ {<<f, text>>}
  /\ UNCHANGED <<tokens, alive, popup, jobs, service, ends, history>>

SetKey ==
  /\ authorize.at = "key" /\ authorize' = [authorize EXCEPT !.at = "secret"]
  /\ SetField("key", 1)
SetSecret ==
  /\ authorize.at = "secret" /\ authorize' = [authorize EXCEPT !.at = "reply"]
  /\ SetField("secret", 2)

\* Slip: the reply is not stored.
ForgetTokens ==
  /\ authorize.at = "reply" /\ authorize' = Idle
  /\ UNCHANGED <<tokens, plugin, popup, jobs, service, ends, history>>
\* The rest of confirmClick.  The reply with the texts of a page may be one
\* that cannot be parsed.
StoreTokens ==
  /\ authorize.at = "reply" /\ authorize' = Idle
  /\ \/ tokens' = oauth
     \/ authorize.login = Garbage /\ UNCHANGED tokens
  /\ UNCHANGED <<plugin, popup, jobs, service, ends, history>>

\* The app ends, at any time.
End ==
  /\ alive /\ ends < MaxEnd
  /\ ends' = ends + 1
  /\ alive' = FALSE /\ oauth' = Pair(None) /\ freed' = {}
  /\ popup' = None /\ authorize' = Idle
  /\ job' = [j \in Job |-> None] /\ calm' = {}
  /\ UNCHANGED <<tokens, sent, service, misled>>

-----------------------------------------------------------------------------
(* A job's call of oauth_sign_url2.                                        *)

BeginJob(j) ==
  /\ alive /\ job[j] = None
  /\ job' = [job EXCEPT ![j] = Pair(Unread)]
  /\ calm' = IF authorize.at \in Replacing THEN calm
             ELSE calm \cup {j}
  /\ UNCHANGED <<tokens, plugin, popup, authorize, sent, service, ends,
                 misled>>

\* The pointers are passed, in whatever order.
LoadField(j, f) ==
  /\ job[j] # None /\ job[j][f] = Unread
  /\ job' = [job EXCEPT ![j][f] = oauth[f]]
  /\ UNCHANGED <<tokens, plugin, popup, authorize, sent, service, ends,
                 history>>

\* The texts are read, and the request is sent.
SignRequest(j) ==
  /\ job[j] # None /\ \A f \in Field : job[j][f] # Unread
  /\ sent' = [calm |-> j \in calm,
       pair |-> [f \in Field |-> IF <<f, job[j][f]>> \in freed THEN Garbage
                                 ELSE job[j][f]]]
  /\ job' = [job EXCEPT ![j] = None]
  /\ calm' = calm \ {j}
  /\ UNCHANGED <<tokens, plugin, popup, authorize, service, ends, misled>>

Authorize == Refused \/ FreeTokens \/ SetKey \/ SetSecret \/ StoreTokens
Next ==
  \/ PluginReady \/ Account \/ CancelClick \/ ConfirmClick \/ Authorize \/ End
  \/ \E j \in Job : BeginJob(j) \/ SignRequest(j) \/ \E f \in Field : LoadField(j, f)

Spec == Init /\ [][Next]_vars
FairSpec == Spec /\ WF_vars(Authorize)

-----------------------------------------------------------------------------
Pairs(S) == [Field -> S]
Granted == {Pair(n) : n \in 1 .. logins}

TypeOK ==
  /\ tokens \in Pairs(0 .. logins \cup {Garbage})
  /\ alive \in BOOLEAN /\ oauth \in Pairs(1 .. logins \cup {None, Garbage})
  /\ freed \subseteq Field \X (1 .. logins \cup {Garbage})
  /\ popup \in 1 .. requests \cup {None}
  /\ authorize \in {Idle, Refusal} \cup
       [at : {"answered"} \cup Replacing, login : 1 .. logins \cup {Garbage},
        order : Orders]
  /\ job \in [Job -> Pairs(1 .. logins \cup {None, Garbage, Unread}) \cup {None}]
  /\ requests \in 0 .. MaxRequest /\ logins \in 0 .. MaxLogin /\ ends \in 0 .. MaxEnd
  /\ misled \in BOOLEAN /\ calm \subseteq Job

\* The tokens that are stored over restarts are a token and its own secret,
\* whatever the order of the service's answer and wherever the app ended,
\* unless a page was taken for an answer.
StoredPairGranted == misled \/ tokens \in {NoPair} \cup Granted

\* When no login is under way, the plugin signs with the pair that is stored:
\* a refused, cancelled or interrupted login changes neither.
SessionIsStored ==
  ~misled /\ alive /\ authorize = Idle
    => oauth = IF HasAccount(tokens) THEN tokens ELSE Pair(None)

\* A job under which no login replaced the pair signs with a token and its
\* secret, or with none: it never sees a mixed pair or a freed text.
CalmJobsSign ==
  ~misled /\ sent # None /\ sent.calm => sent.pair \in Granted \cup {Pair(None)}

\* An access token that the service has made is stored, unless the app ends.
LoginStored ==
  \A n \in 1 .. MaxLogin :
    (authorize.at = "answered" /\ authorize.login = n) ~>
      (tokens = Pair(n) \/ ~alive)
=============================================================================
