------------------------- MODULE OAuthSessionProofs -------------------------
(***************************************************************************)
(* Proofs about the account of OAuthSession, for any number of jobs,       *)
(* requests, logins and ends of the app.                                   *)
(***************************************************************************)
EXTENDS OAuthSession, TLAPS

-----------------------------------------------------------------------------
(* The inductive invariant.                                                *)

\* Where plugin_authorize replaces the pair, the fields that it has set have
\* the texts of the answer, and a page has been taken note of.
Replaced ==
  /\ authorize.at \in Replacing /\ authorize.login = Garbage => misled
  /\ authorize.at \in {"secret", "reply"} =>
       oauth["key"] = authorize.login /\ <<"key", authorize.login>> \notin freed
  /\ authorize.at = "reply" =>
       oauth["secret"] = authorize.login /\ <<"secret", authorize.login>> \notin freed

\* A plugin that has ended has no state.
EndedIsEmpty ==
  ~alive => oauth = Pair(None) /\ freed = {} /\ authorize = Idle /\ calm = {}

\* Anywhere else the pair is the one that is stored, and its texts are not freed.
AccountOf(pair) == IF HasAccount(pair) THEN pair ELSE Pair(None)
Settled ==
  ~misled /\ alive /\ authorize.at \notin Replacing =>
    /\ oauth = AccountOf(tokens)
    /\ \A f \in Field : <<f, oauth[f]>> \notin freed

\* A calm job has the pointers of the pair as it is.
CalmJobs ==
  \A j \in calm :
    /\ authorize.at \notin Replacing
    /\ job[j] \in [Field -> 1 .. logins \cup {None, Garbage, Unread}]
    /\ \A f \in Field : job[j][f] \in {Unread, oauth[f]}

TypeInv == TypeOK /\ Replaced
Safe == StoredPairGranted /\ Settled /\ CalmJobs /\ CalmJobsSign
IInv == TypeInv /\ EndedIsEmpty /\ Safe

-----------------------------------------------------------------------------
(* Facts about the parts of a step.                                        *)

\* What is freed with the pair is a text.
LEMMA FreedTexts ==
  ASSUME NEW S, oauth \in [Field -> S \cup {None}], freed \subseteq Field \X S, FreePair
  PROVE  freed' \subseteq Field \X S
<1>1. \A f \in Field : oauth[f] # None => <<f, oauth[f]>> \in Field \X S
  OBVIOUS
<1>. QED
  BY <1>1 DEF FreePair

\* The request token stays among those that the service has made.
LEMMA RequestTypes ==
  ASSUME TypeOK, RequestToken
  PROVE  requests' \in 0 .. MaxRequest /\ popup' \in 1 .. requests' \cup {None}
  BY SessionAssumption DEF TypeOK, RequestToken

\* A step that sets a field of the pair sets it to a text of the answer.
LEMMA SetFieldSets ==
  ASSUME NEW f \in Field, NEW i \in {1, 2}, f = (IF i = 1 THEN "key" ELSE "secret"),
         SetField(f, i)
  PROVE  /\ oauth' = [oauth EXCEPT ![f] = authorize.login]
         /\ freed' = freed \ {<<f, authorize.login>>}
         /\ UNCHANGED <<tokens, alive, popup, jobs, service, ends, history>>
<1>1. InOrder(authorize.order)[i] = f
  BY DEF InOrder
<1>. QED
  BY <1>1 DEF SetField

-----------------------------------------------------------------------------
(* The types.                                                              *)

\* The start has no token and no plugin.
LEMMA InitTypes == Init => TypeInv /\ EndedIsEmpty
<1> SUFFICES ASSUME Init PROVE TypeInv /\ EndedIsEmpty
  OBVIOUS
<1>1. tokens \in Pairs(0 .. logins \cup {Garbage}) /\ oauth \in Pairs(1 .. logins \cup {None, Garbage})
  BY DEF Init, NoPair, Pair, Pairs
<1>2. Replaced
  BY DEF Init, Replaced, Idle, Replacing
<1>3. job \in [Job -> Pairs(1 .. logins \cup {None, Garbage, Unread}) \cup {None}]
  BY DEF Init
<1>4. requests \in 0 .. MaxRequest /\ logins \in 0 .. MaxLogin /\ ends \in 0 .. MaxEnd
  BY SessionAssumption DEF Init
<1>5. EndedIsEmpty
  BY DEF Init, EndedIsEmpty
<1>. QED
  BY <1>1, <1>2, <1>3, <1>4, <1>5 DEF Init, TypeInv, TypeOK

\* Without the plugin nothing of it changes but that it starts.
LEMMA StepEnded == EndedIsEmpty /\ [Next]_vars => EndedIsEmpty'
<1> SUFFICES ASSUME EndedIsEmpty, [Next]_vars PROVE EndedIsEmpty'
  OBVIOUS
<1> USE DEF EndedIsEmpty, plugin, history
<1>1. CASE PluginReady
  BY <1>1 DEF PluginReady
<1>2. CASE Account \/ CancelClick
  BY <1>2 DEF Account, CancelClick
<1>3. CASE ConfirmClick
  BY <1>3 DEF ConfirmClick
<1>4. CASE Authorize
  BY <1>4 DEF Authorize, Refused, FreeTokens, SetKey, SetSecret, StoreTokens, SetField,
     Idle, Refusal
<1>5. CASE End
  BY <1>5 DEF End
<1>6. ASSUME NEW j \in Job, BeginJob(j) \/ SignRequest(j) PROVE EndedIsEmpty'
  BY <1>6 DEF BeginJob, SignRequest
<1>7. ASSUME NEW j \in Job, NEW f \in Field, LoadField(j, f) PROVE EndedIsEmpty'
  BY <1>7 DEF LoadField
<1>8. CASE UNCHANGED vars
  BY <1>8 DEF vars
<1>. QED
  BY <1>1, <1>2, <1>3, <1>4, <1>5, <1>6, <1>7, <1>8 DEF Next

\* Every step keeps the types; the pair that is stored is complete.
LEMMA StepTypes == TypeInv /\ EndedIsEmpty /\ [Next]_vars => TypeInv'
<1> SUFFICES ASSUME TypeInv, EndedIsEmpty, [Next]_vars PROVE TypeInv'
  OBVIOUS
<1> USE SessionAssumption DEF TypeInv, jobs, service, plugin, history
<1>0. /\ logins \in Nat /\ requests \in Nat /\ ends \in Nat
      /\ MaxRequest \in Nat /\ MaxLogin \in Nat /\ MaxEnd \in Nat
  BY DEF TypeOK
<1>1. CASE PluginReady
  <2>1. CASE HasAccount(tokens)
    <3>1. oauth' = tokens /\ UNCHANGED <<requests, popup>>
      BY <1>1, <2>1 DEF PluginReady
    <3>2. tokens \in Pairs(1 .. logins \cup {None, Garbage})
      BY <2>1, <1>0 DEF HasAccount, TypeOK, Pairs
    <3>3. Replaced'
      BY <1>1 DEF PluginReady, EndedIsEmpty, Replaced, Idle, Replacing
    <3>. QED
      BY <1>1, <3>1, <3>2, <3>3 DEF PluginReady, TypeOK
  <2>2. CASE ~HasAccount(tokens)
    BY <1>1, <2>2, RequestTypes DEF PluginReady, TypeOK, Replaced
  <2>. QED
    BY <2>1, <2>2
<1>2. CASE Account
  BY <1>2, RequestTypes DEF Account, TypeOK, Replaced
<1>3. CASE CancelClick
  BY <1>3 DEF CancelClick, TypeOK, Replaced
<1>4. CASE ConfirmClick
  <2>1. authorize'.at \notin Replacing
    BY <1>4 DEF ConfirmClick, Refusal, Replacing
  <2>2. Replaced'
    BY <2>1 DEF Replaced, Replacing
  <2>3. logins' \in 0 .. MaxLogin /\ logins <= logins'
    BY <1>4, <1>0 DEF ConfirmClick, TypeOK
  <2>4. authorize' \in {Idle, Refusal} \cup
          [at : {"answered"} \cup Replacing, login : 1 .. logins' \cup {Garbage}, order : Orders]
    BY <1>4, <1>0 DEF ConfirmClick, Orders
  <2>5. 1 .. logins \subseteq 1 .. logins' /\ 0 .. logins \subseteq 0 .. logins'
    BY <2>3, <1>0
  <2>6. /\ tokens' \in Pairs(0 .. logins' \cup {Garbage})
        /\ oauth' \in Pairs(1 .. logins' \cup {None, Garbage})
        /\ freed' \subseteq Field \X (1 .. logins' \cup {Garbage})
    BY <1>4, <2>5 DEF ConfirmClick, TypeOK, Pairs
  <2>7. job' \in [Job -> Pairs(1 .. logins' \cup {None, Garbage, Unread}) \cup {None}]
    <3>1. Pairs(1 .. logins \cup {None, Garbage, Unread}) \subseteq
            Pairs(1 .. logins' \cup {None, Garbage, Unread})
      BY <2>5 DEF Pairs
    <3>. QED
      BY <3>1, <1>4 DEF ConfirmClick, TypeOK
  <2>. QED
    BY <1>4, <2>2, <2>3, <2>4, <2>6, <2>7 DEF ConfirmClick, TypeOK
<1>5. CASE Refused
  BY <1>5 DEF Refused, TypeOK, Replaced, Idle, Replacing
<1>6. CASE FreeTokens
  <2>1. /\ authorize \in [at : {"answered"} \cup Replacing, login : 1 .. logins \cup {Garbage},
                            order : Orders]
    BY <1>6 DEF FreeTokens, TypeOK, Idle, Refusal
  <2>2. freed' \subseteq Field \X (1 .. logins \cup {Garbage})
    <3>1. oauth \in [Field -> (1 .. logins \cup {Garbage}) \cup {None}]
      BY DEF TypeOK, Pairs
    <3>. QED
      BY <3>1, <1>6, FreedTexts DEF FreeTokens, TypeOK
  <2>3. authorize' = [authorize EXCEPT !.at = "key"] /\ misled' \in BOOLEAN
        /\ misled' = (misled \/ authorize.login = Garbage)
    BY <1>6 DEF FreeTokens, TypeOK
  <2>4. authorize'.at = "key" /\ authorize'.login = authorize.login
    BY <2>1, <2>3
  <2>5. Replaced'
    BY <2>3, <2>4 DEF Replaced
  <2>6. authorize' \in [at : {"answered"} \cup Replacing, login : 1 .. logins \cup {Garbage},
                         order : Orders]
    BY <2>1, <2>3 DEF Replacing
  <2>. QED
    BY <1>6, <2>2, <2>3, <2>5, <2>6 DEF FreeTokens, TypeOK
<1>7. CASE SetKey
  <2>1. authorize \in [at : {"answered"} \cup Replacing, login : 1 .. logins \cup {Garbage},
                        order : Orders]
    BY <1>7 DEF SetKey, TypeOK, Idle, Refusal
  <2>2. /\ oauth' = [oauth EXCEPT !["key"] = authorize.login]
        /\ freed' = freed \ {<<"key", authorize.login>>}
        /\ UNCHANGED <<tokens, alive, popup, jobs, service, ends, history>>
    BY <1>7, SetFieldSets DEF SetKey, Field
  <2>3. /\ authorize' = [authorize EXCEPT !.at = "secret"]
        /\ authorize.at = "key"
    BY <1>7 DEF SetKey
  <2>4. authorize'.at = "secret" /\ authorize'.login = authorize.login
    BY <2>1, <2>3
  <2>5. oauth' \in Pairs(1 .. logins \cup {None, Garbage}) /\ oauth'["key"] = authorize.login
    BY <2>1, <2>2 DEF TypeOK, Pairs, Field
  <2>6. Replaced'
    BY <2>2, <2>3, <2>4, <2>5 DEF Replaced, Replacing
  <2>7. authorize' \in [at : {"answered"} \cup Replacing, login : 1 .. logins \cup {Garbage},
                         order : Orders]
    BY <2>1, <2>3 DEF Replacing
  <2>. QED
    BY <2>2, <2>5, <2>6, <2>7 DEF TypeOK
<1>8. CASE SetSecret
  <2>1. authorize \in [at : {"answered"} \cup Replacing, login : 1 .. logins \cup {Garbage},
                        order : Orders]
    BY <1>8 DEF SetSecret, TypeOK, Idle, Refusal
  <2>2. /\ oauth' = [oauth EXCEPT !["secret"] = authorize.login]
        /\ freed' = freed \ {<<"secret", authorize.login>>}
        /\ UNCHANGED <<tokens, alive, popup, jobs, service, ends, history>>
    BY <1>8, SetFieldSets DEF SetSecret, Field
  <2>3. /\ authorize' = [authorize EXCEPT !.at = "reply"]
        /\ authorize.at = "secret"
    BY <1>8 DEF SetSecret
  <2>4. authorize'.at = "reply" /\ authorize'.login = authorize.login
    BY <2>1, <2>3
  <2>5. /\ oauth' \in Pairs(1 .. logins \cup {None, Garbage})
        /\ oauth'["secret"] = authorize.login /\ oauth'["key"] = oauth["key"]
    BY <2>1, <2>2 DEF TypeOK, Pairs, Field
  <2>6. Replaced'
    BY <2>2, <2>3, <2>4, <2>5 DEF Replaced, Replacing
  <2>7. authorize' \in [at : {"answered"} \cup Replacing, login : 1 .. logins \cup {Garbage},
                         order : Orders]
    BY <2>1, <2>3 DEF Replacing
  <2>. QED
    BY <2>2, <2>5, <2>6, <2>7 DEF TypeOK
<1>9. CASE StoreTokens
  <2>1. authorize \in [at : {"answered"} \cup Replacing, login : 1 .. logins \cup {Garbage},
                        order : Orders]
    BY <1>9 DEF StoreTokens, TypeOK, Idle, Refusal
  <2>2. oauth \in Pairs(0 .. logins \cup {Garbage})
    <3>1. oauth["key"] = authorize.login /\ oauth["secret"] = authorize.login
      BY <1>9 DEF StoreTokens, Replaced
    <3>2. \A f \in Field : oauth[f] \in 0 .. logins \cup {Garbage}
      BY <3>1, <2>1, <1>0 DEF Field
    <3>. QED
      BY <3>2 DEF TypeOK, Pairs
  <2>3. authorize' = Idle /\ tokens' \in {oauth, tokens}
    BY <1>9 DEF StoreTokens
  <2>4. Replaced'
    BY <2>3 DEF Replaced, Idle, Replacing
  <2>. QED
    BY <1>9, <2>2, <2>3, <2>4 DEF StoreTokens, TypeOK
<1>10. CASE End
  <2>1. oauth' \in Pairs(1 .. logins \cup {None, Garbage})
    BY <1>10 DEF End, Pairs, Pair
  <2>2. Replaced'
    BY <1>10 DEF End, Replaced, Idle, Replacing
  <2>3. ends' \in 0 .. MaxEnd
    BY <1>10, <1>0 DEF End, TypeOK
  <2>4. job' \in [Job -> Pairs(1 .. logins \cup {None, Garbage, Unread}) \cup {None}]
    BY <1>10 DEF End
  <2>. QED
    BY <1>10, <2>1, <2>2, <2>3, <2>4 DEF End, TypeOK
<1>11. ASSUME NEW j \in Job, BeginJob(j) PROVE TypeInv'
  <2>1. Pair(Unread) \in Pairs(1 .. logins \cup {None, Garbage, Unread})
    BY DEF Pair, Pairs
  <2>2. job' \in [Job -> Pairs(1 .. logins \cup {None, Garbage, Unread}) \cup {None}]
    BY <1>11, <2>1 DEF BeginJob, TypeOK
  <2>3. calm' \subseteq Job
    BY <1>11 DEF BeginJob, TypeOK
  <2>. QED
    BY <1>11, <2>2, <2>3 DEF BeginJob, TypeOK, Replaced
<1>12. ASSUME NEW j \in Job, SignRequest(j) PROVE TypeInv'
  <2>1. job' \in [Job -> Pairs(1 .. logins \cup {None, Garbage, Unread}) \cup {None}]
    BY <1>12 DEF SignRequest, TypeOK
  <2>. QED
    BY <1>12, <2>1 DEF SignRequest, TypeOK, Replaced
<1>13. ASSUME NEW j \in Job, NEW f \in Field, LoadField(j, f) PROVE TypeInv'
  <2>1. job[j] \in Pairs(1 .. logins \cup {None, Garbage, Unread})
    BY <1>13 DEF LoadField, TypeOK
  <2>2. oauth[f] \in 1 .. logins \cup {None, Garbage, Unread}
    BY DEF TypeOK, Pairs
  <2>3. [job[j] EXCEPT ![f] = oauth[f]] \in Pairs(1 .. logins \cup {None, Garbage, Unread})
    BY <2>1, <2>2 DEF Pairs
  <2>4. job' = [job EXCEPT ![j] = [job[j] EXCEPT ![f] = oauth[f]]]
    BY <1>13 DEF LoadField, TypeOK
  <2>5. job' \in [Job -> Pairs(1 .. logins \cup {None, Garbage, Unread}) \cup {None}]
    BY <2>3, <2>4 DEF TypeOK
  <2>. QED
    BY <1>13, <2>5 DEF LoadField, TypeOK, Replaced
<1>14. CASE UNCHANGED vars
  BY <1>14 DEF vars, TypeOK, Replaced
<1>. QED
  BY <1>1, <1>2, <1>3, <1>4, <1>5, <1>6, <1>7, <1>8, <1>9, <1>10, <1>11, <1>12, <1>13, <1>14
  DEF Next, Authorize

\* What the variables hold: TypeOK of the run, for every number of jobs and
\* every bound.
THEOREM Types == Spec => []TypeOK
<1>1. TypeInv => TypeOK
  BY DEF TypeInv
<1>. QED
  BY <1>1, InitTypes, StepTypes, StepEnded, PTL DEF Spec

-----------------------------------------------------------------------------
(* The pairs.                                                              *)

\* The service takes no pair back.
LEMMA GrantedGrows ==
  ASSUME logins \in Nat, logins' \in Nat, logins <= logins'
  PROVE  Granted \subseteq Granted'
<1>1. 1 .. logins \subseteq 1 .. logins'
  OBVIOUS
<1>. QED
  BY <1>1 DEF Granted

\* A granted pair is an account, and the plugin has it or none.
LEMMA AccountIsGranted ==
  ASSUME StoredPairGranted, ~misled
  PROVE  AccountOf(tokens) \in Granted \cup {Pair(None)}
<1>1. ~HasAccount(NoPair)
  BY DEF HasAccount, NoPair, Pair, Field
<1>. QED
  BY <1>1 DEF StoredPairGranted, AccountOf

\* Steps that leave the pair, the stored tokens and the jobs alone.
LEMMA SafeKept ==
  ASSUME IInv, TypeOK', UNCHANGED <<tokens, plugin, jobs, history>>, logins <= logins',
         authorize'.at \in Replacing <=> authorize.at \in Replacing
  PROVE  Safe'
<1>1. logins \in Nat /\ logins' \in Nat
  BY SessionAssumption DEF IInv, TypeInv, TypeOK
<1>2. Granted \subseteq Granted'
  BY <1>1, GrantedGrows
<1>3. 1 .. logins \subseteq 1 .. logins'
  BY <1>1
<1>4. StoredPairGranted' /\ CalmJobsSign'
  BY <1>2 DEF IInv, Safe, StoredPairGranted, CalmJobsSign, history, jobs
<1>5. Settled'
  BY DEF IInv, Safe, Settled, AccountOf, HasAccount, plugin, history
<1>6. CalmJobs'
  <2>1. [Field -> 1 .. logins \cup {None, Garbage, Unread}] \subseteq
          [Field -> 1 .. logins' \cup {None, Garbage, Unread}]
    BY <1>3
  <2>. QED
    BY <2>1 DEF IInv, Safe, CalmJobs, plugin, jobs, history
<1>. QED
  BY <1>4, <1>5, <1>6 DEF Safe

\* Nothing is stored or signed at the start.
LEMMA InitSafe == Init => Safe
<1> SUFFICES ASSUME Init PROVE Safe
  OBVIOUS
<1>1. StoredPairGranted /\ Settled /\ CalmJobs
  BY DEF Init, StoredPairGranted, Settled, CalmJobs
<1>2. CalmJobsSign
  BY DEF Init, CalmJobsSign
<1>. QED
  BY <1>1, <1>2 DEF Safe

\* Every step keeps the stored tokens, the pair and what calm jobs have of it.
LEMMA StepSafe == IInv /\ [Next]_vars => Safe'
<1> SUFFICES ASSUME IInv, [Next]_vars PROVE Safe'
  OBVIOUS
<1>0. TypeOK /\ TypeOK' /\ Replaced /\ EndedIsEmpty /\ Safe /\ logins \in Nat
  <2>1. TypeOK /\ TypeOK' /\ Replaced /\ EndedIsEmpty /\ Safe
    BY StepTypes DEF IInv, TypeInv
  <2>2. logins \in Nat
    BY <2>1, SessionAssumption DEF TypeOK
  <2>. QED
    BY <2>1, <2>2
<1> USE DEF plugin, jobs, service, history
<1>1. CASE PluginReady
  <2>1. /\ ~alive /\ UNCHANGED <<tokens, freed, authorize, jobs, logins, ends, history>>
        /\ oauth' = IF HasAccount(tokens) THEN tokens ELSE oauth
    BY <1>1 DEF PluginReady
  <2>2. oauth = Pair(None) /\ freed = {} /\ calm = {}
    BY <1>0, <2>1 DEF EndedIsEmpty
  <2>3. StoredPairGranted' /\ CalmJobsSign'
    BY <1>0, <2>1 DEF Safe, StoredPairGranted, CalmJobsSign, Granted
  <2>4. Settled'
    BY <2>1, <2>2 DEF Settled, AccountOf, HasAccount
  <2>5. CalmJobs'
    BY <2>1, <2>2 DEF CalmJobs
  <2>. QED
    BY <2>3, <2>4, <2>5 DEF Safe
<1>2. CASE Account \/ CancelClick \/ UNCHANGED vars
  <2>1. UNCHANGED <<tokens, plugin, authorize, jobs, logins, history>>
    BY <1>2 DEF Account, CancelClick, vars
  <2>. QED
    BY <1>0, <2>1, SafeKept
<1>3. CASE ConfirmClick
  <2>1. /\ UNCHANGED <<tokens, plugin, jobs, history>> /\ logins <= logins'
        /\ authorize.at \notin Replacing
    BY <1>0, <1>3 DEF ConfirmClick, Idle, Replacing
  <2>2. authorize'.at \notin Replacing
    BY <1>3 DEF ConfirmClick, Refusal, Replacing
  <2>. QED
    BY <1>0, <2>1, <2>2, SafeKept
<1>4. CASE Refused
  <2>1. UNCHANGED <<tokens, plugin, jobs, logins, history>>
    BY <1>4 DEF Refused
  <2>2. authorize.at \notin Replacing /\ authorize'.at \notin Replacing
    BY <1>4 DEF Refused, Refusal, Idle, Replacing
  <2>. QED
    BY <1>0, <2>1, <2>2, SafeKept
<1>5. CASE FreeTokens
  <2>1. /\ UNCHANGED <<tokens, sent, logins>> /\ calm' = {}
        /\ misled' = (misled \/ authorize.login = Garbage)
        /\ authorize' = [authorize EXCEPT !.at = "key"]
    BY <1>5 DEF FreeTokens
  <2>2. authorize'.at = "key"
    BY <2>1, <1>0, <1>5 DEF TypeOK, FreeTokens, Idle, Refusal
  <2>3. StoredPairGranted' /\ CalmJobsSign'
    BY <1>0, <2>1 DEF Safe, StoredPairGranted, CalmJobsSign, Granted
  <2>4. Settled'
    BY <2>2 DEF Settled, Replacing
  <2>5. CalmJobs'
    BY <2>1 DEF CalmJobs
  <2>. QED
    BY <2>3, <2>4, <2>5 DEF Safe
<1>6. CASE SetKey \/ SetSecret
  <2>1. UNCHANGED <<tokens, sent, logins, misled, calm>>
    BY <1>6 DEF SetKey, SetSecret, SetField
  <2>2. authorize.at \in Replacing /\ authorize'.at \in Replacing
    BY <1>0, <1>6 DEF SetKey, SetSecret, Replacing, TypeOK, Idle, Refusal
  <2>3. calm = {}
    BY <1>0, <2>2 DEF Safe, CalmJobs
  <2>4. StoredPairGranted' /\ CalmJobsSign'
    BY <1>0, <2>1 DEF Safe, StoredPairGranted, CalmJobsSign, Granted
  <2>5. Settled' /\ CalmJobs'
    BY <2>1, <2>2, <2>3 DEF Settled, CalmJobs
  <2>. QED
    BY <2>4, <2>5 DEF Safe
<1>7. CASE StoreTokens
  <2>1. /\ authorize.at = "reply" /\ authorize' = Idle
        /\ UNCHANGED <<plugin, jobs, logins, history>>
        /\ tokens' = oauth \/ authorize.login = Garbage
    BY <1>7 DEF StoreTokens
  <2>2. authorize.login = Garbage => misled
    BY <1>0, <2>1 DEF Replaced, Replacing
  <2>3. calm = {}
    BY <1>0, <2>1 DEF Safe, CalmJobs, Replacing
  <2>4. ASSUME ~misled
        PROVE  /\ oauth = Pair(authorize.login) /\ authorize.login \in 1 .. logins
               /\ tokens' = oauth /\ \A f \in Field : <<f, oauth[f]>> \notin freed
    <3>1. authorize.login \in 1 .. logins
      BY <1>0, <2>1, <2>2, <2>4 DEF TypeOK, Idle, Refusal
    <3>2. /\ oauth["key"] = authorize.login /\ <<"key", authorize.login>> \notin freed
          /\ oauth["secret"] = authorize.login /\ <<"secret", authorize.login>> \notin freed
      BY <1>0, <2>1 DEF Replaced
    <3>3. \A f \in Field : oauth[f] = authorize.login /\ <<f, oauth[f]>> \notin freed
      BY <3>2 DEF Field
    <3>4. oauth = Pair(authorize.login)
      BY <1>0, <3>3 DEF TypeOK, Pairs, Pair
    <3>. QED
      BY <2>1, <2>2, <2>4, <3>1, <3>3, <3>4
  <2>5. ~misled => tokens' \in Granted' /\ HasAccount(tokens')
    <3>1. ~misled => tokens' \in Granted'
      BY <2>1, <2>4 DEF Granted
    <3>2. ~misled => HasAccount(tokens')
      BY <1>0, <2>4 DEF HasAccount, Pair
    <3>. QED
      BY <3>1, <3>2
  <2>6. StoredPairGranted'
    BY <2>1, <2>5 DEF StoredPairGranted
  <2>7. CalmJobsSign'
    BY <1>0, <2>1 DEF Safe, CalmJobsSign, Granted
  <2>8. Settled'
    BY <2>1, <2>4, <2>5 DEF Settled, AccountOf
  <2>9. CalmJobs'
    BY <2>1, <2>3 DEF CalmJobs
  <2>. QED
    BY <2>6, <2>7, <2>8, <2>9 DEF Safe
<1>8. CASE End
  <2>1. UNCHANGED <<tokens, sent, logins, misled>> /\ calm' = {} /\ alive' = FALSE
    BY <1>8 DEF End
  <2>2. StoredPairGranted' /\ CalmJobsSign'
    BY <1>0, <2>1 DEF Safe, StoredPairGranted, CalmJobsSign, Granted
  <2>3. Settled' /\ CalmJobs'
    BY <2>1 DEF Settled, CalmJobs
  <2>. QED
    BY <2>2, <2>3 DEF Safe
<1>9. ASSUME NEW j \in Job, BeginJob(j) PROVE Safe'
  <2>1. /\ UNCHANGED <<tokens, plugin, authorize, sent, logins, misled>>
        /\ job' = [job EXCEPT ![j] = Pair(Unread)]
        /\ calm' = IF authorize.at \in Replacing THEN calm ELSE calm \cup {j}
    BY <1>9 DEF BeginJob
  <2>2. StoredPairGranted' /\ Settled' /\ CalmJobsSign'
    BY <1>0, <2>1 DEF Safe, StoredPairGranted, CalmJobsSign, Granted, Settled, AccountOf, HasAccount
  <2>3. CalmJobs'
    <3> SUFFICES ASSUME NEW k \in calm'
                 PROVE  /\ authorize'.at \notin Replacing
                        /\ job'[k] \in [Field -> 1 .. logins' \cup {None, Garbage, Unread}]
                        /\ \A f \in Field : job'[k][f] \in {Unread, oauth'[f]}
      BY DEF CalmJobs
    <3>1. calm \subseteq Job
      BY <1>0 DEF TypeOK
    <3>2. CASE k = j
      <4>1. job'[j] = Pair(Unread)
        BY <1>0, <2>1 DEF TypeOK
      <4>2. authorize.at \notin Replacing
        BY <1>0, <2>1, <3>2 DEF Safe, CalmJobs
      <4>. QED
        BY <2>1, <3>2, <4>1, <4>2 DEF Pair
    <3>3. CASE k # j
      <4>1. k \in calm /\ job'[k] = job[k]
        BY <1>0, <2>1, <3>1, <3>3 DEF TypeOK
      <4>. QED
        BY <1>0, <2>1, <4>1 DEF Safe, CalmJobs
    <3>. QED
      BY <3>2, <3>3
  <2>. QED
    BY <2>2, <2>3 DEF Safe
<1>10. ASSUME NEW j \in Job, NEW f \in Field, LoadField(j, f) PROVE Safe'
  <2>1. /\ UNCHANGED <<tokens, plugin, authorize, sent, logins, history>>
        /\ job' = [job EXCEPT ![j][f] = oauth[f]]
    BY <1>10 DEF LoadField
  <2>2. StoredPairGranted' /\ Settled' /\ CalmJobsSign'
    BY <1>0, <2>1 DEF Safe, StoredPairGranted, CalmJobsSign, Granted, Settled, AccountOf, HasAccount
  <2>3. CalmJobs'
    <3> SUFFICES ASSUME NEW k \in calm
                 PROVE  /\ authorize'.at \notin Replacing
                        /\ job'[k] \in [Field -> 1 .. logins' \cup {None, Garbage, Unread}]
                        /\ \A g \in Field : job'[k][g] \in {Unread, oauth'[g]}
      BY <2>1 DEF CalmJobs
    <3>1. /\ k \in Job /\ authorize.at \notin Replacing
          /\ job[k] \in [Field -> 1 .. logins \cup {None, Garbage, Unread}]
          /\ \A g \in Field : job[k][g] \in {Unread, oauth[g]}
      BY <1>0 DEF TypeOK, Safe, CalmJobs
    <3>2. CASE k = j
      <4>1. job'[k] = [job[k] EXCEPT ![f] = oauth[f]]
        BY <1>0, <2>1, <3>2 DEF TypeOK
      <4>2. oauth[f] \in 1 .. logins \cup {None, Garbage}
        BY <1>0 DEF TypeOK, Pairs
      <4>3. /\ job'[k] \in [Field -> 1 .. logins \cup {None, Garbage, Unread}]
            /\ \A g \in Field : job'[k][g] \in {Unread, oauth[g]}
        BY <3>1, <4>1, <4>2
      <4>. QED
        BY <2>1, <3>1, <4>3
    <3>3. CASE k # j
      <4>1. job'[k] = job[k]
        BY <1>0, <2>1, <3>1, <3>3 DEF TypeOK
      <4>. QED
        BY <2>1, <3>1, <4>1
    <3>. QED
      BY <3>2, <3>3
  <2>. QED
    BY <2>2, <2>3 DEF Safe
<1>11. ASSUME NEW j \in Job, SignRequest(j) PROVE Safe'
  <2>1. /\ UNCHANGED <<tokens, plugin, authorize, logins, misled>>
        /\ \A f \in Field : job[j][f] # Unread
        /\ job' = [job EXCEPT ![j] = None] /\ calm' = calm \ {j}
        /\ sent' = [calm |-> j \in calm,
                    pair |-> [f \in Field |-> IF <<f, job[j][f]>> \in freed THEN Garbage
                                              ELSE job[j][f]]]
    BY <1>11 DEF SignRequest
  <2>2. StoredPairGranted' /\ Settled'
    BY <1>0, <2>1 DEF Safe, StoredPairGranted, Granted, Settled, AccountOf, HasAccount
  <2>3. CalmJobs'
    <3>1. \A k \in calm' : k \in calm /\ job'[k] = job[k]
      BY <1>0, <2>1 DEF TypeOK
    <3>. QED
      BY <1>0, <2>1, <3>1 DEF Safe, CalmJobs
  <2>4. ASSUME ~misled, j \in calm PROVE sent'.pair \in Granted \cup {Pair(None)}
    <3>1. authorize.at \notin Replacing /\ \A f \in Field : job[j][f] = oauth[f]
      BY <1>0, <2>1, <2>4 DEF Safe, CalmJobs
    <3>2. alive
      BY <1>0, <2>4 DEF EndedIsEmpty
    <3>3. oauth = AccountOf(tokens) /\ \A f \in Field : <<f, oauth[f]>> \notin freed
      BY <1>0, <2>4, <3>1, <3>2 DEF Safe, Settled
    <3>4. sent'.pair = [f \in Field |-> oauth[f]]
      BY <2>1, <3>1, <3>3
    <3>5. sent'.pair = oauth
      BY <1>0, <3>4 DEF TypeOK, Pairs
    <3>. QED
      BY <1>0, <2>4, <3>3, <3>5, AccountIsGranted DEF Safe
  <2>5. CalmJobsSign'
    <3>1. sent'.calm => j \in calm
      BY <2>1
    <3>. QED
      BY <2>1, <2>4, <3>1 DEF CalmJobsSign, Granted
  <2>. QED
    BY <2>2, <2>3, <2>5 DEF Safe
<1>. QED
  BY <1>1, <1>2, <1>3, <1>4, <1>5, <1>6, <1>7, <1>8, <1>9, <1>10, <1>11 DEF Next, Authorize

\* The inductive invariant holds in every state.
LEMMA Invariant == Spec => []IInv
<1>1. Init => IInv
  BY InitTypes, InitSafe DEF IInv
<1>2. IInv /\ [Next]_vars => IInv'
  BY StepTypes, StepEnded, StepSafe DEF IInv
<1>. QED
  BY <1>1, <1>2, PTL DEF Spec

\* The tokens that localStorage keeps are no account or a token and its own
\* secret, wherever the app ended, unless a page was taken for an answer:
\* StoredPairGranted of the run.
THEOREM Stored == Spec => []StoredPairGranted
<1>1. IInv => StoredPairGranted
  BY DEF IInv, Safe
<1>. QED
  BY <1>1, Invariant, PTL

\* Between logins the plugin has the pair that the UI has stored, or none if
\* that is no account: SessionIsStored of the run.
THEOREM Session == Spec => []SessionIsStored
<1>1. IInv => SessionIsStored
  <2>1. "idle" \notin Replacing
    BY DEF Replacing
  <2>. QED
    BY <2>1 DEF IInv, Safe, Settled, SessionIsStored, AccountOf, Idle
<1>. QED
  BY <1>1, Invariant, PTL

\* A job during which no login replaces the pair signs with a granted pair or
\* none, never with a text that is freed: CalmJobsSign of the run.
THEOREM CalmSignature == Spec => []CalmJobsSign
<1>1. IInv => CalmJobsSign
  BY DEF IInv, Safe
<1>. QED
  BY <1>1, Invariant, PTL
=============================================================================
