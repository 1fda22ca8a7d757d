--------------------------- MODULE SessionsProofs ---------------------------
(* A request runs only as a user whose password its browser sent, and the  *)
(* cookies of a browser stay good until they are taken to /logout: for any *)
(* number of users, tokens, browsers and requests, with every failure.     *)
EXTENDS WebClient, TLAPS

Labels == {"idle", "session", "auth", "account", "token", "create", "revoke",
           "run", "answer"}

Typed ==
  /\ users_auths \subseteq Credential
  /\ jar \in [Browsers -> Credential \cup {Empty}]
  /\ pc \in [Calls -> Labels]
  /\ req \in [Calls -> Message \cup {NoMessage}]
  /\ session \in [Calls -> Credential \cup {Empty}]
  /\ cookies \in [Calls -> Credential \cup {Empty, Unchanged}]
  /\ proved \in [Browsers -> SUBSET Users]

\* A credential that may be with browser b.
Known(b, cred) ==
  cred \in Credential =>
    cred.user \in proved[b] /\ cred \in users_auths \cup presented

CallOK(c) ==
  /\ pc[c] \in {"idle", "answer"} => session[c] = Empty
  /\ pc[c] = "idle" => cookies[c] = Unchanged
  /\ pc[c] # "idle" =>
       /\ req[c] \in Message
       /\ Known(req[c].browser, req[c].cookies)
       /\ Known(req[c].browser, cookies[c])
       /\ session[c] \in {Empty, req[c].cookies}
  /\ pc[c] # "idle" /\ req[c].op = "logout" => req[c].cookies \in presented
  /\ pc[c] # "idle" /\ req[c].op = "userAuth" /\ req[c].right =>
       req[c].user \in proved[req[c].browser]
  /\ pc[c] = "auth" => req[c].op = "userAuth"
  /\ pc[c] \in {"account", "token"} => req[c].op = "userAuth" /\ req[c].right
  /\ pc[c] = "revoke" => req[c].op = "logout"

IInv ==
  /\ Typed
  /\ \A b \in Browsers : Known(b, jar[b])
  /\ \A c \in Calls : CallOK(c)

-----------------------------------------------------------------------------
LEMMA NotCredentials ==
  /\ Empty \notin Credential /\ Unchanged \notin Credential
  /\ Empty # Unchanged
  BY NobodyAssumption DEF Empty, Unchanged, Credential

LEMMA MessageFacts ==
  ASSUME NEW q \in Message
  PROVE  /\ q.browser \in Browsers /\ q.cookies \in Credential \cup {Empty}
         /\ q.op = "userAuth" => q.user \in Users /\ q.right \in BOOLEAN
  BY DEF Message

\* What was proved stays proved, and what was presented stays presented.
LEMMA HistoryGrows ==
  ASSUME IInv, Record
  PROVE  /\ proved' \in [Browsers -> SUBSET Users]
         /\ \A b \in Browsers : proved[b] \subseteq proved'[b]
         /\ presented \subseteq presented'
  BY DEF Record, IInv, Typed

\* A row goes only when its credential has been presented to /logout.
LEMMA RowsLeave ==
  ASSUME IInv, Next, Record
  PROVE  users_auths \subseteq users_auths' \cup presented'
<1>1. ASSUME NEW c \in Calls, RevokeToken(c)
      PROVE  users_auths \subseteq users_auths' \cup presented'
  <2>1. req[c].cookies \in presented /\ session[c] \in {Empty, req[c].cookies}
    BY <1>1 DEF IInv, CallOK, RevokeToken
  <2>2. Empty \notin users_auths
    BY NotCredentials DEF IInv, Typed
  <2>3. presented \subseteq presented'
    BY HistoryGrows
  <2>4. QED
    BY <1>1, <2>1, <2>2, <2>3 DEF RevokeToken
<1>2. ASSUME NEW c \in Calls, Send(c) \/ Deliver(c) \/ Lose(c)
      PROVE  users_auths' = users_auths
  BY <1>2 DEF Send, Deliver, Lose
<1>3. ASSUME NEW c \in Calls, Handle(c), ~ RevokeToken(c)
      PROVE  users_auths \subseteq users_auths'
  BY <1>3 DEF Handle, BuildSession, UserCreate, Authenticate, FindAccount,
     InsertToken, RunHandler
<1>4. CASE (\E b \in Browsers : Expire(b)) \/ Restart
  BY <1>4 DEF Expire, Restart
<1>5. QED
  BY <1>1, <1>2, <1>3, <1>4 DEF Next

LEMMA KnownStays ==
  ASSUME IInv, Next, Record
  PROVE  \A b \in Browsers : \A cred : Known(b, cred) => Known(b, cred)'
  BY HistoryGrows, RowsLeave DEF Known

LEMMA CallStays ==
  ASSUME IInv, Next, Record, NEW c \in Calls,
         pc'[c] = pc[c], req'[c] = req[c], session'[c] = session[c],
         cookies'[c] = cookies[c]
  PROVE  CallOK(c)'
<1>1. CallOK(c)
  BY DEF IInv
<1>2. CASE pc[c] = "idle"
  BY <1>1, <1>2 DEF CallOK
<1>3. CASE pc[c] # "idle"
  <2>1. req[c] \in Message /\ req[c].browser \in Browsers
    BY <1>1, <1>3, MessageFacts DEF CallOK
  <2>2. /\ Known(req[c].browser, req[c].cookies)'
        /\ Known(req[c].browser, cookies[c])'
    BY <1>1, <1>3, <2>1, KnownStays DEF CallOK, Known
  <2>3. QED
    BY <1>1, <1>3, <2>1, <2>2, HistoryGrows DEF CallOK, Known
<1>4. QED
  BY <1>2, <1>3

\* What a step of one call leaves alone.
OnlyCall(c) ==
  \A d \in Calls \ {c} :
    /\ pc'[d] = pc[d] /\ req'[d] = req[d]
    /\ session'[d] = session[d] /\ cookies'[d] = cookies[d]

LEMMA OneCall ==
  ASSUME IInv, Next, Record, NEW c \in Calls, OnlyCall(c), CallOK(c)', Typed',
         jar' = jar
  PROVE  IInv'
<1>1. \A d \in Calls : CallOK(d)'
  BY CallStays DEF OnlyCall
<1>2. \A b \in Browsers : Known(b, jar[b])'
  BY KnownStays DEF IInv, Known
<1>3. QED
  BY <1>1, <1>2 DEF IInv

LEMMA SendKeeps ==
  ASSUME IInv, Next, Record, NEW c \in Calls, Send(c)
  PROVE  IInv'
<1>1. PICK q \in Message : q.cookies = jar[q.browser]
                          /\ req' = [req EXCEPT ![c] = q]
  BY DEF Send
<1>2. req'[c] = q /\ pc'[c] = "session" /\ pc[c] = "idle"
      /\ session'[c] = Empty /\ cookies' = cookies
  BY <1>1 DEF Send, IInv, Typed, CallOK
<1>3. Typed'
  BY <1>1, HistoryGrows DEF Send, IInv, Typed, Labels
<1>4. OnlyCall(c)
  BY <1>1 DEF Send, OnlyCall, IInv, Typed
<1>5. q.browser \in Browsers
  BY MessageFacts
<1>6. Known(q.browser, q.cookies)'
  BY <1>1, <1>5, KnownStays DEF IInv, Known, Send
<1>7. cookies[c] \notin Credential
  BY <1>2, NotCredentials DEF IInv, CallOK
<1>8. q.op = "logout" => q.cookies \in presented'
  BY <1>2 DEF Record, Sent
<1>9. q.op = "userAuth" /\ q.right => q.user \in proved'[q.browser]
  BY <1>2, <1>5, MessageFacts DEF Record, Sent
<1>10. CallOK(c)'
  BY <1>2, <1>6, <1>7, <1>8, <1>9 DEF CallOK, Known
<1>11. QED
  BY <1>3, <1>4, <1>10, OneCall DEF Send

\* A handler's last step: Known is what its cookies need.
LEMMA AnswerKeeps ==
  ASSUME IInv, Next, Record, NEW c \in Calls, pc[c] \notin {"idle", "answer"},
         NEW set \in Credential \cup {Empty, Unchanged}, Answer(c, set),
         Known(req[c].browser, set)', users_auths' \subseteq Credential,
         jar' = jar
  PROVE  IInv'
<1>1. /\ pc'[c] = "answer" /\ req' = req
      /\ session'[c] = Empty /\ cookies'[c] = set
  BY DEF Answer, IInv, Typed
<1>2. Typed'
  BY HistoryGrows DEF Answer, IInv, Typed, Labels
<1>3. OnlyCall(c)
  BY DEF Answer, OnlyCall, IInv, Typed
<1>4. req[c] \in Message /\ req[c].browser \in Browsers
  BY MessageFacts DEF IInv, CallOK
<1>5. Known(req[c].browser, req[c].cookies)'
  BY <1>1, <1>4, KnownStays DEF IInv, CallOK, Known
<1>6. CallOK(c)'
  BY <1>1, <1>4, <1>5, HistoryGrows DEF IInv, CallOK, Known
<1>7. QED
  BY <1>2, <1>3, <1>6, OneCall

\* An answer that sets no credential.
LEMMA PlainAnswerKeeps ==
  ASSUME IInv, Next, Record, NEW c \in Calls, pc[c] \notin {"idle", "answer"},
         NEW set \in {Empty, Unchanged}, Answer(c, set),
         users_auths' \subseteq Credential, jar' = jar
  PROVE  IInv'
<1>1. Known(req[c].browser, set)'
  BY NotCredentials DEF Known
<1>2. QED
  BY <1>1, AnswerKeeps

LEMMA GotoKeeps ==
  ASSUME IInv, Next, Record, NEW c \in Calls, pc[c] \notin {"idle", "answer"},
         NEW label \in Labels \ {"idle", "answer"}, Goto(c, label),
         label = "auth" => req[c].op = "userAuth",
         label \in {"account", "token"} => req[c].op = "userAuth" /\ req[c].right,
         label = "revoke" => req[c].op = "logout",
         UNCHANGED <<users_auths, jar>>
  PROVE  IInv'
<1>1. pc'[c] = label /\ UNCHANGED <<req, session, cookies>>
  BY DEF Goto, IInv, Typed
<1>2. Typed'
  BY HistoryGrows DEF Goto, IInv, Typed
<1>3. OnlyCall(c)
  BY DEF Goto, OnlyCall, IInv, Typed
<1>4. req[c] \in Message /\ req[c].browser \in Browsers
  BY MessageFacts DEF IInv, CallOK
<1>5. /\ Known(req[c].browser, req[c].cookies)'
      /\ Known(req[c].browser, cookies[c])'
  BY <1>1, <1>4, KnownStays DEF IInv, CallOK, Known
<1>6. CallOK(c)'
  BY <1>1, <1>4, <1>5, HistoryGrows DEF IInv, CallOK, Known
<1>7. QED
  BY <1>2, <1>3, <1>6, OneCall

LEMMA BuildSessionKeeps ==
  ASSUME IInv, Next, Record, NEW c \in Calls, BuildSession(c)
  PROVE  IInv'
<1>1. /\ pc[c] = "session" /\ req' = req /\ cookies' = cookies
      /\ session'[c] \in {Empty, req[c].cookies}
  BY DEF BuildSession, IInv, Typed
<1>2. req[c] \in Message /\ req[c].browser \in Browsers
      /\ req[c].cookies \in Credential \cup {Empty}
  BY <1>1, MessageFacts DEF IInv, CallOK
<1>3. /\ pc'[c] \in {"auth", "create", "revoke", "run"}
      /\ pc'[c] = "auth" => req[c].op = "userAuth"
      /\ pc'[c] = "revoke" => req[c].op = "logout"
  BY DEF BuildSession, IInv, Typed
<1>4. Typed'
  <2>1. pc' \in [Calls -> Labels]
    BY <1>3 DEF BuildSession, IInv, Typed, Labels
  <2>2. session' \in [Calls -> Credential \cup {Empty}]
    BY <1>2 DEF BuildSession, IInv, Typed
  <2>3. QED
    BY <2>1, <2>2, HistoryGrows DEF BuildSession, IInv, Typed
<1>5. OnlyCall(c)
  BY DEF BuildSession, OnlyCall, IInv, Typed
<1>6. /\ Known(req[c].browser, req[c].cookies)'
      /\ Known(req[c].browser, cookies[c])'
  BY <1>1, <1>2, KnownStays DEF IInv, CallOK, Known
<1>7. CallOK(c)'
  BY <1>1, <1>2, <1>3, <1>6, HistoryGrows DEF IInv, CallOK, Known
<1>8. QED
  BY <1>4, <1>5, <1>7, OneCall DEF BuildSession

LEMMA InsertTokenKeeps ==
  ASSUME IInv, Next, Record, NEW c \in Calls, InsertToken(c)
  PROVE  IInv'
<1>1. pc[c] = "token" /\ jar' = jar
  BY DEF InsertToken
<1>2. /\ req[c] \in Message /\ req[c].browser \in Browsers
      /\ req[c].user \in Users /\ req[c].user \in proved'[req[c].browser]
  BY <1>1, MessageFacts, HistoryGrows DEF IInv, CallOK
<1>3. ASSUME NEW new \in Credential, new.user = req[c].user,
             users_auths' = users_auths \cup {new}, Answer(c, new)
      PROVE  IInv'
  <2>1. req'[c] = req[c]
    BY <1>3 DEF Answer
  <2>2. Known(req[c].browser, new)'
    BY <1>2, <1>3, <2>1 DEF Known
  <2>3. users_auths' \subseteq Credential
    BY <1>3 DEF IInv, Typed
  <2>4. QED
    BY <1>1, <1>3, <2>2, <2>3, AnswerKeeps
<1>4. CASE Answer(c, Unchanged) /\ UNCHANGED users_auths
  BY <1>1, <1>4, PlainAnswerKeeps DEF IInv, Typed
<1>5. \A token \in Tokens : [user |-> req[c].user, token |-> token] \in Credential
  BY <1>2 DEF Credential
<1>6. QED
  BY <1>3, <1>4, <1>5 DEF InsertToken

LEMMA HandleKeeps ==
  ASSUME IInv, Next, Record, NEW c \in Calls, Handle(c)
  PROVE  IInv'
<1>1. CASE UserCreate(c) \/ RunHandler(c)
  BY <1>1, PlainAnswerKeeps DEF UserCreate, RunHandler, IInv, Typed
<1>2. CASE Authenticate(c)
  <2>1. pc[c] = "auth" /\ req[c].op = "userAuth" /\ UNCHANGED <<users_auths, jar>>
    BY <1>2 DEF Authenticate, IInv, CallOK
  <2>2. CASE req[c].right /\ Goto(c, "account")
    BY <2>1, <2>2, GotoKeeps DEF Labels
  <2>3. CASE Answer(c, Unchanged)
    BY <2>1, <2>3, PlainAnswerKeeps DEF IInv, Typed
  <2>4. QED
    BY <1>2, <2>2, <2>3 DEF Authenticate
<1>3. CASE FindAccount(c)
  <2>1. /\ pc[c] = "account" /\ req[c].op = "userAuth" /\ req[c].right
        /\ UNCHANGED <<users_auths, jar>>
    BY <1>3 DEF FindAccount, IInv, CallOK
  <2>2. CASE Goto(c, "token")
    BY <2>1, <2>2, GotoKeeps DEF Labels
  <2>3. CASE Answer(c, Unchanged)
    BY <2>1, <2>3, PlainAnswerKeeps DEF IInv, Typed
  <2>4. QED
    BY <1>3, <2>2, <2>3 DEF FindAccount
<1>4. CASE RevokeToken(c)
  BY <1>4, PlainAnswerKeeps DEF RevokeToken, IInv, Typed
<1>5. QED
  BY <1>1, <1>2, <1>3, <1>4, BuildSessionKeeps, InsertTokenKeeps DEF Handle

-----------------------------------------------------------------------------
\* The answer leaves the call; its cookies may go to its browser.
LEMMA ForgetKeeps ==
  ASSUME IInv, Next, Record, NEW c \in Calls, pc[c] = "answer", Forget(c),
         users_auths' = users_auths,
         \/ jar' = jar
         \/ /\ cookies[c] # Unchanged
            /\ jar' = [jar EXCEPT ![req[c].browser] = cookies[c]]
  PROVE  IInv'
<1>1. /\ req[c] \in Message /\ req[c].browser \in Browsers
      /\ Known(req[c].browser, cookies[c]) /\ session[c] = Empty
  BY MessageFacts DEF IInv, CallOK
<1>2. Typed'
  <2>1. jar' \in [Browsers -> Credential \cup {Empty}]
    BY <1>1 DEF IInv, Typed
  <2>2. QED
    BY <2>1, HistoryGrows DEF Forget, IInv, Typed, Labels
<1>3. CallOK(c)'
  BY <1>1 DEF Forget, IInv, Typed, CallOK
<1>4. ASSUME NEW d \in Calls
      PROVE  CallOK(d)'
  BY <1>3, CallStays DEF Forget, IInv, Typed
<1>5. ASSUME NEW b \in Browsers
      PROVE  Known(b, jar[b])'
  <2>1. jar'[b] = jar[b] \/ (b = req[c].browser /\ jar'[b] = cookies[c])
    BY <1>1 DEF IInv, Typed
  <2>2. Known(b, jar'[b])
    BY <1>1, <2>1 DEF IInv
  <2>3. QED
    BY <2>2, KnownStays DEF Known
<1>6. QED
  BY <1>2, <1>4, <1>5 DEF IInv

LEMMA ExpireKeeps ==
  ASSUME IInv, Next, Record, NEW b \in Browsers, Expire(b)
  PROVE  IInv'
<1>1. Typed'
  BY HistoryGrows DEF Expire, IInv, Typed
<1>2. \A c \in Calls : CallOK(c)'
  BY CallStays DEF Expire
<1>3. ASSUME NEW d \in Browsers
      PROVE  Known(d, jar[d])'
  <2>1. jar'[d] \in {jar[d], Empty}
    BY DEF Expire, IInv, Typed
  <2>2. Known(d, jar'[d])
    BY <2>1, NotCredentials DEF IInv, Known
  <2>3. QED
    BY <2>2, KnownStays DEF Known
<1>4. QED
  BY <1>1, <1>2, <1>3 DEF IInv

LEMMA RestartKeeps ==
  ASSUME IInv, Next, Record, Restart
  PROVE  IInv'
<1>1. Typed'
  BY HistoryGrows DEF Restart, IInv, Typed, Labels
<1>2. \A c \in Calls : CallOK(c)'
  BY DEF Restart, CallOK
<1>3. \A b \in Browsers : Known(b, jar[b])'
  BY KnownStays DEF Restart, IInv, Known
<1>4. QED
  BY <1>1, <1>2, <1>3 DEF IInv

LEMMA InitHolds == AuditInit => IInv
  BY NotCredentials
  DEF AuditInit, Init, IInv, Typed, Known, CallOK, Labels

LEMMA Preservation == IInv /\ [Next /\ Record]_auditVars => IInv'
<1>1. ASSUME IInv, Next, Record
      PROVE  IInv'
  <2>1. ASSUME NEW c \in Calls, Deliver(c) \/ Lose(c)
        PROVE  IInv'
    BY <1>1, <2>1, ForgetKeeps DEF Deliver, Lose
  <2>2. QED
    BY <1>1, <2>1, SendKeeps, HandleKeeps, ExpireKeeps, RestartKeeps DEF Next
<1>2. ASSUME IInv, UNCHANGED auditVars
      PROVE  IInv'
  BY <1>2 DEF auditVars, vars, IInv, Typed, CallOK, Known
<1>3. QED
  BY <1>1, <1>2

-----------------------------------------------------------------------------
(***************************************************************************)
(* Whatever logins, logouts, late or lost answers and restarts overlap, a  *)
(* handler runs as a user only for a browser that sent this user's         *)
(* password (session.cc, Service::userAuth).                               *)
(***************************************************************************)
THEOREM RequestsAreProved == AuditSpec => []IdentityProved
<1>1. IInv => IdentityProved
  <2>1. SUFFICES ASSUME IInv, NEW c \in Calls, session[c] # Empty
                 PROVE  session[c].user \in proved[req[c].browser]
    BY DEF IdentityProved
  <2>2. session[c] = req[c].cookies /\ Known(req[c].browser, req[c].cookies)
    BY <2>1 DEF IInv, Typed, Labels, CallOK
  <2>3. session[c] \in Credential
    BY <2>1 DEF IInv, Typed
  <2>4. QED
    BY <2>2, <2>3 DEF Known
<1>2. QED
  BY <1>1, InitHolds, Preservation, PTL DEF AuditSpec

(***************************************************************************)
(* The cookies a browser holds are those of a row, unless they were taken  *)
(* to /logout: no failure leaves a user with cookies the server does not   *)
(* know (Service::userAuth, logout-handler.cc).                            *)
(***************************************************************************)
THEOREM CookiesAreRows == AuditSpec => []CookiesStayGood
<1>1. IInv => CookiesStayGood
  BY DEF IInv, Typed, Known, CookiesStayGood
<1>2. QED
  BY <1>1, InitHolds, Preservation, PTL DEF AuditSpec

-----------------------------------------------------------------------------
\* No credential was ever known to the server but with a token that is drawn,
\* so none comes back once it is revoked.
RInv ==
  /\ IInv
  /\ \A a \in users_auths : a.token \in drawn
  /\ \A a \in presented \ {Empty} : a.token \in drawn
  /\ ended \subseteq presented \cup {Empty}
  /\ ended \cap users_auths = {}

\* Only cookies that a browser has are presented.
LEMMA PresentedKnown ==
  ASSUME IInv, Next, Record
  PROVE  presented' \subseteq presented \cup users_auths \cup {Empty}
<1>1. SUFFICES ASSUME NEW c \in Calls, Sent(c)
               PROVE  req'[c].cookies \in presented \cup users_auths \cup {Empty}
  BY DEF Record
<1>2. Send(c)
  <2>1. \A d \in Calls : Handle(d) \/ Deliver(d) \/ Lose(d) =>
          pc[d] # "idle" /\ (d = c \/ pc'[c] = pc[c])
    BY DEF Handle, BuildSession, UserCreate, Authenticate, FindAccount,
       InsertToken, RevokeToken, RunHandler, Deliver, Lose, Goto, Answer, Forget,
       IInv, Typed
  <2>2. \A d \in Calls : Send(d) => d = c \/ pc'[c] = pc[c]
    BY DEF Send, IInv, Typed
  <2>3. ~ Restart /\ \A b \in Browsers : ~ Expire(b)
    BY <1>1 DEF Restart, Expire, Sent
  <2>4. QED
    BY <1>1, <2>1, <2>2, <2>3 DEF Next, Sent
<1>3. PICK q \in Message : q.cookies = jar[q.browser] /\ req'[c] = q
  BY <1>2 DEF Send, IInv, Typed
<1>4. jar[q.browser] \in Credential \cup {Empty} /\ Known(q.browser, jar[q.browser])
  BY MessageFacts DEF IInv, Typed
<1>5. QED
  BY <1>3, <1>4 DEF Known

\* Only RevokeToken ends a credential, and it was presented.
LEMMA EndedRevoked ==
  ASSUME IInv, Next, Record
  PROVE  \/ ended' = ended /\ \A c \in Calls : ~ RevokeToken(c)
         \/ \E c \in Calls : /\ RevokeToken(c)
                             /\ ended' \subseteq ended \cup {session[c]}
                             /\ session[c] \in presented \cup {Empty}
<1>1. ASSUME NEW c \in Calls, pc[c] = "revoke", pc'[c] = "answer"
      PROVE  RevokeToken(c)
  <2>1. \A d \in Calls : Handle(d) \/ Deliver(d) \/ Lose(d) \/ Send(d) =>
          d = c \/ pc'[c] = pc[c]
    BY DEF Handle, BuildSession, UserCreate, Authenticate, FindAccount,
       InsertToken, RevokeToken, RunHandler, Deliver, Lose, Send, Goto, Answer,
       Forget, IInv, Typed
  <2>2. Handle(c) => RevokeToken(c)
    BY <1>1 DEF Handle, BuildSession, UserCreate, Authenticate, FindAccount,
       InsertToken, RunHandler
  <2>3. ~ Restart /\ \A b \in Browsers : ~ Expire(b)
    BY <1>1 DEF Restart, Expire
  <2>4. ~ Send(c) /\ ~ Deliver(c) /\ ~ Lose(c)
    BY <1>1 DEF Send, Deliver, Lose
  <2>5. QED
    BY <1>1, <2>1, <2>2, <2>3, <2>4 DEF Next
<1>2. ASSUME NEW c \in Calls, RevokeToken(c)
      PROVE  /\ ended' \subseteq ended \cup {session[c]}
             /\ session[c] \in presented \cup {Empty}
  <2>1. \A d \in Calls \ {c} : pc'[d] = pc[d]
    BY <1>2 DEF RevokeToken, Answer, IInv, Typed
  <2>2. session[c] \in presented \cup {Empty}
    BY <1>2 DEF RevokeToken, IInv, CallOK
  <2>3. QED
    BY <2>1, <2>2 DEF Record
<1>3. CASE \A c \in Calls : ~ RevokeToken(c)
  BY <1>1, <1>3 DEF Record
<1>4. QED
  BY <1>2, <1>3

LEMMA RevocationKept ==
  ASSUME "sql" \notin Failures, RInv, [Next /\ Record]_auditVars
  PROVE  RInv'
<1>1. CASE UNCHANGED auditVars
  <2>1. IInv'
    BY Preservation DEF RInv
  <2>2. QED
    BY <1>1, <2>1 DEF RInv, auditVars, vars
<1>2. CASE Next /\ Record
  <2>1. IInv /\ IInv' /\ Next /\ Record
    BY <1>2, Preservation DEF RInv
  <2>2. presented' \subseteq presented \cup users_auths \cup {Empty}
    BY <2>1, PresentedKnown
  <2>3. presented \subseteq presented' /\ Empty \notin users_auths
    BY <2>1, HistoryGrows, NotCredentials DEF IInv, Typed
  <2>4. CASE \E c \in Calls : RevokeToken(c)
    <3>1. PICK c \in Calls : RevokeToken(c)
      BY <2>4
    <3>2. \A d \in Calls : RevokeToken(d) =>
            users_auths' = users_auths \ {session[d]} /\ drawn' = drawn
      BY DEF RevokeToken, RInv
    <3>3. PICK d \in Calls : /\ RevokeToken(d)
                             /\ ended' \subseteq ended \cup {session[d]}
                             /\ session[d] \in presented \cup {Empty}
      BY <2>1, <3>1, EndedRevoked
    <3>4. QED
      BY <2>1, <2>2, <2>3, <3>2, <3>3 DEF RInv
  <2>5. CASE \A c \in Calls : ~ RevokeToken(c)
    <3>1. ended' = ended
      BY <2>1, <2>5, EndedRevoked
    <3>2. \/ users_auths' = users_auths /\ drawn \subseteq drawn'
          \/ \E a : /\ a.token \notin drawn
                    /\ users_auths' = users_auths \cup {a}
                    /\ drawn' = drawn \cup {a.token}
      <4>1. ASSUME NEW c \in Calls, InsertToken(c)
            PROVE  <3>2
        <5>1. ASSUME NEW token \in Tokens \ drawn,
                     users_auths' = users_auths \cup
                       {[user |-> req[c].user, token |-> token]},
                     drawn' = drawn \cup {token}
              PROVE  <3>2
          <6>1. [user |-> req[c].user, token |-> token].token = token
            OBVIOUS
          <6>2. QED
            BY <5>1, <6>1
        <5>2. CASE users_auths' = users_auths /\ drawn \subseteq drawn'
          BY <5>2
        <5>3. QED
          BY <4>1, <5>1, <5>2 DEF InsertToken
      <4>2. ASSUME NEW c \in Calls, Send(c) \/ Deliver(c) \/ Lose(c)
            PROVE  users_auths' = users_auths /\ drawn' = drawn
        BY <4>2 DEF Send, Deliver, Lose
      <4>3. ASSUME NEW c \in Calls, Handle(c), ~ InsertToken(c)
            PROVE  users_auths' = users_auths /\ drawn' = drawn
        BY <2>5, <4>3 DEF Handle, BuildSession, UserCreate, Authenticate,
           FindAccount, RunHandler
      <4>4. CASE (\E b \in Browsers : Expire(b)) \/ Restart
        BY <4>4 DEF Expire, Restart
      <4>5. QED
        BY <2>1, <4>1, <4>2, <4>3, <4>4 DEF Next
    <3>3. Empty \notin users_auths'
      BY <2>1, NotCredentials DEF IInv, Typed
    <3>4. \A a \in users_auths' : a.token \in drawn'
      BY <3>2 DEF RInv
    <3>5. \A a \in presented' \ {Empty} : a.token \in drawn'
      BY <2>2, <3>2 DEF RInv
    <3>6. ended' \subseteq presented' \cup {Empty}
      BY <2>3, <3>1 DEF RInv
    <3>7. ended' \cap users_auths' = {}
      BY <3>1, <3>2, <3>3 DEF RInv
    <3>8. QED
      BY <2>1, <3>4, <3>5, <3>6, <3>7 DEF RInv
  <2>6. QED
    BY <2>4, <2>5
<1>3. QED
  BY <1>1, <1>2

(***************************************************************************)
(* When no statement fails, a credential whose logout was answered is in   *)
(* no row ever again, whatever else is under way and whenever the process  *)
(* restarts (logout-handler.cc:13).                                        *)
(***************************************************************************)
THEOREM LogoutIsFinal ==
  ASSUME "sql" \notin Failures
  PROVE  AuditSpec => []LogoutRevokes
<1>1. AuditInit => RInv
  <2>1. AuditInit => IInv
    BY InitHolds
  <2>2. QED
    BY <2>1 DEF AuditInit, Init, RInv
<1>2. RInv /\ [Next /\ Record]_auditVars => RInv'
  BY RevocationKept
<1>3. RInv => LogoutRevokes
  BY DEF RInv, LogoutRevokes
<1>4. QED
  BY <1>1, <1>2, <1>3, PTL DEF AuditSpec

-----------------------------------------------------------------------------
(* The page: what an answer names, and what the page shows of it. *)

ServerTyped ==
  /\ accounts \subseteq Users /\ drawn \subseteq Tokens
  /\ \A c \in Calls : pc[c] = "create" => req[c].op = "userCreate"

PageTyped ==
  /\ shown \in [Browsers -> Users \cup {Nobody}]
  /\ told \in [Calls -> Users \cup {Nobody}]
  /\ open \subseteq Calls

\* An answer names a user only to a browser that sent the password.
ToldOK(c) ==
  told[c] # Nobody => pc[c] = "answer" /\ told[c] \in proved[req[c].browser]

WInv ==
  /\ IInv /\ ServerTyped /\ PageTyped
  /\ \A c \in Calls : ToldOK(c)
  /\ ShownProved

LEMMA WebMoves == WebNext => Next
  BY DEF WebNext, Ask, Serve, Take, Miss, Outside, Next

LEMMA OthersWait ==
  ASSUME IInv, NEW c \in Calls, Send(c) \/ Handle(c) \/ Deliver(c) \/ Lose(c)
  PROVE  \A d \in Calls \ {c} : pc'[d] = pc[d] /\ req'[d] = req[d]
<1>1. pc \in [Calls -> Labels] /\ req \in [Calls -> Message \cup {NoMessage}]
  BY DEF IInv, Typed
<1>2. CASE Send(c)
  BY <1>1, <1>2 DEF Send
<1>3. CASE Deliver(c) \/ Lose(c)
  BY <1>1, <1>3 DEF Deliver, Lose, Forget
<1>4. CASE Handle(c)
  BY <1>1, <1>4 DEF Handle, BuildSession, UserCreate, Authenticate, FindAccount,
     InsertToken, RevokeToken, RunHandler, Answer, Goto
<1>5. QED
  BY <1>2, <1>3, <1>4

LEMMA HandlePlaces ==
  ASSUME NEW c \in Calls, Handle(c)
  PROVE  pc[c] \notin {"idle", "answer"} /\ req' = req
BY DEF Handle, BuildSession, UserCreate, Authenticate, FindAccount,
   InsertToken, RevokeToken, RunHandler, Answer, Goto

LEMMA ServerStaysTyped ==
  ASSUME IInv, ServerTyped, Next
  PROVE  ServerTyped'
<1>1. ASSUME NEW c \in Calls, UserCreate(c)
      PROVE  accounts' \subseteq Users
  <2>1. req[c] \in Message /\ req[c].op = "userCreate"
    BY <1>1 DEF IInv, CallOK, ServerTyped, UserCreate
  <2>2. req[c].user \in Users
    BY <2>1 DEF Message
  <2>3. QED
    BY <1>1, <2>2 DEF ServerTyped, UserCreate
<1>2. accounts' = accounts \/ \E c \in Calls : UserCreate(c)
  BY DEF Next, Handle, Send, Deliver, Lose, Expire, Restart, BuildSession, Authenticate,
     FindAccount, InsertToken, RevokeToken, RunHandler
<1>3. drawn' \subseteq Tokens
  BY DEF ServerTyped, Next, Handle, Send, Deliver, Lose, Expire, Restart, BuildSession,
     UserCreate, Authenticate, FindAccount, InsertToken, RevokeToken, RunHandler
<1>4. ASSUME NEW d \in Calls, pc'[d] = "create"
      PROVE  req'[d].op = "userCreate"
  <2>1. pc \in [Calls -> Labels]
    BY DEF IInv, Typed
  <2>2. ASSUME NEW c \in Calls, Send(c) \/ Handle(c) \/ Deliver(c) \/ Lose(c)
        PROVE  req'[d].op = "userCreate"
    <3>1. CASE c # d
      BY <1>4, <2>2, <3>1, OthersWait DEF ServerTyped
    <3>2. CASE c = d /\ BuildSession(c)
      BY <1>4, <2>1, <3>2 DEF BuildSession
    <3>3. CASE c = d /\ ~ BuildSession(c)
      BY <1>4, <2>1, <2>2, <3>3 DEF Handle, Send, Deliver, Lose, Forget, UserCreate,
         Authenticate, FindAccount, InsertToken, RevokeToken, RunHandler, Answer, Goto
    <3>4. QED
      BY <3>1, <3>2, <3>3
  <2>3. CASE \E b \in Browsers : Expire(b)
    BY <1>4, <2>3 DEF Expire, ServerTyped
  <2>4. CASE Restart
    BY <1>4, <2>4 DEF Restart
  <2>5. QED
    BY <2>2, <2>3, <2>4 DEF Next
<1>5. QED
  BY <1>1, <1>2, <1>3, <1>4 DEF ServerTyped

\* An answer on its way keeps its user, and a page the one it shows.
LEMMA ToldStays ==
  ASSUME WInv, Record, NEW d \in Calls,
         told'[d] = told[d], pc'[d] = pc[d], req'[d] = req[d]
  PROVE  ToldOK(d)'
<1>1. ToldOK(d) /\ CallOK(d) /\ IInv
  BY DEF WInv, IInv
<1>2. pc[d] = "answer" => req[d].browser \in Browsers
  BY <1>1, MessageFacts DEF CallOK
<1>3. QED
  BY <1>1, <1>2, HistoryGrows DEF ToldOK

LEMMA ShownStays ==
  ASSUME WInv, Record, NEW b \in Browsers, shown'[b] \in {shown[b], Nobody}
  PROVE  shown'[b] # Nobody => shown'[b] \in proved'[b]
BY HistoryGrows DEF WInv, ShownProved

LEMMA AskKeeps ==
  ASSUME WInv, Record, NEW c \in Calls, Ask(c)
  PROVE  PageTyped' /\ (\A d \in Calls : ToldOK(d)') /\ ShownProved'
<1>1. /\ Send(c) /\ told' = told /\ open' \subseteq open \cup {c}
      /\ \/ shown' = shown
         \/ shown' = [shown EXCEPT ![req'[c].browser] = Nobody]
  BY DEF Ask
<1>2. PageTyped /\ IInv
  BY DEF WInv
<1>3. PageTyped' /\ \A b \in Browsers : shown'[b] \in {shown[b], Nobody}
  BY <1>1, <1>2 DEF PageTyped
<1>4. ToldOK(c)'
  <2>1. told[c] = Nobody
    BY <1>1 DEF WInv, ToldOK, Send
  <2>2. QED
    BY <1>1, <2>1 DEF ToldOK
<1>5. \A d \in Calls \ {c} : ToldOK(d)'
  BY <1>1, <1>2, OthersWait, ToldStays
<1>6. QED
  BY <1>3, <1>4, <1>5, ShownStays DEF ShownProved

LEMMA ServeKeeps ==
  ASSUME WInv, IInv', Record, NEW c \in Calls, Serve(c)
  PROVE  PageTyped' /\ (\A d \in Calls : ToldOK(d)') /\ ShownProved'
<1>1. Handle(c) /\ shown' = shown /\ open' = open
  BY DEF Serve
<1>2. PageTyped /\ IInv /\ Typed /\ CallOK(c) /\ told \in [Calls -> Users \cup {Nobody}]
  BY DEF WInv, IInv, PageTyped
<1>3. pc[c] \notin {"idle", "answer"} /\ req' = req /\ told[c] = Nobody
  BY <1>1, HandlePlaces DEF WInv, ToldOK
<1>4. /\ req[c] \in Message /\ req[c].browser \in Browsers
      /\ Known(req[c].browser, req[c].cookies) /\ session[c] \in {Empty, req[c].cookies}
      /\ proved[req[c].browser] \subseteq proved'[req[c].browser]
      /\ proved[req[c].browser] \subseteq Users
  BY <1>2, <1>3, MessageFacts, HistoryGrows DEF CallOK, Typed
<1>5. CASE pc'[c] # "answer"
  <2>1. told' = told
    BY <1>5 DEF Serve
  <2>2. QED
    BY <1>1, <1>2, <1>3, <2>1, OthersWait, ToldStays, ShownStays
    DEF PageTyped, ToldOK, ShownProved
<1>6. CASE pc'[c] = "answer"
  <2> DEFINE user == CASE req[c].op = "other" -> session[c].user
                       [] req[c].op = "userAuth" /\ cookies'[c] # Unchanged -> req[c].user
                       [] OTHER -> Nobody
  <2>1. told' = [told EXCEPT ![c] = user]
    BY <1>6 DEF Serve
  <2>2. user # Nobody => user \in proved[req[c].browser]
    <3>1. CASE req[c].op = "other"
      <4>1. session[c] # Empty => session[c] \in Credential /\ session[c] = req[c].cookies
        BY <1>2, <1>4 DEF Typed
      <4>2. user = session[c].user
        BY <3>1
      <4>3. session[c] = Empty => user = Nobody
        BY <4>2 DEF Empty
      <4>4. session[c] # Empty => session[c].user \in proved[req[c].browser]
        BY <1>4, <4>1 DEF Known
      <4>5. QED
        BY <4>2, <4>3, <4>4
    <3>2. CASE req[c].op = "userAuth" /\ cookies'[c] # Unchanged
      <4>1. /\ cookies \in [Calls -> Credential \cup {Empty, Unchanged}]
            /\ pc \in [Calls -> Labels]
        BY <1>2 DEF Typed
      <4>2. pc[c] # "revoke"
        BY <1>2, <3>2 DEF CallOK
      <4>3. ~ BuildSession(c)
        BY <1>6, <3>2, <4>1 DEF BuildSession
      <4>4. pc[c] = "token"
        BY <1>1, <1>6, <3>2, <4>1, <4>2, <4>3 DEF Handle, UserCreate, Authenticate,
           FindAccount, InsertToken, RevokeToken, RunHandler, Answer, Goto
      <4>5. QED
        BY <1>2, <3>2, <4>4 DEF CallOK
    <3>3. QED
      BY <3>1, <3>2
  <2> HIDE DEF user
  <2>3. user \in Users \cup {Nobody} /\ told'[c] = user
    BY <1>2, <1>4, <2>1, <2>2
  <2>4. told' \in [Calls -> Users \cup {Nobody}]
    BY <1>2, <2>1, <2>3
  <2>5. ToldOK(c)'
    BY <1>3, <1>4, <1>6, <2>2, <2>3 DEF ToldOK
  <2>6. \A d \in Calls \ {c} : ToldOK(d)'
    BY <1>1, <1>2, <2>1, OthersWait, ToldStays
  <2>7. QED
    BY <1>1, <1>2, <2>4, <2>5, <2>6, ShownStays DEF PageTyped, ShownProved
<1>7. QED
  BY <1>5, <1>6

\* The answer comes, or is lost: the page shows what it was told, or nobody.
LEMMA EndKeeps ==
  ASSUME WInv, Record, NEW c \in Calls, Take(c) \/ Miss(c)
  PROVE  PageTyped' /\ (\A d \in Calls : ToldOK(d)') /\ ShownProved'
<1> DEFINE b == req[c].browser
<1>1. /\ (Deliver(c) \/ Lose(c)) /\ pc[c] = "answer"
      /\ told' = [told EXCEPT ![c] = Nobody] /\ open' = open \ {c}
      /\ \/ shown' = shown
         \/ shown' = [shown EXCEPT ![b] = told[c]]
         \/ shown' = [shown EXCEPT ![b] = Nobody]
  BY DEF Take, Miss, Close, Deliver, Lose
<1>2. PageTyped /\ IInv /\ CallOK(c) /\ ToldOK(c)
  BY DEF WInv, IInv
<1>3. b \in Browsers /\ told[c] \in Users \cup {Nobody}
  BY <1>1, <1>2, MessageFacts DEF CallOK, PageTyped
<1>4. PageTyped'
  BY <1>1, <1>2, <1>3 DEF PageTyped
<1>5. ToldOK(c)'
  BY <1>1, <1>2 DEF ToldOK, PageTyped
<1>6. \A d \in Calls \ {c} : ToldOK(d)'
  BY <1>1, <1>2, OthersWait, ToldStays DEF PageTyped
<1>7. ASSUME NEW a \in Browsers
      PROVE  shown'[a] # Nobody => shown'[a] \in proved'[a]
  <2>1. CASE shown'[a] \in {shown[a], Nobody}
    BY <2>1, ShownStays
  <2>2. CASE a = b /\ shown'[a] = told[c]
    BY <1>2, <1>3, <2>2, HistoryGrows DEF ToldOK
  <2>3. QED
    BY <1>1, <1>2, <1>3, <2>1, <2>2 DEF PageTyped
<1>8. QED
  BY <1>4, <1>5, <1>6, <1>7 DEF ShownProved

LEMMA OutsideKeeps ==
  ASSUME WInv, Record, Outside
  PROVE  PageTyped' /\ (\A d \in Calls : ToldOK(d)') /\ ShownProved'
<1>1. CASE (\E b \in Browsers : Expire(b)) /\ UNCHANGED pageVars
  <2>1. UNCHANGED <<shown, told, open, pc, req>>
    BY <1>1 DEF Expire, pageVars
  <2>2. QED
    BY <2>1, ToldStays, ShownStays DEF WInv, PageTyped, ShownProved
<1>2. CASE Restart /\ ~ ((\E b \in Browsers : Expire(b)) /\ UNCHANGED pageVars)
  <2>1. /\ told' = [c \in Calls |-> Nobody] /\ open' = {}
        /\ shown' = [b \in Browsers |->
             IF \E c \in open : req[c].op = "other" /\ req[c].browser = b
               THEN Nobody ELSE shown[b]]
    BY <1>2 DEF Outside
  <2>2. shown \in [Browsers -> Users \cup {Nobody}]
    BY DEF WInv, PageTyped
  <2>3. \A b \in Browsers : shown'[b] \in {shown[b], Nobody}
    BY <2>1
  <2>4. PageTyped'
    BY <2>1, <2>2 DEF PageTyped
  <2>5. QED
    BY <2>1, <2>3, <2>4, ShownStays DEF ToldOK, ShownProved
<1>3. QED
  BY <1>1, <1>2 DEF Outside

LEMMA InitPage == WebInit => WInv
<1>1. WebInit => IInv
  BY InitHolds DEF WebInit
<1>2. WebInit => ServerTyped /\ PageTyped
  BY DEF WebInit, AuditInit, Init, ServerTyped, PageTyped
<1>3. WebInit => (\A c \in Calls : ToldOK(c)) /\ ShownProved
  BY DEF WebInit, ToldOK, ShownProved
<1>4. QED
  BY <1>1, <1>2, <1>3 DEF WInv

LEMMA PageKept == WInv /\ [WebNext /\ Record]_webVars => WInv'
<1>1. ASSUME WInv, WebNext, Record
      PROVE  WInv'
  <2>1. Next /\ IInv /\ ServerTyped
    BY <1>1, WebMoves DEF WInv
  <2>2. IInv' /\ ServerTyped'
    BY <1>1, <2>1, Preservation, ServerStaysTyped
  <2>3. PageTyped' /\ (\A d \in Calls : ToldOK(d)') /\ ShownProved'
    BY <1>1, <2>2, AskKeeps, ServeKeeps, EndKeeps, OutsideKeeps DEF WebNext
  <2>4. QED
    BY <2>2, <2>3 DEF WInv
<1>2. ASSUME WInv, UNCHANGED webVars
      PROVE  WInv'
  <2>1. UNCHANGED auditVars /\ UNCHANGED pageVars /\ UNCHANGED <<pc, req, accounts, drawn, proved>>
    BY <1>2 DEF webVars, auditVars, vars
  <2>2. IInv'
    BY <1>2, <2>1, Preservation DEF WInv
  <2>3. QED
    BY <1>2, <2>1, <2>2 DEF WInv, pageVars, ServerTyped, PageTyped, ToldOK, ShownProved
<1>3. QED
  BY <1>1, <1>2

(***************************************************************************)
(* The header of the page never shows a user whose password this browser   *)
(* did not send, in whatever order the answers to logins, logouts and page *)
(* loads come and whichever of them are lost (scissy.js:45-60, 86-110).    *)
(***************************************************************************)
THEOREM PagesAreProved == WebSpec => []ShownProved
<1>1. WInv => ShownProved
  BY DEF WInv
<1>2. QED
  BY <1>1, InitPage, PageKept, PTL DEF WebSpec

(***************************************************************************)
(* Accounts, rows, cookies, messages in every place of a handler, answers  *)
(* and pages hold what the protocol says they may (session.cc,             *)
(* Service::userAuth, Service::userCreate, scissy.js).                     *)
(***************************************************************************)
THEOREM PagesTyped == WebSpec => []WebTypeOK
<1>1. WInv => WebTypeOK
  <2>1. IInv => \A c \in Calls : pc[c] # "idle" => req[c] \in Message
    BY DEF IInv, CallOK
  <2>2. QED
    BY <2>1 DEF WInv, IInv, Typed, Labels, ServerTyped, PageTyped, WebTypeOK, TypeOK
<1>2. QED
  BY <1>1, InitPage, PageKept, PTL DEF WebSpec

(***************************************************************************)
(* The page adds nothing to what the server and the browsers do, so that   *)
(* the theorems about requests, cookies and logouts hold with it.          *)
(***************************************************************************)
THEOREM PagesAreClients == WebSpec => AuditSpec
<1>1. WebInit => AuditInit
  BY DEF WebInit
<1>2. [WebNext /\ Record]_webVars => [Next /\ Record]_auditVars
  BY WebMoves DEF webVars
<1>3. QED
  BY <1>1, <1>2, PTL DEF WebSpec, AuditSpec
=============================================================================
