------------------------------ MODULE Sessions ------------------------------
(***************************************************************************)
(* Who a request runs as: the tokens of table users_auths, the cookies of  *)
(* the browsers, and the handlers that make and revoke them (session.cc,   *)
(* Service::userAuth, logout-handler.cc, Service::userCreate).             *)
(*                                                                         *)
(* A call is one request from the moment a browser sends it, with the      *)
(* cookies it has then, to the moment its answer is applied or lost.  One  *)
(* action is one statement, one authentication or one message.             *)
(*                                                                         *)
(* Left out: how the authenticators compare passwords; accounts are never  *)
(* deleted by scissy, so a login stands for its user_id.                   *)
(***************************************************************************)
EXTENDS FiniteSets

CONSTANTS
  Users,     \* logins
  Tokens,    \* what gnutls_rnd may draw, never the same twice
  Browsers,
  Calls,     \* requests under way at once
  Nobody,    \* cookie `user' or `token' that is absent or empty
  Failures   \* what may go wrong: "sql" a statement, "crash" the process

VARIABLES
  accounts,     \* logins in table users
  users_auths,  \* credentials of the rows
  drawn,        \* tokens drawn so far
  jar,          \* of each browser, the credential in its two cookies
  pc,           \* of each call, the next step
  req,          \* of each call, its message
  session,      \* of each call, user_ and token_ of its Session
  cookies       \* of each call, what Set-Cookie in its answer says

vars == <<accounts, users_auths, drawn, jar, pc, req, session, cookies>>

ASSUME NobodyAssumption == Nobody \notin Users \cup Tokens
ASSUME FailuresAssumption == Failures \subseteq {"sql", "crash"}

-----------------------------------------------------------------------------
Credential == [user : Users, token : Tokens]
Empty      == [user |-> Nobody, token |-> Nobody]

\* `right': whether the configured authenticator accepts the password.
Message ==
  [op : {"userAuth"}, user : Users, right : BOOLEAN,
   browser : Browsers, cookies : Credential \cup {Empty}]
  \cup
  [op : {"userCreate"}, user : Users,
   browser : Browsers, cookies : Credential \cup {Empty}]
  \cup
  [op : {"logout", "other"},
   browser : Browsers, cookies : Credential \cup {Empty}]

Unchanged == [user |-> Nobody]   \* an answer without Set-Cookie

TypeOK ==
  /\ accounts \subseteq Users
  /\ users_auths \subseteq Credential
  /\ drawn \subseteq Tokens
  /\ jar \in [Browsers -> Credential \cup {Empty}]
  /\ pc \in [Calls -> {"idle", "session", "auth", "account", "token", "create",
                       "revoke", "run", "answer"}]
  /\ \A c \in Calls : pc[c] # "idle" => req[c] \in Message
  /\ session \in [Calls -> Credential \cup {Empty}]
  /\ \A c \in Calls :
       cookies[c] = Unchanged \/ cookies[c] \in Credential \cup {Empty}

NoMessage == [op |-> "none"]

Init ==
  /\ accounts = {} /\ users_auths = {} /\ drawn = {}
  /\ jar = [b \in Browsers |-> Empty]
  /\ pc = [c \in Calls |-> "idle"]
  /\ req = [c \in Calls |-> NoMessage]
  /\ session = [c \in Calls |-> Empty]
  /\ cookies = [c \in Calls |-> Unchanged]

-----------------------------------------------------------------------------
Goto(c, label) ==
  /\ pc' = [pc EXCEPT ![c] = label]
  /\ UNCHANGED <<req, session, cookies>>

\* The handler is over: its Session is destroyed, the answer is on its way.
Answer(c, set) ==
  /\ pc' = [pc EXCEPT ![c] = "answer"]
  /\ session' = [session EXCEPT ![c] = Empty]
  /\ cookies' = [cookies EXCEPT ![c] = set]
  /\ UNCHANGED req

Forget(c) ==
  /\ pc' = [pc EXCEPT ![c] = "idle"]
  /\ req' = [req EXCEPT ![c] = NoMessage]
  /\ cookies' = [cookies EXCEPT ![c] = Unchanged]
  /\ UNCHANGED session

Send(c) ==
  /\ pc[c] = "idle"
  /\ \E q \in Message :
       /\ q.cookies = jar[q.browser]
       /\ req' = [req EXCEPT ![c] = q]
  /\ pc' = [pc EXCEPT ![c] = "session"]
  /\ UNCHANGED <<accounts, users_auths, drawn, jar, session, cookies>>

\* Session::auth, for the API in SessionHandler and for /logout in its handler.
BuildSession(c) ==
  /\ pc[c] = "session"
  /\ session' = [session EXCEPT ![c] =
       IF req[c].cookies \in users_auths THEN req[c].cookies ELSE Empty]
  /\ pc' = [pc EXCEPT ![c] =
       CASE req[c].op = "userAuth" -> "auth"
         [] req[c].op = "userCreate" -> "create"
         [] req[c].op = "logout" -> "revoke"
         [] OTHER -> "run"]
  /\ UNCHANGED <<accounts, users_auths, drawn, jar, req, cookies>>

-----------------------------------------------------------------------------
\* userCreate does not log in: it answers, and the client goes to /login.
UserCreate(c) ==
  /\ pc[c] = "create"
  /\ \/ req[c].user \notin accounts /\ accounts' = accounts \cup {req[c].user}
     \/ (req[c].user \in accounts \/ "sql" \in Failures) /\ UNCHANGED accounts
  /\ Answer(c, Unchanged)
  /\ UNCHANGED <<users_auths, drawn, jar>>

\* Variant: the answer of the authenticator is not looked at.
AuthenticateAnyone(c) ==
  /\ pc[c] = "auth"
  /\ Goto(c, "account")
  /\ UNCHANGED <<accounts, users_auths, drawn, jar>>

\* userAuth: the authenticator, the account, then the token.  The external
\* authenticator may accept users who have no account.
Authenticate(c) ==
  /\ pc[c] = "auth"
  /\ IF req[c].right THEN Goto(c, "account") ELSE Answer(c, Unchanged)
  /\ UNCHANGED <<accounts, users_auths, drawn, jar>>

FindAccount(c) ==
  /\ pc[c] = "account"
  /\ IF req[c].user \in accounts THEN Goto(c, "token") ELSE Answer(c, Unchanged)
  /\ UNCHANGED <<accounts, users_auths, drawn, jar>>

\* The token is drawn and inserted, unless drawing or the statement fails.
InsertToken(c) ==
  /\ pc[c] = "token"
  /\ \/ \E token \in Tokens \ drawn :
          LET new == [user |-> req[c].user, token |-> token] IN
          /\ drawn' = drawn \cup {token}
          /\ \/ users_auths' = users_auths \cup {new} /\ Answer(c, new)
             \/ /\ "sql" \in Failures
                /\ UNCHANGED users_auths /\ Answer(c, Unchanged)
     \/ Answer(c, Unchanged) /\ UNCHANGED <<drawn, users_auths>>
  /\ UNCHANGED <<accounts, jar>>

\* Variant: only the cookies are taken back.
RevokeCookies(c) ==
  /\ pc[c] = "revoke"
  /\ Answer(c, Empty)
  /\ UNCHANGED <<accounts, users_auths, drawn, jar>>

\* Variant: every session of the user is closed.
RevokeAll(c) ==
  /\ pc[c] = "revoke"
  /\ users_auths' = {a \in users_auths : a.user # session[c].user}
  /\ Answer(c, Empty)
  /\ UNCHANGED <<accounts, drawn, jar>>

\* LogoutHandler: the result of the delete is ignored.
RevokeToken(c) ==
  /\ pc[c] = "revoke"
  /\ \/ users_auths' = users_auths \ {session[c]}
     \/ "sql" \in Failures /\ UNCHANGED users_auths
  /\ Answer(c, Empty)
  /\ UNCHANGED <<accounts, drawn, jar>>

\* Any other handler: it acts as the user of its session.
RunHandler(c) ==
  /\ pc[c] = "run"
  /\ Answer(c, Unchanged)
  /\ UNCHANGED <<accounts, users_auths, drawn, jar>>

-----------------------------------------------------------------------------
(* The network and the browser: answers arrive in any order or not at all. *)

\* Variant: an answer without Set-Cookie overwrites the cookies.
DeliverAlways(c) ==
  /\ pc[c] = "answer"
  /\ jar' = [jar EXCEPT ![req[c].browser] = cookies[c]]
  /\ Forget(c)
  /\ UNCHANGED <<accounts, users_auths, drawn>>

Deliver(c) ==
  /\ pc[c] = "answer"
  /\ LET b == req[c].browser
     IN  jar' = IF cookies[c] = Unchanged THEN jar ELSE [jar EXCEPT ![b] = cookies[c]]
  /\ Forget(c)
  /\ UNCHANGED <<accounts, users_auths, drawn>>

Lose(c) ==
  /\ pc[c] = "answer"
  /\ Forget(c)
  /\ UNCHANGED <<accounts, users_auths, drawn, jar>>

\* The cookies expire; the row in users_auths has no such time.
Expire(b) ==
  /\ jar[b] # Empty
  /\ jar' = [jar EXCEPT ![b] = Empty]
  /\ UNCHANGED <<accounts, users_auths, drawn, pc, req, session, cookies>>

\* The process dies: handlers and unsent answers are lost, rows stay.
Restart ==
  /\ "crash" \in Failures
  /\ pc' = [c \in Calls |-> "idle"]
  /\ req' = [c \in Calls |-> NoMessage]
  /\ session' = [c \in Calls |-> Empty]
  /\ cookies' = [c \in Calls |-> Unchanged]
  /\ UNCHANGED <<accounts, users_auths, drawn, jar>>

Handle(c) ==
  \/ BuildSession(c) \/ UserCreate(c) \/ Authenticate(c) \/ FindAccount(c)
  \/ InsertToken(c) \/ RevokeToken(c) \/ RunHandler(c)

Next ==
  \/ \E c \in Calls : Send(c) \/ Handle(c) \/ Deliver(c) \/ Lose(c)
  \/ \E b \in Browsers : Expire(b)
  \/ Restart

Spec == Init /\ [][Next]_vars
=============================================================================
