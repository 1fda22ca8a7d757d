--------------------------- MODULE SessionsAudit ---------------------------
(* Module Sessions with the history that judges whom a request runs as.    *)
EXTENDS Sessions

VARIABLES
  proved,     \* of each browser, the users whose password it sent
  presented,  \* credentials that came with a request to log out
  ended       \* credentials whose logout was answered

auditVars == <<vars, proved, presented, ended>>

Sent(c) == pc[c] = "idle" /\ pc'[c] = "session"

Record ==
  /\ proved' = [b \in Browsers |-> proved[b] \cup
       {u \in Users : \E c \in Calls :
          Sent(c) /\ req'[c].op = "userAuth" /\ req'[c].right
          /\ req'[c].browser = b /\ req'[c].user = u}]
  /\ presented' = presented \cup
       {req'[c].cookies : c \in {d \in Calls : Sent(d) /\ req'[d].op = "logout"}}
  /\ ended' = ended \cup
       {session[c] : c \in {d \in Calls : pc[d] = "revoke" /\ pc'[d] = "answer"}}

AuditInit ==
  /\ Init
  /\ proved = [b \in Browsers |-> {}] /\ presented = {} /\ ended = {}

AuditSpec == AuditInit /\ [][Next /\ Record]_auditVars

-----------------------------------------------------------------------------
(***************************************************************************)
(* A handler runs as a user only for a browser that sent this user's       *)
(* password, whatever logins, logouts and late answers of this and other   *)
(* browsers overlap (session.cc:16-47, service.cc:314-390).                *)
(***************************************************************************)
IdentityProved ==
  \A c \in Calls : session[c] # Empty => session[c].user \in proved[req[c].browser]

(***************************************************************************)
(* A credential in a browser is good until it is taken to /logout: neither *)
(* a second login, nor another browser's logout of the same user, nor a    *)
(* failing statement or a restart leaves the user with cookies that the    *)
(* server does not know (service.cc:347-385 sets them after the row).      *)
(***************************************************************************)
CookiesStayGood ==
  \A b \in Browsers : jar[b] \in users_auths \cup presented \cup {Empty}

(***************************************************************************)
(* logout-handler.cc:13 "revoke auth token": once a logout is answered, no *)
(* request is let in with its credential any more, not even one that was   *)
(* sent before, and no later login makes it good again.  The handler       *)
(* ignores the result of its delete, so this is where no statement fails.  *)
(***************************************************************************)
LogoutRevokes == ended \cap users_auths = {}
=============================================================================
