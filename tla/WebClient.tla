------------------------------ MODULE WebClient ------------------------------
(***************************************************************************)
(* The page of scissy.js in each browser, over the sessions of the server: *)
(* whom its header shows as logged in.  The page asks userGetSession when  *)
(* it is loaded (here, every "other" request), posts userAuth from the     *)
(* login form and /logout from the header, and takes the answers in the    *)
(* order in which they come, into one variable.                            *)
(***************************************************************************)
EXTENDS SessionsAudit

VARIABLES
  shown,  \* of each browser, $rootScope.session.user of its page
  told,   \* of each call, the user its answer names
  open    \* calls whose page has not been loaded anew since

pageVars == <<shown, told, open>>
webVars  == <<auditVars, pageVars>>

WebTypeOK ==
  /\ TypeOK
  /\ shown \in [Browsers -> Users \cup {Nobody}]
  /\ told \in [Calls -> Users \cup {Nobody}]
  /\ open \subseteq Calls

WebInit ==
  /\ AuditInit
  /\ shown = [b \in Browsers |-> Nobody]
  /\ told = [c \in Calls |-> Nobody]
  /\ open = {}

-----------------------------------------------------------------------------
\* scissy_module.run, $scope.login and $scope.logout: a new page has no
\* callbacks of the old one; a logout does not wait for its answer.
Ask(c) ==
  /\ Send(c)
  /\ LET b == req'[c].browser
         mine == {d \in Calls : pc[d] # "idle" /\ req[d].browser = b}
     IN  /\ shown' = IF req'[c].op \in {"other", "logout"}
                       THEN [shown EXCEPT ![b] = Nobody] ELSE shown
         /\ open' = (IF req'[c].op = "other" THEN open \ mine ELSE open) \cup {c}
  /\ UNCHANGED told

\* What userAuth and userGetSession put into the field `user' of the answer.
Serve(c) ==
  /\ Handle(c)
  /\ told' = IF pc'[c] # "answer" THEN told
             ELSE [told EXCEPT ![c] =
                     CASE req[c].op = "other" -> session[c].user
                       [] req[c].op = "userAuth" /\ cookies'[c] # Unchanged -> req[c].user
                       [] OTHER -> Nobody]
  /\ UNCHANGED <<shown, open>>

Close(c) == told' = [told EXCEPT ![c] = Nobody] /\ open' = open \ {c}

\* Variant: the status of the answer to userAuth is not looked at.
TakeUnchecked(c) ==
  /\ Deliver(c)
  /\ LET b == req[c].browser IN
     shown' = IF c \in open /\ req[c].op \in {"other", "userAuth"}
                THEN [shown EXCEPT ![b] = IF req[c].op = "other" THEN told[c] ELSE req[c].user]
                ELSE shown
  /\ Close(c)

\* The success callbacks; that of userGetSession resets what it is not told.
Take(c) ==
  /\ Deliver(c)
  /\ LET b == req[c].browser IN
     shown' = IF /\ c \in open
                 /\ req[c].op = "other" \/ (req[c].op = "userAuth" /\ told[c] # Nobody)
                THEN [shown EXCEPT ![b] = told[c]] ELSE shown
  /\ Close(c)

\* The error callbacks.
Miss(c) ==
  /\ Lose(c)
  /\ shown' = IF c \in open /\ req[c].op = "other"
                THEN [shown EXCEPT ![req[c].browser] = Nobody] ELSE shown
  /\ Close(c)

Outside ==
  \/ (\E b \in Browsers : Expire(b)) /\ UNCHANGED pageVars
  \/ /\ Restart
     /\ shown' = [b \in Browsers |->
          IF \E c \in open : req[c].op = "other" /\ req[c].browser = b
            THEN Nobody ELSE shown[b]]
     /\ told' = [c \in Calls |-> Nobody] /\ open' = {}

WebNext == (\E c \in Calls : Ask(c) \/ Serve(c) \/ Take(c) \/ Miss(c)) \/ Outside
WebSpec == WebInit /\ [][WebNext /\ Record]_webVars

-----------------------------------------------------------------------------
(***************************************************************************)
(* The page never shows a user whose password this browser did not send,   *)
(* in whatever order the answers to logins, logouts and page loads come,   *)
(* and whichever of them are lost (scissy.js:45-60, 86-110, 578-583).      *)
(***************************************************************************)
ShownProved ==
  \A b \in Browsers : shown[b] # Nobody => shown[b] \in proved[b]
=============================================================================
