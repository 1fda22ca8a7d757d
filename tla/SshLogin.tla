------------------------------- MODULE SshLogin -------------------------------
(***************************************************************************)
(* git over ssh up to the question of module Access: sshd looks for the    *)
(* client's key in authorized_keys, line by line, while the server may be  *)
(* rewriting that file in place; the line of the key runs scissy-shell as  *)
(* the user of that key, which reads the command line of the client.       *)
(*                                                                         *)
(* External, modelled from its use: sshd and the git client.  One client   *)
(* is followed at a time: clients do not act on each other.                *)
(***************************************************************************)
EXTENDS AuthorizedKeys, ShellCommand

CONSTANTS
  Commands,  \* what clients ask for: [program, name]
  NoCommand  \* no command: a login for a terminal

ASSUME CommandsAssumption ==
  Commands \subseteq [program : STRING, name : Seq(Chars)] \cup {NoCommand}

VARIABLES
  at,       \* where the login is
  key,      \* the key of the client
  line,     \* lines sshd has read
  asked,    \* the command of the client
  outcome,  \* "none", "refused" by sshd, "failed" or "ran" by the shell
  ran,      \* what ran: [key, program, name], or NoCommand
  seen,     \* history: whether the key was in the table, over the login
  settled,  \* history: the file was Settled throughout the login
  clean     \* history: the last regeneration began while no other was under way

loginVars == <<at, key, line, asked, outcome, ran>>
sshVars   == <<vars, loginVars, seen, settled, clean>>

Call == [key : Keys, program : {Programs[a] : a \in 1 .. 3}, name : Seq(Chars)]

LoginTypeOK ==
  /\ TypeOK
  /\ at \in {"idle", "read", "shell"}
  /\ key \in Keys
  /\ line \in Nat
  /\ asked \in Commands \cup {NoCommand}
  /\ outcome \in {"none", "refused", "failed", "ran"}
  /\ ran \in Call \cup {NoCommand}

LoginInit ==
  /\ Init
  /\ at = "idle" /\ key \in Keys /\ line = 0
  /\ asked = NoCommand /\ outcome = "none" /\ ran = NoCommand
  /\ seen = {} /\ settled = TRUE /\ clean = TRUE

-----------------------------------------------------------------------------
Connect ==
  /\ at = "idle"
  /\ at' = "read" /\ key' \in Keys /\ asked' = NoCommand /\ outcome' = "none" /\ ran' = NoCommand
  /\ UNCHANGED <<line, vars>>

End(result) == at' = "idle" /\ line' = 0 /\ outcome' = result /\ UNCHANGED <<key, ran, vars>>

\* sshd: the first line that holds the key decides.
ReadLine ==
  /\ at = "read"
  /\ UNCHANGED asked
  /\ \/ /\ line < Len(file) /\ file[line + 1] = key
        /\ at' = "shell" /\ line' = 0
        /\ UNCHANGED <<key, outcome, ran, vars>>
     \/ /\ line < Len(file) /\ file[line + 1] # key
        /\ line' = line + 1
        /\ UNCHANGED <<at, key, outcome, ran, vars>>
     \/ line >= Len(file) /\ End("refused")

\* main() of scissy-shell, up to its call of the server and of the program.
\* Without a command parseCmd reads a null pointer, and the process dies.
Shell ==
  /\ at = "shell"
  /\ \E c \in Commands :
       /\ asked' = c
       /\ \/ c = NoCommand /\ End("failed")
          \/ c # NoCommand /\ ParsedAction(c.program) = 0 /\ End("failed")
          \/ /\ c # NoCommand /\ ParsedAction(c.program) # 0
             /\ at' = "idle" /\ outcome' = "ran"
             /\ ran' = [key |-> key, program |-> Programs[ParsedAction(c.program)],
                        name |-> RepoName(SqQuote(c.name))]
             /\ UNCHANGED <<key, line, vars>>

Presence(k, keys) == IF k \in keys THEN "listed" ELSE "unlisted"

\* Nothing has to be done to the file, and nobody interfered when it was done.
Settled == Quiet /\ clean

RecordLogin ==
  IF at = "idle" /\ at' = "read"
    THEN seen' = {Presence(key', users_ssh_keys)} /\ settled' = Settled
  ELSE IF at = "read"
    THEN seen' = seen \cup {Presence(key, users_ssh_keys')} /\ settled' = (settled /\ Settled')
  ELSE UNCHANGED <<seen, settled>>

Truncates(t) == pc[t] = "open" /\ pc'[t] = "fetch"

RecordScan ==
  clean' = IF \E t \in Threads : Truncates(t)
             THEN \A t \in Threads : pc[t] \notin {"fetch", "write"}
             ELSE clean

Record == RecordScan /\ RecordLogin

LoginStep == Connect \/ ReadLine \/ Shell
LoginNext == (LoginStep \/ (Next /\ UNCHANGED loginVars)) /\ Record

\* A thread that runs goes on: nothing in genAuthorizedKeys waits.
LoginSpec ==
  /\ LoginInit /\ [][LoginNext]_sshVars
  /\ \A t \in Threads : WF_vars(Generate(t))

-----------------------------------------------------------------------------
(***************************************************************************)
(* doc/doc.rst:74, with any number of threads: an idle server's file holds *)
(* exactly the keys of the table, each once, unless its last regeneration  *)
(* began while another one was writing; one that did not overlap repairs   *)
(* whatever was there (gen-authorized-keys.cc:9-33).                       *)
(***************************************************************************)
SettledFileIsTable ==
  Settled => Lines = users_ssh_keys /\ Len(file) = Cardinality(users_ssh_keys)

(***************************************************************************)
(* A key that is removed leaves the file even if the process dies between  *)
(* the statement and the end of the regeneration, and a key that is added  *)
(* gets there (main.cc:54 regenerates at start), unless regenerations      *)
(* overlap.                                                                *)
(***************************************************************************)
KeysReachFile ==
  \A k \in Keys :
    /\ (k \notin users_ssh_keys) ~> (k \notin Lines \/ k \in users_ssh_keys \/ ~clean)
    /\ (k \in users_ssh_keys) ~> (k \in Lines \/ k \notin users_ssh_keys \/ ~clean)

(***************************************************************************)
(* sshd reads the file without a lock while it is truncated and written    *)
(* again.  While the file is settled, whoever is let in holds a key        *)
(* that was in the table during the login, and whoever is refused one that *)
(* was not: a removed key lets nobody in once its removal has reached the  *)
(* file, and nobody is refused over the keys of others                     *)
(* (gen-authorized-keys.cc:15-30, service.cc:406-444).                     *)
(***************************************************************************)
LoginFollowsTable ==
  settled =>
    /\ at = "shell" => "listed" \in seen
    /\ (at = "idle" /\ outcome = "refused") => "unlisted" \in seen

(***************************************************************************)
(* A git command reaches the server as the client meant it: the program it *)
(* named, and the name it quoted, whatever characters that has; one that   *)
(* is none of the three programs is refused (shell.cc:28-72, 124-134).     *)
(***************************************************************************)
AskedIsRun ==
  (at = "idle" /\ asked # NoCommand) =>
    IF \E a \in 1 .. 3 : Programs[a] = asked.program
      THEN ran = [key |-> key, program |-> asked.program, name |-> asked.name]
      ELSE outcome = "failed"
=============================================================================
