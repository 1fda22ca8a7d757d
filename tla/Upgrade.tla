------------------------------- MODULE Upgrade -------------------------------
(***************************************************************************)
(* The version of the database over the years: the scripts scissy-upgrade  *)
(* and sql/migrate-*.sql, which move it, and main(), which requires one.   *)
(* The administrator runs the script while no server runs.  Its variables  *)
(* are strings of bash; one never assigned is 0 in arithmetic.             *)
(***************************************************************************)
EXTENDS Naturals

VARIABLES
  version,            \* pragma user_version of the database
  user_version,       \* variables of the script
  user_version_next,
  script,             \* "idle", "loop", "migrate" or "ended"
  server              \* "down", "refused" by main() since, or "running"

vars == <<version, user_version, user_version_next, script, server>>

LAST_VERSION == 1
USER_VERSION == 2

\* The installed files sql/migrate-<from>-<to>.sql; each sets the version <to>
\* in a transaction.
Migrations == {<<0, 1>>, <<1, 2>>}

\* A database of any release, created by sql/model.sql as it was then.
Init ==
  /\ version \in 0 .. USER_VERSION
  /\ user_version = 0 /\ user_version_next = 0
  /\ script = "idle" /\ server = "down"

Start ==
  /\ script \in {"idle", "ended"} /\ server # "running"
  /\ server' = IF version = USER_VERSION THEN "running" ELSE "refused"
  /\ UNCHANGED <<version, user_version, user_version_next, script>>

Stop ==
  /\ server = "running"
  /\ server' = "down" /\ script' = "idle"
  /\ UNCHANGED <<version, user_version, user_version_next>>

\* The script reads the version and makes its backup.
Begin ==
  /\ script \in {"idle", "ended"} /\ server # "running"
  /\ server' = "down"
  /\ user_version' = version /\ user_version_next' = 0 /\ script' = "loop"
  /\ UNCHANGED version

\* The sum is of `user_versoin', which nothing assigns.
Loop ==
  /\ script = "loop"
  /\ IF user_version < LAST_VERSION
       THEN script' = "migrate" /\ user_version_next' = 0 + 1
       ELSE script' = "ended" /\ UNCHANGED user_version_next
  /\ UNCHANGED <<version, user_version, server>>

Migrate ==
  /\ script = "migrate"
  /\ <<user_version, user_version_next>> \in Migrations
  /\ version' = user_version_next
  /\ user_version' = user_version_next
  /\ script' = "loop"
  /\ UNCHANGED <<user_version_next, server>>

\* bash -e: a failing command, or a file that is not there, ends the script;
\* sqlite3 rolls its transaction back.
Fail ==
  /\ script \in {"loop", "migrate"}
  /\ script' = "idle"
  /\ UNCHANGED <<version, user_version, user_version_next, server>>

Next == Start \/ Stop \/ Begin \/ Loop \/ Migrate \/ Fail
Spec == Init /\ [][Next]_vars

-----------------------------------------------------------------------------
(***************************************************************************)
(* "please upgrade either scissy or your database" (main.cc:49): a server  *)
(* that is started after the script ran to its end is not refused again.   *)
(***************************************************************************)
UpgradeSuffices == script = "ended" => server # "refused"
=============================================================================
