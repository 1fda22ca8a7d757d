--------------------------- MODULE AuthorizedKeys ---------------------------
(***************************************************************************)
(* ~/.ssh/authorized_keys and the table it is generated from: the handlers *)
(* userAddSshKey and userRemoveSshKey of service.cc, genAuthorizedKeys of  *)
(* gen-authorized-keys.cc, and the regeneration of main.cc at start.       *)
(*                                                                         *)
(* genAuthorizedKeys truncates the file, then fetches the rows one by one  *)
(* and flushes one line per row at the offset of its own stream.  No lock  *)
(* keeps two threads from doing so at once.                                *)
(*                                                                         *)
(* A key stands for the columns (user_id, key, key_type), which are UNIQUE *)
(* and which the scan reads in the order of their index, here <.  All      *)
(* lines are taken to be equally long; Hole is what lies between the end   *)
(* of a truncated file and a later write.                                  *)
(***************************************************************************)
EXTENDS Naturals, Sequences, FiniteSets

CONSTANTS
  Keys,       \* what can be in a row, ordered by <
  Hole,       \* a gap in the file
  Handlers,   \* the threads that serve requests
  Main,       \* the thread that runs main()
  MaxStarts   \* bound: how often the process starts

ASSUME KeysAssumption == Keys \subseteq Nat \ {0} /\ Hole \notin Keys
ASSUME MainAssumption == Main \notin Handlers
ASSUME MaxStartsAssumption == MaxStarts \in Nat \ {0}

VARIABLES
  users_ssh_keys,  \* the keys of the rows
  file,            \* the lines of authorized_keys
  pc,              \* of each thread
  cursor,          \* the row each scan fetched last
  offset,          \* lines each stream has written
  starts           \* starts of the process so far

vars == <<users_ssh_keys, file, pc, cursor, offset, starts>>

Threads == Handlers \cup {Main}

TypeOK ==
  /\ users_ssh_keys \subseteq Keys
  /\ file \in Seq(Keys \cup {Hole})
  /\ pc \in [Threads -> {"down", "idle", "open", "fetch", "write"}]
  /\ cursor \in [Threads -> Keys \cup {0}]
  /\ offset \in [Threads -> Nat]
  /\ starts \in 1 .. MaxStarts

\* Variant: main() serves without generating the file.
StartedServing == [t \in Threads |-> "idle"]

\* A freshly started process: main() has the file to generate first.
Started == [t \in Threads |-> IF t = Main THEN "open" ELSE "down"]

Init ==
  /\ users_ssh_keys = {}
  /\ file = <<>>
  /\ pc = Started
  /\ cursor = [t \in Threads |-> 0]
  /\ offset = [t \in Threads |-> 0]
  /\ starts = 1

-----------------------------------------------------------------------------
\* Variant: a message without a key inserts an empty one.
UserAddAnyKey(t) ==
  /\ pc[t] = "idle" /\ t \in Handlers
  /\ \E k \in Keys \cup {0} : users_ssh_keys' = users_ssh_keys \cup {k}
  /\ pc' = [pc EXCEPT ![t] = "open"]
  /\ UNCHANGED <<file, cursor, offset, starts>>

\* userAddSshKey: `!step()' is never true, so a refused row goes on as well.
UserAddSshKey(t) ==
  /\ pc[t] = "idle" /\ t \in Handlers
  /\ \E k \in Keys : users_ssh_keys' = users_ssh_keys \cup {k}
  /\ pc' = [pc EXCEPT ![t] = "open"]
  /\ UNCHANGED <<file, cursor, offset, starts>>

\* Variant: the file is left as it is.
UserRemoveSshKeySilent(t) ==
  /\ pc[t] = "idle" /\ t \in Handlers
  /\ \E k \in Keys : users_ssh_keys' = users_ssh_keys \ {k}
  /\ UNCHANGED <<file, pc, cursor, offset, starts>>

\* userRemoveSshKey: likewise when no row has the id.
UserRemoveSshKey(t) ==
  /\ pc[t] = "idle" /\ t \in Handlers
  /\ \E k \in Keys : users_ssh_keys' = users_ssh_keys \ {k}
  /\ pc' = [pc EXCEPT ![t] = "open"]
  /\ UNCHANGED <<file, cursor, offset, starts>>

\* Variant: the file is opened without truncation.
OpenKeeping(t) ==
  /\ pc[t] = "open"
  /\ cursor' = [cursor EXCEPT ![t] = 0]
  /\ offset' = [offset EXCEPT ![t] = 0]
  /\ pc' = [pc EXCEPT ![t] = "fetch"]
  /\ UNCHANGED <<users_ssh_keys, file, starts>>

\* genAuthorizedKeys: std::ofstream truncates, and writes from the start.
Open(t) ==
  /\ pc[t] = "open"
  /\ file' = <<>>
  /\ cursor' = [cursor EXCEPT ![t] = 0]
  /\ offset' = [offset EXCEPT ![t] = 0]
  /\ pc' = [pc EXCEPT ![t] = "fetch"]
  /\ UNCHANGED <<users_ssh_keys, starts>>

Rest(t) == {k \in users_ssh_keys : k > cursor[t]}

\* The next row, as the table is now; after the last one the call is over,
\* and main() goes on to start the serving threads.
Fetch(t) ==
  /\ pc[t] = "fetch"
  /\ \/ \E k \in Rest(t) :
          /\ \A l \in Rest(t) : k <= l
          /\ cursor' = [cursor EXCEPT ![t] = k]
          /\ pc' = [pc EXCEPT ![t] = "write"]
          /\ UNCHANGED offset
     \/ /\ Rest(t) = {}
        /\ cursor' = [cursor EXCEPT ![t] = 0]
        /\ offset' = [offset EXCEPT ![t] = 0]
        /\ pc' = IF t = Main THEN [u \in Threads |-> "idle"]
                 ELSE [pc EXCEPT ![t] = "idle"]
  /\ UNCHANGED <<users_ssh_keys, file, starts>>

LineAfterWrite(i, t) ==
  IF i = offset[t] + 1 THEN cursor[t]
  ELSE IF i <= Len(file) THEN file[i] ELSE Hole

Write(t) ==
  /\ pc[t] = "write"
  /\ LET last == IF Len(file) > offset[t] THEN Len(file) ELSE offset[t] + 1
     IN  file' = [i \in 1 .. last |-> LineAfterWrite(i, t)]
  /\ offset' = [offset EXCEPT ![t] = @ + 1]
  /\ pc' = [pc EXCEPT ![t] = "fetch"]
  /\ UNCHANGED <<users_ssh_keys, cursor, starts>>

\* The process dies at any point and is started again.
Restart ==
  /\ starts < MaxStarts
  /\ starts' = starts + 1
  /\ pc' = Started
  /\ cursor' = [t \in Threads |-> 0]
  /\ offset' = [t \in Threads |-> 0]
  /\ UNCHANGED <<users_ssh_keys, file>>

Generate(t) == Open(t) \/ Fetch(t) \/ Write(t)

Next ==
  \/ \E t \in Threads : UserAddSshKey(t) \/ UserRemoveSshKey(t) \/ Generate(t)
  \/ Restart

Spec == Init /\ [][Next]_vars

-----------------------------------------------------------------------------
Lines == {file[i] : i \in 1 .. Len(file)}
Quiet == \A t \in Threads : pc[t] = "idle"

(***************************************************************************)
(* doc/doc.rst:74: "~/.ssh/authorized_keys stores the ssh authorized_keys":*)
(* while no regeneration runs, the file holds exactly the keys of the      *)
(* table, each once.                                                       *)
(***************************************************************************)
FileIsTable ==
  Quiet => Lines = users_ssh_keys /\ Len(file) = Cardinality(users_ssh_keys)
=============================================================================
