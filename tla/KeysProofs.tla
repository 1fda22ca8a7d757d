------------------------------ MODULE KeysProofs ------------------------------
(***************************************************************************)
(* authorized_keys, for any number of threads.  A regeneration that began  *)
(* while no other was writing writes alone to its end: the next one to     *)
(* truncate the file is noted in clean.  What the proof says of such a     *)
(* scan is what it has written, the keys up to the row it fetched last, as *)
(* long as no change of the table is waiting to be written; for then the   *)
(* thread that made it truncates the file again.  (Without clean it is     *)
(* false: see MCKeys.)  Last, what scissy-shell reads from a command line. *)
(***************************************************************************)
EXTENDS SshLogin, FiniteSetTheorems, SequenceTheorems, WellFoundedInduction, TLAPS

OneHandler == \A t, u \in Handlers : t = u

Running  == {"open", "fetch", "write"}
Scanning == {"fetch", "write"}

Upto(k)  == {l \in users_ssh_keys : l <= k}
Below(k) == {l \in users_ssh_keys : l < k}

\* The file is a listing of a set of keys.
Lists(keys) == Lines = keys /\ Len(file) = Cardinality(keys)

WriteOK(t) == pc[t] = "write" => cursor[t] \in Keys

Typed == TypeOK /\ \A t \in Threads : WriteOK(t)

\* main() serves nobody before it has generated the file.
Phases ==
  \/ pc[Main] \in Running /\ \A h \in Handlers : pc[h] = "down"
  \/ pc[Main] = "idle" /\ \A h \in Handlers : pc[h] # "down"

\* Somebody has still to open the file.
Due == \E t \in Threads : pc[t] = "open"

Scan(t) ==
  pc[t] \in Scanning =>
    /\ \A u \in Threads : u # t => pc[u] \notin Scanning
    /\ offset[t] = Len(file)
    /\ ~Due => /\ pc[t] = "fetch" => Lists(Upto(cursor[t]))
               /\ pc[t] = "write" => cursor[t] \in users_ssh_keys /\ Lists(Below(cursor[t]))

Undisturbed == (\A t \in Threads : Scan(t)) /\ FileIsTable

KInv ==
  /\ Typed /\ IsFiniteSet(users_ssh_keys)
  /\ Phases
  /\ clean => Undisturbed

\* What a login has read was not its key, unless a regeneration interfered.
LoginInv ==
  /\ KInv
  /\ line \in Nat
  /\ at # "read" => line = 0
  /\ at = "read" /\ settled =>
       Settled /\ \A i \in 1 .. line : i <= Len(file) => file[i] # key
  /\ LoginFollowsTable

-----------------------------------------------------------------------------
(* Types hold for any number of handlers. *)

LEMMA InitTyped == Init => Typed
<1> USE DEF Threads
<1>1. Init => TypeOK
  BY MaxStartsAssumption DEF Init, TypeOK, Started
<1>2. Init => \A t \in Threads : WriteOK(t)
  BY DEF Init, WriteOK, Started
<1>3. QED
  BY <1>1, <1>2 DEF Typed

\* The file after a write of any scan, also of one that another scan disturbs.
LEMMA FileWritten ==
  ASSUME Typed, NEW t \in Threads, Write(t),
         NEW last, last = IF Len(file) > offset[t] THEN Len(file) ELSE offset[t] + 1
  PROVE  /\ last \in Nat
         /\ file' \in Seq(Keys \cup {Hole})
         /\ Len(file') = last
         /\ \A i \in 1 .. last : file'[i] = LineAfterWrite(i, t)
<1>1. cursor[t] \in Keys /\ offset[t] \in Nat /\ file \in Seq(Keys \cup {Hole})
  BY DEF Typed, WriteOK, Write, TypeOK
<1>2. last \in Nat /\ Len(file) \in Nat
  BY <1>1
<1>3. \A i \in 1 .. last : LineAfterWrite(i, t) \in Keys \cup {Hole}
  BY <1>1, <1>2 DEF LineAfterWrite
<1>4. file' = [i \in 1 .. last |-> LineAfterWrite(i, t)]
  BY DEF Write
<1>5. file' \in [1 .. last -> Keys \cup {Hole}]
  BY <1>3, <1>4
<1>6. file' \in Seq(Keys \cup {Hole})
  BY <1>2, <1>5, SeqDef
<1>7. Len(file') \in Nat /\ 1 .. Len(file') = 1 .. last
  BY <1>5, <1>6, LenProperties
<1>8. Len(file') = last
  BY <1>2, <1>7
<1>9. QED
  BY <1>2, <1>4, <1>6, <1>8

LEMMA NextTyped ==
  ASSUME Typed, [Next]_vars
  PROVE  Typed'
<1> USE DEF Typed, TypeOK
<1>1. ASSUME NEW t \in Threads, UserAddSshKey(t) \/ UserRemoveSshKey(t)
      PROVE  Typed'
  BY <1>1 DEF UserAddSshKey, UserRemoveSshKey, WriteOK
<1>2. ASSUME NEW t \in Threads, Open(t)
      PROVE  Typed'
  BY <1>2 DEF Open, WriteOK
<1>3. ASSUME NEW t \in Threads, Fetch(t)
      PROVE  Typed'
  <2>0. UNCHANGED <<users_ssh_keys, file, starts>>
    BY <1>3 DEF Fetch
  <2>1. CASE /\ cursor' = [cursor EXCEPT ![t] = 0]
             /\ offset' = [offset EXCEPT ![t] = 0]
             /\ pc' = IF t = Main THEN [u \in Threads |-> "idle"]
                      ELSE [pc EXCEPT ![t] = "idle"]
    <3>1. pc' \in [Threads -> {"down", "idle", "open", "fetch", "write"}]
      BY <2>1
    <3>2. cursor' \in [Threads -> Keys \cup {0}] /\ offset' \in [Threads -> Nat]
      BY <2>1
    <3>3. \A u \in Threads : WriteOK(u)'
      BY <2>1 DEF WriteOK
    <3>4. QED
      BY <2>0, <3>1, <3>2, <3>3
  <2>2. ASSUME NEW k \in Rest(t), cursor' = [cursor EXCEPT ![t] = k],
               pc' = [pc EXCEPT ![t] = "write"], UNCHANGED offset
        PROVE  Typed'
    <3>1. k \in Keys
      BY <2>2 DEF Rest
    <3>2. QED
      BY <2>0, <2>2, <3>1 DEF WriteOK
  <2>3. QED
    BY <1>3, <2>1, <2>2 DEF Fetch
<1>4. ASSUME NEW t \in Threads, Write(t)
      PROVE  Typed'
  <2>1. file' \in Seq(Keys \cup {Hole})
    BY <1>4, FileWritten
  <2>2. /\ offset' = [offset EXCEPT ![t] = offset[t] + 1] /\ pc' = [pc EXCEPT ![t] = "fetch"]
        /\ UNCHANGED <<users_ssh_keys, cursor, starts>>
    BY <1>4 DEF Write
  <2>3. QED
    BY <2>1, <2>2 DEF WriteOK
<1>5. CASE Restart
  BY <1>5, MaxStartsAssumption DEF Restart, Started, WriteOK, Threads
<1>6. CASE UNCHANGED vars
  BY <1>6 DEF vars, WriteOK
<1>7. QED
  BY <1>1, <1>2, <1>3, <1>4, <1>5, <1>6 DEF Next, Generate

(***************************************************************************)
(* The variables of the server hold what they should, with any number of   *)
(* threads that scan at once.                                              *)
(***************************************************************************)
THEOREM KeysTyped == Spec => []TypeOK
<1>1. Typed => TypeOK
  BY DEF Typed
<1>2. QED
  BY InitTyped, NextTyped, <1>1, PTL DEF Spec

-----------------------------------------------------------------------------
(* The file, while regenerations do not overlap. *)

LEMMA InitKeys == LoginInit => KInv
<1> SUFFICES ASSUME LoginInit PROVE KInv
  OBVIOUS
<1>0. Init
  BY DEF LoginInit
<1>1. Typed
  BY <1>0, InitTyped
<1>2. IsFiniteSet(users_ssh_keys)
  BY <1>0, FS_EmptySet DEF Init
<1>3. Phases
  BY <1>0, MainAssumption DEF Init, Started, Phases, Running, Threads
<1>4. \A t \in Threads : Scan(t)
  BY <1>0 DEF Init, Started, Scan, Scanning
<1>5. FileIsTable
  BY <1>0 DEF Init, Started, FileIsTable, Quiet, Threads
<1>6. QED
  BY <1>1, <1>2, <1>3, <1>4, <1>5 DEF KInv, Undisturbed

\* What RecordScan notes.
LEMMA CleanStays ==
  ASSUME RecordScan, \A t \in Threads : ~Truncates(t)
  PROVE  clean' = clean
BY DEF RecordScan

LEMMA BeginsAlone ==
  ASSUME RecordScan, NEW t \in Threads, Truncates(t)
  PROVE  clean' = \A u \in Threads : pc[u] \notin Scanning
BY DEF RecordScan, Scanning

\* The table changes, and a regeneration is due then.
LEMMA ChangeKeeps ==
  ASSUME KInv, RecordScan, NEW t \in Threads, UserAddSshKey(t) \/ UserRemoveSshKey(t)
  PROVE  KInv'
<1>1. /\ pc[t] = "idle" /\ t \in Handlers /\ pc' = [pc EXCEPT ![t] = "open"]
      /\ \E k \in Keys : \/ users_ssh_keys' = users_ssh_keys \cup {k}
                         \/ users_ssh_keys' = users_ssh_keys \ {k}
      /\ UNCHANGED <<file, offset>>
  BY DEF UserAddSshKey, UserRemoveSshKey
<1>2. /\ pc \in [Threads -> {"down", "idle", "open", "fetch", "write"}]
      /\ Phases /\ IsFiniteSet(users_ssh_keys)
  BY DEF KInv, Typed, TypeOK
<1>3. Typed'
  <2>1. Next
    BY DEF Next
  <2> QED BY <2>1, NextTyped DEF KInv
<1>4. IsFiniteSet(users_ssh_keys')
  BY <1>1, <1>2, FS_AddElement, FS_RemoveElement
<1>5. pc'[t] = "open" /\ \A u \in Threads : u # t => pc'[u] = pc[u]
  BY <1>1, <1>2
<1>6. Phases'
  BY <1>1, <1>2, MainAssumption DEF Phases, Threads
<1>7. ASSUME clean'
      PROVE  Undisturbed'
  <2>1. clean
    BY <1>1, <1>5, <1>7, CleanStays DEF Truncates
  <2>2. Due' /\ ~Quiet'
    BY <1>5 DEF Due, Quiet
  <2>3. \A u \in Threads : Scan(u)
    BY <2>1 DEF KInv, Undisturbed
  <2>4. ASSUME NEW u \in Threads
        PROVE  Scan(u)'
    BY <1>1, <1>5, <2>2, <2>3 DEF Scan, Scanning
  <2>5. QED
    BY <2>2, <2>4 DEF Undisturbed, FileIsTable
<1>8. QED
  BY <1>3, <1>4, <1>6, <1>7 DEF KInv

\* A scan that begins alone begins with nothing, whatever was in the file.
LEMMA OpenKeeps ==
  ASSUME KInv, RecordScan, NEW t \in Threads, Open(t)
  PROVE  KInv'
<1>1. /\ pc[t] = "open" /\ pc' = [pc EXCEPT ![t] = "fetch"]
      /\ file' = <<>> /\ cursor' = [cursor EXCEPT ![t] = 0]
      /\ offset' = [offset EXCEPT ![t] = 0]
      /\ users_ssh_keys' = users_ssh_keys
  BY DEF Open
<1>2. TypeOK /\ Phases /\ IsFiniteSet(users_ssh_keys)
  BY DEF KInv, Typed
<1>3. Typed'
  <2>1. Next
    BY DEF Next, Generate
  <2> QED BY <2>1, NextTyped DEF KInv
<1>4. pc'[t] = "fetch" /\ \A u \in Threads : u # t => pc'[u] = pc[u]
  BY <1>1, <1>2 DEF TypeOK
<1>5. Phases'
  BY <1>1, <1>2 DEF Phases, Threads, Running, TypeOK
<1>6. ASSUME clean'
      PROVE  Undisturbed'
  <2>1. \A u \in Threads : pc[u] \notin Scanning
    BY <1>1, <1>4, <1>6, BeginsAlone DEF Truncates
  <2>2. cursor'[t] = 0 /\ offset'[t] = 0
    BY <1>1, <1>2 DEF TypeOK
  <2>3. Upto(cursor[t])' = {}
    <3>1. \A l \in users_ssh_keys' : l \in Nat /\ l # 0
      BY <1>1, <1>2, KeysAssumption DEF TypeOK
    <3>2. \A l \in users_ssh_keys' : ~(l <= cursor'[t])
      BY <2>2, <3>1
    <3>3. QED
      BY <3>2 DEF Upto
  <2>4. Lines' = {} /\ Len(file') = 0
    BY <1>1 DEF Lines
  <2>5. Lists(Upto(cursor[t]))'
    BY <2>3, <2>4, FS_EmptySet DEF Lists
  <2>6. Scan(t)'
    BY <1>4, <2>1, <2>2, <2>4, <2>5 DEF Scan
  <2>7. \A u \in Threads : u # t => Scan(u)'
    BY <1>4, <2>1 DEF Scan
  <2>8. FileIsTable'
    BY <1>4 DEF FileIsTable, Quiet
  <2>9. QED
    BY <2>6, <2>7, <2>8 DEF Undisturbed
<1>7. QED
  BY <1>1, <1>2, <1>3, <1>5, <1>6 DEF KInv

\* After the last row the file lists the table; before, the rows fetched.
LEMMA FetchKeeps ==
  ASSUME KInv, RecordScan, NEW t \in Threads, Fetch(t)
  PROVE  KInv'
<1>1. /\ pc[t] = "fetch"
      /\ UNCHANGED <<users_ssh_keys, file>>
  BY DEF Fetch
<1>2. TypeOK /\ Phases /\ IsFiniteSet(users_ssh_keys)
  BY DEF KInv, Typed
<1>3. Typed'
  <2>1. Next
    BY DEF Next, Generate
  <2> QED BY <2>1, NextTyped DEF KInv
<1>4. ASSUME clean
      PROVE  /\ \A u \in Threads : u # t => pc[u] \notin Scanning
             /\ offset[t] = Len(file)
             /\ ~Due => Lists(Upto(cursor[t]))
  BY <1>1, <1>4 DEF KInv, Undisturbed, Scan, Scanning
<1>5. /\ cursor[t] \in Nat /\ \A l \in users_ssh_keys : l \in Nat
      /\ cursor \in [Threads -> Keys \cup {0}]
      /\ pc \in [Threads -> {"down", "idle", "open", "fetch", "write"}]
  <2>1. /\ cursor[t] \in Keys \cup {0} /\ users_ssh_keys \subseteq Keys
        /\ cursor \in [Threads -> Keys \cup {0}]
        /\ pc \in [Threads -> {"down", "idle", "open", "fetch", "write"}]
    BY <1>2 DEF TypeOK
  <2>2. \A k \in Keys \cup {0} : k \in Nat
    BY KeysAssumption
  <2>3. QED
    BY <2>1, <2>2
<1>6. ASSUME NEW k \in Rest(t), \A l \in Rest(t) : k <= l,
             cursor' = [cursor EXCEPT ![t] = k],
             pc' = [pc EXCEPT ![t] = "write"], UNCHANGED offset
      PROVE  Phases' /\ (clean' => Undisturbed')
  <2>1. k \in users_ssh_keys /\ k \in Nat /\ k > cursor[t]
    BY <1>5 DEF Rest
  <2>2. Below(k) = Upto(cursor[t])
    <3>1. \A l \in users_ssh_keys : l > cursor[t] => k <= l
      BY <1>6 DEF Rest
    <3>2. \A l \in users_ssh_keys : l < k <=> l <= cursor[t]
      BY <1>5, <2>1, <3>1
    <3>3. QED
      BY <3>2 DEF Below, Upto
  <2>3. /\ cursor'[t] = k /\ pc'[t] = "write"
        /\ \A u \in Threads : u # t => pc'[u] = pc[u]
    BY <1>5, <1>6
  <2>4. Phases'
    BY <1>1, <1>2, <1>5, <1>6 DEF Phases, Threads, Running
  <2>5. ASSUME clean'
        PROVE  Undisturbed'
    <3>1. clean
      BY <1>1, <2>3, <2>5, CleanStays DEF Truncates
    <3>2. Due' <=> Due
      BY <1>1, <2>3 DEF Due
    <3>3. ~Due' => Lists(Below(k))'
      BY <1>1, <1>4, <2>2, <3>1, <3>2 DEF Lists, Lines, Below
    <3>4. Below(k)' = Below(cursor[t])'
      BY <2>3 DEF Below
    <3>5. Scan(t)'
      BY <1>1, <1>4, <1>6, <2>1, <2>3, <3>1, <3>3, <3>4 DEF Scan, Lists
    <3>6. \A u \in Threads : u # t => Scan(u)'
      BY <1>4, <2>3, <3>1 DEF Scan
    <3>7. FileIsTable'
      BY <2>3 DEF FileIsTable, Quiet
    <3>8. QED
      BY <3>5, <3>6, <3>7 DEF Undisturbed
  <2>6. QED
    BY <2>4, <2>5
<1>7. ASSUME Rest(t) = {},
             pc' = IF t = Main THEN [u \in Threads |-> "idle"]
                   ELSE [pc EXCEPT ![t] = "idle"]
      PROVE  Phases' /\ (clean' => Undisturbed')
  <2>1. Upto(cursor[t]) = users_ssh_keys
    <3>1. \A l \in users_ssh_keys : ~(l > cursor[t])
      BY <1>7 DEF Rest
    <3>2. \A l \in users_ssh_keys : l <= cursor[t]
      BY <1>5, <3>1
    <3>3. QED
      BY <3>2 DEF Upto
  <2>2. /\ pc'[t] = "idle"
        /\ \A u \in Threads : u # t => pc'[u] = pc[u] \/ (t = Main /\ pc'[u] = "idle")
    BY <1>5, <1>7
  <2>3. Phases'
    <3>1. CASE t = Main
      BY <1>7, <3>1 DEF Phases, Threads
    <3>2. CASE t # Main
      BY <1>1, <1>2, <1>5, <1>7, <3>2 DEF Phases, Threads, Running
    <3>3. QED
      BY <3>1, <3>2
  <2>4. ASSUME clean'
        PROVE  Undisturbed'
    <3>1. clean
      BY <2>2, <2>4, CleanStays, <1>1 DEF Truncates
    <3>2. \A u \in Threads : pc'[u] \notin Scanning
      BY <1>4, <2>2, <3>1 DEF Scanning
    <3>3. Quiet' => ~Due
      <4>1. CASE t = Main
        BY <1>1, <1>2, <4>1 DEF Phases, Threads, Due
      <4>2. CASE t # Main
        BY <1>1, <2>2, <4>2 DEF Quiet, Due
      <4>3. QED
        BY <4>1, <4>2
    <3>4. FileIsTable'
      BY <1>1, <1>4, <2>1, <3>1, <3>3 DEF Lists, Lines, FileIsTable
    <3>5. QED
      BY <3>2, <3>4 DEF Undisturbed, Scan
  <2>5. QED
    BY <2>3, <2>4
<1>8. Phases' /\ (clean' => Undisturbed')
  BY <1>6, <1>7 DEF Fetch
<1>9. QED
  BY <1>1, <1>2, <1>3, <1>8 DEF KInv

\* A write appends the row: the stream is where the file ends.
LEMMA WriteKeeps ==
  ASSUME KInv, RecordScan, NEW t \in Threads, Write(t)
  PROVE  KInv'
<1>1. /\ pc[t] = "write" /\ pc' = [pc EXCEPT ![t] = "fetch"]
      /\ offset' = [offset EXCEPT ![t] = offset[t] + 1]
      /\ UNCHANGED <<users_ssh_keys, cursor>>
  BY DEF Write
<1> DEFINE k == cursor[t]
<1>2. TypeOK /\ Phases /\ IsFiniteSet(users_ssh_keys) /\ Typed
  BY DEF KInv, Typed
<1>3. Typed'
  <2>1. Next
    BY DEF Next, Generate
  <2> QED BY <2>1, NextTyped DEF KInv
<1>4. ASSUME clean
      PROVE  /\ \A u \in Threads : u # t => pc[u] \notin Scanning
             /\ offset[t] = Len(file)
             /\ ~Due => k \in users_ssh_keys /\ Lists(Below(k))
  BY <1>1, <1>4 DEF KInv, Undisturbed, Scan, Scanning
<1>5. /\ k \in Nat /\ \A l \in users_ssh_keys : l \in Nat
      /\ offset \in [Threads -> Nat] /\ Len(file) \in Nat /\ file \in Seq(Keys \cup {Hole})
      /\ pc \in [Threads -> {"down", "idle", "open", "fetch", "write"}]
  <2>1. k \in Keys
    BY <1>1, <1>2 DEF Typed, WriteOK
  <2>2. QED
    <3>1. \A l \in Keys : l \in Nat
      BY KeysAssumption
    <3>2. /\ users_ssh_keys \subseteq Keys /\ offset \in [Threads -> Nat]
          /\ file \in Seq(Keys \cup {Hole})
          /\ pc \in [Threads -> {"down", "idle", "open", "fetch", "write"}]
      BY <1>2 DEF TypeOK
    <3>3. Len(file) \in Nat
      BY <3>2
    <3>4. QED
      BY <2>1, <3>1, <3>2, <3>3
<1>6. pc'[t] = "fetch" /\ \A u \in Threads : u # t => pc'[u] = pc[u]
  BY <1>1, <1>5
<1>7. Phases'
  BY <1>1, <1>2, <1>5 DEF Phases, Threads, Running
<1>8. ASSUME clean'
      PROVE  Undisturbed'
  <2>1. clean
    BY <1>1, <1>6, <1>8, CleanStays DEF Truncates
  <2>2. offset[t] = Len(file)
    BY <1>4, <2>1
  <2>3. /\ Len(file') = Len(file) + 1
        /\ \A i \in 1 .. Len(file) + 1 : file'[i] = LineAfterWrite(i, t)
    <3>1. Len(file) + 1 = IF Len(file) > offset[t] THEN Len(file) ELSE offset[t] + 1
      BY <1>5, <2>2
    <3>2. QED
      BY <1>2, <3>1, FileWritten
  <2>4. Lines' = Lines \cup {k}
    <3>1. file'[Len(file) + 1] = k /\ \A i \in 1 .. Len(file) : file'[i] = file[i]
      BY <1>5, <2>2, <2>3 DEF LineAfterWrite
    <3>2. 1 .. Len(file') = (1 .. Len(file)) \cup {Len(file) + 1}
      BY <1>5, <2>3
    <3>3. QED
      BY <3>1, <3>2 DEF Lines
  <2>5. ASSUME ~Due'
        PROVE  Lists(Upto(cursor[t]))'
    <3>1. ~Due
      BY <1>1, <1>6, <2>5 DEF Due
    <3>2. k \in users_ssh_keys /\ Lists(Below(k))
      BY <1>4, <2>1, <3>1
    <3>3. Upto(k) = Below(k) \cup {k} /\ k \notin Below(k)
      <4>1. \A l \in users_ssh_keys : l <= k <=> l < k \/ l = k
        BY <1>5
      <4>2. ~(k < k)
        BY <1>5
      <4>3. QED
        BY <3>2, <4>1, <4>2 DEF Upto, Below
    <3>4. Cardinality(Upto(k)) = Cardinality(Below(k)) + 1
      <4>1. IsFiniteSet(Below(k))
        BY <1>2, FS_Subset DEF Below
      <4>2. QED
        BY <3>3, <4>1, FS_AddElement
    <3>5. Upto(cursor[t])' = Upto(k)
      BY <1>1 DEF Upto
    <3>6. QED
      BY <2>3, <2>4, <3>2, <3>3, <3>4, <3>5 DEF Lists
  <2>6. offset'[t] = Len(file')
    BY <1>1, <1>5, <2>2, <2>3
  <2>7. Scan(t)'
    BY <1>4, <1>6, <2>1, <2>5, <2>6 DEF Scan
  <2>8. \A u \in Threads : u # t => Scan(u)'
    BY <1>4, <1>6, <2>1 DEF Scan
  <2>9. FileIsTable'
    BY <1>6 DEF FileIsTable, Quiet
  <2>10. QED
    BY <2>7, <2>8, <2>9 DEF Undisturbed
<1>9. QED
  BY <1>1, <1>2, <1>3, <1>7, <1>8 DEF KInv

\* A step that leaves the server alone.
LEMMA KeysStand ==
  ASSUME KInv, UNCHANGED vars, RecordScan \/ UNCHANGED clean
  PROVE  KInv'
<1>1. UNCHANGED <<users_ssh_keys, file, pc, cursor, offset, starts>>
  BY DEF vars
<1>2. Typed'
  BY <1>1, NextTyped DEF KInv, vars
<1>3. Phases'
  BY <1>1 DEF KInv, Phases
<1>4. clean' = clean
  <2>1. \A t \in Threads : ~Truncates(t)
    BY <1>1 DEF Truncates
  <2>2. QED
    BY <2>1, CleanStays
<1>5. ASSUME Undisturbed
      PROVE  Undisturbed'
  <2>1. FileIsTable'
    BY <1>1, <1>5 DEF Undisturbed, FileIsTable, Quiet, Lines
  <2>2. ASSUME NEW t \in Threads
        PROVE  Scan(t)'
    BY <1>1, <1>5 DEF Undisturbed, Scan, Lists, Lines, Upto, Below, Due
  <2>3. QED
    BY <2>1, <2>2 DEF Undisturbed
<1>6. QED
  BY <1>1, <1>2, <1>3, <1>4, <1>5 DEF KInv

LEMMA NextKeys ==
  ASSUME KInv, Next, RecordScan
  PROVE  KInv'
<1>1. CASE Restart
  <2>1. Typed'
    BY <1>1, NextTyped DEF KInv, Next
  <2>2. /\ pc' = Started /\ UNCHANGED <<users_ssh_keys, file>>
    BY <1>1 DEF Restart
  <2>3. Phases'
    BY <2>2, MainAssumption DEF Phases, Started, Threads, Running
  <2>4. \A t \in Threads : Scan(t)'
    BY <2>2 DEF Scan, Scanning, Started
  <2>5. FileIsTable'
    BY <2>2 DEF FileIsTable, Quiet, Started, Threads
  <2>6. QED
    BY <2>1, <2>2, <2>3, <2>4, <2>5 DEF KInv, Undisturbed
<1>2. QED
  BY <1>1, ChangeKeeps, OpenKeeps, FetchKeeps, WriteKeeps DEF Next, Generate

-----------------------------------------------------------------------------
(* A login. *)

LEMMA InitLogin == LoginInit => LoginInv
<1> SUFFICES ASSUME LoginInit PROVE LoginInv
  OBVIOUS
<1>1. KInv
  BY InitKeys
<1>2. LoginFollowsTable
  BY DEF LoginInit, LoginFollowsTable
<1>3. QED
  BY <1>1, <1>2 DEF LoginInit, LoginInv

\* What Record notes of a login that reads the file, and what it leaves.
LEMMA ReadingRecorded ==
  ASSUME Record, at = "read"
  PROVE  /\ settled' => settled /\ Settled'
         /\ key \in users_ssh_keys' => "listed" \in seen'
         /\ key \notin users_ssh_keys' => "unlisted" \in seen'
<1>1. settled' = (settled /\ Settled') /\ seen' = seen \cup {Presence(key, users_ssh_keys')}
  BY DEF Record, RecordLogin
<1>2. settled' => settled /\ Settled'
  BY <1>1
<1>3. key \in users_ssh_keys' => "listed" \in seen'
  BY <1>1 DEF Presence
<1>4. key \notin users_ssh_keys' => "unlisted" \in seen'
  BY <1>1 DEF Presence
<1>5. QED
  BY <1>2, <1>3, <1>4

LEMMA ConnectRecorded ==
  ASSUME Record, at = "idle", at' = "read", settled'
  PROVE  Settled
<1>1. settled' = Settled
  BY DEF Record, RecordLogin
<1>2. QED
  BY <1>1

LEMMA RestRecorded ==
  ASSUME Record, at # "read", at' # "read"
  PROVE  UNCHANGED <<seen, settled>>
BY DEF Record, RecordLogin

\* A step of sshd or of the shell does not unsettle the file.
LEMMA SettledStays ==
  ASSUME Settled, UNCHANGED vars, RecordScan
  PROVE  Settled'
<1>1. UNCHANGED pc
  BY DEF vars
<1>2. clean' = clean
  BY <1>1, CleanStays DEF Truncates
<1>3. QED
  BY <1>1, <1>2 DEF Settled, Quiet

LEMMA ConnectKeeps ==
  ASSUME LoginInv, Connect, Record
  PROVE  LoginInv'
<1>1. /\ at = "idle" /\ at' = "read" /\ outcome' = "none"
      /\ line' = line /\ UNCHANGED vars
  BY DEF Connect
<1>2. KInv'
  BY <1>1, KeysStand DEF LoginInv, Record
<1>3. line' = 0
  BY <1>1 DEF LoginInv
<1>4. settled' => Settled'
  BY <1>1, ConnectRecorded, SettledStays DEF Record
<1>5. LoginFollowsTable'
  BY <1>1 DEF LoginFollowsTable
<1>6. QED
  BY <1>1, <1>2, <1>3, <1>4, <1>5 DEF LoginInv

\* The file is the table while the login reads it, if nothing interferes.
LEMMA ReadLineKeeps ==
  ASSUME LoginInv, ReadLine, Record
  PROVE  LoginInv'
<1>1. at = "read" /\ key' = key /\ UNCHANGED vars
  BY DEF ReadLine, End
<1>2. KInv'
  BY <1>1, KeysStand DEF LoginInv, Record
<1>3. /\ settled' => settled /\ Settled'
      /\ key \in users_ssh_keys => "listed" \in seen'
      /\ key \notin users_ssh_keys => "unlisted" \in seen'
  <2>1. users_ssh_keys' = users_ssh_keys
    BY <1>1 DEF vars
  <2>2. QED
    BY <1>1, <2>1, ReadingRecorded
<1>4. /\ line \in Nat /\ Len(file) \in Nat
      /\ settled => Settled /\ \A i \in 1 .. line : i <= Len(file) => file[i] # key
      /\ settled => Lines = users_ssh_keys
  BY <1>1 DEF LoginInv, KInv, Typed, Undisturbed, Settled, FileIsTable, TypeOK
<1>5. CASE line < Len(file) /\ file[line + 1] = key /\ at' = "shell" /\ line' = 0
  <2>1. key \in Lines
    BY <1>4, <1>5 DEF Lines
  <2>2. settled' => "listed" \in seen'
    BY <1>3, <1>4, <2>1
  <2>3. LoginFollowsTable'
    BY <1>5, <2>2 DEF LoginFollowsTable
  <2>4. QED
    BY <1>2, <1>5, <2>3 DEF LoginInv
<1>6. CASE line < Len(file) /\ file[line + 1] # key /\ line' = line + 1 /\ at' = at
  <2>1. \A i \in 1 .. line' : i \in 1 .. line \/ i = line + 1
    BY <1>4, <1>6
  <2>2. settled' => Settled' /\ \A i \in 1 .. line' : i <= Len(file) => file[i] # key
    BY <1>3, <1>4, <1>6, <2>1
  <2>3. LoginFollowsTable'
    BY <1>1, <1>6 DEF LoginFollowsTable
  <2>4. line' \in Nat
    BY <1>4, <1>6
  <2>5. QED
    BY <1>1, <1>2, <1>6, <2>2, <2>3, <2>4 DEF LoginInv, vars
<1>7. CASE line >= Len(file) /\ End("refused")
  <2>1. at' = "idle" /\ line' = 0
    BY <1>7 DEF End
  <2>2. settled => key \notin Lines
    <3>1. \A i \in 1 .. Len(file) : i \in 1 .. line /\ i <= Len(file)
      BY <1>4, <1>7
    <3>2. QED
      BY <1>4, <3>1 DEF Lines
  <2>3. settled' => "unlisted" \in seen'
    BY <1>3, <1>4, <2>2
  <2>4. LoginFollowsTable'
    BY <2>1, <2>3 DEF LoginFollowsTable
  <2>5. QED
    BY <1>2, <2>1, <2>4 DEF LoginInv
<1>8. QED
  BY <1>5, <1>6, <1>7 DEF ReadLine

LEMMA ShellKeeps ==
  ASSUME LoginInv, Shell, Record
  PROVE  LoginInv'
<1>1. /\ at = "shell" /\ at' = "idle" /\ outcome' \in {"failed", "ran"}
      /\ UNCHANGED vars /\ line' = 0
  BY DEF Shell, End, LoginInv
<1>2. KInv'
  BY <1>1, KeysStand DEF LoginInv, Record
<1>3. LoginFollowsTable'
  BY <1>1 DEF LoginFollowsTable
<1>4. QED
  BY <1>1, <1>2, <1>3 DEF LoginInv

\* While no regeneration runs, no step touches the file.
LEMMA QuietFile ==
  ASSUME Quiet, Next
  PROVE  file' = file
BY DEF Next, UserAddSshKey, UserRemoveSshKey, Generate, Open, Fetch, Write, Restart, Quiet

LEMMA ServerKeeps ==
  ASSUME LoginInv, Next, UNCHANGED loginVars, Record
  PROVE  LoginInv'
<1>1. UNCHANGED <<at, key, line, outcome>>
  BY DEF loginVars
<1>2. KInv'
  BY NextKeys DEF LoginInv, Record
<1>3. ASSUME at = "read", settled'
      PROVE  Settled' /\ \A i \in 1 .. line' : i <= Len(file') => file'[i] # key'
  <2>1. settled /\ Settled'
    BY <1>3, ReadingRecorded
  <2>2. Settled /\ \A i \in 1 .. line : i <= Len(file) => file[i] # key
    BY <1>3, <2>1 DEF LoginInv
  <2>3. QED
    BY <1>1, <2>1, <2>2, QuietFile DEF Settled
<1>4. LoginFollowsTable'
  <2>1. CASE at = "read"
    BY <1>1, <2>1 DEF LoginFollowsTable
  <2>2. CASE at # "read"
    BY <1>1, <2>2, RestRecorded DEF LoginInv, LoginFollowsTable
  <2>3. QED
    BY <2>1, <2>2
<1>5. QED
  BY <1>1, <1>2, <1>3, <1>4 DEF LoginInv

LEMMA NextLogin ==
  ASSUME LoginInv, [LoginNext]_sshVars
  PROVE  LoginInv'
<1>1. CASE UNCHANGED sshVars
  <2>1. UNCHANGED vars /\ UNCHANGED <<at, key, line, outcome, seen, settled, clean>>
    BY <1>1 DEF sshVars, loginVars
  <2>2. KInv'
    BY <2>1, KeysStand DEF LoginInv
  <2>3. QED
    BY <2>1, <2>2 DEF LoginInv, LoginFollowsTable, Settled, Quiet, vars
<1>2. QED
  BY <1>1, ConnectKeeps, ReadLineKeeps, ShellKeeps, ServerKeeps DEF LoginNext, LoginStep

(***************************************************************************)
(* With any number of threads, whenever no regeneration is due or under    *)
(* way the file holds exactly the keys of the table, each once, unless the *)
(* last regeneration began while another was writing: across any number of *)
(* changes, of overlaps before that, and of deaths in the middle           *)
(* (gen-authorized-keys.cc:9-33, service.cc:399-444, main.cc:54).          *)
(***************************************************************************)
THEOREM SettledFile == LoginSpec => []SettledFileIsTable
<1>1. LoginInv => SettledFileIsTable
  BY DEF LoginInv, KInv, Undisturbed, SettledFileIsTable, Settled, FileIsTable
<1>2. LoginInv /\ [LoginNext]_sshVars => LoginInv'
  BY NextLogin
<1>3. QED
  BY InitLogin, <1>1, <1>2, PTL DEF LoginSpec

(***************************************************************************)
(* With any number of threads, a login that reads a settled file lets in   *)
(* who holds a key of the table and refuses who holds none, whatever sshd  *)
(* and the clients do in between (gen-authorized-keys.cc:9-33,             *)
(* service.cc:399-444).                                                    *)
(***************************************************************************)
THEOREM LoginFollows == LoginSpec => []LoginFollowsTable
<1>1. LoginInv => LoginFollowsTable
  BY DEF LoginInv
<1>2. LoginInv /\ [LoginNext]_sshVars => LoginInv'
  BY NextLogin
<1>3. QED
  BY InitLogin, <1>1, <1>2, PTL DEF LoginSpec

\* With one handler no regeneration ever begins while another is writing.
LEMMA OneHandlerIsClean ==
  ASSUME KInv, OneHandler, clean, [LoginNext]_sshVars
  PROVE  clean'
<1>1. CASE \E t \in Threads : Truncates(t)
  <2>1. PICK t \in Threads : Truncates(t)
    BY <1>1
  <2>2. pc[t] = "open"
    BY <2>1 DEF Truncates
  <2>3. \A u \in Threads : pc[u] \notin Scanning
    BY <2>2, MainAssumption DEF KInv, OneHandler, Phases, Running, Scanning, Threads
  <2>4. CASE RecordScan
    BY <2>1, <2>3, <2>4, BeginsAlone
  <2>5. QED
    BY <2>4 DEF LoginNext, Record, sshVars
<1>2. CASE \A t \in Threads : ~Truncates(t)
  BY <1>2, CleanStays DEF LoginNext, Record, sshVars
<1>3. QED
  BY <1>1, <1>2

(***************************************************************************)
(* With one serving thread the file of an idle server is always the table, *)
(* which is false of two: the run on MCKeys.                               *)
(***************************************************************************)
THEOREM LoginKeepsFile ==
  ASSUME OneHandler
  PROVE  LoginSpec => []FileIsTable
<1>1. LoginInit => LoginInv /\ clean
  BY InitLogin DEF LoginInit
<1>2. LoginInv /\ clean /\ [LoginNext]_sshVars => (LoginInv /\ clean)'
  BY NextLogin, OneHandlerIsClean DEF LoginInv
<1>3. LoginInv /\ clean => FileIsTable
  BY DEF LoginInv, KInv, Undisturbed
<1>4. QED
  BY <1>1, <1>2, <1>3, PTL DEF LoginSpec

\* Logins only read: with them, the server is still that of AuthorizedKeys.
THEOREM LoginsReadOnly == LoginSpec => Spec
<1>1. LoginInit => Init
  BY DEF LoginInit
<1>2. [LoginNext]_sshVars => [Next]_vars
  BY DEF LoginNext, LoginStep, Connect, ReadLine, Shell, End, sshVars
<1>3. QED
  BY <1>1, <1>2, PTL DEF LoginSpec, Spec

-----------------------------------------------------------------------------
(***************************************************************************)
(* The command line.  What the shell reads from a line that git has quoted *)
(* is found by induction over its characters.  The induction is over a set *)
(* of numbers, a least element of whose complement would have none before  *)
(* it; a recursive function is for the provers the one that satisfies its  *)
(* equation, if any does, so that one does comes first.                    *)
(***************************************************************************)

LEMMA SetInduction ==
  ASSUME NEW T \in SUBSET Nat, 0 \in T, \A k \in T : k + 1 \in T
  PROVE  T = Nat
<1> SUFFICES ASSUME Nat \ T # {}
             PROVE  FALSE
  OBVIOUS
<1>1. PICK x \in Nat \ T : \A y \in Nat \ T : ~ (<<y, x>> \in OpToRel(<, Nat))
  <2>1. Nat \ T \subseteq Nat
    OBVIOUS
  <2>2. QED
    BY <2>1, NatLessThanWellFounded, WFMin, Zenon
<1>2. x # 0 /\ x - 1 \in Nat /\ x - 1 < x
  OBVIOUS
<1>3. x - 1 \in T
  BY <1>1, <1>2 DEF OpToRel
<1>4. (x - 1) + 1 \in T
  BY <1>3
<1>5. QED
  BY <1>2, <1>4

\* A state of type S is carried along n steps, each of them in its own way.
LEMMA RecursionDefined ==
  ASSUME NEW S, NEW base \in S, NEW n \in Nat, NEW step \in [1 .. n -> [S -> S]]
  PROVE  \E g \in [0 .. n -> S] :
           g[0] = base /\ \A k \in 1 .. n : g[k] = step[k][g[k - 1]]
<1> DEFINE Run(g, m) == g[0] = base /\ \A k \in 1 .. m : g[k] = step[k][g[k - 1]]
           T == {m \in Nat : m <= n => \E g \in [0 .. m -> S] : Run(g, m)}
<1>1. 0 \in T
  <2>1. [k \in 0 .. 0 |-> base] \in [0 .. 0 -> S] /\ Run([k \in 0 .. 0 |-> base], 0)
    OBVIOUS
  <2>2. QED
    BY <2>1
<1>2. ASSUME NEW m \in T
      PROVE  m + 1 \in T
  <2>0. m \in Nat /\ m + 1 \in Nat
    OBVIOUS
  <2> SUFFICES ASSUME m + 1 <= n
               PROVE  \E g \in [0 .. m + 1 -> S] : Run(g, m + 1)
    BY <2>0
  <2>1. PICK f \in [0 .. m -> S] : Run(f, m)
    BY <2>0
  <2> DEFINE g == [k \in 0 .. m + 1 |-> IF k = m + 1 THEN step[m + 1][f[m]] ELSE f[k]]
  <2>2. m + 1 \in 1 .. n /\ step[m + 1][f[m]] \in S
    BY <2>0
  <2>3. \A k \in 0 .. m + 1 : k = m + 1 \/ k \in 0 .. m
    BY <2>0
  <2>4. g \in [0 .. m + 1 -> S]
    BY <2>2, <2>3
  <2>5. \A k \in 1 .. m + 1 : k = m + 1 \/ k \in 1 .. m
    BY <2>0
  <2>6. \A k \in 1 .. m : k \in 0 .. m + 1 /\ k - 1 \in 0 .. m + 1 /\ k # m + 1 /\ k - 1 # m + 1
    BY <2>0
  <2>7. \A k \in 1 .. m : g[k] = step[k][g[k - 1]]
    BY <2>1, <2>6
  <2>8. g[m + 1] = step[m + 1][g[m]] /\ g[0] = base
    BY <2>0, <2>1
  <2>9. Run(g, m + 1)
    <3>1. ASSUME NEW k \in 1 .. m + 1
          PROVE  g[k] = step[k][g[k - 1]]
      <4>1. CASE k = m + 1
        BY <2>0, <2>8, <4>1
      <4>2. CASE k \in 1 .. m
        BY <2>7, <4>2
      <4>3. QED
        BY <2>5, <4>1, <4>2
    <3>2. QED
      BY <2>8, <3>1
  <2>10. QED
    BY <2>4, <2>9
<1>3. T = Nat
  <2>1. T \in SUBSET Nat
    OBVIOUS
  <2> HIDE DEF T
  <2>2. QED
    BY <1>1, <1>2, <2>1, SetInduction
<1>4. n \in T /\ n <= n
  <2>1. n \in T
    <3> HIDE DEF T
    <3>1. QED
      BY <1>3
  <2>2. QED
    BY <2>1
<1>5. QED
  BY <1>4

\* What each step keeps to S holds only elements of S.
LEMMA RecursionTyped ==
  ASSUME NEW S, NEW n \in Nat, NEW g, g = [k \in 0 .. n |-> g[k]],
         g[0] \in S, \A k \in 1 .. n : g[k - 1] \in S => g[k] \in S
  PROVE  g \in [0 .. n -> S]
<1> DEFINE T == {k \in Nat : k <= n => g[k] \in S}
<1>1. ASSUME NEW k \in T
      PROVE  k + 1 \in T
  <2>1. k \in Nat /\ (k + 1) - 1 = k /\ k <= k + 1
    OBVIOUS
  <2>2. k + 1 <= n => k + 1 \in 1 .. n /\ k <= n
    BY <2>1
  <2>3. k + 1 <= n => g[k + 1] \in S
    BY <2>1, <2>2
  <2>4. QED
    BY <2>1, <2>3
<1>2. T = Nat
  <2>1. T \in SUBSET Nat /\ 0 \in T
    OBVIOUS
  <2> HIDE DEF T
  <2>2. QED
    BY <1>1, <2>1, SetInduction
<1>3. \A k \in 0 .. n : g[k] \in S
  BY <1>2
<1>4. QED
  BY <1>3

ParserStates == [mode : {"plain", "quoted", "escaped"}, name : Seq(Chars)]

LEMMA ParseCharTyped ==
  ASSUME NEW state \in ParserStates, NEW c \in Chars
  PROVE  ParseChar(state, c) \in ParserStates
<1>1. state.name \in Seq(Chars) /\ Append(state.name, c) \in Seq(Chars)
  BY AppendProperties DEF ParserStates
<1>2. QED
  BY <1>1 DEF ParserStates, ParseChar

\* The loop of parseCmd over a whole line.
LEMMA ParsedSteps ==
  ASSUME NEW cmd \in Seq(Chars)
  PROVE  /\ Parsed(cmd) \in [0 .. Len(cmd) -> ParserStates]
         /\ Parsed(cmd)[0] = [mode |-> "plain", name |-> <<>>]
         /\ \A k \in 1 .. Len(cmd) : Parsed(cmd)[k] = ParseChar(Parsed(cmd)[k - 1], cmd[k])
<1> DEFINE n == Len(cmd)
           start == [mode |-> "plain", name |-> <<>>]
           step == [k \in 1 .. n |-> [state \in ParserStates |-> ParseChar(state, cmd[k])]]
           Equation(f) == f = [k \in 0 .. n |-> IF k = 0 THEN start
                                               ELSE ParseChar(f[k - 1], cmd[k])]
<1>1. n \in Nat /\ \A k \in 1 .. n : cmd[k] \in Chars
  BY ElementOfSeq
<1>2. start \in ParserStates
  BY DEF ParserStates
<1>3. step \in [1 .. n -> [ParserStates -> ParserStates]]
  BY <1>1, ParseCharTyped
<1>4. PICK g \in [0 .. n -> ParserStates] :
        g[0] = start /\ \A k \in 1 .. n : g[k] = step[k][g[k - 1]]
  <2>1. ASSUME NEW base \in ParserStates, NEW m \in Nat,
               NEW f \in [1 .. m -> [ParserStates -> ParserStates]]
        PROVE  \E g \in [0 .. m -> ParserStates] :
                 g[0] = base /\ \A k \in 1 .. m : g[k] = f[k][g[k - 1]]
    BY RecursionDefined
  <2> HIDE DEF step, start, n
  <2>2. QED
    BY <1>1, <1>2, <1>3, <2>1
<1>5. \A k \in 1 .. n : g[k] = ParseChar(g[k - 1], cmd[k])
  <2> SUFFICES ASSUME NEW k \in 1 .. n
               PROVE  g[k] = ParseChar(g[k - 1], cmd[k])
    OBVIOUS
  <2>1. k - 1 \in 0 .. n
    BY <1>1
  <2>2. g[k - 1] \in ParserStates
    BY <1>4, <2>1
  <2>3. QED
    BY <1>4, <2>2
<1>6. \A k \in 0 .. n : k = 0 \/ k \in 1 .. n
  BY <1>1
<1>7. Equation(g)
  BY <1>1, <1>4, <1>5, <1>6
<1>8. Equation(Parsed(cmd))
  BY <1>7 DEF Parsed
<1>9. Parsed(cmd)[0] = start
  BY <1>1, <1>8
<1>10. \A k \in 1 .. n : Parsed(cmd)[k] = ParseChar(Parsed(cmd)[k - 1], cmd[k])
  <2>1. \A k \in 1 .. n : k \in 0 .. n /\ k # 0
    BY <1>1
  <2>2. QED
    BY <1>8, <2>1
<1>11. Parsed(cmd) \in [0 .. n -> ParserStates]
  <2>1. \A k \in 1 .. n : Parsed(cmd)[k - 1] \in ParserStates => Parsed(cmd)[k] \in ParserStates
    BY <1>1, <1>10, ParseCharTyped
  <2>2. Parsed(cmd) = [k \in 0 .. n |-> Parsed(cmd)[k]]
    BY <1>8
  <2> HIDE DEF n
  <2>3. QED
    BY <1>1, <1>2, <1>9, <2>1, <2>2, RecursionTyped
<1>12. QED
  BY <1>9, <1>10, <1>11

\* The state after a line, and after one more character.
AfterLine(cmd) == Parsed(cmd)[Len(cmd)]

LEMMA ParsedAppend ==
  ASSUME NEW cmd \in Seq(Chars), NEW c \in Chars
  PROVE  AfterLine(Append(cmd, c)) = ParseChar(AfterLine(cmd), c)
<1> DEFINE n == Len(cmd)
           more == Append(cmd, c)
           T == {k \in Nat : k <= n => Parsed(more)[k] = Parsed(cmd)[k]}
<1>1. /\ n \in Nat /\ more \in Seq(Chars) /\ Len(more) = n + 1
      /\ more[n + 1] = c /\ \A k \in 1 .. n : more[k] = cmd[k]
  BY AppendProperties
<1> HIDE DEF more
<1>2. /\ Parsed(cmd)[0] = Parsed(more)[0]
      /\ \A k \in 1 .. n : Parsed(cmd)[k] = ParseChar(Parsed(cmd)[k - 1], cmd[k])
      /\ \A k \in 1 .. n + 1 : Parsed(more)[k] = ParseChar(Parsed(more)[k - 1], more[k])
  BY <1>1, ParsedSteps
<1>3. 0 \in T
  BY <1>2
<1>4. ASSUME NEW k \in T
      PROVE  k + 1 \in T
  <2> SUFFICES ASSUME k + 1 <= n
               PROVE  Parsed(more)[k + 1] = Parsed(cmd)[k + 1]
    OBVIOUS
  <2>1. k \in Nat /\ k + 1 \in 1 .. n /\ k + 1 \in 1 .. n + 1 /\ (k + 1) - 1 = k /\ k <= n
    BY <1>1
  <2>2. Parsed(more)[k] = Parsed(cmd)[k]
    BY <2>1
  <2>3. QED
    BY <1>1, <1>2, <2>1, <2>2
<1>5. T = Nat
  <2>1. T \in SUBSET Nat
    OBVIOUS
  <2> HIDE DEF T
  <2>2. QED
    BY <1>3, <1>4, <2>1, SetInduction
<1>6. Parsed(more)[n] = Parsed(cmd)[n]
  BY <1>1, <1>5
<1>7. n + 1 \in 1 .. n + 1 /\ (n + 1) - 1 = n
  BY <1>1
<1>8. Parsed(more)[n + 1] = ParseChar(Parsed(cmd)[n], c)
  BY <1>1, <1>2, <1>6, <1>7
<1>9. QED
  BY <1>1, <1>8 DEF AfterLine, more

\* git's quoting of a name, character by character.
LEMMA QuoteCharTyped ==
  ASSUME NEW c \in Chars
  PROVE  QuoteChar(c) \in Seq(Chars)
<1>1. Quote \in Chars /\ Backslash \in Chars
  BY DEF Chars
<1>2. <<Quote, Backslash, c, Quote>> \in Seq(Chars) /\ <<c>> \in Seq(Chars)
  BY <1>1
<1>3. QED
  BY <1>2 DEF QuoteChar

Text == Seq(Chars)

LEMMA QuotedSteps ==
  ASSUME NEW name \in Seq(Chars)
  PROVE  /\ Quoted(name) \in [0 .. Len(name) -> Seq(Chars)]
         /\ Quoted(name)[0] = <<Quote>>
         /\ \A k \in 1 .. Len(name) : Quoted(name)[k] = Quoted(name)[k - 1] \o QuoteChar(name[k])
<1> DEFINE n == Len(name)
           step == [k \in 1 .. n |-> [s \in Text |-> s \o QuoteChar(name[k])]]
           Equation(f) == f = [k \in 0 .. n |-> IF k = 0 THEN <<Quote>>
                                               ELSE f[k - 1] \o QuoteChar(name[k])]
<1>1. n \in Nat /\ \A k \in 1 .. n : QuoteChar(name[k]) \in Seq(Chars)
  BY ElementOfSeq, QuoteCharTyped
<1>2. <<Quote>> \in Seq(Chars)
  BY DEF Chars
<1>3. \A s, r \in Seq(Chars) : s \o r \in Seq(Chars)
  BY ConcatProperties
<1>4. step \in [1 .. n -> [Text -> Text]]
  BY <1>1, <1>3 DEF Text
<1>5. PICK g \in [0 .. n -> Text] :
        g[0] = <<Quote>> /\ \A k \in 1 .. n : g[k] = step[k][g[k - 1]]
  <2>1. ASSUME NEW base \in Text, NEW m \in Nat, NEW f \in [1 .. m -> [Text -> Text]]
        PROVE  \E g \in [0 .. m -> Text] :
                 g[0] = base /\ \A k \in 1 .. m : g[k] = f[k][g[k - 1]]
    BY RecursionDefined
  <2> DEFINE base == <<Quote>>
  <2>2. base \in Text /\ n \in Nat
    BY <1>1, <1>2 DEF Text
  <2> HIDE DEF step, n, base
  <2>3. \E g \in [0 .. n -> Text] :
          g[0] = base /\ \A k \in 1 .. n : g[k] = step[k][g[k - 1]]
    BY <1>4, <2>1, <2>2
  <2>4. QED
    BY <2>3 DEF base
<1>6. \A k \in 1 .. n : g[k] = g[k - 1] \o QuoteChar(name[k])
  <2> SUFFICES ASSUME NEW k \in 1 .. n
               PROVE  g[k] = g[k - 1] \o QuoteChar(name[k])
    OBVIOUS
  <2>1. g[k - 1] \in Text
    <3>1. k - 1 \in 0 .. n
      BY <1>1
    <3>2. QED
      BY <1>5, <3>1
  <2>2. step[k][g[k - 1]] = g[k - 1] \o QuoteChar(name[k])
    BY <2>1
  <2>3. QED
    BY <1>5, <2>2
<1>7. \A k \in 0 .. n : k = 0 \/ k \in 1 .. n
  BY <1>1
<1>8. Equation(g)
  BY <1>1, <1>5, <1>6, <1>7
<1>9. Equation(Quoted(name))
  BY <1>8 DEF Quoted
<1>10. Quoted(name)[0] = <<Quote>>
  BY <1>1, <1>9
<1>11. \A k \in 1 .. n : Quoted(name)[k] = Quoted(name)[k - 1] \o QuoteChar(name[k])
  <2>1. \A k \in 1 .. n : k \in 0 .. n /\ k # 0
    BY <1>1
  <2>2. QED
    BY <1>9, <2>1
<1>12. Quoted(name) \in [0 .. n -> Seq(Chars)]
  <2>1. \A k \in 1 .. n : Quoted(name)[k - 1] \in Seq(Chars) => Quoted(name)[k] \in Seq(Chars)
    BY <1>1, <1>3, <1>11
  <2>2. Quoted(name) = [k \in 0 .. n |-> Quoted(name)[k]]
    BY <1>9
  <2> HIDE DEF n
  <2>3. QED
    BY <1>1, <1>2, <1>10, <2>1, <2>2, RecursionTyped
<1>13. QED
  BY <1>10, <1>11, <1>12

Read(mode, name) == [mode |-> mode, name |-> name]

LEMMA ParseCharCases ==
  ASSUME NEW name \in Seq(Chars), NEW c \in Chars
  PROVE  /\ ParseChar(Read("plain", name), Quote) = Read("quoted", name)
         /\ ParseChar(Read("quoted", name), Quote) = Read("plain", name)
         /\ ParseChar(Read("plain", name), Backslash) = Read("escaped", name)
         /\ ParseChar(Read("escaped", name), c) = Read("plain", Append(name, c))
         /\ c # Quote => ParseChar(Read("quoted", name), c) = Read("quoted", Append(name, c))
BY CharactersAssumption DEF ParseChar, Read

LEMMA AppendsTyped ==
  ASSUME NEW s \in Seq(Chars), NEW c \in Chars
  PROVE  /\ Append(s, c) \in Seq(Chars)
         /\ s \o <<c>> = Append(s, c)
         /\ s \o <<Quote, Backslash, c, Quote>>
              = Append(Append(Append(Append(s, Quote), Backslash), c), Quote)
OBVIOUS

\* Inside the quotes of a name, a character of it is read as it is.
LEMMA QuotedCharRead ==
  ASSUME NEW s \in Seq(Chars), NEW c \in Chars, NEW name \in Seq(Chars),
         AfterLine(s) = Read("quoted", name)
  PROVE  AfterLine(s \o QuoteChar(c)) = Read("quoted", Append(name, c))
<1>1. Quote \in Chars /\ Backslash \in Chars /\ Append(name, c) \in Seq(Chars)
  BY AppendsTyped DEF Chars
<1>2. CASE c # Quote /\ c \notin Escaped
  <2>1. s \o QuoteChar(c) = Append(s, c)
    BY <1>2, AppendsTyped DEF QuoteChar
  <2>2. AfterLine(Append(s, c)) = ParseChar(Read("quoted", name), c)
    BY ParsedAppend
  <2>3. QED
    BY <1>2, <2>1, <2>2, ParseCharCases
<1>3. CASE c = Quote \/ c \in Escaped
  <2> DEFINE s1 == Append(s, Quote)
             s2 == Append(s1, Backslash)
             s3 == Append(s2, c)
  <2>1. s1 \in Seq(Chars) /\ s2 \in Seq(Chars) /\ s3 \in Seq(Chars)
    BY <1>1, AppendsTyped
  <2>2. s \o QuoteChar(c) = Append(s3, Quote)
    BY <1>3, AppendsTyped DEF QuoteChar
  <2>3. /\ AfterLine(s1) = ParseChar(AfterLine(s), Quote)
        /\ AfterLine(s2) = ParseChar(AfterLine(s1), Backslash)
        /\ AfterLine(s3) = ParseChar(AfterLine(s2), c)
        /\ AfterLine(Append(s3, Quote)) = ParseChar(AfterLine(s3), Quote)
    BY <1>1, <2>1, ParsedAppend
  <2> HIDE DEF s1, s2, s3
  <2>4. AfterLine(s2) = Read("escaped", name)
    BY <1>1, <2>3, ParseCharCases
  <2>5. AfterLine(s3) = Read("plain", Append(name, c))
    BY <2>3, <2>4, ParseCharCases
  <2>6. AfterLine(Append(s3, Quote)) = Read("quoted", Append(name, c))
    BY <1>1, <2>3, <2>5, ParseCharCases
  <2>7. QED
    BY <2>2, <2>6
<1>4. QED
  BY <1>2, <1>3

Prefix(name, k) == [i \in 1 .. k |-> name[i]]

\* The shell has read as much of the name as git has written.
LEMMA QuotedRead ==
  ASSUME NEW name \in Seq(Chars), NEW k \in Nat, k <= Len(name)
  PROVE  AfterLine(Quoted(name)[k]) = Read("quoted", Prefix(name, k))
<1> DEFINE n == Len(name)
           T == {j \in Nat : j <= n => AfterLine(Quoted(name)[j])
                                         = Read("quoted", Prefix(name, j))}
<1>1. n \in Nat /\ \A j \in 1 .. n : name[j] \in Chars
  BY ElementOfSeq
<1>2. /\ Quoted(name)[0] = <<Quote>>
      /\ \A j \in 1 .. n : Quoted(name)[j] = Quoted(name)[j - 1] \o QuoteChar(name[j])
      /\ \A j \in 0 .. n : Quoted(name)[j] \in Seq(Chars)
  BY QuotedSteps
<1>3. 0 \in T
  <2>1. <<Quote>> = Append(<<>>, Quote) /\ <<>> \in Seq(Chars) /\ Quote \in Chars /\ Len(<<>>) = 0
    BY DEF Chars
  <2>2. AfterLine(<<>>) = Read("plain", <<>>)
    BY <2>1, ParsedSteps DEF AfterLine, Read
  <2>3. AfterLine(Append(<<>>, Quote)) = ParseChar(AfterLine(<<>>), Quote)
    BY <2>1, ParsedAppend
  <2>4. AfterLine(<<Quote>>) = Read("quoted", <<>>)
    BY <2>1, <2>2, <2>3, ParseCharCases
  <2>5. Prefix(name, 0) = <<>>
    BY DEF Prefix
  <2>6. QED
    BY <1>2, <2>4, <2>5
<1>4. ASSUME NEW j \in T
      PROVE  j + 1 \in T
  <2> SUFFICES ASSUME j + 1 <= n
               PROVE  AfterLine(Quoted(name)[j + 1]) = Read("quoted", Prefix(name, j + 1))
    OBVIOUS
  <2>1. j \in Nat /\ j + 1 \in 1 .. n /\ j \in 0 .. n /\ (j + 1) - 1 = j /\ j <= n
    BY <1>1
  <2>2. AfterLine(Quoted(name)[j]) = Read("quoted", Prefix(name, j))
    BY <2>1
  <2>3. Prefix(name, j) \in Seq(Chars) /\ Len(Prefix(name, j)) = j
    <3>1. Prefix(name, j) \in [1 .. j -> Chars]
      BY <1>1, <2>1 DEF Prefix
    <3>2. QED
      BY <2>1, <3>1, SeqDef, LenProperties
  <2>4. Append(Prefix(name, j), name[j + 1]) = Prefix(name, j + 1)
    BY <1>1, <2>1, <2>3 DEF Prefix
  <2>5. name[j + 1] \in Chars /\ Quoted(name)[j] \in Seq(Chars)
    BY <1>1, <1>2, <2>1
  <2>6. AfterLine(Quoted(name)[j] \o QuoteChar(name[j + 1]))
          = Read("quoted", Append(Prefix(name, j), name[j + 1]))
    BY <2>2, <2>3, <2>5, QuotedCharRead
  <2>7. Quoted(name)[j + 1] = Quoted(name)[j] \o QuoteChar(name[j + 1])
    BY <1>2, <2>1
  <2>8. QED
    BY <2>4, <2>6, <2>7
<1>5. T = Nat
  <2>1. T \in SUBSET Nat
    OBVIOUS
  <2> HIDE DEF T
  <2>2. QED
    BY <1>3, <1>4, <2>1, SetInduction
<1>6. QED
  BY <1>5

(***************************************************************************)
(* scissy-shell reads back every name git can quote, of any length and     *)
(* with any characters (shell.cc:50-72).                                   *)
(***************************************************************************)
THEOREM NameRead ==
  \A name \in Seq(Chars) : RepoName(SqQuote(name)) = name
<1> SUFFICES ASSUME NEW name \in Seq(Chars)
             PROVE  RepoName(SqQuote(name)) = name
  OBVIOUS
<1> DEFINE n == Len(name)
           s == Quoted(name)[n]
<1>1. n \in Nat /\ n \in 0 .. n /\ n <= n /\ Quote \in Chars
  BY DEF Chars
<1>2. s \in Seq(Chars)
  BY <1>1, QuotedSteps
<1>3. Prefix(name, n) = name
  BY DEF Prefix
<1>4. AfterLine(s) = Read("quoted", name)
  BY <1>1, <1>3, QuotedRead
<1>5. AfterLine(Append(s, Quote)) = ParseChar(AfterLine(s), Quote)
  BY <1>1, <1>2, ParsedAppend
<1> HIDE DEF s
<1>6. AfterLine(Append(s, Quote)) = Read("plain", name)
  BY <1>1, <1>4, <1>5, ParseCharCases
<1>7. QED
  BY <1>6 DEF RepoName, SqQuote, AfterLine, Read, s

\* Of the three programs, parseCmd answers which it was, and else nothing.
LEMMA ActionParsed ==
  ASSUME NEW program
  PROVE  /\ ParsedAction(program) # 0 =>
              ParsedAction(program) \in 1 .. 3 /\ Programs[ParsedAction(program)] = program
         /\ ParsedAction(program) = 0 => \A a \in 1 .. 3 : Programs[a] # program
<1>1. Programs[1] = "git-upload-pack" /\ Programs[2] = "git-receive-pack"
      /\ Programs[3] = "git-upload-archive"
  BY DEF Programs
<1>2. \A a \in 1 .. 3 : a = 1 \/ a = 2 \/ a = 3
  OBVIOUS
<1>3. QED
  BY <1>1, <1>2 DEF ParsedAction, kGitUploadPack, kGitReceivePack, kGitUploadArchive

CommandInv ==
  /\ Typed /\ LoginTypeOK
  /\ at # "idle" => asked = NoCommand
  /\ AskedIsRun

LEMMA InitCommand == LoginInit => CommandInv
<1> SUFFICES ASSUME LoginInit PROVE CommandInv
  OBVIOUS
<1>1. Typed
  BY InitTyped DEF LoginInit
<1>2. QED
  BY <1>1 DEF LoginInit, CommandInv, LoginTypeOK, AskedIsRun, Typed

LEMMA ShellRuns ==
  ASSUME CommandInv, Shell
  PROVE  CommandInv'
<1>1. at = "shell" /\ at' = "idle" /\ UNCHANGED <<key, vars>>
  BY DEF Shell, End
<1>2. line' \in Nat /\ key' \in Keys
  BY <1>1 DEF CommandInv, LoginTypeOK, Shell, End
<1>3. Typed'
  BY <1>1, NextTyped DEF CommandInv
<1>4. PICK c \in Commands :
        /\ asked' = c
        /\ \/ c = NoCommand /\ End("failed")
           \/ c # NoCommand /\ ParsedAction(c.program) = 0 /\ End("failed")
           \/ /\ c # NoCommand /\ ParsedAction(c.program) # 0
              /\ outcome' = "ran"
              /\ ran' = [key |-> key, program |-> Programs[ParsedAction(c.program)],
                         name |-> RepoName(SqQuote(c.name))]
  BY DEF Shell
<1>5. asked' \in Commands \cup {NoCommand}
  BY <1>4
<1>6. CASE c = NoCommand /\ End("failed")
  <2>1. outcome' = "failed" /\ ran' = ran /\ asked' = NoCommand
    BY <1>4, <1>6 DEF End
  <2>2. LoginTypeOK'
    BY <1>1, <1>2, <1>3, <1>5, <2>1 DEF CommandInv, LoginTypeOK, Typed
  <2>3. QED
    BY <1>1, <1>3, <2>1, <2>2 DEF CommandInv, AskedIsRun
<1>7. CASE c # NoCommand /\ ParsedAction(c.program) = 0 /\ End("failed")
  <2>1. outcome' = "failed" /\ ran' = ran
    BY <1>7 DEF End
  <2>2. LoginTypeOK'
    BY <1>1, <1>2, <1>3, <1>5, <2>1 DEF CommandInv, LoginTypeOK, Typed
  <2>3. \A a \in 1 .. 3 : Programs[a] # c.program
    BY <1>7, ActionParsed
  <2>4. AskedIsRun'
    BY <1>4, <2>1, <2>3 DEF AskedIsRun
  <2>5. QED
    BY <1>1, <1>3, <2>2, <2>4 DEF CommandInv
<1>8. CASE /\ c # NoCommand /\ ParsedAction(c.program) # 0
           /\ outcome' = "ran"
           /\ ran' = [key |-> key, program |-> Programs[ParsedAction(c.program)],
                      name |-> RepoName(SqQuote(c.name))]
  <2>1. c.name \in Seq(Chars)
    BY <1>8, CommandsAssumption
  <2>2. /\ RepoName(SqQuote(c.name)) = c.name
        /\ Programs[ParsedAction(c.program)] = c.program /\ ParsedAction(c.program) \in 1 .. 3
    BY <1>8, <2>1, ActionParsed, NameRead
  <2>3. ran' = [key |-> key', program |-> c.program, name |-> c.name]
    BY <1>1, <1>8, <2>2
  <2>4. ran' \in Call
    BY <1>2, <2>1, <2>2, <2>3 DEF Call
  <2>5. LoginTypeOK'
    BY <1>1, <1>2, <1>3, <1>5, <1>8, <2>4 DEF LoginTypeOK, Typed
  <2>6. \E a \in 1 .. 3 : Programs[a] = c.program
    BY <2>2
  <2>7. AskedIsRun'
    BY <1>4, <2>3, <2>6 DEF AskedIsRun
  <2>8. QED
    BY <1>1, <1>3, <2>5, <2>7 DEF CommandInv
<1>9. QED
  BY <1>4, <1>6, <1>7, <1>8

LEMMA NextCommand ==
  ASSUME CommandInv, [LoginNext]_sshVars
  PROVE  CommandInv'
<1>1. [Next]_vars
  BY DEF LoginNext, LoginStep, Connect, ReadLine, Shell, End, sshVars
<1>2. Typed'
  BY <1>1, NextTyped DEF CommandInv
<1>3. TypeOK'
  BY <1>2 DEF Typed
<1>4. CASE UNCHANGED loginVars
  BY <1>2, <1>3, <1>4 DEF CommandInv, LoginTypeOK, AskedIsRun, loginVars
<1>5. CASE Connect
  BY <1>2, <1>3, <1>5 DEF CommandInv, LoginTypeOK, AskedIsRun, Connect
<1>6. CASE ReadLine
  <2>1. /\ at = "read" /\ at' \in {"read", "shell", "idle"} /\ asked' = NoCommand
        /\ UNCHANGED <<key, ran>> /\ outcome' \in {outcome, "refused"}
    BY <1>6 DEF ReadLine, End, CommandInv
  <2>2. line' \in Nat
    BY <1>6 DEF ReadLine, End, CommandInv, LoginTypeOK
  <2>3. LoginTypeOK'
    BY <1>3, <2>1, <2>2 DEF CommandInv, LoginTypeOK
  <2>4. QED
    BY <1>2, <2>1, <2>3 DEF CommandInv, AskedIsRun
<1>7. QED
  BY <1>4, <1>5, <1>6, ShellRuns DEF LoginNext, LoginStep, sshVars

(***************************************************************************)
(* Whatever the client asks for over ssh is what runs, for commands and    *)
(* names of any length, or nothing runs (shell.cc:28-72, 124-134).         *)
(***************************************************************************)
THEOREM AskedRuns == LoginSpec => []AskedIsRun
<1>1. CommandInv => AskedIsRun
  BY DEF CommandInv
<1>2. QED
  BY InitCommand, NextCommand, <1>1, PTL DEF LoginSpec

\* What has run is one of the three programs, for a key and a name.
THEOREM LoginTyped == LoginSpec => []LoginTypeOK
<1>1. CommandInv => LoginTypeOK
  BY DEF CommandInv
<1>2. QED
  BY InitCommand, NextCommand, <1>1, PTL DEF LoginSpec
=============================================================================
