------------------------------- MODULE MCBrowse -------------------------------
(* Two roots and their merge.  uint32_t has three bits, so that offset and *)
(* limit wrap around.                                                      *)
EXTENDS BrowseAudit

CONSTANTS master, topic, v1, v2, file, directory

MCParents == <<<<>>, <<>>, <<1, 2>>>>
MCHistory == <<<<1>>, <<2>>, <<3, 2, 1>>>>
MCFiles   == <<{}, {file}, {file}>>
MCDirs    == <<{directory}, {}, {directory}>>

MCPushes == ({master} \X {1, 2, 3}) \cup {<<topic, 2>>, <<v1, 1>>, <<v2, 2>>}

Msg(op) ==
  [op |-> op, revision |-> None, revision_old |-> None, path |-> Root,
   offset |-> 0, limit |-> 0]

MCRequests ==
  {Msg("branches"), Msg("tags")}
  \cup {[Msg("commit") EXCEPT !.revision = r] : r \in {master, 2, Other}}
  \cup {[Msg("archive") EXCEPT !.revision = master]}
  \cup {[Msg("tree") EXCEPT !.revision = master, !.path = p] : p \in {Root, directory}}
  \cup {[Msg("blob") EXCEPT !.revision = master, !.path = p] : p \in {file, directory}}
  \cup {[Msg("patch") EXCEPT !.revision = master, !.revision_old = r] : r \in {None, topic, 2}}
  \cup {[Msg("log") EXCEPT !.offset = o, !.limit = l] : o \in {1, 7}, l \in {0, 1, 7}}
  \cup {[Msg("log") EXCEPT !.revision = 3, !.limit = l] : l \in {1, 2}}
  \cup {[Msg("log") EXCEPT !.revision = Other]}
=============================================================================
