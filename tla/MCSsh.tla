-------------------------------- MODULE MCSsh --------------------------------
(* Two keys, two serving threads that may be interrupted, one client at a  *)
(* time; every name of up to one character, some of two, every program and *)
(* none.                                                                   *)
EXTENDS SshLogin

CONSTANTS t1, t2, a, bang

MCNames ==
  {<<>>, <<Quote, Backslash>>, <<Backslash, bang>>}
  \cup {<<c>> : c \in {a, bang, Quote, Backslash}}

MCCommands ==
  {[program |-> "git-upload-pack", name |-> n] : n \in MCNames}
  \cup {[program |-> p, name |-> <<a>>] :
          p \in {"git-receive-pack", "git-upload-archive", "scp"}}
  \cup {NoCommand}
=============================================================================
