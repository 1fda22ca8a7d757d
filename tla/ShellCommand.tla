---------------------------- MODULE ShellCommand ----------------------------
(***************************************************************************)
(* parseCmd and runAction of scissy-shell (src/scissy/shell.cc): which git *)
(* program and which repository the command line of an ssh client names.   *)
(* A command line is the program, and the characters after its space.      *)
(***************************************************************************)
EXTENDS Naturals, Sequences

CONSTANTS
  Letters,           \* characters that mean nothing to scissy-shell
  Quote, Backslash,  \* and two that do
  Escaped            \* letters git escapes like a quote: the exclamation mark

ASSUME CharactersAssumption ==
  /\ Quote \notin Letters /\ Backslash \notin Letters /\ Quote # Backslash
  /\ Escaped \subseteq Letters

Chars == Letters \cup {Quote, Backslash}

\* The enumeration Action, and the array of programs it is an index of.
Programs == <<"git-upload-pack", "git-receive-pack", "git-upload-archive">>

kGitUploadPack    == 1
kGitReceivePack   == 2
kGitUploadArchive == 3

\* 0 when the command line is refused.
ParsedAction(program) ==
  CASE program = "git-upload-pack" -> kGitUploadPack
    [] program = "git-upload-archive" -> kGitUploadArchive
    [] program = "git-receive-pack" -> kGitReceivePack
    [] OTHER -> 0

\* Variant: a backslash escapes inside quotes as well.
ParseCharAlike(state, c) ==
  CASE state.mode = "escaped" -> [mode |-> "plain", name |-> Append(state.name, c)]
    [] state.mode # "escaped" /\ c = Backslash -> [state EXCEPT !.mode = "escaped"]
    [] state.mode # "escaped" /\ c = Quote ->
         [state EXCEPT !.mode = IF @ = "quoted" THEN "plain" ELSE "quoted"]
    [] OTHER -> [state EXCEPT !.name = Append(@, c)]

\* One turn of the loop.  A backslash that ends the line leaves nothing behind.
ParseChar(state, c) ==
  CASE state.mode = "escaped" -> [mode |-> "plain", name |-> Append(state.name, c)]
    [] state.mode = "quoted" /\ c = Quote -> [state EXCEPT !.mode = "plain"]
    [] state.mode = "plain" /\ c = Quote -> [state EXCEPT !.mode = "quoted"]
    [] state.mode = "plain" /\ c = Backslash -> [state EXCEPT !.mode = "escaped"]
    [] OTHER -> [state EXCEPT !.name = Append(@, c)]

\* The state after each character: not in quotes and no name at first.
Parsed(cmd) ==
  LET state[k \in 0 .. Len(cmd)] ==
        IF k = 0 THEN [mode |-> "plain", name |-> <<>>]
        ELSE ParseChar(state[k - 1], cmd[k])
  IN  state

RepoName(cmd) == Parsed(cmd)[Len(cmd)].name

-----------------------------------------------------------------------------
(* External: git quotes the name for a shell, as sq_quote does. *)

QuoteChar(c) ==
  IF c = Quote \/ c \in Escaped THEN <<Quote, Backslash, c, Quote>> ELSE <<c>>

\* What is written after each character of the name.
Quoted(name) ==
  LET written[k \in 0 .. Len(name)] ==
        IF k = 0 THEN <<Quote>> ELSE written[k - 1] \o QuoteChar(name[k])
  IN  written

SqQuote(name) == Append(Quoted(name)[Len(name)], Quote)
=============================================================================
