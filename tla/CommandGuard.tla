----------------------------- MODULE CommandGuard -----------------------------
(***************************************************************************)
(* Which commands may be run on a server (src/src/command_guard.rs), and    *)
(* what a shell makes of them.                                              *)
(*                                                                         *)
(* A command is a sequence of pieces, cut so that every pattern, separator  *)
(* and denied word of the guard is one piece, and a word of the shell one   *)
(* or several.  Upper and lower case are the same, and other white space    *)
(* than blank, tab and newline is left out.                                 *)
(***************************************************************************)
EXTENDS Integers, SequencesExt

DenySubstrings ==
  {".env", ".netrc", ".ssh/", "/.ssh", "id_rsa", "id_dsa", "id_ecdsa", "id_ed25519",
   ".pem", ".ppk", "private_key", "-----begin", ".aws/credentials", ".aws/config",
   ".git-credentials", ".kube/config", ".docker/config.json", "gcloud/credentials",
   "credentials.json", "/etc/shadow", "/etc/gshadow"}

DenyCommandWords == {"env", "printenv"}

\* The backtick is spelled out.
Separators == {"|", "&", ";", "backtick", "(", ")", "\n", "\t", "<", ">"}
Whitespace == {" ", "\n", "\t"}

\* str::trim.
TrimCommand(c) == LET ink == {i \in DOMAIN c : c[i] \notin Whitespace}
                  IN  IF ink = {} THEN <<>> ELSE SubSeq(c, Min(ink), Max(ink))

\* The longest pieces of c without a character of a set, by where they begin and end.
Spans(c, set) ==
  {s \in (DOMAIN c) \X (DOMAIN c) :
     /\ s[1] <= s[2] /\ \A k \in s[1] .. s[2] : c[k] \notin set
     /\ s[1] = 1 \/ c[s[1] - 1] \in set
     /\ s[2] = Len(c) \/ c[s[2] + 1] \in set}

\* Wrong: a word may follow a semicolon at once.
SplitsAtBlanks(c) == c

Normalized(c) == [i \in DOMAIN c |-> IF c[i] \in Separators THEN " " ELSE c[i]]

Tokens(c) == {SubSeq(c, s[1], s[2]) : s \in Spans(c, Whitespace)}

ShowsEnvironment(word) ==
  \E d \in DenyCommandWords : word = <<d>> \/ IsSuffix(<<"/", d>>, word)

\* validate_command; no prefixes: any command.
ValidateCommand(c, prefixes) ==
  LET trimmed == TrimCommand(c)
  IN /\ trimmed # <<>>
     /\ \A i \in DOMAIN trimmed : trimmed[i] \notin DenySubstrings
     /\ \A token \in Tokens(Normalized(trimmed)) : ~ ShowsEnvironment(token)
     /\ prefixes # {} => \E p \in prefixes : IsPrefix(TrimCommand(p), trimmed)

-----------------------------------------------------------------------------
(* The shell of the server.                                                *)

\* What ends a word for the shell; the backtick begins or ends a substitution.
Metacharacters == {" ", "\t", "\n", "|", "&", ";", "(", ")", "<", ">", "backtick"}

\* What makes the shell take a word for something else than it is spelled: quotes
\* and escapes, which it removes, and what it expands.
Special == {"'", "dquote", "\\", "$", "*", "?", "[", "{"}

\* The words that the shell takes as they are spelled, wherever they stand: any of
\* them may be run, first in a command, in a substitution, after assignments or by
\* another program that is given it.  What stands in quotes is cut up too.
PlainWords(c) ==
  {SubSeq(c, s[1], s[2]) : s \in {w \in Spans(c, Metacharacters) :
                                   \A k \in w[1] .. w[2] : c[k] \notin Special}}
=============================================================================
