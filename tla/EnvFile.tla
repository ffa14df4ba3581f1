------------------------------- MODULE EnvFile -------------------------------
(***************************************************************************)
(* The text of a remote file, and the pure functions deploy_secret_to_server*)
(* applies to it: compute_env_update (src/src/ssh.rs) sets a key of an env  *)
(* file, redact_env_value (src/src/diff.rs) masks it in a preview.          *)
(*                                                                         *)
(* A line is an assignment `key=word' or a raw line (a comment, a blank     *)
(* line, the continuation of a multi-line value).  Keys stand for what is   *)
(* left of the first `=', trimmed; two lines that differ only in blanks     *)
(* around the key are one line here.  What is right of it is a word of a    *)
(* file or a secret, or one with text and another `=' in front.             *)
(*                                                                         *)
(* The env_key of a caller is any string: deploy_secret_to_server looks at  *)
(* nothing of it (src/src/mcp.rs:888).  A newline in it puts lines above    *)
(* the one it assigns on, a `=' ends the name early and leaves a tail, and  *)
(* blanks around it are there in the comparison with a trimmed name.        *)
(***************************************************************************)
EXTENDS Naturals, Sequences

CONSTANTS Keys,    \* what stands left of the first `=' of a line
          Words,   \* what stands right of it
          Tails,   \* what a key may hold after a `=' of its own
          NoTail,  \* where it holds none
          Raw,     \* lines without `='
          Blank    \* the empty line

Word == Words \cup (Tails \X Words)

Assignments == [key : Keys, word : Word]

ASSUME RawAssumption == Blank \in Raw /\ Raw \cap Assignments = {}

Line == Assignments \cup Raw

\* A file: the lines str::lines() yields, and whether a newline ends the last.
Text == [lines : Seq(Line), nl : BOOLEAN]

EmptyText == [lines |-> <<>>, nl |-> FALSE]

\* The env_key of a call: the lines above its last one, and of that the name
\* a reader of the file takes it for, the tail, and whether it has blanks.
EnvKey == [above : Seq(Line), name : Keys, tail : Tails \cup {NoTail}, padded : BOOLEAN]

\* The key is the name: only then does a trimmed name equal it.
Exact(k) == k.above = <<>> /\ k.tail = NoTail /\ ~ k.padded

\* A secret value: its first line, and the lines that follow it, if any.
SecretValue == [head : Words, rest : Seq(Line)]

\* lines.join("\n").  The newline that ended the file is gone; when the last
\* line is blank, its separator is read back as the newline ending the file.
Join(ls) ==
  IF ls # <<>> /\ ls[Len(ls)] = Blank
  THEN [lines |-> SubSeq(ls, 1, Len(ls) - 1), nl |-> Len(ls) > 1]
  ELSE [lines |-> ls, nl |-> FALSE]

\* The lines that assign a name, and those compute_env_update and
\* redact_env_value take for assignments of a key.
Assigning(n) == [key : {n}, word : Word]
KeyAssignments(k) == IF Exact(k) THEN Assigning(k.name) ELSE {}

IsEnvKeyLine(line, k) == line \in KeyAssignments(k)

\* The lines of ls that are taken for k, and the first of them.
KeyLines(ls, k) == {i \in DOMAIN ls : IsEnvKeyLine(ls[i], k)}
FirstKeyLine(ls, k) ==
  CHOOSE i \in KeyLines(ls, k) : \A j \in KeyLines(ls, k) : i <= j

\* The lines format!("{}={}", key, value) becomes once the file is read back.
NewLine(k, v) ==
  [key |-> k.name, word |-> IF k.tail = NoTail THEN v.head ELSE <<k.tail, v.head>>]
NewLines(k, v) == k.above \o <<NewLine(k, v)>> \o v.rest

\* Wrong versions of the next definition, which the properties must reject:
\* one that never looks for the key, one that replaces a line too many, one
\* that starts the file anew when the key is not there.
AlwaysAppends(ls, k, v) == ls \o NewLines(k, v)
DropsNextLine(ls, k, v) ==
  IF KeyLines(ls, k) = {} THEN ls \o NewLines(k, v)
  ELSE LET i == FirstKeyLine(ls, k)
       IN  SubSeq(ls, 1, i - 1) \o NewLines(k, v) \o SubSeq(ls, i + 2, Len(ls))
StartsAnew(ls, k, v) ==
  IF KeyLines(ls, k) = {} THEN NewLines(k, v)
  ELSE LET i == FirstKeyLine(ls, k)
       IN  SubSeq(ls, 1, i - 1) \o NewLines(k, v) \o SubSeq(ls, i + 1, Len(ls))

\* compute_env_update: replace the first line taken for k, or append one.
EnvUpdatedLines(ls, k, v) ==
  IF KeyLines(ls, k) = {}
  THEN ls \o NewLines(k, v)
  ELSE LET i == FirstKeyLine(ls, k)
       IN  SubSeq(ls, 1, i - 1) \o NewLines(k, v) \o SubSeq(ls, i + 1, Len(ls))

Mask(k, label) == [key |-> k.name, masked |-> label]

\* Wrong: only the first assignment is masked.
MasksFirst(t, k, label) ==
  Join([i \in DOMAIN t.lines |->
          IF i \in KeyLines(t.lines, k) /\ i = FirstKeyLine(t.lines, k)
          THEN Mask(k, label) ELSE t.lines[i]])

\* redact_env_value: every line taken for k is replaced by a mask.
RedactEnvValue(t, k, label) ==
  Join([i \in DOMAIN t.lines |->
          IF IsEnvKeyLine(t.lines[i], k) THEN Mask(k, label) ELSE t.lines[i]])

EnvUpdate(t, k, v) == Join(EnvUpdatedLines(t.lines, k, v))

-----------------------------------------------------------------------------
(* What a reader of the file sees.                                         *)

\* The lines of ls that are not among dropped, in order.
Without(ls, dropped) ==
  LET kept[i \in 0 .. Len(ls)] ==
        IF i = 0 THEN <<>>
        ELSE IF ls[i] \in dropped THEN kept[i - 1] ELSE Append(kept[i - 1], ls[i])
  IN  kept[Len(ls)]

NonBlank(ls) == Without(ls, {Blank})

\* What a deployment of v under k has no business with: every line but blank
\* ones, those taken for k and those it writes, in order.
WithoutKey(ls, k, v) ==
  LET new == NewLines(k, v)
  IN  Without(ls, {Blank} \cup KeyAssignments(k) \cup {new[i] : i \in DOMAIN new})

\* The assignments of a name, in order.  Of several a shell takes the last,
\* other readers the first.
AssignmentsOf(ls, n) == Without(ls, Line \ Assigning(n))

\* Every reader of t finds the first line of v under n.
ReadsBack(t, n, v) == AssignmentsOf(t.lines, n) = <<[key |-> n, word |-> v.head]>>

\* Some line of ls assigns n.
Assigns(ls, n) == \E i \in DOMAIN ls : ls[i] \in Assigning(n)
=============================================================================
