---------------------------- MODULE MCEnvDeploys ----------------------------
(* EnvDeploys on small files: two names, assigned once, twice or not at     *)
(* all, with a comment and blank lines around them.                         *)
EXTENDS EnvDeploys

CONSTANTS A, B, w1, w2, Comment, Continued, more

UpTo(S, n) == UNION {[1 .. m -> S] : m \in 0 .. n}

MCLines == {[key |-> A, word |-> w1], [key |-> A, word |-> w2],
            [key |-> B, word |-> w2], Comment, Blank}

\* A text whose last line is blank ends in a newline (str::lines).
MCFiles == {t \in [lines : UpTo(MCLines, 3), nl : BOOLEAN] :
              IF t.lines = <<>> THEN ~ t.nl
                                ELSE t.lines[Len(t.lines)] = Blank => t.nl}

\* A and B, as they are; A with a blank after it, with `=' and more after it,
\* and on the line after a comment.
Name(n) == [above |-> <<>>, name |-> n, tail |-> NoTail, padded |-> FALSE]
Names   == {Name(A), Name(B)}
Odd     == {[Name(A) EXCEPT !.padded = TRUE], [Name(A) EXCEPT !.tail = more],
            [Name(A) EXCEPT !.above = <<Comment>>]}
NamesAndOdd == Names \cup Odd

\* Values of one line, and one of two lines whose second holds no `='.
OneLine  == [head : Words, rest : {<<>>}]
Values   == OneLine \cup {[head |-> w1, rest |-> <<Continued>>]}
=============================================================================
