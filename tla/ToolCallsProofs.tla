--------------------------- MODULE ToolCallsProofs ---------------------------
(***************************************************************************)
(* What the guards let pass is harmless, for every command, statement and   *)
(* path, and what secrets the vault holds stay out of every answer.         *)
(***************************************************************************)
EXTENDS ToolCalls, WellFoundedInduction, FiniteSetTheorems, TLAPS

-----------------------------------------------------------------------------
(* Least and greatest numbers.                                             *)

LEMMA LeastByOrder ==
  ASSUME NEW R, IsWellFoundedOn(R, Nat), \A x, y \in Nat : <<y, x>> \in R <=> y < x,
         NEW T, T \subseteq Nat, T # {}
  PROVE  \E x \in T : \A y \in T : y >= x
<1>1. PICK x \in T : \A y \in T : <<y, x>> \notin R
  BY WFMin
<1>2. ASSUME NEW y \in T PROVE y >= x
  <2>1. x \in Nat /\ y \in Nat /\ ~ (y < x)
    BY <1>1, Zenon
  <2> QED
    BY <2>1
<1> QED
  BY <1>2

LEMMA LeastNatural == \A T \in SUBSET Nat : T # {} => \E x \in T : \A y \in T : y >= x
<1>1. \A x, y \in Nat : <<y, x>> \in OpToRel(<, Nat) <=> y < x
  BY DEF OpToRel
<1> QED
  BY ONLY <1>1, NatLessThanWellFounded, LeastByOrder, Zenon

\* Induction on the natural numbers, for sets of them.
LEMMA Counting ==
  ASSUME NEW T \in SUBSET Nat, 0 \in T, \A n \in T : n + 1 \in T
  PROVE  Nat \subseteq T
<1> SUFFICES ASSUME Nat \ T # {} PROVE FALSE
  OBVIOUS
<1>1. PICK x \in Nat \ T : \A y \in Nat \ T : y >= x
  BY LeastNatural
<1>2. x - 1 \in Nat /\ ~ (x - 1 >= x) /\ (x - 1) + 1 = x
  BY <1>1
<1>3. x - 1 \in T
  BY <1>1, <1>2
<1> QED
  BY <1>1, <1>2, <1>3

\* Min and Max of the community modules, for positions in a sequence.
LEMMA MinMax ==
  ASSUME NEW n \in Nat, NEW T \in SUBSET (1 .. n), T # {}
  PROVE  /\ Min(T) \in T /\ Max(T) \in T
         /\ \A y \in T : Min(T) <= y /\ y <= Max(T)
<1>1. \E x \in T : \A y \in T : y >= x
  BY LeastNatural
<1>2. \E x \in T : \A y \in T : x <= y
  BY <1>1
<1>3. \E x \in T : \A y \in T : x >= y
  <2> DEFINE U == {k \in Nat : \A y \in T : k >= y}
  <2>1. n \in U
    <3>1. \A y \in T : y \in 1 .. n
      OBVIOUS
    <3>2. \A y \in 1 .. n : n >= y
      OBVIOUS
    <3> QED
      BY <3>1, <3>2
  <2>2. PICK u \in U : \A k \in U : k >= u
    BY <2>1, LeastNatural
  <2>3. u \in T
    <3> SUFFICES ASSUME u \notin T PROVE FALSE
      OBVIOUS
    <3>1. u \in Nat /\ \A y \in T : y \in 1 .. n /\ u >= y /\ u # y
      OBVIOUS
    <3>2. ASSUME NEW y \in T PROVE u # 0 /\ u - 1 >= y
      <4>1. u \in Nat /\ y \in 1 .. n /\ u >= y /\ u # y
        BY <3>1
      <4> QED
        BY ONLY <4>1, n \in Nat
    <3>3. u - 1 \in U
      <4>1. u # 0 /\ u \in Nat
        BY <3>1, <3>2
      <4>2. u - 1 \in Nat
        BY ONLY <4>1
      <4> QED
        BY <3>2, <4>2
    <3> HIDE DEF U
    <3> QED
      BY <2>2, <3>1, <3>3
  <2> QED
    BY <2>3
<1> QED
  BY <1>2, <1>3 DEF Min, Max

-----------------------------------------------------------------------------
(* The guard of commands, against the shell.                               *)

\* What is left of a command has no blanks at its ends, and lost nothing else.
LEMMA Trimmed ==
  ASSUME NEW S, NEW c \in Seq(S), TrimCommand(c) # <<>>
  PROVE  \E lo, hi \in DOMAIN c :
           /\ lo <= hi /\ TrimCommand(c) = SubSeq(c, lo, hi)
           /\ \A i \in DOMAIN c : c[i] \notin Whitespace => lo <= i /\ i <= hi
<1> DEFINE ink == {i \in DOMAIN c : c[i] \notin Whitespace}
<1>1. ink # {} /\ TrimCommand(c) = SubSeq(c, Min(ink), Max(ink))
  BY DEF TrimCommand
<1>2. Len(c) \in Nat /\ DOMAIN c = 1 .. Len(c) /\ ink \in SUBSET (1 .. Len(c))
  OBVIOUS
<1> HIDE DEF ink
<1>3. Min(ink) \in ink /\ Max(ink) \in ink /\ \A y \in ink : Min(ink) <= y /\ y <= Max(ink)
  BY <1>1, <1>2, MinMax
<1>4. Min(ink) \in DOMAIN c /\ Max(ink) \in DOMAIN c /\ Min(ink) <= Max(ink)
  BY <1>2, <1>3
<1> QED
  BY <1>1, <1>3, <1>4 DEF ink

LEMMA FunctionIsSeq ==
  ASSUME NEW S, NEW m \in Nat, NEW f \in [1 .. m -> S]
  PROVE  f \in Seq(S) /\ Len(f) = m /\ DOMAIN f = 1 .. m
  OBVIOUS

\* What SubSeq returns.
LEMMA Slice ==
  ASSUME NEW S, NEW c \in Seq(S), NEW i \in DOMAIN c, NEW j \in DOMAIN c, i <= j
  PROVE  /\ SubSeq(c, i, j) \in Seq(S)
         /\ Len(SubSeq(c, i, j)) = j - i + 1
         /\ DOMAIN SubSeq(c, i, j) = 1 .. j - i + 1
         /\ \A k \in 1 .. j - i + 1 : SubSeq(c, i, j)[k] = c[i + k - 1]
  OBVIOUS

\* Arithmetic of positions.
LEMMA Positions ==
  ASSUME NEW i \in Int, NEW j \in Int, NEW a \in Int, NEW b \in Int, b - a = j - i
  PROVE  /\ a <= b <=> i <= j
         /\ b - a + 1 = j - i + 1
         /\ \A k \in Int : a + k - 1 + (i - a) = i + k - 1
         /\ \A k \in 1 .. j - i + 1 : a + k - 1 \in a .. b
         /\ \A k \in a .. b : k + (i - a) \in i .. j
  OBVIOUS

LEMMA SameSequence ==
  ASSUME NEW S, NEW R, NEW x \in Seq(R), NEW y \in Seq(S), NEW m \in Nat, Len(x) = m, Len(y) = m,
         \A k \in 1 .. m : x[k] = y[k]
  PROVE  x = y
  OBVIOUS

\* A word of the shell is a word of the guard.
LEMMA WordsAreTokens ==
  ASSUME NEW S, NEW c \in Seq(S), TrimCommand(c) # <<>>
  PROVE  PlainWords(c) \subseteq Tokens(Normalized(TrimCommand(c)))
<1> DEFINE t == TrimCommand(c)
           n == Normalized(t)
<1>1. PICK lo, hi \in DOMAIN c :
        /\ lo <= hi /\ t = SubSeq(c, lo, hi)
        /\ \A i \in DOMAIN c : c[i] \notin Whitespace => lo <= i /\ i <= hi
  BY Trimmed
<1>2. /\ Len(c) \in Nat /\ DOMAIN c = 1 .. Len(c)
      /\ t \in Seq(S) /\ Len(t) = hi - lo + 1 /\ DOMAIN t = 1 .. hi - lo + 1
      /\ \A k \in 1 .. hi - lo + 1 : t[k] = c[lo + k - 1]
  BY <1>1, Slice
<1> HIDE DEF t
<1>3. /\ n \in Seq(S \cup {" "}) /\ DOMAIN n = 1 .. hi - lo + 1 /\ Len(n) = hi - lo + 1
      /\ \A k \in 1 .. hi - lo + 1 : n[k] = IF t[k] \in Separators THEN " " ELSE t[k]
  <2> DEFINE m == hi - lo + 1
  <2>1. m \in Nat
    BY <1>1, <1>2
  <2>2. \A k \in 1 .. m : t[k] \in S
    BY <1>2
  <2>3. n = [k \in 1 .. m |-> IF t[k] \in Separators THEN " " ELSE t[k]]
    BY <1>2 DEF Normalized
  <2> HIDE DEF m, n
  <2>4. n \in [1 .. m -> S \cup {" "}]
    BY <2>2, <2>3
  <2>5. n \in Seq(S \cup {" "}) /\ Len(n) = m /\ DOMAIN n = 1 .. m
    BY <2>1, <2>4, FunctionIsSeq
  <2> QED
    BY <2>3, <2>5 DEF m
<1> HIDE DEF n
<1> SUFFICES ASSUME NEW p \in PlainWords(c) PROVE p \in Tokens(n)
  BY DEF t, n
<1>0. Metacharacters = Separators \cup Whitespace
  BY DEF Metacharacters, Separators, Whitespace
<1>4. PICK s \in Spans(c, Separators \cup Whitespace) : p = SubSeq(c, s[1], s[2])
  BY <1>0 DEF PlainWords
<1> DEFINE i == s[1]
           j == s[2]
<1>5. /\ i \in DOMAIN c /\ j \in DOMAIN c /\ i <= j
      /\ \A k \in i .. j : c[k] \notin Separators \cup Whitespace
      /\ i = 1 \/ c[i - 1] \in Separators \cup Whitespace
      /\ j = Len(c) \/ c[j + 1] \in Separators \cup Whitespace
  BY DEF Spans
<1> HIDE DEF i, j
<1>6. /\ lo \in Nat \ {0} /\ hi \in Nat /\ i \in Nat \ {0} /\ j \in Nat
      /\ hi <= Len(c) /\ lo <= i /\ i <= j /\ j <= hi
  <2>1. i \in i .. j /\ j \in i .. j
    BY <1>2, <1>5
  <2> QED
    BY <1>1, <1>2, <1>5, <2>1
<1> DEFINE a == i - lo + 1
           b == j - lo + 1
<1>7. a \in DOMAIN n /\ b \in DOMAIN n /\ a <= b /\ b - a = j - i
  <2>1. a \in 1 .. hi - lo + 1 /\ b \in 1 .. hi - lo + 1 /\ a <= b /\ b - a = j - i
    BY ONLY <1>6
  <2> QED
    BY <1>3, <2>1
<1>8. \A k \in DOMAIN n : t[k] = c[k + (lo - 1)] /\ k + (lo - 1) \in DOMAIN c
  <2>1. ASSUME NEW k \in DOMAIN n PROVE t[k] = c[k + (lo - 1)] /\ k + (lo - 1) \in DOMAIN c
    <3>1. k \in 1 .. hi - lo + 1
      BY <1>3
    <3>2. lo + k - 1 = k + (lo - 1) /\ k + (lo - 1) \in 1 .. Len(c)
      <4>1. Len(c) \in Nat
        BY <1>2
      <4> QED
        BY ONLY <1>6, <3>1, <4>1
    <3> QED
      BY <1>2, <3>1, <3>2
  <2> QED
    BY <2>1
<1>9. " " \in Whitespace
  BY DEF Whitespace
<1>10. \A k \in DOMAIN n : c[k + (lo - 1)] \in Separators \cup Whitespace => n[k] \in Whitespace
  BY <1>3, <1>8, <1>9
<1>11. \A k \in a .. b : n[k] = c[k + (lo - 1)] /\ n[k] \notin Whitespace
  <2> SUFFICES ASSUME NEW k \in a .. b
               PROVE  n[k] = c[k + (lo - 1)] /\ n[k] \notin Whitespace
    OBVIOUS
  <2>1. k \in 1 .. hi - lo + 1 /\ k + (lo - 1) \in i .. j
    <3>1. k \in Int /\ i - lo + 1 <= k /\ k <= j - lo + 1
      BY <1>6
    <3>2. 1 <= k /\ k <= hi - lo + 1
      BY ONLY <1>6, <3>1
    <3>3. i <= k + (lo - 1) /\ k + (lo - 1) <= j
      BY ONLY <1>6, <3>1
    <3>4. lo \in Int /\ hi \in Int /\ i \in Int /\ j \in Int /\ k + (lo - 1) \in Int
      BY ONLY <1>6, <3>1
    <3> QED
      BY ONLY <3>1, <3>2, <3>3, <3>4
  <2>2. c[k + (lo - 1)] \notin Separators \cup Whitespace
    BY <1>5, <2>1
  <2> QED
    BY <1>3, <1>8, <2>1, <2>2
<1>12. a = 1 \/ n[a - 1] \in Whitespace
  <2> SUFFICES ASSUME a # 1 PROVE n[a - 1] \in Whitespace
    OBVIOUS
  <2>1. a - 1 \in DOMAIN n /\ i # 1 /\ (a - 1) + (lo - 1) = i - 1
    <3>1. a - 1 \in 1 .. hi - lo + 1 /\ i # 1 /\ (a - 1) + (lo - 1) = i - 1
      BY ONLY <1>6, a # 1
    <3> QED
      BY <1>3, <3>1
  <2>2. c[(a - 1) + (lo - 1)] \in Separators \cup Whitespace
    BY <1>5, <2>1
  <2> HIDE DEF a
  <2> QED
    BY <1>10, <2>1, <2>2
<1>13. b = Len(n) \/ n[b + 1] \in Whitespace
  <2> SUFFICES ASSUME b # Len(n) PROVE n[b + 1] \in Whitespace
    OBVIOUS
  <2>1. b + 1 \in DOMAIN n /\ j # Len(c) /\ (b + 1) + (lo - 1) = j + 1
    <3>1. b # hi - lo + 1
      BY <1>3
    <3>2. b + 1 \in 1 .. hi - lo + 1 /\ j # Len(c) /\ (b + 1) + (lo - 1) = j + 1
      <4>1. Len(c) \in Nat
        BY <1>2
      <4>2. j < hi
        BY ONLY <1>6, <3>1
      <4>3. j # Len(c)
        BY ONLY <1>6, <4>1, <4>2
      <4>4. b + 1 \in 1 .. hi - lo + 1 /\ (b + 1) + (lo - 1) = j + 1
        BY ONLY <1>6, <4>2
      <4> QED
        BY <4>3, <4>4
    <3> QED
      BY <1>3, <3>2
  <2>2. c[(b + 1) + (lo - 1)] \in Separators \cup Whitespace
    BY <1>5, <2>1
  <2> HIDE DEF b
  <2> QED
    BY <1>10, <2>1, <2>2
<1>14. SubSeq(n, a, b) = SubSeq(c, i, j)
  <2> DEFINE R == S \cup {" "}
             m == j - i + 1
             x == SubSeq(n, a, b)
             y == SubSeq(c, i, j)
  <2>1. /\ m \in Nat /\ b - a + 1 = m /\ lo - 1 = i - a
        /\ \A k \in 1 .. m : a + k - 1 \in a .. b /\ a + k - 1 + (lo - 1) = i + k - 1
    <3>1. i \in Int /\ j \in Int /\ a \in Int /\ b \in Int /\ b - a = j - i
      BY ONLY <1>6
    <3>2. m \in Nat /\ lo - 1 = i - a
      BY ONLY <1>6
    <3>3. \A k \in 1 .. m : a + k - 1 + (lo - 1) = i + k - 1
      BY ONLY <1>6
    <3> HIDE DEF a, b
    <3> QED
      BY ONLY <3>1, <3>2, <3>3, Positions
  <2>2. n \in Seq(R)
    BY <1>3
  <2> HIDE DEF R, a, b
  <2>3. y \in Seq(S) /\ Len(y) = m /\ \A k \in 1 .. m : y[k] = c[i + k - 1]
    BY <1>5, Slice
  <2>4. x \in Seq(R) /\ Len(x) = m /\ \A k \in 1 .. m : x[k] = n[a + k - 1]
    <3>1. /\ x \in Seq(R) /\ Len(x) = b - a + 1
          /\ \A k \in 1 .. b - a + 1 : x[k] = n[a + k - 1]
      BY <1>7, <2>2, Slice, Zenon
    <3> QED
      BY <2>1, <3>1, Zenon
  <2>5. \A k \in 1 .. m : x[k] = y[k]
    <3> SUFFICES ASSUME NEW k \in 1 .. m PROVE x[k] = y[k]
      OBVIOUS
    <3>1. a + k - 1 \in a .. b /\ a + k - 1 + (lo - 1) = i + k - 1
      BY <2>1
    <3>2. n[a + k - 1] = c[a + k - 1 + (lo - 1)]
      BY <1>11, <3>1, Zenon
    <3> QED
      BY <2>3, <2>4, <3>1, <3>2, Zenon
  <2> HIDE DEF x, y, m
  <2>6. x = y
    BY <2>1, <2>3, <2>4, <2>5, SameSequence
  <2> QED
    BY <2>6 DEF x, y
<1> HIDE DEF a, b
<1>15. <<a, b>> \in Spans(n, Whitespace)
  <2>1. <<a, b>>[1] = a /\ <<a, b>>[2] = b /\ <<a, b>> \in (DOMAIN n) \X (DOMAIN n)
    BY <1>7
  <2> QED
    BY <2>1, <1>7, <1>11, <1>12, <1>13 DEF Spans
<1>16. <<a, b>>[1] = a /\ <<a, b>>[2] = b
  OBVIOUS
<1> QED
  BY <1>4, <1>14, <1>15, <1>16 DEF Tokens, i, j

\* A command that passes the guard is harmless, as the shell reads it.
LEMMA PassedIsHarmless ==
  ASSUME NEW S, NEW c \in Seq(S), NEW prefixes, ValidateCommand(c, prefixes)
  PROVE  \A word \in PlainWords(c) : ~ ShowsEnvironment(word)
<1>1. TrimCommand(c) # <<>>
  BY DEF ValidateCommand
<1> QED
  BY <1>1, WordsAreTokens DEF ValidateCommand

-----------------------------------------------------------------------------
(* The guard of SQL.                                                       *)

\* The recursive functions of the guard are what their definitions say: each is a
\* greatest fixed point, for a larger set of accepted parts accepts no less.
LEMMA SetExprReadonlyIs ==
  \A e \in SetExprs :
    SetExprReadonly[e] <=>
      \/ e.kind \in {"select", "into", "values"}
      \/ e.kind = "union" /\ SetExprReadonly[e.left] /\ SetExprReadonly[e.right]
      \/ /\ e.kind = "query"
         /\ \A c \in e.with : SetExprReadonly[c.body]
         /\ SetExprReadonly[e.body]
<1> DEFINE Step(X) ==
      {e \in SetExprs :
         \/ e.kind \in {"select", "into", "values"}
         \/ e.kind = "union" /\ e.left \in X /\ e.right \in X
         \/ e.kind = "query" /\ (\A c \in e.with : c.body \in X) /\ e.body \in X}
<1> DEFINE Kept == {X \in SUBSET SetExprs : X \subseteq Step(X)}
<1> DEFINE R == UNION Kept
<1> DEFINE f == [e \in SetExprs |-> e \in R]
<1>1. \A X, Y \in SUBSET SetExprs : X \subseteq Y => Step(X) \subseteq Step(Y)
  OBVIOUS
<1>2. \A X : Step(X) \in SUBSET SetExprs
  OBVIOUS
<1>3. R \in SUBSET SetExprs
  OBVIOUS
<1>4. \A X \in Kept : X \in SUBSET SetExprs /\ X \subseteq Step(X) /\ X \subseteq R
  OBVIOUS
<1>5. \A X \in SUBSET SetExprs : X \subseteq Step(X) => X \subseteq R
  OBVIOUS
<1>6. R = Step(R)
  <2> HIDE DEF Step, R, Kept
  <2>1. R \subseteq Step(R)
    <3> SUFFICES ASSUME NEW e \in R PROVE e \in Step(R)
      OBVIOUS
    <3>1. PICK X \in Kept : e \in X
      BY DEF R
    <3> QED
      BY <1>1, <1>3, <1>4, <3>1
  <2>2. Step(R) \subseteq Step(Step(R))
    BY <1>1, <1>2, <1>3, <2>1
  <2>3. Step(R) \subseteq R
    BY <1>2, <1>5, <2>2
  <2> QED
    BY <2>1, <2>3
<1>7. \A e \in SetExprs : f[e] <=> e \in R
  OBVIOUS
<1> DEFINE Body(g, e) ==
      \/ e.kind \in {"select", "into", "values"}
      \/ e.kind = "union" /\ g[e.left] /\ g[e.right]
      \/ e.kind = "query" /\ (\A c \in e.with : g[c.body]) /\ g[e.body]
<1>8. \A e \in SetExprs : f[e] <=> Body(f, e)
  <2> SUFFICES ASSUME NEW e \in SetExprs PROVE f[e] <=> Body(f, e)
    OBVIOUS
  <2>1. f[e] <=> e \in Step(R)
    <3> HIDE DEF f, Step, R
    <3> QED
      BY <1>6, <1>7
  <2>2. e.kind = "union" => (f[e.left] <=> e.left \in R) /\ (f[e.right] <=> e.right \in R)
    <3>1. e.kind = "union" => e.left \in SetExprs /\ e.right \in SetExprs
      BY SqlAssumption
    <3> HIDE DEF f, R
    <3> QED
      BY <1>7, <3>1
  <2>3. e.kind = "query" => /\ f[e.body] <=> e.body \in R
                            /\ \A c \in e.with : f[c.body] <=> c.body \in R
    <3>1. e.kind = "query" => e.body \in SetExprs /\ \A c \in e.with : c.body \in SetExprs
      BY SqlAssumption
    <3> HIDE DEF f, R
    <3> QED
      BY <1>7, <3>1
  <2> HIDE DEF f, R
  <2> QED
    BY <2>1, <2>2, <2>3
<1>9. f = [e \in SetExprs |-> Body(f, e)]
  <2>1. f \in [SetExprs -> BOOLEAN]
    OBVIOUS
  <2>2. \A e \in SetExprs : Body(f, e) \in BOOLEAN
    OBVIOUS
  <2> HIDE DEF f, Body
  <2> QED
    BY <1>8, <2>1, <2>2
<1> DEFINE IsIt(g) == g = [e \in SetExprs |-> Body(g, e)]
<1>10. SetExprReadonly = CHOOSE g : IsIt(g)
  BY DEF SetExprReadonly
<1>11. IsIt(SetExprReadonly)
  <2> HIDE DEF f, Body
  <2>1. IsIt(f)
    BY <1>9
  <2> HIDE DEF IsIt
  <2> QED
    BY <1>10, <2>1
<1> QED
  BY <1>11

\* There is a function that asks about a statement, and about the one that it
\* explains.
LEMMA AlongStatements ==
  ASSUME NEW A, NEW C, \A s \in C : s \in Statements /\ s.statement \in Statements
  PROVE  \E f \in [Statements -> BOOLEAN] :
           \A s \in Statements : f[s] <=> s \in A \/ (s \in C /\ f[s.statement])
<1> DEFINE Step(X) == {s \in Statements : s \in A \/ (s \in C /\ s.statement \in X)}
<1> DEFINE Kept == {X \in SUBSET Statements : X \subseteq Step(X)}
<1> DEFINE R == UNION Kept
<1> DEFINE f == [s \in Statements |-> s \in R]
<1>1. \A X, Y \in SUBSET Statements : X \subseteq Y => Step(X) \subseteq Step(Y)
  OBVIOUS
<1>2. R \in SUBSET Statements /\ \A X : Step(X) \in SUBSET Statements
  OBVIOUS
<1>3. \A X \in Kept : X \in SUBSET Statements /\ X \subseteq Step(X) /\ X \subseteq R
  OBVIOUS
<1>4. \A X \in SUBSET Statements : X \subseteq Step(X) => X \subseteq R
  OBVIOUS
<1>5. R = Step(R)
  <2> HIDE DEF Step, R, Kept
  <2>1. R \subseteq Step(R)
    <3> SUFFICES ASSUME NEW s \in R PROVE s \in Step(R)
      OBVIOUS
    <3>1. PICK X \in Kept : s \in X
      BY DEF R
    <3> QED
      BY <1>1, <1>2, <1>3, <3>1
  <2>2. Step(R) \subseteq Step(Step(R))
    BY <1>1, <1>2, <2>1
  <2>3. Step(R) \subseteq R
    BY <1>2, <1>4, <2>2
  <2> QED
    BY <2>1, <2>3
<1>6. f \in [Statements -> BOOLEAN] /\ \A s \in Statements : f[s] <=> s \in R
  <2>1. f \in [Statements -> BOOLEAN]
    OBVIOUS
  <2>2. \A s \in Statements : f[s] <=> s \in R
    OBVIOUS
  <2> QED
    BY <2>1, <2>2
<1>7. \A s \in Statements : s \in R <=> s \in A \/ (s \in C /\ s.statement \in R)
  <2> HIDE DEF R
  <2> QED
    BY <1>5
<1> HIDE DEF f, R
<1> QED
  BY <1>6, <1>7

LEMMA StatementReadonlyIs ==
  \A s \in Statements :
    StatementReadonly[s] <=>
      \/ s.kind = "query" /\ SetExprReadonly[s.query]
      \/ s.kind = "explain" /\ ~ s.analyze /\ StatementReadonly[s.statement]
<1> DEFINE A == {s \in Statements : s.kind = "query" /\ SetExprReadonly[s.query]}
<1> DEFINE C == {s \in Statements : s.kind = "explain" /\ ~ s.analyze}
<1> DEFINE Body(g, s) == \/ s.kind = "query" /\ SetExprReadonly[s.query]
                         \/ s.kind = "explain" /\ ~ s.analyze /\ g[s.statement]
<1> DEFINE IsIt(g) == g = [s \in Statements |-> Body(g, s)]
<1>1. PICK f \in [Statements -> BOOLEAN] :
        \A s \in Statements : f[s] <=> s \in A \/ (s \in C /\ f[s.statement])
  <2>1. \A s \in C : s \in Statements /\ s.statement \in Statements
    BY SqlAssumption
  <2> HIDE DEF A, C
  <2> QED
    BY <2>1, AlongStatements
<1>2. \A s \in Statements : Body(f, s) \in BOOLEAN /\ (f[s] <=> Body(f, s))
  BY <1>1
<1>3. IsIt(f)
  <2> HIDE DEF Body
  <2> QED
    BY <1>2
<1>4. StatementReadonly = CHOOSE g : IsIt(g)
  BY DEF StatementReadonly
<1>5. IsIt(StatementReadonly)
  <2> HIDE DEF IsIt
  <2> QED
    BY <1>3, <1>4
<1> QED
  BY <1>5

LEMMA PlainWriteIs ==
  \A s \in Statements :
    PlainWrite[s] <=>
      \/ s.kind = "write"
      \/ s.kind = "query" /\ \E q \in {s.query} \cup s.query.with : q.body.kind = "write"
      \/ s.kind = "explain" /\ s.analyze /\ PlainWrite[s.statement]
<1> DEFINE Plain(s) ==
      \/ s.kind = "write"
      \/ s.kind = "query" /\ \E q \in {s.query} \cup s.query.with : q.body.kind = "write"
<1> DEFINE A == {s \in Statements : Plain(s)}
<1> DEFINE C == {s \in Statements : s.kind = "explain" /\ s.analyze}
<1> DEFINE Body(g, s) == \/ s.kind = "write"
                         \/ s.kind = "query" /\ \E q \in {s.query} \cup s.query.with : q.body.kind = "write"
                         \/ s.kind = "explain" /\ s.analyze /\ g[s.statement]
<1> DEFINE IsIt(g) == g = [s \in Statements |-> Body(g, s)]
<1>1. PICK f \in [Statements -> BOOLEAN] :
        \A s \in Statements : f[s] <=> s \in A \/ (s \in C /\ f[s.statement])
  <2>1. \A s \in C : s \in Statements /\ s.statement \in Statements
    BY SqlAssumption
  <2> HIDE DEF A, C
  <2> QED
    BY <2>1, AlongStatements
<1>2. \A s \in Statements : Body(f, s) \in BOOLEAN /\ (f[s] <=> Body(f, s))
  BY <1>1
<1>3. IsIt(f)
  <2> HIDE DEF Body
  <2> QED
    BY <1>2
<1>4. PlainWrite = CHOOSE g : IsIt(g)
  BY DEF PlainWrite
<1>5. IsIt(PlainWrite)
  <2> HIDE DEF IsIt
  <2> QED
    BY <1>3, <1>4
<1> QED
  BY <1>5

\* A statement that passes is no write in plain view.
LEMMA PassedIsNoPlainWrite ==
  ASSUME NEW s \in Statements, StatementReadonly[s]
  PROVE  ~ PlainWrite[s]
<1>1. CASE s.kind = "query"
  <2>1. s.query \in SetExprs /\ s.query.kind = "query" /\ SetExprReadonly[s.query]
    BY <1>1, SqlAssumption, StatementReadonlyIs
  <2>2. /\ SetExprReadonly[s.query.body] /\ s.query.body \in SetExprs
        /\ \A c \in s.query.with : SetExprReadonly[c.body] /\ c.body \in SetExprs
    <3>1. /\ SetExprReadonly[s.query.body]
          /\ \A c \in s.query.with : SetExprReadonly[c.body]
      BY <2>1, SetExprReadonlyIs
    <3>2. s.query.body \in SetExprs /\ \A c \in s.query.with : c \in SetExprs /\ c.kind = "query"
      BY <2>1, SqlAssumption
    <3>3. \A c \in s.query.with : c.body \in SetExprs
      BY <3>2, SqlAssumption
    <3> QED
      BY <3>1, <3>2, <3>3
  <2>3. \A e \in SetExprs : SetExprReadonly[e] => e.kind # "write"
    BY SetExprReadonlyIs
  <2>4. \A q \in {s.query} \cup s.query.with : q.body.kind # "write"
    BY <2>2, <2>3
  <2> QED
    BY <1>1, <2>4, PlainWriteIs
<1>2. CASE s.kind = "explain"
  BY <1>2, StatementReadonlyIs, PlainWriteIs
<1> QED
  BY <1>1, <1>2, StatementReadonlyIs

-----------------------------------------------------------------------------
(* Paths and URLs.                                                         *)

\* What \o returns.
LEMMA Joined ==
  ASSUME NEW S, NEW a \in Seq(S), NEW b \in Seq(S)
  PROVE  /\ a \o b \in Seq(S) /\ Len(a \o b) = Len(a) + Len(b)
         /\ \A i \in 1 .. Len(a) : (a \o b)[i] = a[i]
         /\ \A i \in 1 .. Len(b) : (a \o b)[Len(a) + i] = b[i]
OBVIOUS

\* The last elements of a sequence, and the first.
LEMMA LastOnes ==
  ASSUME NEW S, NEW c \in Seq(S), NEW n \in 0 .. Len(c)
  PROVE  /\ SubSeq(c, n + 1, Len(c)) \in Seq(S)
         /\ Len(SubSeq(c, n + 1, Len(c))) = Len(c) - n
         /\ \A k \in 1 .. Len(c) - n : SubSeq(c, n + 1, Len(c))[k] = c[n + k]
OBVIOUS

LEMMA FirstOnes ==
  ASSUME NEW S, NEW c \in Seq(S), NEW n \in 0 .. Len(c)
  PROVE  /\ SubSeq(c, 1, n) \in Seq(S)
         /\ Len(SubSeq(c, 1, n)) = n
         /\ \A k \in 1 .. n : SubSeq(c, 1, n)[k] = c[k]
OBVIOUS

LEMMA Reversed ==
  ASSUME NEW S, NEW c \in Seq(S)
  PROVE  /\ Reverse(c) \in Seq(S) /\ Len(Reverse(c)) = Len(c)
         /\ \A k \in 1 .. Len(c) : Reverse(c)[k] = c[Len(c) - k + 1]
<1> DEFINE n == Len(c)
<1>1. n \in Nat /\ \A k \in 1 .. n : (n - k) + 1 = n - k + 1 /\ n - k + 1 \in 1 .. n
  OBVIOUS
<1>2. \A k \in 1 .. n : c[k] \in S
  OBVIOUS
<1>3. Reverse(c) = [k \in 1 .. n |-> c[(n - k) + 1]]
  BY DEF Reverse
<1> HIDE DEF n
<1>4. [k \in 1 .. n |-> c[(n - k) + 1]] \in [1 .. n -> S]
  BY <1>1, <1>2
<1>5. Reverse(c) \in Seq(S) /\ Len(Reverse(c)) = n
  BY <1>1, <1>3, <1>4, FunctionIsSeq
<1>6. \A k \in 1 .. n : Reverse(c)[k] = c[n - k + 1]
  BY <1>1, <1>3
<1> QED
  BY <1>5, <1>6 DEF n

\* A prefix, element by element.
LEMMA PrefixIs ==
  ASSUME NEW S, NEW s \in Seq(S), NEW t \in Seq(S)
  PROVE  IsPrefix(s, t) <=> Len(s) <= Len(t) /\ \A i \in 1 .. Len(s) : s[i] = t[i]
<1>1. ASSUME Len(s) <= Len(t)
      PROVE  SubSeq(s, 1, Len(s)) = SubSeq(t, 1, Len(s)) <=> \A i \in 1 .. Len(s) : s[i] = t[i]
  <2> DEFINE n == Len(s)
             x == SubSeq(s, 1, n)
             y == SubSeq(t, 1, n)
  <2>1. n \in 0 .. Len(s) /\ n \in 0 .. Len(t) /\ n \in Nat
    BY <1>1
  <2> HIDE DEF n
  <2>2. x \in Seq(S) /\ Len(x) = n /\ \A k \in 1 .. n : x[k] = s[k]
    BY <2>1, FirstOnes
  <2>3. y \in Seq(S) /\ Len(y) = n /\ \A k \in 1 .. n : y[k] = t[k]
    BY <2>1, FirstOnes
  <2> HIDE DEF x, y
  <2>4. (\A k \in 1 .. n : s[k] = t[k]) => x = y
    <3> SUFFICES ASSUME \A k \in 1 .. n : s[k] = t[k] PROVE x = y
      OBVIOUS
    <3>1. \A k \in 1 .. n : x[k] = y[k]
      BY <2>2, <2>3
    <3> QED
      BY <2>1, <2>2, <2>3, <3>1, SameSequence
  <2>5. x = y => \A k \in 1 .. n : s[k] = t[k]
    BY <2>2, <2>3
  <2> QED
    BY <2>4, <2>5 DEF n, x, y
<1> QED
  BY <1>1 DEF IsPrefix

\* trim_start_matches('/') drops all slashes before the first other piece.
LEMMA NoLeadingSlashIs ==
  ASSUME NEW S, NEW p \in Seq(S)
  PROVE  \E n \in 0 .. Len(p) :
           /\ NoLeadingSlash(p) = SubSeq(p, n + 1, Len(p))
           /\ \A i \in 1 .. n : p[i] = Slash
           /\ n < Len(p) => p[n + 1] # Slash
<1> DEFINE Ends(n) == (\A i \in 1 .. n : p[i] = Slash) /\ (n < Len(p) => p[n + 1] # Slash)
<1>0. Len(p) \in Nat
  OBVIOUS
<1>1. \E n \in 0 .. Len(p) : Ends(n)
  <2> DEFINE T == {k \in Nat : k <= Len(p) /\ (k < Len(p) => p[k + 1] # Slash)}
  <2>1. Len(p) \in T /\ T \in SUBSET Nat
    BY <1>0
  <2>2. PICK n \in T : \A y \in T : y >= n
    <3> HIDE DEF T
    <3> QED
      BY <2>1, LeastNatural
  <2>3. ASSUME NEW i \in 1 .. n PROVE p[i] = Slash
    <3>1. i - 1 \in Nat /\ ~ (i - 1 >= n) /\ i - 1 < Len(p) /\ (i - 1) + 1 = i
      BY <1>0, <2>2, <2>3
    <3>2. i - 1 \notin T
      BY <2>2, <3>1
    <3> QED
      BY <3>1, <3>2
  <2>4. n \in 0 .. Len(p) /\ Ends(n)
    BY <1>0, <2>2, <2>3
  <2> QED
    BY <2>4
<1> DEFINE m == CHOOSE n \in 0 .. Len(p) : Ends(n)
<1>2. m \in 0 .. Len(p) /\ Ends(m)
  <2> HIDE DEF Ends
  <2> QED
    BY <1>1
<1>3. NoLeadingSlash(p) = SubSeq(p, m + 1, Len(p))
  BY DEF NoLeadingSlash
<1> HIDE DEF m
<1> QED
  BY <1>2, <1>3

\* trim_end_matches('/') drops all slashes after the last other piece.
LEMMA NoTrailingSlashIs ==
  ASSUME NEW S, NEW p \in Seq(S)
  PROVE  \E n \in 0 .. Len(p) :
           /\ NoTrailingSlash(p) \in Seq(S) /\ Len(NoTrailingSlash(p)) = n
           /\ \A i \in 1 .. n : NoTrailingSlash(p)[i] = p[i]
           /\ \A i \in n + 1 .. Len(p) : p[i] = Slash
           /\ n > 0 => p[n] # Slash
<1> DEFINE L == Len(p)
           r == Reverse(p)
           q == NoLeadingSlash(r)
           t == NoTrailingSlash(p)
<1>1. r \in Seq(S) /\ Len(r) = L /\ \A k \in 1 .. L : r[k] = p[L - k + 1]
  BY Reversed
<1>2. L \in Nat /\ t = Reverse(q)
  BY DEF NoTrailingSlash
<1> HIDE DEF r, t, L
<1>3. PICK m \in 0 .. L : /\ q = SubSeq(r, m + 1, L)
                          /\ \A i \in 1 .. m : r[i] = Slash
                          /\ m < L => r[m + 1] # Slash
  BY <1>1, NoLeadingSlashIs
<1>4. q \in Seq(S) /\ Len(q) = L - m /\ \A k \in 1 .. L - m : q[k] = r[m + k]
  <2>1. /\ SubSeq(r, m + 1, Len(r)) \in Seq(S)
        /\ Len(SubSeq(r, m + 1, Len(r))) = Len(r) - m
        /\ \A k \in 1 .. Len(r) - m : SubSeq(r, m + 1, Len(r))[k] = r[m + k]
    <3>1. r \in Seq(S) /\ m \in 0 .. Len(r)
      BY <1>1, <1>3
    <3> QED
      BY ONLY <3>1, LastOnes
  <2> QED
    BY ONLY <1>1, <1>3, <2>1
<1> HIDE DEF q
<1>5. t \in Seq(S) /\ Len(t) = L - m /\ \A k \in 1 .. L - m : t[k] = q[L - m - k + 1]
  <2>1. /\ t \in Seq(S) /\ Len(t) = Len(q)
        /\ \A k \in 1 .. Len(q) : t[k] = q[Len(q) - k + 1]
    BY ONLY <1>2, <1>4, Reversed
  <2> QED
    BY ONLY <1>4, <2>1
<1> DEFINE n == L - m
<1>6. n \in 0 .. L
  BY <1>2, <1>3
<1>7. ASSUME NEW i \in 1 .. n PROVE t[i] = p[i]
  <2>1. n - i + 1 \in 1 .. n /\ m + (n - i + 1) \in 1 .. L /\ L - (m + (n - i + 1)) + 1 = i
    BY ONLY <1>2, m \in 0 .. L, <1>7
  <2>2. t[i] = q[n - i + 1]
    BY <1>5
  <2>3. q[n - i + 1] = r[m + (n - i + 1)]
    BY <1>4, <2>1
  <2>4. r[m + (n - i + 1)] = p[L - (m + (n - i + 1)) + 1]
    BY <1>1, <2>1
  <2> QED
    BY <2>1, <2>2, <2>3, <2>4
<1>8. ASSUME NEW i \in n + 1 .. L PROVE p[i] = Slash
  <2>1. L - i + 1 \in 1 .. m /\ L - i + 1 \in 1 .. L /\ L - (L - i + 1) + 1 = i
    BY ONLY <1>2, m \in 0 .. L, <1>8
  <2> QED
    BY <1>1, <1>3, <2>1
<1>9. n > 0 => p[n] # Slash
  <2> SUFFICES ASSUME n > 0 PROVE p[n] # Slash
    OBVIOUS
  <2>1. m < L /\ m + 1 \in 1 .. L /\ L - (m + 1) + 1 = n
    BY ONLY <1>2, m \in 0 .. L, n > 0
  <2> QED
    BY <1>1, <1>3, <2>1
<1> HIDE DEF n
<1>10. Len(t) = n
  BY <1>5 DEF n
<1> QED
  BY <1>5, <1>6, <1>7, <1>8, <1>9, <1>10 DEF t, L

\* A path, or a prefix of one, as a URL has it behind the base.
Below(path) == LET rest == NoLeadingSlash(path)
               IN IF rest = <<>> THEN <<>> ELSE <<Slash>> \o rest

\* The pieces of paths: the slash is one of them.
Piece == STRING \cup {Slash}

LEMMA OneElement ==
  ASSUME NEW S, NEW e \in S
  PROVE  <<e>> \in Seq(S) /\ Len(<<e>>) = 1 /\ <<e>>[1] = e
OBVIOUS

LEMMA OneSlash == <<Slash>> \in Seq(Piece) /\ Len(<<Slash>>) = 1 /\ <<Slash>>[1] = Slash
<1>1. Slash \in Piece
  BY DEF Piece
<1> QED
  BY ONLY <1>1, OneElement

\* What is at or below a place, element by element.
LEMMA UnderIs ==
  ASSUME NEW url \in Seq(Piece), NEW top \in Seq(Piece)
  PROVE  Under(url, top) <=>
           /\ Len(top) <= Len(url)
           /\ \A i \in 1 .. Len(top) : url[i] = top[i]
           /\ Len(top) < Len(url) => url[Len(top) + 1] = Slash
<1> DEFINE long == top \o <<Slash>>
<1>1. <<Slash>> \in Seq(Piece) /\ Len(<<Slash>>) = 1 /\ <<Slash>>[1] = Slash
  BY OneSlash
<1>2. /\ long \in Seq(Piece) /\ Len(long) = Len(top) + 1
      /\ \A i \in 1 .. Len(top) : long[i] = top[i]
      /\ long[Len(top) + 1] = Slash
  BY <1>1, Joined
<1>3. Under(url, top) <=> url = top \/ IsPrefix(long, url)
  BY DEF Under
<1> HIDE DEF long
<1>4. IsPrefix(long, url) <=> Len(long) <= Len(url) /\ \A i \in 1 .. Len(long) : long[i] = url[i]
  BY <1>2, PrefixIs
<1>5. Len(url) \in Nat /\ Len(top) \in Nat
  OBVIOUS
<1>6. ASSUME Len(url) = Len(top), \A i \in 1 .. Len(top) : url[i] = top[i] PROVE url = top
  BY <1>5, <1>6, SameSequence
<1>7. IsPrefix(long, url) <=> /\ Len(top) < Len(url) /\ \A i \in 1 .. Len(top) : url[i] = top[i]
                              /\ url[Len(top) + 1] = Slash
  <2>1. Len(long) <= Len(url) <=> Len(top) < Len(url)
    BY <1>2, <1>5
  <2>2. (\A i \in 1 .. Len(long) : long[i] = url[i]) <=>
          (\A i \in 1 .. Len(top) : url[i] = top[i]) /\ url[Len(top) + 1] = Slash
    <3>1. 1 .. Len(long) = (1 .. Len(top)) \cup {Len(top) + 1}
      BY <1>2, <1>5
    <3> QED
      BY <1>2, <3>1
  <2> QED
    BY <1>4, <2>1, <2>2
<1> QED
  BY <1>3, <1>5, <1>6, <1>7

\* Slashes at the end of a place do not matter to what is below it.
LEMMA UnderTrimmed ==
  ASSUME NEW url \in Seq(Piece), NEW top \in Seq(Piece), Under(url, top)
  PROVE  Under(url, NoTrailingSlash(top))
<1> DEFINE t == NoTrailingSlash(top)
<1>1. PICK n \in 0 .. Len(top) :
        /\ t \in Seq(Piece) /\ Len(t) = n
        /\ \A i \in 1 .. n : t[i] = top[i]
        /\ \A i \in n + 1 .. Len(top) : top[i] = Slash
  BY NoTrailingSlashIs
<1> HIDE DEF t
<1>2. /\ Len(top) <= Len(url)
      /\ \A i \in 1 .. Len(top) : url[i] = top[i]
      /\ Len(top) < Len(url) => url[Len(top) + 1] = Slash
  BY UnderIs
<1>3. Len(top) \in Nat /\ Len(url) \in Nat /\ n \in Nat /\ n <= Len(top)
  OBVIOUS
<1>4. n <= Len(url) /\ \A i \in 1 .. n : url[i] = t[i]
  BY <1>1, <1>2, <1>3
<1>5. n < Len(url) => url[n + 1] = Slash
  <2>1. CASE n = Len(top)
    BY <1>2, <2>1
  <2>2. CASE n < Len(top)
    <3>1. n + 1 \in n + 1 .. Len(top) /\ n + 1 \in 1 .. Len(top)
      BY <1>3, <2>2
    <3> QED
      BY <1>1, <1>2, <3>1
  <2> QED
    BY <1>3, <2>1, <2>2
<1>6. Under(url, t)
  BY <1>1, <1>4, <1>5, UnderIs
<1> QED
  BY <1>6 DEF t

\* A place that ends in another piece stays as it is.
LEMMA NothingToTrim ==
  ASSUME NEW p \in Seq(Piece), p # <<>>, p[Len(p)] # Slash
  PROVE  NoTrailingSlash(p) = p
<1> DEFINE t == NoTrailingSlash(p)
<1>1. PICK n \in 0 .. Len(p) :
        /\ t \in Seq(Piece) /\ Len(t) = n
        /\ \A i \in 1 .. n : t[i] = p[i]
        /\ \A i \in n + 1 .. Len(p) : p[i] = Slash
  BY NoTrailingSlashIs
<1> HIDE DEF t
<1>2. n = Len(p)
  BY <1>1
<1>3. n \in Nat
  OBVIOUS
<1>4. t = p
  BY ONLY <1>1, <1>2, <1>3, p \in Seq(Piece), SameSequence
<1> QED
  BY <1>4 DEF t

\* Below the same base, only what follows matters.
LEMMA UnderSameBase ==
  ASSUME NEW a \in Seq(Piece), NEW x \in Seq(Piece), NEW y \in Seq(Piece)
  PROVE  Under(a \o x, a \o y) <=> Under(x, y)
<1> DEFINE ax == a \o x
           ay == a \o y
           n == Len(a)
<1>1. /\ ax \in Seq(Piece) /\ Len(ax) = n + Len(x)
      /\ \A i \in 1 .. n : ax[i] = a[i]
      /\ \A i \in 1 .. Len(x) : ax[n + i] = x[i]
  BY Joined
<1>2. /\ ay \in Seq(Piece) /\ Len(ay) = n + Len(y)
      /\ \A i \in 1 .. n : ay[i] = a[i]
      /\ \A i \in 1 .. Len(y) : ay[n + i] = y[i]
  BY Joined
<1>3. n \in Nat /\ Len(x) \in Nat /\ Len(y) \in Nat
  OBVIOUS
<1> HIDE DEF ax, ay, n
<1>4. Len(ay) <= Len(ax) <=> Len(y) <= Len(x)
  BY <1>1, <1>2, <1>3
<1>5. ASSUME Len(y) <= Len(x)
      PROVE  (\A i \in 1 .. Len(ay) : ax[i] = ay[i]) <=> (\A i \in 1 .. Len(y) : x[i] = y[i])
  <2>1. ASSUME \A i \in 1 .. Len(ay) : ax[i] = ay[i], NEW i \in 1 .. Len(y) PROVE x[i] = y[i]
    <3>1. n + i \in 1 .. Len(ay) /\ i \in 1 .. Len(x)
      BY <1>2, <1>3, <1>5
    <3> QED
      BY <1>1, <1>2, <2>1, <3>1
  <2>2. ASSUME \A i \in 1 .. Len(y) : x[i] = y[i], NEW i \in 1 .. Len(ay) PROVE ax[i] = ay[i]
    <3>1. CASE i \in 1 .. n
      BY <1>1, <1>2, <3>1
    <3>2. CASE i \notin 1 .. n
      <4>1. i - n \in 1 .. Len(y) /\ i - n \in 1 .. Len(x) /\ n + (i - n) = i
        BY <1>2, <1>3, <1>5, <3>2
      <4> QED
        BY <1>1, <1>2, <2>2, <4>1
    <3> QED
      BY <3>1, <3>2
  <2> QED
    BY <2>1, <2>2
<1>6. (Len(ay) < Len(ax) => ax[Len(ay) + 1] = Slash) <=> (Len(y) < Len(x) => x[Len(y) + 1] = Slash)
  <2>1. Len(ay) < Len(ax) <=> Len(y) < Len(x)
    BY <1>1, <1>2, <1>3
  <2>2. Len(y) < Len(x) => ax[Len(ay) + 1] = x[Len(y) + 1]
    <3>1. Len(y) < Len(x) => Len(y) + 1 \in 1 .. Len(x) /\ n + (Len(y) + 1) = Len(ay) + 1
      BY <1>2, <1>3
    <3> QED
      BY <1>1, <3>1
  <2> QED
    BY <2>1, <2>2
<1>7. Under(ax, ay) <=> /\ Len(ay) <= Len(ax) /\ (\A i \in 1 .. Len(ay) : ax[i] = ay[i])
                        /\ Len(ay) < Len(ax) => ax[Len(ay) + 1] = Slash
  BY <1>1, <1>2, UnderIs
<1>8. Under(x, y) <=> /\ Len(y) <= Len(x) /\ (\A i \in 1 .. Len(y) : x[i] = y[i])
                      /\ Len(y) < Len(x) => x[Len(y) + 1] = Slash
  BY UnderIs
<1>9. Under(ax, ay) <=> Under(x, y)
  BY <1>4, <1>5, <1>6, <1>7, <1>8
<1> QED
  BY <1>9 DEF ax, ay

\* A path with one slash at its beginning.
LEMMA NormalizedIs ==
  ASSUME NEW path \in Seq(Piece)
  PROVE  /\ NoLeadingSlash(path) \in Seq(Piece)
         /\ NormalizeLeadingSlash(path) \in Seq(Piece)
         /\ Len(NormalizeLeadingSlash(path)) = Len(NoLeadingSlash(path)) + 1
         /\ NormalizeLeadingSlash(path)[1] = Slash
         /\ \A k \in 1 .. Len(NoLeadingSlash(path)) :
              NormalizeLeadingSlash(path)[k + 1] = NoLeadingSlash(path)[k]
         /\ \E n \in 0 .. Len(path) :
              /\ Len(NoLeadingSlash(path)) = Len(path) - n
              /\ \A k \in 1 .. Len(path) - n : NoLeadingSlash(path)[k] = path[n + k]
              /\ \A i \in 1 .. n : path[i] = Slash
<1> DEFINE rest == NoLeadingSlash(path)
           long == NormalizeLeadingSlash(path)
<1>1. PICK n \in 0 .. Len(path) :
        /\ rest = SubSeq(path, n + 1, Len(path))
        /\ \A i \in 1 .. n : path[i] = Slash
  BY NoLeadingSlashIs
<1> HIDE DEF rest
<1>2. /\ rest \in Seq(Piece) /\ Len(rest) = Len(path) - n
      /\ \A k \in 1 .. Len(path) - n : rest[k] = path[n + k]
  BY <1>1, LastOnes
<1> DEFINE one == <<Slash>>
<1>3. long = one \o rest
  BY DEF NormalizeLeadingSlash, rest
<1>4. one \in Seq(Piece) /\ Len(one) = 1 /\ one[1] = Slash
  BY OneSlash
<1> HIDE DEF long, one
<1>5. /\ long \in Seq(Piece) /\ Len(long) = Len(one) + Len(rest)
      /\ \A i \in 1 .. Len(one) : long[i] = one[i]
      /\ \A k \in 1 .. Len(rest) : long[Len(one) + k] = rest[k]
  <2>1. rest \in Seq(Piece) /\ one \in Seq(Piece)
    BY <1>2, <1>4
  <2> QED
    BY ONLY <1>3, <2>1, Joined
<1>6. Len(rest) \in Nat
  BY <1>2
<1>7. Len(long) = Len(rest) + 1 /\ long[1] = Slash
  BY <1>4, <1>5, <1>6
<1>8. \A k \in 1 .. Len(rest) : long[k + 1] = rest[k]
  <2>1. \A k \in 1 .. Len(rest) : Len(one) + k = k + 1
    BY <1>4, <1>6
  <2> QED
    BY <1>5, <2>1
<1> QED
  BY <1>1, <1>2, <1>5, <1>7, <1>8 DEF rest, long

\* A URL climbs where the path does.
LEMMA ClimbsAlike ==
  ASSUME NEW path \in Seq(Piece)
  PROVE  Climbs(path) <=> Climbs(Below(path))
<1> DEFINE rest == NoLeadingSlash(path)
           long == NormalizeLeadingSlash(path)
<1>1. /\ rest \in Seq(Piece) /\ long \in Seq(Piece) /\ Len(long) = Len(rest) + 1
      /\ long[1] = Slash /\ \A k \in 1 .. Len(rest) : long[k + 1] = rest[k]
  BY NormalizedIs
<1>2. PICK n \in 0 .. Len(path) :
        /\ Len(rest) = Len(path) - n
        /\ \A k \in 1 .. Len(path) - n : rest[k] = path[n + k]
        /\ \A i \in 1 .. n : path[i] = Slash
  BY NormalizedIs
<1>3. Below(path) = IF rest = <<>> THEN <<>> ELSE long
  BY DEF Below, NormalizeLeadingSlash
<1> HIDE DEF rest, long
<1> DEFINE m == Len(rest)
<1>4. /\ m \in Nat /\ n \in Nat /\ Len(path) = n + m /\ DOMAIN path = 1 .. n + m
      /\ DOMAIN long = 1 .. m + 1
  BY <1>1, <1>2
<1>5. Slash # Dots
  BY DEF Slash, Dots
<1> HIDE DEF m
<1>6. \A k \in 1 .. m : path[n + k] = long[k + 1] /\ n + k \in DOMAIN path /\ k + 1 \in DOMAIN long
  <2>1. \A k \in 1 .. m : n + k \in 1 .. n + m /\ k + 1 \in 1 .. m + 1
    BY <1>4
  <2> QED
    BY <1>1, <1>2, <1>4, <2>1 DEF m
<1>7. \A i \in 1 .. n : path[i] = Slash
  BY <1>2
<1>8. ASSUME NEW k \in 1 .. m
      PROVE  /\ n + k = 1 \/ path[n + k - 1] = Slash <=> k + 1 = 1 \/ long[k + 1 - 1] = Slash
             /\ n + k = Len(path) \/ path[n + k + 1] = Slash <=>
                  k + 1 = Len(long) \/ long[k + 1 + 1] = Slash
  <2>1. k + 1 # 1 /\ k + 1 - 1 = k
    BY <1>4
  <2>2. n + k = 1 \/ path[n + k - 1] = Slash <=> long[k] = Slash
    <3>1. CASE k = 1
      <4>1. long[k] = Slash
        BY <1>1, <3>1
      <4>2. CASE n = 0
        BY <3>1, <4>1, <4>2
      <4>3. CASE n # 0
        <5>1. n + k - 1 = n /\ n \in 1 .. n
          BY <1>4, <3>1, <4>3
        <5> QED
          BY <1>7, <4>1, <5>1
      <4> QED
        BY <4>2, <4>3
    <3>2. CASE k # 1
      <4>1. k - 1 \in 1 .. m /\ n + (k - 1) = n + k - 1 /\ (k - 1) + 1 = k /\ n + k # 1
        BY <1>4, <3>2
      <4> QED
        BY <1>6, <4>1
    <3> QED
      BY <3>1, <3>2
  <2>3. n + k = Len(path) \/ path[n + k + 1] = Slash <=>
          k + 1 = Len(long) \/ long[k + 1 + 1] = Slash
    <3>1. CASE k = m
      BY <1>1, <1>4, <3>1 DEF m
    <3>2. CASE k # m
      <4>1. k + 1 \in 1 .. m /\ n + (k + 1) = n + k + 1 /\ n + k # n + m /\ k + 1 # m + 1
        BY <1>4, <3>2
      <4>2. Len(long) = m + 1
        BY <1>1 DEF m
      <4> QED
        BY <1>4, <1>6, <4>1, <4>2
    <3> QED
      BY <3>1, <3>2
  <2> QED
    BY <2>1, <2>2, <2>3
<1> DEFINE At(p, i) == /\ p[i] = Dots
                       /\ i = 1 \/ p[i - 1] = Slash
                       /\ i = Len(p) \/ p[i + 1] = Slash
<1>9. \A k \in 1 .. m : At(path, n + k) <=> At(long, k + 1)
  BY <1>6, <1>8
<1>10. Climbs(path) <=> \E i \in DOMAIN path : At(path, i)
  BY DEF Climbs
<1>11. Climbs(long) <=> \E i \in DOMAIN long : At(long, i)
  BY DEF Climbs
<1>12. /\ \A i \in 1 .. n : ~ At(path, i)
       /\ ~ At(long, 1)
  BY <1>1, <1>5, <1>7
<1> HIDE DEF At
<1>13. \A i \in DOMAIN path : i \in 1 .. n \/ \E k \in 1 .. m : i = n + k
  <2>1. \A i \in 1 .. n + m : i \in 1 .. n \/ (i - n \in 1 .. m /\ i = n + (i - n))
    BY <1>4
  <2> QED
    BY <1>4, <2>1
<1>14. \A i \in DOMAIN long : i = 1 \/ \E k \in 1 .. m : i = k + 1
  <2>1. \A i \in 1 .. m + 1 : i = 1 \/ (i - 1 \in 1 .. m /\ i = (i - 1) + 1)
    BY <1>4
  <2> QED
    BY <1>4, <2>1
<1>15. Climbs(path) <=> Climbs(long)
  BY <1>6, <1>9, <1>10, <1>11, <1>12, <1>13, <1>14
<1>16. rest = <<>> => ~ Climbs(path) /\ ~ Climbs(<<>>)
  <2>1. rest = <<>> => 1 .. m = {}
    BY DEF m
  <2>2. DOMAIN <<>> = {}
    OBVIOUS
  <2> QED
    BY <1>10, <1>12, <1>13, <2>1, <2>2 DEF Climbs
<1> QED
  BY <1>3, <1>15, <1>16

\* A prefix that a path is below, the URL is below too; and the other way round
\* when the prefix does not end in a slash.
LEMMA BelowAlike ==
  ASSUME NEW path \in Seq(Piece), NEW p \in Seq(Piece)
  PROVE  /\ Below(path) \in Seq(Piece) /\ Below(p) \in Seq(Piece)
         /\ WithinPrefix(NormalizeLeadingSlash(path), NormalizeLeadingSlash(p)) =>
              Under(Below(path), Below(p))
         /\ Last(NormalizeLeadingSlash(p)) # Slash =>
              /\ Below(p) # <<>> /\ Below(p)[Len(Below(p))] # Slash
              /\ Under(Below(path), Below(p)) =>
                   WithinPrefix(NormalizeLeadingSlash(path), NormalizeLeadingSlash(p))
<1> DEFINE x == NormalizeLeadingSlash(path)
           y == NormalizeLeadingSlash(p)
           restx == NoLeadingSlash(path)
           resty == NoLeadingSlash(p)
<1>1. /\ restx \in Seq(Piece) /\ x \in Seq(Piece) /\ Len(x) = Len(restx) + 1 /\ x[1] = Slash
      /\ resty \in Seq(Piece) /\ y \in Seq(Piece) /\ Len(y) = Len(resty) + 1 /\ y[1] = Slash
  BY NormalizedIs
<1>2. /\ Below(path) = IF restx = <<>> THEN <<>> ELSE x
      /\ Below(p) = IF resty = <<>> THEN <<>> ELSE y
  BY DEF Below, NormalizeLeadingSlash
<1>3. WithinPrefix(x, y) <=> Under(x, y)
  BY DEF WithinPrefix, Under
<1>4. Last(y) = y[Len(y)]
  BY DEF Last
<1> HIDE DEF x, y, restx, resty
<1>5. /\ Len(restx) \in Nat /\ Len(resty) \in Nat
      /\ restx = <<>> <=> Len(restx) = 0
      /\ resty = <<>> <=> Len(resty) = 0
      /\ <<>> \in Seq(Piece) /\ Len(<<>>) = 0
  BY <1>1
<1>6. Under(x, y) => /\ Len(y) <= Len(x)
                     /\ \A i \in 1 .. Len(y) : x[i] = y[i]
  BY <1>1, UnderIs
<1>7. \A z \in Seq(Piece) : Under(z, <<>>) <=> (0 < Len(z) => z[1] = Slash)
  <2> SUFFICES ASSUME NEW z \in Seq(Piece) PROVE Under(z, <<>>) <=> (0 < Len(z) => z[1] = Slash)
    OBVIOUS
  <2>1. Under(z, <<>>) <=> /\ Len(<<>>) <= Len(z)
                           /\ \A i \in 1 .. Len(<<>>) : z[i] = <<>>[i]
                           /\ Len(<<>>) < Len(z) => z[Len(<<>>) + 1] = Slash
    BY <1>5, UnderIs
  <2>2. Len(z) \in Nat
    OBVIOUS
  <2> QED
    BY <1>5, <2>1, <2>2
<1>8. Under(<<>>, y) => Len(y) = 0
  <2>1. Under(<<>>, y) => Len(y) <= Len(<<>>)
    BY <1>1, <1>5, UnderIs
  <2> QED
    BY <1>1, <1>5, <2>1
<1>9. Below(path) \in Seq(Piece) /\ Below(p) \in Seq(Piece)
  BY <1>1, <1>2, <1>5
<1>10. ASSUME Under(x, y) PROVE Under(Below(path), Below(p))
  <2>1. CASE resty = <<>>
    <3>1. 0 < Len(Below(path)) => Below(path)[1] = Slash
      BY <1>1, <1>2, <1>5
    <3> QED
      BY <1>2, <1>7, <1>9, <2>1, <3>1
  <2>2. CASE resty # <<>>
    <3>1. restx # <<>>
      BY <1>1, <1>5, <1>6, <1>10, <2>2
    <3> QED
      BY <1>2, <1>10, <2>2, <3>1
  <2> QED
    BY <2>1, <2>2
<1>11. ASSUME y[Len(y)] # Slash
       PROVE  /\ Below(p) # <<>> /\ Below(p)[Len(Below(p))] # Slash
              /\ Under(Below(path), Below(p)) => Under(x, y)
  <2>1. resty # <<>>
    BY <1>1, <1>5, <1>11
  <2>2. Below(p) = y /\ y # <<>> /\ Len(y) # 0
    BY <1>1, <1>2, <1>5, <2>1
  <2>3. Under(Below(path), y) => restx # <<>>
    BY <1>2, <1>8, <2>2
  <2> QED
    BY <1>2, <1>11, <2>2, <2>3
<1>12. /\ Below(path) \in Seq(Piece) /\ Below(p) \in Seq(Piece)
       /\ WithinPrefix(x, y) => Under(Below(path), Below(p))
       /\ Last(y) # Slash => /\ Below(p) # <<>> /\ Below(p)[Len(Below(p))] # Slash
                             /\ Under(Below(path), Below(p)) => WithinPrefix(x, y)
  BY <1>3, <1>4, <1>9, <1>10, <1>11
<1> QED
  BY <1>12 DEF x, y

LEMMA PathsArePieces == ASSUME NEW p \in Seq(STRING) PROVE p \in Seq(Piece)
BY DEF Piece

-----------------------------------------------------------------------------
(* What the parser of URLs makes of them.                                  *)

\* The place ends before the first mark.
LEMMA PlaceIs ==
  ASSUME NEW url \in Seq(Piece)
  PROVE  \E n \in 0 .. Len(url) :
           /\ Place(url) \in Seq(Piece) /\ Len(Place(url)) = n
           /\ \A i \in 1 .. n : Place(url)[i] = url[i] /\ url[i] \notin Marks
           /\ n < Len(url) => url[n + 1] \in Marks
<1> DEFINE Ends(n) == (\A i \in 1 .. n : url[i] \notin Marks) /\ (n < Len(url) => url[n + 1] \in Marks)
<1>0. Len(url) \in Nat
  OBVIOUS
<1>1. \E n \in 0 .. Len(url) : Ends(n)
  <2> DEFINE T == {k \in Nat : k <= Len(url) /\ (k < Len(url) => url[k + 1] \in Marks)}
  <2>1. Len(url) \in T /\ T \in SUBSET Nat
    BY <1>0
  <2>2. PICK n \in T : \A y \in T : y >= n
    <3> HIDE DEF T
    <3> QED
      BY <2>1, LeastNatural
  <2>3. ASSUME NEW i \in 1 .. n PROVE url[i] \notin Marks
    <3>1. i - 1 \in Nat /\ ~ (i - 1 >= n) /\ i - 1 < Len(url) /\ (i - 1) + 1 = i
      BY <1>0, <2>2, <2>3
    <3>2. i - 1 \notin T
      BY <2>2, <3>1
    <3> QED
      BY <3>1, <3>2
  <2>4. n \in 0 .. Len(url) /\ Ends(n)
    BY <1>0, <2>2, <2>3
  <2> QED
    BY <2>4
<1> DEFINE m == CHOOSE n \in 0 .. Len(url) : Ends(n)
<1>2. m \in 0 .. Len(url) /\ Ends(m)
  <2> HIDE DEF Ends
  <2> QED
    BY <1>1
<1>3. Place(url) = SubSeq(url, 1, m)
  BY DEF Place
<1> HIDE DEF m
<1>4. Place(url) \in Seq(Piece) /\ Len(Place(url)) = m /\ \A i \in 1 .. m : Place(url)[i] = url[i]
  BY <1>2, <1>3, FirstOnes
<1> QED
  BY <1>2, <1>4

\* What the first m pieces of a place come to, for every m up to some number.
Readings(p, m, f) == f[0] = <<>> /\ \A i \in 1 .. m : f[i] = ReadPiece(p, i, f[i - 1])

LEMMA ReadingsExist == ASSUME NEW p, NEW n \in Nat PROVE \E f : Readings(p, n, f)
<1> DEFINE T == {m \in Nat : \E f : Readings(p, m, f)}
<1>1. 0 \in T
  <2> DEFINE f == [i \in {0} |-> <<>>]
  <2>1. f[0] = <<>> /\ 1 .. 0 = {}
    OBVIOUS
  <2> HIDE DEF f
  <2>2. Readings(p, 0, f)
    BY <2>1 DEF Readings
  <2> QED
    BY <2>2
<1>2. ASSUME NEW m \in T PROVE m + 1 \in T
  <2>0. m \in Nat
    OBVIOUS
  <2>1. PICK f : Readings(p, m, f)
    OBVIOUS
  <2> DEFINE next == ReadPiece(p, m + 1, f[m])
  <2> HIDE DEF next
  <2> DEFINE g == [i \in 0 .. m + 1 |-> IF i = m + 1 THEN next ELSE f[i]]
  <2>2. g[m + 1] = next /\ \A i \in 0 .. m : g[i] = f[i]
    BY <2>0
  <2> HIDE DEF g
  <2>3. g[0] = <<>>
    BY <2>0, <2>1, <2>2 DEF Readings
  <2>4. ASSUME NEW i \in 1 .. m + 1 PROVE g[i] = ReadPiece(p, i, g[i - 1])
    <3>1. CASE i = m + 1
      <4>1. i - 1 = m /\ m \in 0 .. m
        BY <2>0, <3>1
      <4> QED
        BY <2>2, <3>1, <4>1 DEF next
    <3>2. CASE i # m + 1
      <4>1. i \in 1 .. m /\ i \in 0 .. m /\ i - 1 \in 0 .. m
        BY <2>0, <3>2
      <4>2. f[i] = ReadPiece(p, i, f[i - 1])
        BY <2>1, <4>1 DEF Readings
      <4> QED
        BY <2>2, <4>1, <4>2
    <3> QED
      BY <3>1, <3>2
  <2>5. Readings(p, m + 1, g)
    BY <2>3, <2>4 DEF Readings
  <2> QED
    BY <2>0, <2>5
<1>3. T \in SUBSET Nat
  OBVIOUS
<1>4. Nat \subseteq T
  <2> HIDE DEF T
  <2> QED
    BY <1>1, <1>2, <1>3, Counting
<1>5. n \in T
  BY <1>4
<1> QED
  BY <1>5

LEMMA RequestedIs ==
  ASSUME NEW url \in Seq(Piece)
  PROVE  \E f : /\ Readings(Place(url), Len(Place(url)), f)
                /\ Requested(url) = f[Len(Place(url))]
<1> DEFINE p == Place(url)
           n == Len(p)
           Step(f, i) == IF i = 0 THEN <<>> ELSE ReadPiece(p, i, f[i - 1])
           IsIt(f) == f = [i \in 0 .. n |-> Step(f, i)]
           read == CHOOSE f : IsIt(f)
<1>1. Requested(url) = read[n]
  BY DEF Requested
<1>2. n \in Nat
  BY PlaceIs
<1>3. IsIt(read)
  <2>1. PICK g : Readings(p, n, g)
    BY <1>2, ReadingsExist
  <2> DEFINE h == [i \in 0 .. n |-> g[i]]
  <2>2. \A i \in 0 .. n : h[i] = g[i]
    OBVIOUS
  <2>3. \A i \in 0 .. n : h[i] = Step(h, i)
    <3>1. \A i \in 0 .. n : i # 0 => i \in 1 .. n /\ i - 1 \in 0 .. n
      BY <1>2
    <3>2. g[0] = <<>> /\ \A i \in 1 .. n : g[i] = ReadPiece(p, i, g[i - 1])
      BY <2>1 DEF Readings
    <3> HIDE DEF h, n, p
    <3> QED
      BY <2>2, <3>1, <3>2
  <2>4. h = [i \in 0 .. n |-> h[i]]
    OBVIOUS
  <2>5. IsIt(h)
    <3> HIDE DEF h, n, Step
    <3> QED
      BY <2>3, <2>4
  <2> HIDE DEF IsIt, h
  <2> QED
    BY <2>5
<1> HIDE DEF read
<1>4. \A i \in 0 .. n : read[i] = Step(read, i)
  <2> HIDE DEF Step, n
  <2> QED
    BY <1>3
<1>5. Readings(p, n, read)
  <2>1. 0 \in 0 .. n /\ \A i \in 1 .. n : i \in 0 .. n /\ i # 0
    BY <1>2
  <2> HIDE DEF n, p
  <2> QED
    BY <1>4, <2>1 DEF Readings
<1> QED
  BY <1>1, <1>5

\* One more piece, where there are neither dots nor backslashes: it is appended, or
\* nothing is, but only for a slash.
LEMMA PieceIsAppended ==
  ASSUME NEW p \in Seq(Piece), NEW i \in 1 .. Len(p), NEW read,
         p[i] # Backslash, Dotted(p, i) => p[i] = Dot
  PROVE  /\ ReadPiece(p, i, read) = read \/ ReadPiece(p, i, read) = read \o <<p[i]>>
         /\ p[i] # Dot /\ (i = 1 \/ ~ Dotted(p, i - 1)) => ReadPiece(p, i, read) = read \o <<p[i]>>
<1>1. Dotted(p, i) => ReadPiece(p, i, read) = read
  BY DEF ReadPiece
<1>2. Slash # Dot
  BY DEF Slash, Dot
<1>3. ~ Dotted(p, i) => /\ ReadPiece(p, i, read) \in {read, read \o <<p[i]>>}
                        /\ i = 1 \/ ~ Dotted(p, i - 1) => ReadPiece(p, i, read) = read \o <<p[i]>>
  BY DEF ReadPiece
<1> QED
  BY <1>1, <1>2, <1>3

\* What has been read of a place so far is like the beginning of the place.
LikeBeginning(p, m, i, read) ==
  /\ read \in Seq(Piece)
  /\ i <= m => Len(read) = i
  /\ m < i => m < Len(read) /\ read[m + 1] = Slash
  /\ \A k \in 1 .. m : k <= i => read[k] = p[k]

\* A sequence with one element more.
LEMMA OneJoined ==
  ASSUME NEW S, NEW a \in Seq(S), NEW e \in S
  PROVE  /\ a \o <<e>> \in Seq(S) /\ Len(a \o <<e>>) = Len(a) + 1
         /\ \A k \in 1 .. Len(a) : (a \o <<e>>)[k] = a[k]
         /\ (a \o <<e>>)[Len(a) + 1] = e
OBVIOUS

LEMMA OneMorePiece ==
  ASSUME NEW p \in Seq(Piece), NEW m \in Nat, NEW i \in Nat, i + 1 <= Len(p),
         NEW read, LikeBeginning(p, m, i, read),
         \A k \in 1 .. Len(p) : p[k] # Backslash /\ (Dotted(p, k) => p[k] = Dot),
         \A k \in 1 .. m : k <= Len(p) => p[k] # Dot,
         m < Len(p) => p[m + 1] = Slash
  PROVE  LikeBeginning(p, m, i + 1, ReadPiece(p, i + 1, read))
<1> DEFINE next == ReadPiece(p, i + 1, read)
           one == <<p[i + 1]>>
<1>1. i + 1 \in 1 .. Len(p) /\ Len(p) \in Nat
  OBVIOUS
<1>3. /\ next = read \/ next = read \o one
      /\ p[i + 1] # Dot /\ (i + 1 = 1 \/ ~ Dotted(p, i + 1 - 1)) => next = read \o one
  <2>1. p[i + 1] # Backslash /\ (Dotted(p, i + 1) => p[i + 1] = Dot)
    BY <1>1
  <2>2. /\ \/ ReadPiece(p, i + 1, read) = read
           \/ ReadPiece(p, i + 1, read) = read \o <<p[i + 1]>>
        /\ p[i + 1] # Dot /\ (i + 1 = 1 \/ ~ Dotted(p, i + 1 - 1))
             => ReadPiece(p, i + 1, read) = read \o <<p[i + 1]>>
    <3> DEFINE j == i + 1
    <3>1. j \in 1 .. Len(p) /\ p[j] # Backslash /\ (Dotted(p, j) => p[j] = Dot)
      BY <1>1, <2>1
    <3> HIDE DEF j
    <3>2. /\ ReadPiece(p, j, read) = read \/ ReadPiece(p, j, read) = read \o <<p[j]>>
          /\ p[j] # Dot /\ (j = 1 \/ ~ Dotted(p, j - 1)) => ReadPiece(p, j, read) = read \o <<p[j]>>
      BY <3>1, PieceIsAppended
    <3> QED
      BY ONLY <3>2 DEF j
  <2> QED
    BY ONLY <2>2 DEF next, one
<1>4. read \in Seq(Piece) /\ Len(read) \in Nat
  BY DEF LikeBeginning
<1> HIDE DEF one, next
<1>5. /\ read \o one \in Seq(Piece) /\ Len(read \o one) = Len(read) + 1
      /\ \A k \in 1 .. Len(read) : (read \o one)[k] = read[k]
      /\ (read \o one)[Len(read) + 1] = p[i + 1]
  <2>1. p[i + 1] \in Piece
    BY <1>1
  <2>2. LET e == p[i + 1]
        IN /\ read \o <<e>> \in Seq(Piece) /\ Len(read \o <<e>>) = Len(read) + 1
           /\ \A k \in 1 .. Len(read) : (read \o <<e>>)[k] = read[k]
           /\ (read \o <<e>>)[Len(read) + 1] = e
    BY ONLY <1>4, <2>1, OneJoined, Zenon
  <2> QED
    BY ONLY <2>2 DEF one
<1>6. CASE i <= m
  <2>1. Len(read) = i /\ \A k \in 1 .. m : k <= i => read[k] = p[k]
    BY <1>6 DEF LikeBeginning
  <2>2. p[i + 1] # Dot
    <3>1. CASE i + 1 <= m
      BY <1>1, <3>1
    <3>2. CASE i = m
      BY <1>1, <3>2 DEF Slash, Dot
    <3> QED
      BY <1>6, <3>1, <3>2
  <2>3. i + 1 = 1 \/ ~ Dotted(p, i + 1 - 1)
    <3>1. CASE i = 0
      BY <3>1
    <3>2. CASE i # 0
      <4>1. i \in 1 .. m /\ i \in 1 .. Len(p) /\ i + 1 - 1 = i /\ i <= Len(p)
        BY <1>1, <1>6, <3>2
      <4>2. p[i] # Dot /\ (Dotted(p, i) => p[i] = Dot)
        BY <4>1
      <4> QED
        BY <4>1, <4>2
    <3> QED
      BY <3>1, <3>2
  <2>4. next = read \o one
    BY <1>3, <2>2, <2>3
  <2>5. /\ next \in Seq(Piece) /\ Len(next) = i + 1 /\ next[i + 1] = p[i + 1]
        /\ \A k \in 1 .. i : next[k] = read[k]
    BY <1>5, <2>1, <2>4
  <2>6. m < i + 1 => m < Len(next) /\ next[m + 1] = Slash
    <3>1. m < i + 1 => i = m
      BY <1>6
    <3> QED
      BY <1>1, <2>5, <3>1
  <2>7. \A k \in 1 .. m : k <= i + 1 => next[k] = p[k]
    <3>1. \A k \in 1 .. m : k <= i + 1 => k = i + 1 \/ (k \in 1 .. i /\ k <= i)
      OBVIOUS
    <3> QED
      BY <2>1, <2>5, <3>1
  <2> QED
    BY <2>5, <2>6, <2>7 DEF LikeBeginning, next
<1>7. CASE m < i
  <2>1. /\ m < Len(read) /\ read[m + 1] = Slash
        /\ \A k \in 1 .. m : read[k] = p[k]
    <3>1. \A k \in 1 .. m : k <= i
      BY <1>7
    <3> QED
      BY <1>7, <3>1, Zenon DEF LikeBeginning
  <2>2. /\ next \in Seq(Piece) /\ m < Len(next)
        /\ \A k \in 1 .. Len(read) : next[k] = read[k]
    <3>1. CASE next = read
      BY ONLY <1>4, <2>1, <3>1
    <3>2. CASE next = read \o one
      BY ONLY <1>4, <1>5, <2>1, <3>2, m \in Nat
    <3> QED
      BY <1>3, <3>1, <3>2
  <2>3. \A k \in 1 .. m : k \in 1 .. Len(read)
    BY <1>4, <2>1
  <2>4. m + 1 \in 1 .. Len(read)
    BY <1>4, <2>1
  <2>5. ~ (i + 1 <= m)
    BY <1>7
  <2> QED
    BY <2>1, <2>2, <2>3, <2>4, <2>5 DEF LikeBeginning, next
<1> QED
  BY <1>6, <1>7

\* A request stays below a place that the URL is below, if the URL has no two dots
\* between slashes and no other spelling of them.
LEMMA StaysUnder ==
  ASSUME NEW url \in Seq(Piece), NEW top \in Seq(Piece), Under(url, top), NamesOnly(top),
         SpelledOut(url), ~ Climbs(url)
  PROVE  Requested(url) \in Seq(Piece) /\ Under(Requested(url), top)
<1> DEFINE p == Place(url)
           m == Len(top)
<1>1. PICK n \in 0 .. Len(url) :
        /\ p \in Seq(Piece) /\ Len(p) = n
        /\ \A i \in 1 .. n : p[i] = url[i] /\ url[i] \notin Marks
        /\ n < Len(url) => url[n + 1] \in Marks
  BY PlaceIs
<1>2. PICK f : Readings(p, Len(p), f) /\ Requested(url) = f[Len(p)]
  BY RequestedIs
<1>3. /\ m <= Len(url) /\ \A i \in 1 .. m : url[i] = top[i]
      /\ m < Len(url) => url[m + 1] = Slash
  BY UnderIs
<1>4. m \in Nat /\ n \in Nat /\ Len(url) \in Nat /\ n <= Len(url) /\ DOMAIN top = 1 .. m
      /\ DOMAIN url = 1 .. Len(url)
  OBVIOUS
<1>5. \A i \in 1 .. m : top[i] \notin {Backslash, Dot, Dots, OtherDots} \cup Marks
  BY <1>4 DEF NamesOnly
<1> HIDE DEF p, m
<1>6. m <= n
  <2>1. n < m => n + 1 \in 1 .. m /\ n < Len(url)
    BY <1>3, <1>4
  <2> QED
    BY <1>1, <1>3, <1>4, <1>5, <2>1
<1>7. m < n => p[m + 1] = Slash
  <2>1. m < n => m < Len(url) /\ m + 1 \in 1 .. n
    BY <1>4
  <2> QED
    BY <1>1, <1>3, <2>1
<1>8. \A k \in 1 .. m : p[k] = top[k] /\ p[k] # Dot
  <2>1. \A k \in 1 .. m : k \in 1 .. n
    BY <1>4, <1>6
  <2> QED
    BY <1>1, <1>3, <1>5, <2>1
<1>9. ASSUME NEW k \in 1 .. n PROVE p[k] # Backslash /\ (Dotted(p, k) => p[k] = Dot)
  <2>1. \A j \in 1 .. n : /\ p[j] = url[j] /\ url[j] \notin {Backslash, OtherDots}
                          /\ url[j] = Dots => j = Len(url) \/ url[j + 1] \notin Marks
    <3>1. \A j \in 1 .. n : j \in DOMAIN url
      BY <1>4
    <3> QED
      BY <1>1, <3>1 DEF SpelledOut
  <2>2. k \in 1 .. Len(url) /\ k \in 1 .. n
    BY <1>4
  <2>3. ASSUME p[k] = Dots, Dotted(p, k) PROVE FALSE
    <3>1. url[k] = Dots
      BY <2>1, <2>2, <2>3
    <3>2. k = 1 \/ url[k - 1] = Slash
      <4>1. k = 1 \/ p[k - 1] \in {Slash, Backslash}
        BY <2>3 DEF Dotted
      <4>2. k # 1 => k - 1 \in 1 .. n
        BY <1>4
      <4> QED
        BY <2>1, <4>1, <4>2
    <3>3. k = Len(url) \/ url[k + 1] = Slash
      <4>1. CASE k = n
        <5>1. k = Len(url) \/ url[k + 1] \notin Marks
          <6>1. url[k] = Dots => k = Len(url) \/ url[k + 1] \notin Marks
            BY <2>1, <2>2, Zenon
          <6> QED
            BY ONLY <3>1, <6>1
        <5>2. n # Len(url) => n < Len(url)
          <6>1. n \in Nat /\ Len(url) \in Nat /\ n <= Len(url)
            BY <1>4
          <6> QED
            BY ONLY <6>1
        <5>3. n < Len(url) => url[n + 1] \in Marks
          BY <1>1
        <5> QED
          BY ONLY <4>1, <5>1, <5>2, <5>3
      <4>2. CASE k # n
        <5>1. k + 1 \in 1 .. n
          BY <1>4, <4>2
        <5>2. p[k + 1] \in {Slash, Backslash}
          BY <1>1, <2>3, <4>2 DEF Dotted
        <5> QED
          BY <2>1, <5>1, <5>2
      <4> QED
        BY <4>1, <4>2
    <3> QED
      BY <1>4, <2>2, <3>1, <3>2, <3>3 DEF Climbs
  <2>4. Dotted(p, k) => p[k] \in {Dot, Dots, OtherDots}
    BY DEF Dotted
  <2> QED
    BY <2>1, <2>2, <2>3, <2>4
<1>10. f[0] = <<>> /\ \A i \in 1 .. n : f[i] = ReadPiece(p, i, f[i - 1])
  BY <1>1, <1>2 DEF Readings
<1>11. LikeBeginning(p, m, n, f[n])
  <2> DEFINE T == {i \in Nat : i <= n => LikeBeginning(p, m, i, f[i])}
  <2>1. 0 \in T
    <3>1. f[0] \in Seq(Piece) /\ Len(f[0]) = 0
      BY <1>10
    <3>2. ~ (m < 0) /\ \A k \in 1 .. m : ~ (k <= 0)
      BY <1>4
    <3> QED
      BY <3>1, <3>2 DEF LikeBeginning
  <2>2. ASSUME NEW i \in T PROVE i + 1 \in T
    <3>0. i \in Nat
      OBVIOUS
    <3> SUFFICES ASSUME i + 1 <= n PROVE LikeBeginning(p, m, i + 1, f[i + 1])
      BY <3>0
    <3>1. LikeBeginning(p, m, i, f[i]) /\ i + 1 \in 1 .. n /\ i + 1 - 1 = i
      BY <1>4, <3>0
    <3>2. f[i + 1] = ReadPiece(p, i + 1, f[i])
      BY <1>10, <3>1
    <3> HIDE DEF T
    <3>3. LikeBeginning(p, m, i + 1, ReadPiece(p, i + 1, f[i]))
      BY <1>1, <1>4, <1>7, <1>8, <1>9, <3>0, <3>1, OneMorePiece
    <3> QED
      BY <3>2, <3>3
  <2>3. T \in SUBSET Nat
    OBVIOUS
  <2>4. Nat \subseteq T
    <3> HIDE DEF T
    <3> QED
      BY <2>1, <2>2, <2>3, Counting
  <2>5. n \in T /\ n <= n
    BY <1>4, <2>4
  <2> QED
    BY <2>5
<1> DEFINE place == f[n]
<1>12. /\ place \in Seq(Piece)
       /\ n <= m => Len(place) = n
       /\ m < n => m < Len(place) /\ place[m + 1] = Slash
       /\ \A k \in 1 .. m : k <= n => place[k] = p[k]
  BY <1>11 DEF LikeBeginning
<1> HIDE DEF place
<1>13. \A k \in 1 .. m : place[k] = top[k]
  <2>1. \A k \in 1 .. m : k <= n
    BY <1>4, <1>6
  <2> QED
    BY <1>8, <1>12, <2>1
<1>14. m <= Len(place) /\ (m < Len(place) => place[m + 1] = Slash)
  BY <1>4, <1>6, <1>12
<1>15. Under(place, top)
  BY <1>12, <1>13, <1>14, UnderIs DEF m
<1> QED
  BY <1>1, <1>2, <1>12, <1>15 DEF place

\* What comes after the base of a URL begins with a slash.
LEMMA BelowStarts ==
  ASSUME NEW path \in Seq(Piece)
  PROVE  Below(path) \in Seq(Piece) /\ (Len(Below(path)) > 0 => Below(path)[1] = Slash)
<1> DEFINE long == NormalizeLeadingSlash(path)
           below == Below(path)
<1>1. below \in Seq(Piece)
  BY BelowAlike
<1>2. below = IF NoLeadingSlash(path) = <<>> THEN <<>> ELSE long
  BY DEF Below, NormalizeLeadingSlash
<1>3. long[1] = Slash
  BY NormalizedIs
<1>4. Len(<<>>) = 0
  OBVIOUS
<1> HIDE DEF below, long
<1>5. below \in Seq(Piece) /\ (Len(below) > 0 => below[1] = Slash)
  BY <1>1, <1>2, <1>3, <1>4
<1> QED
  BY <1>5 DEF below

\* What the URL of a call is.
LEMMA UrlIs ==
  ASSUME NEW base \in Seq(Piece), NEW path \in Seq(Piece)
  PROVE  /\ NoTrailingSlash(base) \in Seq(Piece)
         /\ BuildUrl(base, path) \in Seq(Piece)
         /\ BuildUrl(base, path) = NoTrailingSlash(base) \o Below(path)
         /\ Under(BuildUrl(base, path), NoTrailingSlash(base))
<1> DEFINE top == NoTrailingSlash(base)
           below == Below(path)
           url == BuildUrl(base, path)
<1>1. top \in Seq(Piece)
  BY NoTrailingSlashIs
<1>2. below \in Seq(Piece) /\ (Len(below) > 0 => below[1] = Slash)
  BY BelowStarts
<1>3. url = top \o below
  BY DEF BuildUrl, Below
<1> HIDE DEF top, below, url
<1>4. /\ url \in Seq(Piece) /\ Len(url) = Len(top) + Len(below)
      /\ \A i \in 1 .. Len(top) : url[i] = top[i]
      /\ \A i \in 1 .. Len(below) : url[Len(top) + i] = below[i]
  BY ONLY <1>1, <1>2, <1>3, Joined
<1>5. Len(top) \in Nat /\ Len(below) \in Nat
  BY <1>1, <1>2
<1>6. Under(url, top)
  <2>1. /\ Len(top) <= Len(url)
        /\ \A i \in 1 .. Len(top) : url[i] = top[i]
        /\ Len(top) < Len(url) => url[Len(top) + 1] = Slash
    BY <1>2, <1>4, <1>5
  <2> QED
    BY <1>1, <1>4, <2>1, UnderIs
<1> QED
  BY <1>1, <1>3, <1>4, <1>6 DEF top, below, url

\* What is cut from names, or put together of them, are names.
LEMMA NamesTrimmed ==
  ASSUME NEW q \in Seq(Piece), NamesOnly(q) PROVE NamesOnly(NoTrailingSlash(q))
<1> DEFINE t == NoTrailingSlash(q)
<1>1. PICK n \in 0 .. Len(q) : t \in Seq(Piece) /\ Len(t) = n /\ \A i \in 1 .. n : t[i] = q[i]
  BY NoTrailingSlashIs
<1> HIDE DEF t
<1>2. DOMAIN t = 1 .. n /\ \A i \in 1 .. n : i \in DOMAIN q
  BY <1>1
<1> QED
  BY <1>1, <1>2 DEF NamesOnly, t

LEMMA NamesBelow ==
  ASSUME NEW q \in Seq(Piece), NamesOnly(q) PROVE NamesOnly(Below(q))
<1> DEFINE rest == NoLeadingSlash(q)
           long == NormalizeLeadingSlash(q)
<1>1. /\ long \in Seq(Piece) /\ Len(long) = Len(rest) + 1 /\ rest \in Seq(Piece)
      /\ long[1] = Slash /\ \A k \in 1 .. Len(rest) : long[k + 1] = rest[k]
  BY NormalizedIs
<1>2. PICK n \in 0 .. Len(q) :
        Len(rest) = Len(q) - n /\ \A k \in 1 .. Len(q) - n : rest[k] = q[n + k]
  BY NormalizedIs
<1>3. Below(q) = IF rest = <<>> THEN <<>> ELSE long
  BY DEF Below, NormalizeLeadingSlash
<1> HIDE DEF rest, long
<1>4. DOMAIN long = 1 .. Len(rest) + 1 /\ Len(rest) \in Nat /\ Len(q) \in Nat
  BY <1>1
<1>5. Slash \notin {Backslash, Dot, Dots, OtherDots} \cup Marks
  BY DEF Slash, Backslash, Dot, Dots, OtherDots, Marks
<1>6. ASSUME NEW k \in 1 .. Len(rest) + 1, k # 1 PROVE \E j \in DOMAIN q : long[k] = q[j]
  <2>1. k - 1 \in 1 .. Len(rest) /\ (k - 1) + 1 = k /\ n + (k - 1) \in DOMAIN q
    BY <1>2, <1>4, <1>6
  <2> QED
    BY <1>1, <1>2, <2>1
<1>7. NamesOnly(long)
  BY <1>1, <1>4, <1>5, <1>6 DEF NamesOnly
<1>8. NamesOnly(<<>>)
  BY DEF NamesOnly
<1> QED
  BY <1>3, <1>7, <1>8

LEMMA NamesJoined ==
  ASSUME NEW a \in Seq(Piece), NEW b \in Seq(Piece), NamesOnly(a), NamesOnly(b)
  PROVE  NamesOnly(a \o b)
<1> DEFINE ab == a \o b
<1>1. /\ ab \in Seq(Piece) /\ Len(ab) = Len(a) + Len(b)
      /\ \A i \in 1 .. Len(a) : ab[i] = a[i]
      /\ \A i \in 1 .. Len(b) : ab[Len(a) + i] = b[i]
  BY Joined
<1> HIDE DEF ab
<1>2. DOMAIN ab = 1 .. Len(a) + Len(b) /\ DOMAIN a = 1 .. Len(a) /\ DOMAIN b = 1 .. Len(b)
  BY <1>1
<1>3. \A i \in 1 .. Len(a) + Len(b) :
        i \in 1 .. Len(a) \/ (i - Len(a) \in 1 .. Len(b) /\ Len(a) + (i - Len(a)) = i)
  OBVIOUS
<1>4. ASSUME NEW i \in 1 .. Len(a) + Len(b)
      PROVE  (\E j \in DOMAIN a : ab[i] = a[j]) \/ \E j \in DOMAIN b : ab[i] = b[j]
  BY <1>1, <1>2, <1>3
<1>5. NamesOnly(ab)
  BY <1>2, <1>4 DEF NamesOnly
<1> QED
  BY <1>5 DEF ab

\* A place before the last one has one after it.
LEMMA BeforeTheLast ==
  ASSUME NEW k \in Nat, NEW n \in Nat, NEW m \in Nat, 1 <= k, k <= n, k # n
  PROVE  k + 1 \in 1 .. n /\ m + (k + 1) = m + k + 1 /\ m + k # m + n
OBVIOUS

\* A URL climbs only in what is below a base of names.
LEMMA ClimbsBelow ==
  ASSUME NEW a \in Seq(Piece), NEW b \in Seq(Piece), NamesOnly(a), Climbs(a \o b),
         Len(b) > 0 => b[1] = Slash
  PROVE  Climbs(b)
<1> DEFINE ab == a \o b
           m == Len(a)
<1>1. /\ ab \in Seq(Piece) /\ Len(ab) = m + Len(b)
      /\ \A i \in 1 .. m : ab[i] = a[i]
      /\ \A i \in 1 .. Len(b) : ab[m + i] = b[i]
  BY Joined
<1>2. PICK i \in DOMAIN ab : /\ ab[i] = Dots
                             /\ i = 1 \/ ab[i - 1] = Slash
                             /\ i = Len(ab) \/ ab[i + 1] = Slash
  BY DEF Climbs
<1>3. DOMAIN a = 1 .. m /\ DOMAIN b = 1 .. Len(b) /\ m \in Nat /\ Len(b) \in Nat
  OBVIOUS
<1> HIDE DEF ab, m
<1>4. i \in 1 .. m + Len(b)
  BY <1>1
<1>5. i \notin 1 .. m
  BY <1>1, <1>2, <1>3 DEF NamesOnly
<1> DEFINE k == i - m
<1>6. k \in 1 .. Len(b) /\ m + k = i
  BY <1>3, <1>4, <1>5
<1> HIDE DEF k
<1>7. b[k] = Dots
  BY <1>1, <1>2, <1>6
<1>8. k # 1
  BY <1>6, <1>7 DEF Slash, Dots
<1>9. b[k - 1] = Slash
  <2>1. k - 1 \in 1 .. Len(b) /\ m + (k - 1) = i - 1 /\ i # 1
    BY <1>3, <1>6, <1>8
  <2> QED
    BY <1>1, <1>2, <2>1
<1>10. k = Len(b) \/ b[k + 1] = Slash
  <2>1. k # Len(b) => k + 1 \in 1 .. Len(b) /\ m + (k + 1) = i + 1 /\ i # Len(ab)
    <3>1. Len(ab) = m + Len(b)
      BY <1>1
    <3>2. k \in Nat /\ 1 <= k /\ k <= Len(b) /\ Len(b) \in Nat /\ m \in Nat
      BY ONLY <1>3, <1>6
    <3>3. k # Len(b) => k + 1 \in 1 .. Len(b) /\ m + (k + 1) = m + k + 1 /\ m + k # m + Len(b)
      BY ONLY <3>2, BeforeTheLast
    <3> QED
      BY ONLY <1>6, <3>1, <3>3
  <2> QED
    BY <1>1, <1>2, <2>1
<1> QED
  BY <1>3, <1>6, <1>7, <1>9, <1>10 DEF Climbs

\* A request for a path that passes the guard stays where the config permits, if the
\* URL is spelled out; and a path is refused only if it climbs, if the config does not
\* permit its URL, or for prefixes that end in a slash.
LEMMA PathsMatchUrls ==
  ASSUME NEW s \in Services, NEW path \in Seq(STRING)
  PROVE  LET url == BuildUrl(s.base_url, path)
         IN /\ PathAllowed(s, path) /\ SpelledOut(url) => Permitted(s, Requested(url))
            /\ Permitted(s, url) => PathAllowed(s, path) \/ Climbs(path) \/ EndsInSlash(s)
<1> DEFINE base == s.base_url
           url == BuildUrl(base, path)
           top == NoTrailingSlash(base)
<1>1. /\ base \in Seq(Piece) /\ path \in Seq(Piece) /\ NamesOnly(base)
      /\ \A p \in s.allowed_path_prefixes : p \in Seq(Piece) /\ NamesOnly(p)
  BY HttpAssumption, PathsArePieces
<1>2. /\ top \in Seq(Piece) /\ url \in Seq(Piece) /\ url = top \o Below(path)
      /\ Under(url, top)
  BY <1>1, UrlIs
<1>3. Climbs(url) => Climbs(path)
  <2>1. Climbs(path) <=> Climbs(Below(path))
    BY <1>1, ClimbsAlike
  <2>2. Below(path) \in Seq(Piece) /\ (Len(Below(path)) > 0 => Below(path)[1] = Slash)
    BY <1>1, BelowStarts
  <2>3. NamesOnly(top)
    BY <1>1, NamesTrimmed
  <2> HIDE DEF url, top, base
  <2> QED
    BY <1>2, <2>1, <2>2, <2>3, ClimbsBelow
<1>4. ASSUME NEW p \in s.allowed_path_prefixes
      PROVE  /\ WithinPrefix(NormalizeLeadingSlash(path), NormalizeLeadingSlash(p)) =>
                  Under(url, NoTrailingSlash(BuildUrl(base, p)))
             /\ Last(NormalizeLeadingSlash(p)) # Slash /\ Under(url, NoTrailingSlash(BuildUrl(base, p))) =>
                  WithinPrefix(NormalizeLeadingSlash(path), NormalizeLeadingSlash(p))
  <2> DEFINE place == BuildUrl(base, p)
  <2>1. place \in Seq(Piece) /\ place = top \o Below(p)
    BY <1>1, UrlIs
  <2>2. Below(path) \in Seq(Piece) /\ Below(p) \in Seq(Piece)
    BY <1>1, BelowAlike
  <2> HIDE DEF url, top, place, base
  <2>3. Under(url, place) <=> Under(Below(path), Below(p))
    BY <1>2, <2>1, <2>2, UnderSameBase
  <2>4. WithinPrefix(NormalizeLeadingSlash(path), NormalizeLeadingSlash(p)) => Under(Below(path), Below(p))
    BY <1>1, BelowAlike
  <2>5. Under(url, place) => Under(url, NoTrailingSlash(place))
    BY <1>2, <2>1, UnderTrimmed
  <2>6. Last(NormalizeLeadingSlash(p)) # Slash =>
          /\ Below(p) # <<>> /\ Below(p)[Len(Below(p))] # Slash
          /\ Under(Below(path), Below(p)) =>
               WithinPrefix(NormalizeLeadingSlash(path), NormalizeLeadingSlash(p))
    BY <1>1, BelowAlike
  <2>7. Below(p) # <<>> /\ Below(p)[Len(Below(p))] # Slash => NoTrailingSlash(place) = place
    <3> DEFINE b == Below(p)
    <3> HIDE DEF b
    <3>1. b \in Seq(Piece) /\ place = top \o b
      BY <2>1, <2>2 DEF b
    <3>2. /\ Len(place) = Len(top) + Len(b)
          /\ \A i \in 1 .. Len(b) : place[Len(top) + i] = b[i]
      BY ONLY <1>2, <3>1, Joined
    <3>3. b # <<>> => Len(b) \in 1 .. Len(b) /\ Len(place) # 0
      <4>1. Len(b) \in Nat /\ (b # <<>> => Len(b) # 0) /\ Len(top) \in Nat
        BY <1>2, <3>1
      <4> QED
        BY <3>2, <4>1
    <3>4. b # <<>> => place[Len(place)] = b[Len(b)] /\ place # <<>>
      BY <3>2, <3>3
    <3>5. b # <<>> /\ b[Len(b)] # Slash => NoTrailingSlash(place) = place
      BY <2>1, <3>4, NothingToTrim
    <3> QED
      BY <3>5 DEF b
  <2>8. /\ WithinPrefix(NormalizeLeadingSlash(path), NormalizeLeadingSlash(p)) =>
             Under(url, NoTrailingSlash(place))
        /\ Last(NormalizeLeadingSlash(p)) # Slash /\ Under(url, NoTrailingSlash(place)) =>
             WithinPrefix(NormalizeLeadingSlash(path), NormalizeLeadingSlash(p))
    BY <2>3, <2>4, <2>5, <2>6, <2>7
  <2> QED
    BY <2>8 DEF place
<1>5. \A place : Permitted(s, place) <=>
        /\ Under(place, top)
        /\ s.allowed_path_prefixes # {} =>
             \E p \in s.allowed_path_prefixes : Under(place, NoTrailingSlash(BuildUrl(base, p)))
  BY DEF Permitted
<1>6. NamesOnly(top) /\ \A p \in s.allowed_path_prefixes :
        /\ NoTrailingSlash(BuildUrl(base, p)) \in Seq(Piece)
        /\ NamesOnly(NoTrailingSlash(BuildUrl(base, p)))
  <2>1. NamesOnly(top)
    BY <1>1, NamesTrimmed
  <2> SUFFICES ASSUME NEW p \in s.allowed_path_prefixes
               PROVE  LET t == NoTrailingSlash(BuildUrl(base, p)) IN t \in Seq(Piece) /\ NamesOnly(t)
    BY <2>1
  <2> DEFINE place == BuildUrl(base, p)
  <2>2. place \in Seq(Piece) /\ place = top \o Below(p)
    BY <1>1, UrlIs
  <2>3. Below(p) \in Seq(Piece) /\ NamesOnly(Below(p))
    BY <1>1, NamesBelow, BelowAlike
  <2> HIDE DEF place, top, base
  <2>4. NamesOnly(place)
    BY <1>2, <2>1, <2>2, <2>3, NamesJoined
  <2>5. NoTrailingSlash(place) \in Seq(Piece)
    BY <2>2, NoTrailingSlashIs
  <2> QED
    BY <2>2, <2>4, <2>5, NamesTrimmed DEF place
<1> HIDE DEF url, base, top
<1>7. ASSUME PathAllowed(s, path), SpelledOut(url) PROVE Permitted(s, Requested(url))
  <2>1. ~ Climbs(url)
    BY <1>3, <1>7 DEF PathAllowed
  <2>2. Under(Requested(url), top)
    BY <1>2, <1>6, <1>7, <2>1, StaysUnder
  <2>3. s.allowed_path_prefixes # {} =>
          \E p \in s.allowed_path_prefixes : Under(url, NoTrailingSlash(BuildUrl(base, p)))
    BY <1>4, <1>7 DEF PathAllowed
  <2>4. ASSUME NEW p \in s.allowed_path_prefixes, Under(url, NoTrailingSlash(BuildUrl(base, p)))
        PROVE  Under(Requested(url), NoTrailingSlash(BuildUrl(base, p)))
    BY <1>2, <1>6, <1>7, <2>1, <2>4, StaysUnder
  <2> QED
    BY <1>5, <2>2, <2>3, <2>4
<1>8. Permitted(s, url) => PathAllowed(s, path) \/ Climbs(path) \/ EndsInSlash(s)
  BY <1>4, <1>5 DEF PathAllowed, EndsInSlash
<1> QED
  BY <1>7, <1>8 DEF url, base

-----------------------------------------------------------------------------
(* What is asked of a remote end.                                          *)

\* What is asked has passed the guard of its tool, and what a service is not asked
\* was a call all the same: the inductive invariant.
Asked ==
  /\ pc = "remote" /\ tool = "run_command" =>
       \E c \in Commands, prefixes \in PrefixLists :
         sent = [command |-> c] /\ ValidateCommand(c, prefixes)
  /\ pc = "remote" /\ tool = "query_database" =>
       \E sql \in SqlTexts, readonly \in BOOLEAN :
         /\ \E given \in Given(sql) : sent = [sql |-> sql, given |-> given, readonly |-> readonly]
         /\ readonly => ValidateReadonlyQuery(sql)
  /\ tool = "call_service_api" /\ sent # None =>
       \E s \in Services, c \in ServiceCalls :
         \/ /\ pc = "remote" /\ sent = [service |-> s, request |-> Request(s, c)]
            /\ MethodAllowed(s, c.method) /\ PathAllowed(s, c.path)
         \/ pc # "remote" /\ sent = [service |-> s, refused |-> c]

LEMMA AskedStep == ASSUME Asked, [Next]_vars PROVE Asked'
<1> USE DEF Asked
<1>1. ASSUME NEW c \in Commands, NEW ps \in PrefixLists, RunCommand(c, ps) PROVE Asked'
  BY <1>1 DEF RunCommand, Begin, Refuse, Ask
<1>2. ASSUME NEW t \in Tools \ {"run_command", "query_database", "call_service_api"}, Begin(t)
      PROVE  Asked'
  BY <1>2 DEF Begin
<1>3. CASE \E isEnv \in BOOLEAN : ReadRemoteFile(isEnv)
  BY <1>2, <1>3 DEF ReadRemoteFile, Tools, ServerTools
<1>4. ASSUME NEW sql \in SqlTexts, NEW readonly \in BOOLEAN, QueryDatabase(sql, readonly)
      PROVE  Asked'
  BY <1>4 DEF QueryDatabase, Begin, Refuse, Ask
<1>5. CASE ListDbTables \/ ListSecretNames \/ GcloudCommand
  BY <1>2, <1>5 DEF ListDbTables, ListSecretNames, GcloudCommand, Tools, ServerTools
<1>6. ASSUME NEW s \in Services, NEW c \in ServiceCalls, CallService(s, c) PROVE Asked'
  BY <1>6 DEF CallService, Begin
<1>7. CASE pc' # "remote" /\ sent' = None
  BY <1>7
<1>8. CASE \E text \in Outputs : Returns(text) \/ RequestFails(text)
  BY <1>7, <1>8 DEF Returns, RequestFails
<1>9. CASE ConnectionFails \/ Responds \/ TimesOut
  BY <1>7, <1>9 DEF ConnectionFails, Responds, TimesOut, RequestFails
<1>10. CASE Answer \/ \E text \in Outputs : BodyArrives(text)
  BY <1>10 DEF Answer, BodyArrives
<1>11. CASE ToggleReadable \/ UNCHANGED vars \/ \E n \in Names, v \in Values \cup {None} : ChangeSecret(n, v)
  BY <1>11 DEF ToggleReadable, ChangeSecret, Event, vars
<1> QED
  BY <1>1, <1>3, <1>4, <1>5, <1>6, <1>8, <1>9, <1>10, <1>11 DEF Next, Calls

LEMMA AskedAlways == Spec => []Asked
<1>1. Init => Asked
  BY DEF Init, Asked
<1> QED
  BY <1>1, AskedStep, PTL DEF Spec

\* In a command that runs on a server no word that the shell takes as it is spelled
\* shows the environment (validate_command), for every command, allow list and number
\* of events.
THEOREM NoProgramShowsTheEnvironment == Spec => []GuardedPrograms
<1>1. Asked => GuardedPrograms
  BY PassedIsHarmless, ToolCallsAssumption DEF Asked, GuardedPrograms
<1> QED
  BY <1>1, AskedAlways, PTL

\* A read-only database is given nothing that changes its data and no statement of a
\* kind that writes, whatever statements there may be, in a text that the shell of
\* the server does not expand (validate_readonly_query).
THEOREM ReadOnlyQueriesRead == Spec => []ReadOnlyStaysReadOnly
<1>1. Asked => ReadOnlyStaysReadOnly
  <2> SUFFICES ASSUME Asked, pc = "remote", tool = "query_database", sent.readonly,
                      ~ sent.sql.expands
               PROVE  /\ ~ MayChangeData(sent.given, TRUE)
                      /\ \A i \in DOMAIN sent.given : ~ PlainWrite[sent.given[i]]
    BY DEF ReadOnlyStaysReadOnly
  <2>1. /\ sent.sql \in SqlTexts /\ ValidateReadonlyQuery(sent.sql)
        /\ sent.given = sent.sql.statements
    BY DEF Asked, Given
  <2> DEFINE statements == sent.given
  <2>2. statements \in Seq(Statements) /\ Len(statements) = 1 /\ StatementReadonly[statements[1]]
    BY <2>1, ToolCallsAssumption DEF ValidateReadonlyQuery
  <2> HIDE DEF statements
  <2>3. DOMAIN statements = {1} /\ statements[1] \in Statements
    BY <2>2
  <2>4. \A i \in DOMAIN statements : 1 .. i - 1 = {}
    BY <2>3
  <2>5. ~ MayChangeData(statements, TRUE)
    BY <2>4 DEF MayChangeData
  <2>6. ~ PlainWrite[statements[1]]
    BY <2>2, <2>3, PassedIsNoPlainWrite
  <2> QED
    BY <2>3, <2>5, <2>6 DEF statements
<1> QED
  BY <1>1, AskedAlways, PTL

\* A service is asked for what its config allows, if the URL is spelled out, and a call
\* is refused for its path only if it climbs or the config does not permit its URL,
\* for every config and call (call_service_api).
THEOREM RequestsAreAllowed == Spec => []RequestsMatchAllowList
<1>1. Asked => RequestsMatchAllowList
  <2> SUFFICES ASSUME Asked, tool = "call_service_api", sent # None PROVE RequestsMatchAllowList
    BY DEF RequestsMatchAllowList
  <2>1. PICK s \in Services, c \in ServiceCalls :
          \/ /\ pc = "remote" /\ sent = [service |-> s, request |-> Request(s, c)]
             /\ MethodAllowed(s, c.method) /\ PathAllowed(s, c.path)
          \/ pc # "remote" /\ sent = [service |-> s, refused |-> c]
    BY DEF Asked
  <2> DEFINE url == BuildUrl(s.base_url, c.path)
  <2>2. /\ PathAllowed(s, c.path) /\ SpelledOut(url) => Permitted(s, Requested(url))
        /\ Permitted(s, url) => PathAllowed(s, c.path) \/ Climbs(c.path) \/ EndsInSlash(s)
    BY HttpAssumption, PathsMatchUrls
  <2>3. CASE pc = "remote"
    <3> DEFINE r == Request(s, c)
    <3>1. sent.service = s /\ sent.request = r
      BY <2>1, <2>3
    <3>2. r.url = url /\ r.method = UpperCase[c.method]
      BY DEF Request
    <3>3. MethodAllowed(s, UpperCase[c.method])
      BY <2>1, <2>3, HttpAssumption DEF MethodAllowed
    <3>4. [name |-> s.auth_name, from |-> "caller"] \notin r.headers
      <4> DEFINE By(who, names) == {[name |-> n, from |-> who] : n \in names}
      <4> DEFINE given == {h \in c.headers : h \in AllowedCallerHeaders}
      <4> DEFINE own == {[name |-> s.auth_name, from |-> "server"]}
      <4> DEFINE it == [name |-> s.auth_name, from |-> "caller"]
      <4>1. r.headers = By("config", s.extra) \cup By("caller", given)
                          \cup (IF s.auth = "header" THEN own ELSE {})
        BY DEF Request
      <4>2. s.auth_name \notin given
        BY HttpAssumption
      <4>3. it \notin By("caller", given)
        BY <4>2
      <4>4. it.from = "caller"
        OBVIOUS
      <4>5. it \notin own
        BY <4>4
      <4>6. it \notin By("config", s.extra)
        BY <4>4
      <4> QED
        BY <4>1, <4>3, <4>5, <4>6
    <3> HIDE DEF r
    <3> QED
      BY <2>1, <2>2, <2>3, <3>1, <3>2, <3>3, <3>4 DEF RequestsMatchAllowList
  <2>4. CASE pc # "remote"
    <3>1. sent.service = s /\ sent.refused = c
      BY <2>1, <2>4
    <3> QED
      BY <2>2, <2>4, <3>1 DEF RequestsMatchAllowList
  <2> QED
    BY <2>3, <2>4
<1> QED
  BY <1>1, AskedAlways, PTL

-----------------------------------------------------------------------------
(* Replacing values.                                                       *)

\* Induction downwards from n.
LEMMA Downwards ==
  ASSUME NEW n \in Nat, NEW T, n + 1 \in T,
         \A i \in 1 .. n : (\A j \in i + 1 .. n + 1 : j \in T) => i \in T
  PROVE  1 .. n + 1 \subseteq T
<1> DEFINE U == {m \in Nat : \A i \in 1 .. n + 1 : n + 1 - m <= i => i \in T}
<1>1. U \in SUBSET Nat
  OBVIOUS
<1>2. 0 \in U
  <2>1. \A i \in 1 .. n + 1 : n + 1 - 0 <= i => i = n + 1
    OBVIOUS
  <2> QED
    BY <2>1
<1>3. ASSUME NEW m \in U PROVE m + 1 \in U
  <2>0. m \in Nat
    OBVIOUS
  <2>1. \A i \in 1 .. n + 1 : n + 1 - m <= i => i \in T
    OBVIOUS
  <2> SUFFICES ASSUME NEW i \in 1 .. n + 1, n + 1 - (m + 1) <= i PROVE i \in T
    BY <2>0
  <2>2. CASE n + 1 - m <= i
    BY <2>1, <2>2
  <2>3. CASE i = n + 1
    BY <2>3
  <2>4. CASE ~ (n + 1 - m <= i) /\ i # n + 1
    <3>1. i \in 1 .. n
      BY ONLY n \in Nat, i \in 1 .. n + 1, <2>4
    <3>2. \A j \in i + 1 .. n + 1 : j \in 1 .. n + 1 /\ n + 1 - m <= j
      BY ONLY <2>0, <3>1, n \in Nat, n + 1 - (m + 1) <= i
    <3> QED
      BY <2>1, <3>1, <3>2
  <2> QED
    BY <2>2, <2>3, <2>4
<1>4. Nat \subseteq U
  <2> HIDE DEF U
  <2> QED
    BY <1>1, <1>2, <1>3, Counting
<1>5. n + 1 \in U
  BY <1>4
<1>6. \A i \in 1 .. n + 1 : n + 1 - (n + 1) <= i
  OBVIOUS
<1> QED
  BY <1>5, <1>6

\* A text that is put together from pieces: the first of them, and what comes after
\* it from a later place.
FromPieces(n, piece, next, m, f) ==
  /\ f[n + 1] = <<>>
  /\ \A i \in 1 .. n : m <= i => f[i] = piece[i] \o f[next[i]]

LEMMA PiecesExist ==
  ASSUME NEW n \in Nat, NEW piece, NEW next, \A i \in 1 .. n : next[i] \in i + 1 .. n + 1
  PROVE  \E f : FromPieces(n, piece, next, 1, f)
<1> DEFINE T == {m \in 1 .. n + 1 : \E f : FromPieces(n, piece, next, m, f)}
<1>1. n + 1 \in T
  <2> DEFINE e == [i \in {n + 1} |-> <<>>]
  <2>1. e[n + 1] = <<>>
    OBVIOUS
  <2>2. \A i \in 1 .. n : ~ (n + 1 <= i)
    OBVIOUS
  <2> HIDE DEF e
  <2>3. FromPieces(n, piece, next, n + 1, e)
    BY <2>1, <2>2 DEF FromPieces
  <2> QED
    BY <2>3
<1>2. ASSUME NEW m \in 1 .. n, \A j \in m + 1 .. n + 1 : j \in T PROVE m \in T
  <2>1. m + 1 \in T
    BY <1>2
  <2>2. PICK f : FromPieces(n, piece, next, m + 1, f)
    BY <2>1
  <2> DEFINE at == piece[m] \o f[next[m]]
  <2> HIDE DEF at
  <2> DEFINE g == [i \in 1 .. n + 1 |-> IF i = m THEN at ELSE f[i]]
  <2>3. /\ g[m] = piece[m] \o f[next[m]]
        /\ \A i \in 1 .. n + 1 : i # m => g[i] = f[i]
    <3>1. m \in 1 .. n + 1
      OBVIOUS
    <3>2. g[m] = at /\ \A i \in 1 .. n + 1 : i # m => g[i] = f[i]
      BY <3>1
    <3> QED
      BY <3>2 DEF at
  <2> HIDE DEF g
  <2>4. \A i \in 1 .. n : m <= i => next[i] \in 1 .. n + 1 /\ next[i] # m
    OBVIOUS
  <2>5. \A i \in 1 .. n : m <= i => g[next[i]] = f[next[i]]
    BY <2>3, <2>4
  <2>6. \A i \in 1 .. n : m <= i => i = m \/ (m + 1 <= i /\ i # m /\ i \in 1 .. n + 1)
    OBVIOUS
  <2>7. g[n + 1] = <<>>
    <3>1. n + 1 \in 1 .. n + 1 /\ n + 1 # m
      OBVIOUS
    <3> QED
      BY <2>2, <2>3, <3>1 DEF FromPieces
  <2>8. \A i \in 1 .. n : m <= i => g[i] = piece[i] \o g[next[i]]
    BY <2>2, <2>3, <2>5, <2>6 DEF FromPieces
  <2>9. FromPieces(n, piece, next, m, g)
    BY <2>7, <2>8 DEF FromPieces
  <2> QED
    BY <2>9
<1>3. 1 .. n + 1 \subseteq T
  <2> HIDE DEF T
  <2> QED
    BY <1>1, <1>2, Downwards
<1>4. 1 \in T
  BY <1>3
<1> QED
  BY <1>4

\* Where a value is in a text, character by character.
LEMMA OccursAtIs ==
  ASSUME NEW S, NEW R, NEW text \in Seq(S), NEW s \in Seq(R), NEW i \in 1 .. Len(text) - Len(s) + 1
  PROVE  OccursAt(s, text, i) <=> \A q \in 1 .. Len(s) : text[i + q - 1] = s[q]
<1> DEFINE part == SubSeq(text, i, i + Len(s) - 1)
<1>1. Len(text) \in Nat /\ Len(s) \in Nat /\ i \in Nat
  OBVIOUS
<1>2. /\ part \in Seq(S) /\ Len(part) = Len(s)
      /\ \A q \in 1 .. Len(s) : part[q] = text[i + q - 1]
  OBVIOUS
<1>3. OccursAt(s, text, i) <=> part = s
  BY DEF OccursAt
<1> HIDE DEF part
<1>4. (\A q \in 1 .. Len(s) : part[q] = s[q]) => part = s
  BY ONLY <1>1, <1>2, s \in Seq(R), SameSequence
<1> QED
  BY <1>2, <1>3, <1>4

\* The replacement, from a place in the text on.
Replaces(text, s, f) ==
  /\ f[Len(text) + 1] = <<>>
  /\ \A i \in 1 .. Len(text) :
       f[i] = IF i + Len(s) - 1 <= Len(text) /\ OccursAt(s, text, i)
              THEN <<Mask>> \o f[i + Len(s)]
              ELSE <<text[i]>> \o f[i + 1]

LEMMA ReplacedIs ==
  ASSUME NEW S, NEW text \in Seq(S), NEW R, NEW s \in Seq(R), s # <<>>
  PROVE  \E f : Replaced(text, s) = f[1] /\ Replaces(text, s, f)
<1> DEFINE n == Len(text)
           Hit(i) == i + Len(s) - 1 <= Len(text) /\ OccursAt(s, text, i)
           Step(f, i) == IF i > Len(text) THEN <<>>
                         ELSE IF i + Len(s) - 1 <= Len(text) /\ OccursAt(s, text, i)
                              THEN <<Mask>> \o f[i + Len(s)]
                              ELSE <<text[i]>> \o f[i + 1]
           IsIt(f) == f = [i \in 1 .. Len(text) + 1 |-> Step(f, i)]
           piece == [i \in 1 .. n |-> IF Hit(i) THEN <<Mask>> ELSE <<text[i]>>]
           next == [i \in 1 .. n |-> IF Hit(i) THEN i + Len(s) ELSE i + 1]
<1>1. n \in Nat /\ Len(s) \in Nat /\ Len(s) # 0
  OBVIOUS
<1>2. \A i \in 1 .. n : next[i] \in i + 1 .. n + 1
  <2> HIDE DEF n
  <2>1. \A i \in 1 .. n : i + 1 \in i + 1 .. n + 1
    BY <1>1
  <2>2. \A i \in 1 .. n : i + Len(s) - 1 <= n => i + Len(s) \in i + 1 .. n + 1
    BY <1>1
  <2>3. \A i \in 1 .. n : Hit(i) => i + Len(s) - 1 <= n
    BY DEF n
  <2> HIDE DEF Hit
  <2> QED
    BY <2>1, <2>2, <2>3
<1>3. PICK f : FromPieces(n, piece, next, 1, f)
  <2> HIDE DEF n, piece, next
  <2> QED
    BY <1>1, <1>2, PiecesExist, Zenon
<1>4. /\ f[n + 1] = <<>>
      /\ \A i \in 1 .. n : f[i] = IF Hit(i) THEN <<Mask>> \o f[i + Len(s)] ELSE <<text[i]>> \o f[i + 1]
  <2> HIDE DEF Hit, n
  <2>1. /\ f[n + 1] = <<>> /\ \A i \in 1 .. n : f[i] = piece[i] \o f[next[i]]
    <3>1. \A i \in 1 .. n : 1 <= i
      BY <1>1
    <3> HIDE DEF piece, next
    <3> QED
      BY <1>3, <3>1 DEF FromPieces
  <2>2. \A i \in 1 .. n : /\ piece[i] = IF Hit(i) THEN <<Mask>> ELSE <<text[i]>>
                          /\ next[i] = IF Hit(i) THEN i + Len(s) ELSE i + 1
    OBVIOUS
  <2> HIDE DEF piece, next
  <2> QED
    BY <2>1, <2>2
<1> DEFINE g == [i \in 1 .. n + 1 |-> f[i]]
<1>5. \A i \in 1 .. n + 1 : g[i] = f[i]
  OBVIOUS
<1>6. \A i \in 1 .. n + 1 : g[i] = Step(g, i)
  <2> HIDE DEF g, n
  <2> SUFFICES ASSUME NEW i \in 1 .. n + 1 PROVE g[i] = Step(g, i)
    OBVIOUS
  <2>1. CASE i = n + 1
    <3>1. i > n /\ g[i] = <<>>
      BY <1>1, <1>4, <1>5, <2>1
    <3> QED
      BY <3>1 DEF n
  <2>2. CASE i \in 1 .. n
    <3>1. ~ (i > n) /\ i + 1 \in 1 .. n + 1 /\ (i + Len(s) - 1 <= n => i + Len(s) \in 1 .. n + 1)
      BY <1>1, <2>2
    <3>2. g[i + 1] = f[i + 1] /\ (Hit(i) => g[i + Len(s)] = f[i + Len(s)])
      BY <1>5, <3>1 DEF n
    <3>3. g[i] = IF Hit(i) THEN <<Mask>> \o g[i + Len(s)] ELSE <<text[i]>> \o g[i + 1]
      <4> HIDE DEF Hit
      <4> QED
        BY <1>4, <1>5, <2>2, <3>2
    <3> QED
      BY <3>1, <3>3 DEF n
  <2> QED
    BY <1>1, <2>1, <2>2
<1>7. IsIt(g)
  <2>1. g = [i \in 1 .. n + 1 |-> g[i]]
    OBVIOUS
  <2> HIDE DEF g, Step
  <2> QED
    BY <1>6, <2>1
<1> DEFINE from == CHOOSE x : IsIt(x)
<1>8. IsIt(from)
  <2> HIDE DEF IsIt, g
  <2> QED
    BY <1>7
<1>9. Replaced(text, s) = from[1]
  BY DEF Replaced
<1> HIDE DEF from, g
<1>10. \A i \in 1 .. n + 1 : from[i] = Step(from, i)
  <2> HIDE DEF Step
  <2> QED
    BY <1>8
<1>11. from[Len(text) + 1] = <<>>
  <2>1. n + 1 \in 1 .. n + 1 /\ n + 1 > n
    BY <1>1
  <2> QED
    BY <1>10, <2>1
<1>12. \A i \in 1 .. Len(text) :
         from[i] = IF i + Len(s) - 1 <= Len(text) /\ OccursAt(s, text, i)
                   THEN <<Mask>> \o from[i + Len(s)]
                   ELSE <<text[i]>> \o from[i + 1]
  <2>1. \A i \in 1 .. n : i \in 1 .. n + 1 /\ ~ (i > n)
    BY <1>1
  <2> QED
    BY <1>10, <2>1
<1>13. Replaces(text, s, from)
  BY <1>11, <1>12, Zenon DEF Replaces
<1> QED
  BY <1>9, <1>13

\* A character before a text.
LEMMA Prepended ==
  ASSUME NEW S, NEW c \in S, NEW t \in Seq(S)
  PROVE  /\ <<c>> \o t \in Seq(S) /\ Len(<<c>> \o t) = Len(t) + 1
         /\ (<<c>> \o t)[1] = c
         /\ \A k \in 1 .. Len(t) : (<<c>> \o t)[k + 1] = t[k]
<1> DEFINE one == <<c>>
           u == one \o t
<1>1. one \in Seq(S) /\ Len(one) = 1 /\ one[1] = c
  BY OneElement
<1> HIDE DEF one
<1>2. /\ u \in Seq(S) /\ Len(u) = Len(one) + Len(t)
      /\ \A i \in 1 .. Len(one) : u[i] = one[i]
      /\ \A i \in 1 .. Len(t) : u[Len(one) + i] = t[i]
  BY <1>1, Joined
<1>3. Len(t) \in Nat
  OBVIOUS
<1> HIDE DEF u
<1>4. u \in Seq(S) /\ Len(u) = Len(t) + 1 /\ u[1] = c
  BY <1>1, <1>2, <1>3
<1>5. \A k \in 1 .. Len(t) : u[k + 1] = t[k]
  <2>1. \A k \in 1 .. Len(t) : Len(one) + k = k + 1
    BY <1>1, <1>3
  <2> QED
    BY <1>2, <2>1
<1> QED
  BY <1>4, <1>5 DEF u, one

\* A text that is rewritten from its end on: a mask stands where something was
\* replaced, any other character stands as it was, and then s does not begin there.
Rewrites(text, s, f) ==
  /\ f[Len(text) + 1] = <<>>
  /\ \A i \in 1 .. Len(text) :
       \E c, j : /\ j \in i + 1 .. Len(text) + 1
                 /\ f[i] = <<c>> \o f[j]
                 /\ \/ c = Mask
                    \/ /\ c = text[i] /\ j = i + 1
                       /\ ~ (i + Len(s) - 1 <= Len(text) /\ OccursAt(s, text, i))

LEMMA ReplacedRewrites ==
  ASSUME NEW S, NEW text \in Seq(S), NEW R, NEW s \in Seq(R), s # <<>>
  PROVE  \E f : Replaced(text, s) = f[1] /\ Replaces(text, s, f) /\ Rewrites(text, s, f)
<1>1. PICK f : Replaced(text, s) = f[1] /\ Replaces(text, s, f)
  BY ReplacedIs
<1>2. Len(text) \in Nat /\ Len(s) \in Nat /\ Len(s) # 0
  OBVIOUS
<1>3. ASSUME NEW i \in 1 .. Len(text)
      PROVE  \E c, j : /\ j \in i + 1 .. Len(text) + 1
                       /\ f[i] = <<c>> \o f[j]
                       /\ \/ c = Mask
                          \/ /\ c = text[i] /\ j = i + 1
                             /\ ~ (i + Len(s) - 1 <= Len(text) /\ OccursAt(s, text, i))
  <2> DEFINE hit == i + Len(s) - 1 <= Len(text) /\ OccursAt(s, text, i)
  <2>1. f[i] = IF hit THEN <<Mask>> \o f[i + Len(s)] ELSE <<text[i]>> \o f[i + 1]
    BY <1>1 DEF Replaces
  <2>2. CASE hit
    <3>1. i + Len(s) \in i + 1 .. Len(text) + 1
      BY <1>2, <2>2
    <3>2. f[i] = <<Mask>> \o f[i + Len(s)]
      BY <2>1, <2>2, Zenon
    <3> QED
      BY <3>1, <3>2, Zenon
  <2>3. CASE ~ hit
    <3>1. i + 1 \in i + 1 .. Len(text) + 1
      BY <1>2
    <3>2. f[i] = <<text[i]>> \o f[i + 1]
      BY <2>1, <2>3, Zenon
    <3> QED
      BY <2>3, <3>1, <3>2, Zenon
  <2> QED
    BY <2>2, <2>3
<1>4. Rewrites(text, s, f)
  BY <1>1, <1>3, Zenon DEF Rewrites, Replaces
<1> QED
  BY <1>1, <1>4

\* A rewritten text is one.
LEMMA RewrittenType ==
  ASSUME NEW S, NEW text \in Seq(S), NEW s, NEW f, Rewrites(text, s, f), Mask \in S
  PROVE  \A i \in 1 .. Len(text) + 1 : f[i] \in Seq(S)
<1> DEFINE n == Len(text)
           T == {i \in 1 .. n + 1 : f[i] \in Seq(S)}
<1>1. n \in Nat /\ \A i \in 1 .. n : text[i] \in S
  OBVIOUS
<1>2. n + 1 \in T
  <2>1. f[n + 1] = <<>> /\ n + 1 \in 1 .. n + 1
    BY <1>1 DEF Rewrites
  <2>2. f[n + 1] \in Seq(S)
    BY ONLY <2>1
  <2> QED
    BY <2>1, <2>2
<1>3. ASSUME NEW i \in 1 .. n, \A j \in i + 1 .. n + 1 : j \in T PROVE i \in T
  <2>1. PICK c, j : /\ j \in i + 1 .. Len(text) + 1
                    /\ f[i] = <<c>> \o f[j]
                    /\ c = Mask \/ c = text[i]
    BY DEF Rewrites
  <2>2. c \in S /\ f[j] \in Seq(S)
    BY <1>1, <1>3, <2>1
  <2>3. <<c>> \o f[j] \in Seq(S)
    BY <2>2, Prepended
  <2>4. i \in 1 .. n + 1
    BY <1>1
  <2> QED
    BY <2>1, <2>3, <2>4
<1>4. 1 .. n + 1 \subseteq T
  <2> HIDE DEF T, n
  <2> QED
    BY <1>1, <1>2, <1>3, Downwards
<1> QED
  BY <1>4

\* Before the first mask of a rewritten text stands what stood in the text.
LEMMA RewrittenStart ==
  ASSUME NEW S, NEW text \in Seq(S), NEW s, NEW f, Rewrites(text, s, f), Mask \in S
  PROVE  \A i \in 1 .. Len(text) + 1 : \A m \in 1 .. Len(f[i]) :
           (\A q \in 1 .. m : f[i][q] # Mask) =>
             /\ i + m - 1 <= Len(text)
             /\ \A q \in 1 .. m : f[i][q] = text[i + q - 1]
             /\ ~ (i + Len(s) - 1 <= Len(text) /\ OccursAt(s, text, i))
<1> DEFINE n == Len(text)
           Hit(i) == i + Len(s) - 1 <= Len(text) /\ OccursAt(s, text, i)
           Start(i, m) == /\ i + m - 1 <= n
                          /\ \A q \in 1 .. m : f[i][q] = text[i + q - 1]
                          /\ ~ Hit(i)
           T == {i \in 1 .. n + 1 : \A m \in 1 .. Len(f[i]) :
                                      (\A q \in 1 .. m : f[i][q] # Mask) => Start(i, m)}
<1>1. n \in Nat /\ \A i \in 1 .. n : text[i] \in S
  OBVIOUS
<1>2. \A i \in 1 .. n + 1 : f[i] \in Seq(S)
  BY RewrittenType
<1>3. n + 1 \in T
  <2>1. f[n + 1] = <<>> /\ n + 1 \in 1 .. n + 1
    BY <1>1 DEF Rewrites
  <2>2. 1 .. Len(f[n + 1]) = {}
    BY ONLY <2>1
  <2> HIDE DEF Start
  <2> QED
    BY <2>1, <2>2
<1>4. ASSUME NEW i \in 1 .. n, \A j \in i + 1 .. n + 1 : j \in T PROVE i \in T
  <2>1. PICK c, j : /\ j \in i + 1 .. n + 1
                    /\ f[i] = <<c>> \o f[j]
                    /\ c = Mask \/ (c = text[i] /\ j = i + 1 /\ ~ Hit(i))
    BY DEF Rewrites
  <2> HIDE DEF n, Hit
  <2> DEFINE t == f[j]
             u == f[i]
  <2>2. c \in S /\ t \in Seq(S) /\ j \in 1 .. n + 1 /\ i \in 1 .. n + 1
    <3>1. j \in 1 .. n + 1 /\ i \in 1 .. n + 1
      BY <1>1, <2>1
    <3> QED
      BY <1>1, <1>2, <2>1, <3>1
  <2>3. Len(u) = Len(t) + 1 /\ u[1] = c /\ \A k \in 1 .. Len(t) : u[k + 1] = t[k]
    BY ONLY <2>1, <2>2, Prepended
  <2>4. ASSUME NEW m \in 1 .. Len(u), \A q \in 1 .. m : u[q] # Mask PROVE Start(i, m)
    <3>0. Len(t) \in Nat /\ i \in Nat
      BY <1>1, <2>2
    <3>1. u[1] # Mask
      BY <2>3, <2>4, <3>0
    <3>2. c = text[i] /\ j = i + 1 /\ ~ Hit(i)
      BY <2>1, <2>3, <3>1
    <3>3. CASE m = 1
      <4>1. i + m - 1 <= n /\ \A q \in 1 .. m : q = 1 /\ i + q - 1 = i
        BY <1>1, <3>3
      <4> QED
        BY <2>3, <3>2, <4>1
    <3>4. CASE m # 1
      <4>1. m - 1 \in 1 .. Len(t) /\ \A q \in 1 .. m - 1 : q + 1 \in 1 .. m /\ q \in 1 .. Len(t)
        BY <2>3, <3>0, <3>4
      <4>2. \A q \in 1 .. m - 1 : t[q] # Mask
        BY <2>3, <2>4, <4>1
      <4>3. j + (m - 1) - 1 <= n /\ \A q \in 1 .. m - 1 : t[q] = text[j + q - 1]
        BY <1>4, <2>1, <4>1, <4>2
      <4>4. i + m - 1 <= n
        BY ONLY <3>0, <3>2, <4>3, <1>1, m \in 1 .. Len(u), <2>3
      <4>5. ASSUME NEW q \in 1 .. m PROVE u[q] = text[i + q - 1]
        <5>1. CASE q = 1
          BY <2>3, <3>0, <3>2, <5>1
        <5>2. CASE q # 1
          <6>1. q - 1 \in 1 .. m - 1 /\ (q - 1) + 1 = q /\ j + (q - 1) - 1 = i + q - 1
            BY <3>0, <3>2, <5>2
          <6>2. u[q] = t[q - 1]
            BY <2>3, <4>1, <6>1
          <6>3. t[q - 1] = text[j + (q - 1) - 1]
            BY <4>3, <6>1
          <6> QED
            BY <6>1, <6>2, <6>3
        <5> QED
          BY <5>1, <5>2
      <4> QED
        BY <3>2, <4>4, <4>5
    <3> QED
      BY <3>3, <3>4
  <2> HIDE DEF Start, u
  <2> QED
    BY <2>2, <2>4 DEF u
<1>5. 1 .. n + 1 \subseteq T
  <2> HIDE DEF T, n
  <2> QED
    BY <1>1, <1>3, <1>4, Downwards
<1> QED
  BY <1>5

\* What follows a place in a rewritten text was rewritten from a later place.
RestOf(f, i, k, j) == /\ Len(f[j]) = Len(f[i]) - k + 1
                      /\ \A q \in 1 .. Len(f[j]) : f[j][q] = f[i][k + q - 1]

LEMMA RewrittenRest ==
  ASSUME NEW S, NEW text \in Seq(S), NEW s, NEW f, Rewrites(text, s, f), Mask \in S
  PROVE  \A i \in 1 .. Len(text) + 1 : \A k \in 1 .. Len(f[i]) :
           \E j \in 1 .. Len(text) + 1 : RestOf(f, i, k, j)
<1> DEFINE n == Len(text)
           T == {i \in 1 .. n + 1 : \A k \in 1 .. Len(f[i]) : \E j \in 1 .. n + 1 : RestOf(f, i, k, j)}
<1>1. n \in Nat /\ \A i \in 1 .. n : text[i] \in S
  OBVIOUS
<1>2. \A i \in 1 .. n + 1 : f[i] \in Seq(S)
  BY RewrittenType
<1>3. n + 1 \in T
  <2>1. f[n + 1] = <<>> /\ n + 1 \in 1 .. n + 1
    BY <1>1 DEF Rewrites
  <2>2. 1 .. Len(f[n + 1]) = {}
    BY ONLY <2>1
  <2> QED
    BY <2>1, <2>2
<1>4. ASSUME NEW i \in 1 .. n, \A j \in i + 1 .. n + 1 : j \in T PROVE i \in T
  <2>1. PICK c, j : /\ j \in i + 1 .. n + 1
                    /\ f[i] = <<c>> \o f[j]
                    /\ c = Mask \/ c = text[i]
    BY DEF Rewrites
  <2> HIDE DEF n
  <2> DEFINE t == f[j]
             u == f[i]
  <2>2. c \in S /\ t \in Seq(S) /\ u \in Seq(S) /\ j \in 1 .. n + 1 /\ i \in 1 .. n + 1
    <3>1. j \in 1 .. n + 1 /\ i \in 1 .. n + 1
      BY <1>1, <2>1
    <3> QED
      BY <1>1, <1>2, <2>1, <3>1
  <2>3. Len(u) = Len(t) + 1 /\ u[1] = c /\ \A k \in 1 .. Len(t) : u[k + 1] = t[k]
    BY ONLY <2>1, <2>2, Prepended
  <2>4. ASSUME NEW k \in 1 .. Len(u) PROVE \E l \in 1 .. n + 1 : RestOf(f, i, k, l)
    <3>0. Len(t) \in Nat /\ Len(u) \in Nat
      BY <2>2
    <3>1. CASE k = 1
      <4>1. Len(u) = Len(u) - k + 1 /\ \A q \in 1 .. Len(u) : k + q - 1 = q
        BY <3>0, <3>1
      <4>2. RestOf(f, i, k, i)
        BY <4>1 DEF RestOf
      <4> QED
        BY <2>2, <4>2
    <3>2. CASE k # 1
      <4>1. k - 1 \in 1 .. Len(t)
        BY <2>3, <3>0, <3>2
      <4>2. j \in T
        BY <1>4, <2>1
      <4>3. PICK l \in 1 .. n + 1 : RestOf(f, j, k - 1, l)
        BY <4>1, <4>2
      <4> DEFINE r == f[l]
      <4>4. Len(r) = Len(t) - (k - 1) + 1 /\ \A q \in 1 .. Len(r) : r[q] = t[(k - 1) + q - 1]
        BY <4>3 DEF RestOf
      <4>5. Len(r) = Len(u) - k + 1
        BY <2>3, <3>0, <4>4
      <4>6. ASSUME NEW q \in 1 .. Len(r) PROVE r[q] = u[k + q - 1]
        <5>1. (k - 1) + q - 1 \in 1 .. Len(t) /\ ((k - 1) + q - 1) + 1 = k + q - 1
          <6>1. /\ q \in Nat /\ q >= 1 /\ q <= Len(t) - (k - 1) + 1
                /\ k \in Nat /\ k >= 2 /\ k - 1 <= Len(t) /\ Len(t) \in Nat
            BY <3>0, <3>2, <4>1, <4>4
          <6> QED
            BY ONLY <6>1
        <5> QED
          BY <2>3, <4>4, <5>1
      <4>7. RestOf(f, i, k, l)
        BY <4>5, <4>6 DEF RestOf
      <4> QED
        BY <4>7
    <3> QED
      BY <3>1, <3>2
  <2> HIDE DEF u
  <2> QED
    BY <2>2, <2>4 DEF u
<1>5. 1 .. n + 1 \subseteq T
  <2> HIDE DEF T, n
  <2> QED
    BY <1>1, <1>3, <1>4, Downwards
<1> QED
  BY <1>5

\* The characters of s are those of text, from i on.
Found(s, text, i) == \A q \in 1 .. Len(s) : text[i + q - 1] = s[q]

LEMMA OccursIs ==
  ASSUME NEW S, NEW R, NEW text \in Seq(S), NEW s \in Seq(R)
  PROVE  Occurs(s, text) <=> \E i \in 1 .. Len(text) - Len(s) + 1 : Found(s, text, i)
<1>1. \A i \in 1 .. Len(text) - Len(s) + 1 : OccursAt(s, text, i) <=> Found(s, text, i)
  <2> SUFFICES ASSUME NEW i \in 1 .. Len(text) - Len(s) + 1
               PROVE  OccursAt(s, text, i) <=> Found(s, text, i)
    OBVIOUS
  <2>1. OccursAt(s, text, i) <=> \A q \in 1 .. Len(s) : text[i + q - 1] = s[q]
    BY OccursAtIs
  <2> QED
    BY <2>1 DEF Found
<1>2. Occurs(s, text) <=> \E i \in 1 .. Len(text) - Len(s) + 1 : OccursAt(s, text, i)
  BY DEF Occurs
<1> QED
  BY <1>1, <1>2

\* A value that has a character, and none that is a mask.
Maskless(v) == v # <<>> /\ \A q \in 1 .. Len(v) : v[q] # Mask

\* A replacement adds nothing to find, and takes the value that is replaced.
LEMMA ReplacedHides ==
  ASSUME NEW S, NEW text \in Seq(S), Mask \in S, NEW R, NEW s \in Seq(R), s # <<>>
  PROVE  /\ Replaced(text, s) \in Seq(S)
         /\ \A v \in Seq(R) : Maskless(v) /\ Occurs(v, Replaced(text, s)) => Occurs(v, text) /\ v # s
<1>1. PICK f : Replaced(text, s) = f[1] /\ Rewrites(text, s, f)
  BY ReplacedRewrites
<1> DEFINE n == Len(text)
           new == f[1]
<1>2. n \in Nat /\ \A i \in 1 .. n + 1 : f[i] \in Seq(S)
  BY <1>1, RewrittenType
<1>3. new \in Seq(S)
  BY <1>2
<1>4. ASSUME NEW v \in Seq(R), Maskless(v), Occurs(v, new) PROVE Occurs(v, text) /\ v # s
  <2> DEFINE m == Len(v)
  <2>1. m \in Nat /\ m # 0 /\ \A q \in 1 .. m : v[q] # Mask
    BY <1>4 DEF Maskless
  <2> HIDE DEF new
  <2>0. PICK k \in 1 .. Len(new) - m + 1 : Found(v, new, k)
    BY <1>3, <1>4, OccursIs
  <2>2. \A q \in 1 .. m : new[k + q - 1] = v[q]
    BY <2>0 DEF Found
  <2>3. Len(new) \in Nat /\ k \in 1 .. Len(new) /\ 1 \in 1 .. n + 1
    BY <1>2, <1>3, <2>1
  <2>4. PICK j \in 1 .. n + 1 : RestOf(f, 1, k, j)
    BY <1>1, <2>3, RewrittenRest DEF new
  <2> DEFINE t == f[j]
  <2> HIDE DEF t, new, m, n
  <2>5. Len(t) = Len(new) - k + 1 /\ \A q \in 1 .. Len(t) : t[q] = new[k + q - 1]
    BY <2>4 DEF t, new, RestOf
  <2>6. m \in 1 .. Len(t)
    BY <2>1, <2>3, <2>5
  <2>7. \A q \in 1 .. m : t[q] = v[q]
    <3>1. \A q \in 1 .. m : q \in 1 .. Len(t)
      BY <2>1, <2>6
    <3> QED
      BY <2>2, <2>5, <3>1
  <2>8. \A q \in 1 .. m : t[q] # Mask
    BY <2>1, <2>7
  <2>9. /\ j + m - 1 <= Len(text)
        /\ \A q \in 1 .. m : t[q] = text[j + q - 1]
        /\ ~ (j + Len(s) - 1 <= Len(text) /\ OccursAt(s, text, j))
    BY <1>1, <2>6, <2>8, RewrittenStart DEF t, n
  <2>10. j \in 1 .. Len(text) - m + 1 /\ \A q \in 1 .. m : text[j + q - 1] = v[q]
    <3>1. j \in Nat /\ j >= 1 /\ n \in Nat
      BY <1>2
    <3>2. j \in 1 .. Len(text) - m + 1
      BY <2>1, <2>9, <3>1 DEF n
    <3> QED
      BY <2>7, <2>9, <3>2
  <2>11. Occurs(v, text)
    BY <2>10, OccursIs DEF m, Found
  <2>12. OccursAt(v, text, j)
    BY <2>10, OccursAtIs DEF m
  <2>13. v # s
    BY <2>9, <2>12 DEF m
  <2> QED
    BY <2>11, <2>13
<1> HIDE DEF new
<1> QED
  BY <1>1, <1>3, <1>4 DEF new

LEMMA FormatsHide ==
  ASSUME NEW S, NEW text \in Seq(S), Mask \in S
  PROVE  /\ ScrubFormats(text) \in Seq(S)
         /\ \A R : \A v \in Seq(R) : Maskless(v) /\ Occurs(v, ScrubFormats(text)) => Occurs(v, text)
<1> DEFINE n == Len(text)
           new == ScrubFormats(text)
<1>1. n \in Nat /\ DOMAIN text = 1 .. n /\ \A i \in 1 .. n : text[i] \in S
  OBVIOUS
<1>2. new = [i \in 1 .. n |-> IF text[i] \in Formatted THEN Mask ELSE text[i]]
  BY <1>1 DEF ScrubFormats
<1> HIDE DEF n, new
<1>3. new \in [1 .. n -> S]
  BY <1>1, <1>2
<1>4. new \in Seq(S) /\ Len(new) = n
  BY <1>1, <1>3, FunctionIsSeq
<1>5. \A i \in 1 .. n : new[i] # Mask => new[i] = text[i]
  BY <1>2
<1>6. ASSUME NEW R, NEW v \in Seq(R), Maskless(v), Occurs(v, new) PROVE Occurs(v, text)
  <2>0. PICK k \in 1 .. Len(new) - Len(v) + 1 : Found(v, new, k)
    BY <1>4, <1>6, OccursIs
  <2>1. k \in 1 .. n - Len(v) + 1 /\ \A q \in 1 .. Len(v) : new[k + q - 1] = v[q]
    BY <1>4, <2>0 DEF Found
  <2>2. \A q \in 1 .. Len(v) : k + q - 1 \in 1 .. n
    <3>1. Len(v) \in Nat
      OBVIOUS
    <3> QED
      BY <1>1, <2>1, <3>1
  <2>3. \A q \in 1 .. Len(v) : text[k + q - 1] = v[q]
    BY <1>5, <1>6, <2>1, <2>2 DEF Maskless
  <2> QED
    BY <2>1, <2>3, OccursIs DEF n, Found
<1> QED
  BY <1>4, <1>6 DEF new

\* One value after the other.
Folds(n, text, order, g) ==
  \A s \in SUBSET (1 .. n) :
    g[s] = IF s = {} THEN text ELSE Replaced(g[s \ {Max(s)}], order[Max(s)])

LEMMA MaxIs ==
  ASSUME NEW n \in Nat, NEW T \in SUBSET (1 .. n), NEW i \in T
  PROVE  Max(T) \in T /\ i <= Max(T)
<1>1. T # {}
  OBVIOUS
<1>2. Max(T) \in T /\ \A y \in T : Min(T) <= y /\ y <= Max(T)
  BY <1>1, MinMax
<1> QED
  BY <1>2

LEMMA FoldsExist ==
  ASSUME NEW text, NEW order, NEW n \in Nat
  PROVE  \E g : Folds(n, text, order, g)
<1> DEFINE T == {m \in Nat : \E g : Folds(m, text, order, g)}
<1>1. 0 \in T
  <2> DEFINE g == [s \in {{}} |-> text]
  <2>1. \A s \in SUBSET (1 .. 0) : s = {} /\ g[s] = text
    OBVIOUS
  <2> HIDE DEF g
  <2>2. Folds(0, text, order, g)
    BY <2>1 DEF Folds
  <2> QED
    BY <2>2
<1>2. ASSUME NEW m \in T PROVE m + 1 \in T
  <2>0. m \in Nat
    OBVIOUS
  <2>1. PICK g : Folds(m, text, order, g)
    OBVIOUS
  <2> DEFINE h == [s \in SUBSET (1 .. m + 1) |->
                     IF m + 1 \in s THEN Replaced(g[s \ {m + 1}], order[m + 1]) ELSE g[s]]
  <2>2. \A s \in SUBSET (1 .. m + 1) :
          h[s] = IF m + 1 \in s THEN Replaced(g[s \ {m + 1}], order[m + 1]) ELSE g[s]
    OBVIOUS
  <2> HIDE DEF h
  <2>3. ASSUME NEW s \in SUBSET (1 .. m + 1)
        PROVE  h[s] = IF s = {} THEN text ELSE Replaced(h[s \ {Max(s)}], order[Max(s)])
    <3>1. CASE m + 1 \in s
      <4>1. Max(s) = m + 1
        <5>0. s \in SUBSET (1 .. m + 1) /\ m + 1 \in Nat
          BY <2>0
        <5>1. Max(s) \in s /\ m + 1 <= Max(s)
          BY <3>1, <5>0, MaxIs
        <5>2. Max(s) \in 1 .. m + 1
          BY <5>1
        <5> QED
          BY <2>0, <5>1, <5>2
      <4>2. s \ {m + 1} \in SUBSET (1 .. m + 1) /\ m + 1 \notin s \ {m + 1} /\ s # {}
        BY <3>1
      <4>3. h[s \ {m + 1}] = g[s \ {m + 1}]
        BY <2>2, <4>2
      <4> QED
        BY <2>2, <3>1, <4>1, <4>2, <4>3
    <3>2. CASE m + 1 \notin s
      <4>1. s \in SUBSET (1 .. m)
        <5>1. \A i \in 1 .. m + 1 : i # m + 1 => i \in 1 .. m
          BY <2>0
        <5> QED
          BY <3>2, <5>1
      <4>2. g[s] = IF s = {} THEN text ELSE Replaced(g[s \ {Max(s)}], order[Max(s)])
        BY <2>1, <4>1 DEF Folds
      <4>3. h[s] = g[s] /\ h[s \ {Max(s)}] = g[s \ {Max(s)}]
        BY <2>2, <3>2
      <4> QED
        BY <4>2, <4>3
    <3> QED
      BY <3>1, <3>2
  <2>4. Folds(m + 1, text, order, h)
    BY <2>3 DEF Folds
  <2> QED
    BY <2>0, <2>4
<1>3. T \in SUBSET Nat
  OBVIOUS
<1>4. Nat \subseteq T
  <2> HIDE DEF T
  <2> QED
    BY <1>1, <1>2, <1>3, Counting
<1>5. n \in T
  BY <1>4
<1> QED
  BY <1>5

FoldSteps(f, n, text, order) ==
  f[0] = text /\ \A i \in 1 .. n : f[i] = Replaced(f[i - 1], order[i])

LEMMA FoldIs ==
  ASSUME NEW text, NEW order, NEW n \in Nat, DOMAIN order = 1 .. n
  PROVE  \E f : FoldLeft(Replaced, text, order) = f[n] /\ FoldSteps(f, n, text, order)
<1> DEFINE D == 1 .. n
           Step(g, s) == IF s = {} THEN text ELSE Replaced(g[s \ {Max(s)}], order[Max(s)])
           IsIt(g) == g = [s \in SUBSET D |-> Step(g, s)]
           fold == CHOOSE g : IsIt(g)
<1>1. FoldLeft(Replaced, text, order) = fold[D]
  BY DEF FoldLeft, MapThenFoldSet
<1>2. IsIt(fold)
  <2>1. PICK g : Folds(n, text, order, g)
    BY FoldsExist
  <2> DEFINE h == [s \in SUBSET D |-> g[s]]
  <2>2. \A s \in SUBSET D : h[s] = g[s]
    OBVIOUS
  <2>3. \A s \in SUBSET D : h[s] = Step(h, s)
    <3>1. \A s \in SUBSET D : s \ {Max(s)} \in SUBSET D
      OBVIOUS
    <3>2. \A s \in SUBSET D : g[s] = Step(g, s)
      BY <2>1 DEF Folds
    <3> HIDE DEF h, D
    <3> QED
      BY <2>2, <3>1, <3>2
  <2>4. h = [s \in SUBSET D |-> h[s]]
    OBVIOUS
  <2>5. IsIt(h)
    <3> HIDE DEF h, D, Step
    <3> QED
      BY <2>3, <2>4
  <2> HIDE DEF IsIt, h
  <2> QED
    BY <2>5
<1> HIDE DEF fold
<1>3. \A s \in SUBSET D : fold[s] = Step(fold, s)
  <2> HIDE DEF Step, D
  <2> QED
    BY <1>2
<1> DEFINE f == [i \in 0 .. n |-> fold[1 .. i]]
<1>4. \A i \in 0 .. n : f[i] = fold[1 .. i]
  OBVIOUS
<1>5. f[0] = text
  <2>1. 1 .. 0 = {} /\ 0 \in 0 .. n /\ {} \in SUBSET D
    OBVIOUS
  <2> HIDE DEF f, D
  <2> QED
    BY <1>3, <1>4, <2>1
<1>6. ASSUME NEW i \in 1 .. n PROVE f[i] = Replaced(f[i - 1], order[i])
  <2>1. i \in 0 .. n /\ i - 1 \in 0 .. n /\ 1 .. i \in SUBSET D /\ 1 .. i # {} /\ i \in 1 .. i
    <3>1. \A j \in 1 .. i : j \in D
      OBVIOUS
    <3>2. i \in 0 .. n /\ i - 1 \in 0 .. n /\ i \in 1 .. i
      OBVIOUS
    <3> QED
      BY <3>1, <3>2
  <2>2. Max(1 .. i) = i
    <3>0. 1 .. i \in SUBSET (1 .. i) /\ i \in Nat
      OBVIOUS
    <3>1. Max(1 .. i) \in 1 .. i /\ i <= Max(1 .. i)
      BY <2>1, <3>0, MaxIs
    <3> QED
      BY <3>1
  <2>3. (1 .. i) \ {i} = 1 .. i - 1
    OBVIOUS
  <2>4. fold[1 .. i] = Replaced(fold[1 .. i - 1], order[i])
    <3> HIDE DEF D
    <3>1. fold[1 .. i] = Step(fold, 1 .. i)
      BY <1>3, <2>1
    <3> QED
      BY <2>1, <2>2, <2>3, <3>1
  <2> HIDE DEF f
  <2> QED
    BY <1>4, <2>1, <2>4
<1>7. f[n] = fold[D]
  <2>1. n \in 0 .. n
    OBVIOUS
  <2> HIDE DEF f
  <2> QED
    BY <1>4, <2>1
<1> HIDE DEF f
<1> QED
  BY <1>1, <1>5, <1>6, <1>7 DEF FoldSteps

\* An order of a set holds each of its elements.
LEMMA OrdersCover ==
  ASSUME NEW L, IsFiniteSet(L), NEW order \in SetToSeqs(L)
  PROVE  \E n \in Nat : /\ DOMAIN order = 1 .. n /\ \A i \in 1 .. n : order[i] \in L
                        /\ \A v \in L : \E i \in 1 .. n : order[i] = v
                        /\ \A i, j \in 1 .. n : i # j => order[i] # order[j]
<1> DEFINE n == Cardinality(L)
           D == 1 .. n
<1>1. n \in Nat
  BY FS_CardinalityType
<1>2. IsFiniteSet(D) /\ Cardinality(D) = n
  <2>1. 1 \in Int /\ n \in Int /\ (1 > n => n = 0)
    BY <1>1
  <2>2. IsFiniteSet(1 .. n) /\ Cardinality(1 .. n) = IF 1 > n THEN 0 ELSE n - 1 + 1
    BY <2>1, FS_Interval
  <2> QED
    BY <1>1, <2>1, <2>2
<1>3. order \in [D -> L] /\ \A i, j \in D : i # j => order[i] # order[j]
  BY DEF SetToSeqs
<1>4. order \in Injection(D, L)
  BY <1>3 DEF Injection, IsInjective
<1>5. order \in Surjection(D, L)
  <2> HIDE DEF D
  <2> QED
    BY <1>2, <1>4, FS_Injection
<1>6. \A v \in L : \E i \in D : order[i] = v
  BY <1>5 DEF Surjection
<1> QED
  BY <1>1, <1>3, <1>6

\* After all replacements nothing that was looked for is left, in any order.
LEMMA FoldHides ==
  ASSUME NEW S, NEW text \in Seq(S), Mask \in S, NEW R, NEW L \in SUBSET (Seq(R) \ {<<>>}),
         IsFiniteSet(L), NEW order \in SetToSeqs(L)
  PROVE  /\ FoldLeft(Replaced, text, order) \in Seq(S)
         /\ \A v \in L : Maskless(v) => ~ Occurs(v, FoldLeft(Replaced, text, order))
<1>1. PICK n \in Nat : /\ DOMAIN order = 1 .. n /\ \A i \in 1 .. n : order[i] \in L
                       /\ \A v \in L : \E i \in 1 .. n : order[i] = v
  BY OrdersCover
<1>0. PICK f : FoldLeft(Replaced, text, order) = f[n] /\ FoldSteps(f, n, text, order)
  BY <1>1, FoldIs
<1>2. /\ FoldLeft(Replaced, text, order) = f[n]
      /\ f[0] = text
      /\ \A i \in 1 .. n : f[i] = Replaced(f[i - 1], order[i])
  BY <1>0 DEF FoldSteps
<1> DEFINE Gone(i) == \A v \in Seq(R) : Maskless(v) /\ Occurs(v, f[i]) => \A j \in 1 .. i : v # order[j]
           T == {i \in Nat : i <= n => f[i] \in Seq(S) /\ Gone(i)}
<1>3. 0 \in T
  <2>1. 1 .. 0 = {}
    OBVIOUS
  <2> QED
    BY <1>2, <2>1
<1>4. ASSUME NEW i \in T PROVE i + 1 \in T
  <2>1. i \in Nat /\ i + 1 \in Nat
    OBVIOUS
  <2> SUFFICES ASSUME i + 1 <= n PROVE f[i + 1] \in Seq(S) /\ Gone(i + 1)
    BY <2>1
  <2>2. i <= n /\ i + 1 \in 1 .. n /\ (i + 1) - 1 = i /\ \A j \in 1 .. i + 1 : j = i + 1 \/ j \in 1 .. i
    BY <2>1
  <2>3. f[i] \in Seq(S) /\ Gone(i)
    BY <2>2
  <2> DEFINE old == f[i]
             s == order[i + 1]
             new == f[i + 1]
  <2>4. new = Replaced(old, s) /\ s \in Seq(R) /\ s # <<>>
    BY <1>1, <1>2, <2>2
  <2>5. old \in Seq(S)
    BY <2>3
  <2> HIDE DEF old, s, new
  <2>6. /\ new \in Seq(S)
        /\ \A v \in Seq(R) : Maskless(v) /\ Occurs(v, new) => Occurs(v, old) /\ v # s
    BY <2>4, <2>5, ReplacedHides
  <2>7. ASSUME NEW v \in Seq(R), Maskless(v), Occurs(v, new), NEW j \in 1 .. i + 1 PROVE v # order[j]
    <3>1. Occurs(v, f[i]) /\ v # order[i + 1]
      BY <2>6, <2>7 DEF old, s
    <3>2. \A k \in 1 .. i : v # order[k]
      BY <2>3, <2>7, <3>1
    <3> QED
      BY <2>2, <3>1, <3>2
  <2> QED
    BY <2>6, <2>7 DEF new
<1>5. n \in T
  <2>1. T \in SUBSET Nat
    OBVIOUS
  <2>2. Nat \subseteq T
    <3> HIDE DEF T
    <3> QED
      BY <1>3, <1>4, <2>1, Counting
  <2> QED
    BY <2>2
<1>6. f[n] \in Seq(S) /\ Gone(n)
  BY <1>5
<1>7. ASSUME NEW v \in L, Maskless(v) PROVE ~ Occurs(v, f[n])
  <2>1. v \in Seq(R) /\ \E j \in 1 .. n : order[j] = v
    BY <1>1
  <2> QED
    BY <1>6, <1>7, <2>1
<1> QED
  BY <1>2, <1>6, <1>7

\* What trimming leaves.
LEMMA TrimIs ==
  ASSUME NEW R, NEW v \in Seq(R)
  PROVE  /\ Trim(v) \in Seq(R)
         /\ \A q \in 1 .. Len(Trim(v)) : \E i \in 1 .. Len(v) : Trim(v)[q] = v[i]
<1> DEFINE ink == {i \in DOMAIN v : v[i] # Blank}
<1>1. Len(v) \in Nat /\ DOMAIN v = 1 .. Len(v)
  OBVIOUS
<1>2. CASE ink = {}
  <2>1. Trim(v) = <<>>
    BY <1>2 DEF Trim
  <2>2. Trim(v) \in Seq(R) /\ Len(Trim(v)) = 0
    BY ONLY <2>1
  <2> QED
    BY <2>2
<1>3. CASE ink # {}
  <2>1. ink \in SUBSET (1 .. Len(v))
    BY <1>1
  <2>2. Trim(v) = SubSeq(v, Min(ink), Max(ink))
    BY <1>3 DEF Trim
  <2> HIDE DEF ink
  <2>3. Min(ink) \in ink /\ Max(ink) \in ink /\ \A y \in ink : Min(ink) <= y /\ y <= Max(ink)
    BY <1>1, <1>3, <2>1, MinMax
  <2> DEFINE a == Min(ink)
             b == Max(ink)
  <2>4. a \in 1 .. Len(v) /\ b \in 1 .. Len(v) /\ a <= b
    BY <2>1, <2>3
  <2> HIDE DEF a, b
  <2>5. /\ SubSeq(v, a, b) \in Seq(R) /\ Len(SubSeq(v, a, b)) = b - a + 1
        /\ \A q \in 1 .. b - a + 1 : SubSeq(v, a, b)[q] = v[a + q - 1]
    BY <1>1, <2>4
  <2>6. \A q \in 1 .. b - a + 1 : a + q - 1 \in 1 .. Len(v)
    BY <1>1, <2>4
  <2> QED
    BY <2>2, <2>5, <2>6 DEF a, b
<1> QED
  BY <1>2, <1>3

\* No value has the mask in it.
NoMaskIn(values) == \A v \in values : \A i \in 1 .. Len(v) : v[i] # Mask

\* What is looked for.
LEMMA LiteralsAre ==
  ASSUME NEW R, NEW values \in SUBSET Seq(R), IsFiniteSet(values)
  PROVE  /\ IsFiniteSet(Literals(values)) /\ Literals(values) \in SUBSET (Seq(R) \ {<<>>})
         /\ NoMaskIn(values) => \A v \in Literals(values) : Maskless(v)
<1> DEFINE trimmed == {Trim(v) : v \in values}
<1>1. IsFiniteSet(trimmed)
  <2> DEFINE t == [v \in values |-> Trim(v)]
  <2>1. t \in Surjection(values, trimmed)
    BY DEF Surjection
  <2> QED
    BY <2>1, FS_Surjection
<1>2. ASSUME NEW u \in Literals(values)
      PROVE  /\ u \in trimmed /\ u \in Seq(R) /\ u # <<>>
             /\ NoMaskIn(values) => Maskless(u)
  <2>1. u \in trimmed /\ Len(u) >= MinLength
    BY DEF Literals
  <2>2. PICK v \in values : u = Trim(v)
    BY <2>1
  <2>3. u \in Seq(R) /\ \A q \in 1 .. Len(u) : \E i \in 1 .. Len(v) : u[q] = v[i]
    BY <2>2, TrimIs
  <2>4. u # <<>>
    <3>1. MinLength \in Nat /\ MinLength # 0
      BY ScrubberAssumption
    <3>2. Len(<<>>) = 0
      OBVIOUS
    <3> QED
      BY <2>1, <3>1, <3>2
  <2>5. NoMaskIn(values) => Maskless(u)
    BY <2>3, <2>4 DEF NoMaskIn, Maskless
  <2> QED
    BY <2>1, <2>3, <2>4, <2>5
<1>3. Literals(values) \subseteq trimmed
  BY <1>2
<1>4. IsFiniteSet(Literals(values))
  <2> HIDE DEF trimmed
  <2> QED
    BY <1>1, <1>3, FS_Subset
<1> QED
  BY <1>2, <1>4

\* What scrub_output leaves, in whatever order the values come.
LEMMA ScrubbingHides ==
  ASSUME NEW S, NEW text \in Seq(S), Mask \in S, NEW R, NEW values \in SUBSET Seq(R),
         IsFiniteSet(values), NEW new \in ScrubOutputs(text, values)
  PROVE  /\ new \in Seq(S)
         /\ NoMaskIn(values) => \A v \in Literals(values) : ~ Occurs(v, new)
<1> DEFINE L == Literals(values)
<1>1. IsFiniteSet(L) /\ L \in SUBSET (Seq(R) \ {<<>>})
  BY LiteralsAre
<1>2. NoMaskIn(values) => \A v \in L : Maskless(v)
  BY LiteralsAre
<1>3. PICK order \in SetToSeqs(L) : new = ScrubFormats(FoldLeft(Replaced, text, order))
  BY DEF ScrubOutputs
<1> HIDE DEF L
<1> DEFINE t == FoldLeft(Replaced, text, order)
<1>4. t \in Seq(S) /\ \A v \in L : Maskless(v) => ~ Occurs(v, t)
  BY <1>1, FoldHides
<1>5. new = ScrubFormats(t)
  BY <1>3
<1> HIDE DEF t
<1>6. /\ new \in Seq(S)
      /\ \A v \in Seq(R) : Maskless(v) /\ Occurs(v, new) => Occurs(v, t)
  BY <1>4, <1>5, FormatsHide
<1>7. NoMaskIn(values) => \A v \in L : ~ Occurs(v, new)
  BY <1>1, <1>2, <1>4, <1>6
<1> QED
  BY <1>6, <1>7 DEF L

-----------------------------------------------------------------------------
(* What is masked and nothing else.  Of values that are apart each masking     *)
(* leaves the others where they are, so that in the end each place of a text   *)
(* that a value covers is behind a mask, and each other one is as it was.      *)

-----------------------------------------------------------------------------
(* Values that do not overlap.                                             *)

\* The value v is in a text, from place j on.
Begins(text, v, j) == j \in Nat /\ j >= 1 /\ j + Len(v) - 1 <= Len(text) /\ OccursAt(v, text, j)

LEMMA BeginsIs ==
  ASSUME NEW S, NEW text \in Seq(S), NEW R, NEW v \in Seq(R), v # <<>>, NEW j \in Nat, j >= 1
  PROVE  Begins(text, v, j) <=> j + Len(v) - 1 <= Len(text) /\ Found(v, text, j)
<1>1. Len(text) \in Nat /\ Len(v) \in Nat /\ Len(v) # 0
  OBVIOUS
<1>2. CASE j + Len(v) - 1 <= Len(text)
  <2>1. j \in 1 .. Len(text) - Len(v) + 1
    BY <1>1, <1>2
  <2>2. OccursAt(v, text, j) <=> \A q \in 1 .. Len(v) : text[j + q - 1] = v[q]
    BY <2>1, OccursAtIs
  <2> QED
    BY <1>2, <2>2 DEF Begins, Found
<1>3. CASE ~ (j + Len(v) - 1 <= Len(text))
  BY <1>3 DEF Begins
<1> QED
  BY <1>2, <1>3

LEMMA CoveredIs ==
  ASSUME NEW S, NEW text \in Seq(S), NEW R, NEW V \in SUBSET Seq(R), NEW p \in Nat
  PROVE  Covered(text, V, p) <=>
           \E v \in V : \E j \in Nat : Begins(text, v, j) /\ j <= p /\ p <= j + Len(v) - 1
<1>1. ASSUME NEW v \in V, NEW j
      PROVE  (j \in p - Len(v) + 1 .. p /\ j >= 1) <=> (j \in Nat /\ j >= 1 /\ j <= p /\ p <= j + Len(v) - 1)
  <2>1. Len(v) \in Nat
    OBVIOUS
  <2> QED
    BY <2>1
<1>2. ASSUME Covered(text, V, p)
      PROVE  \E v \in V : \E j \in Nat : Begins(text, v, j) /\ j <= p /\ p <= j + Len(v) - 1
  <2>1. PICK v \in V : \E j \in p - Len(v) + 1 .. p :
                         j >= 1 /\ j + Len(v) - 1 <= Len(text) /\ OccursAt(v, text, j)
    BY <1>2 DEF Covered
  <2>2. PICK j \in p - Len(v) + 1 .. p :
          j >= 1 /\ j + Len(v) - 1 <= Len(text) /\ OccursAt(v, text, j)
    BY <2>1
  <2>3. j \in Nat /\ j >= 1 /\ j <= p /\ p <= j + Len(v) - 1
    BY <1>1, <2>2
  <2> QED
    BY <2>2, <2>3 DEF Begins
<1>3. ASSUME NEW v \in V, NEW j \in Nat, Begins(text, v, j), j <= p, p <= j + Len(v) - 1
      PROVE  Covered(text, V, p)
  <2>1. j >= 1 /\ j + Len(v) - 1 <= Len(text) /\ OccursAt(v, text, j)
    BY <1>3 DEF Begins
  <2>2. j \in p - Len(v) + 1 .. p
    BY <1>1, <1>3, <2>1
  <2> QED
    BY <2>1, <2>2 DEF Covered
<1> QED
  BY <1>2, <1>3

\* Two values that are apart share no place of a text, nor does one with itself.
LEMMA SharedFromLeft ==
  ASSUME NEW S, NEW text \in Seq(S), NEW R, NEW L \in SUBSET (Seq(R) \ {<<>>}), Apart(L),
         NEW v \in L, NEW w \in L, NEW j \in Nat, NEW k \in Nat,
         Begins(text, v, j), Begins(text, w, k), j <= k, k <= j + Len(v) - 1
  PROVE  v = w /\ j = k
<1> DEFINE m == Len(v)
           l == Len(w)
           d == k - j
<1>1. /\ m \in Nat /\ m # 0 /\ l \in Nat /\ l # 0 /\ d \in Nat /\ d < m /\ k = j + d
      /\ j >= 1 /\ k >= 1 /\ v \in Seq(R) /\ w \in Seq(R)
  <2>1. v \in Seq(R) /\ w \in Seq(R) /\ v # <<>> /\ w # <<>>
    OBVIOUS
  <2>2. Len(v) \in Nat /\ Len(v) # 0 /\ Len(w) \in Nat /\ Len(w) # 0
    BY <2>1
  <2> QED
    BY <2>1, <2>2 DEF Begins
<1>2. /\ \A q \in 1 .. m : text[j + q - 1] = v[q]
      /\ \A q \in 1 .. l : text[k + q - 1] = w[q]
  <2>1. v # <<>> /\ w # <<>>
    OBVIOUS
  <2>2. Found(v, text, j) /\ Found(w, text, k)
    BY <1>1, <2>1, BeginsIs
  <2> QED
    BY <2>2 DEF Found
<1> HIDE DEF m, l, d
<1>3. ASSUME NEW q \in 1 .. l, d + q <= m PROVE v[d + q] = w[q]
  <2>1. d + q \in 1 .. m /\ j + (d + q) - 1 = k + q - 1
    BY <1>1, <1>3
  <2>2. text[j + (d + q) - 1] = v[d + q] /\ text[k + q - 1] = w[q]
    BY <1>2, <2>1
  <2> QED
    BY <2>1, <2>2
<1>4. CASE l + d <= m
  <2>1. d + 1 \in 1 .. m - l + 1
    BY <1>1, <1>4
  <2>2. Found(w, v, d + 1)
    <3>1. ASSUME NEW q \in 1 .. l PROVE v[(d + 1) + q - 1] = w[q]
      <4>1. d + q <= m /\ (d + 1) + q - 1 = d + q
        BY <1>1, <1>4
      <4> QED
        BY <1>3, <4>1
    <3> QED
      BY <3>1 DEF Found, l
  <2>3. Occurs(w, v)
    BY <1>1, <2>1, <2>2, OccursIs DEF m, l
  <2>4. v = w
    BY <2>3 DEF Apart
  <2>5. m = l
    BY <2>4 DEF m, l
  <2>6. d = 0
    BY <1>1, <1>4, <2>5
  <2> QED
    BY <1>1, <2>4, <2>6
<1>5. CASE ~ (l + d <= m) /\ d = 0
  <2>1. 1 \in 1 .. l - m + 1
    BY <1>1, <1>5
  <2>2. Found(v, w, 1)
    <3>1. ASSUME NEW q \in 1 .. m PROVE w[1 + q - 1] = v[q]
      <4>1. q \in 1 .. l /\ d + q = q /\ q <= m /\ 1 + q - 1 = q
        BY <1>1, <1>5
      <4> QED
        BY <1>3, <4>1
    <3> QED
      BY <3>1 DEF Found, m
  <2>3. Occurs(v, w)
    BY <1>1, <2>1, <2>2, OccursIs DEF m, l
  <2>4. v = w
    BY <2>3 DEF Apart
  <2>5. m = l
    BY <2>4 DEF m, l
  <2> QED
    BY <1>1, <1>5, <2>5
<1>6. CASE ~ (l + d <= m) /\ d # 0
  <2> DEFINE n == m - d
             x == SubSeq(v, m - n + 1, m)
             y == SubSeq(w, 1, n)
  <2>1. n \in 1 .. m - 1 /\ n < l /\ n \in Nat /\ m - n + 1 = d + 1 /\ n \in 1 .. l
    BY <1>1, <1>6
  <2>2. x # y
    BY <2>1 DEF Apart, m, l
  <2>3. x = SubSeq(v, d + 1, m)
    BY <2>1
  <2>4. d + 1 \in 1 .. m /\ m \in 1 .. m /\ 1 \in 1 .. l /\ 1 <= n /\ d + 1 <= m
    BY <1>1, <2>1
  <2>5. d + 1 \in DOMAIN v /\ m \in DOMAIN v /\ 1 \in DOMAIN w /\ n \in DOMAIN w
    BY <1>1, <2>1, <2>4 DEF m, l
  <2> HIDE DEF n, x, y
  <2>6. /\ x \in Seq(R) /\ Len(x) = m - (d + 1) + 1
        /\ \A q \in 1 .. m - (d + 1) + 1 : x[q] = v[(d + 1) + q - 1]
    <3> DEFINE a == d + 1
    <3>1. v \in Seq(R) /\ a \in DOMAIN v /\ m \in DOMAIN v /\ a <= m
      BY <1>1, <2>4, <2>5
    <3> HIDE DEF a
    <3>2. /\ SubSeq(v, a, m) \in Seq(R) /\ Len(SubSeq(v, a, m)) = m - a + 1
          /\ \A q \in 1 .. m - a + 1 : SubSeq(v, a, m)[q] = v[a + q - 1]
      BY ONLY <3>1, Slice
    <3> QED
      BY <2>3, <3>2 DEF a
  <2>7. /\ y \in Seq(R) /\ Len(y) = n - 1 + 1
        /\ \A q \in 1 .. n - 1 + 1 : y[q] = w[1 + q - 1]
    <3> DEFINE a == 1
    <3>1. w \in Seq(R) /\ a \in DOMAIN w /\ n \in DOMAIN w /\ a <= n
      BY <1>1, <2>4, <2>5
    <3> HIDE DEF a
    <3>2. /\ SubSeq(w, a, n) \in Seq(R) /\ Len(SubSeq(w, a, n)) = n - a + 1
          /\ \A q \in 1 .. n - a + 1 : SubSeq(w, a, n)[q] = w[a + q - 1]
      BY ONLY <3>1, Slice
    <3> QED
      BY <3>2 DEF a, y
  <2>8. m - (d + 1) + 1 = n /\ n - 1 + 1 = n
    BY <1>1, <2>1 DEF n
  <2>9. ASSUME NEW q \in 1 .. n PROVE x[q] = y[q]
    <3>1. /\ q \in 1 .. l /\ d + q <= m /\ (d + 1) + q - 1 = d + q /\ 1 + q - 1 = q
          /\ q \in 1 .. m - (d + 1) + 1 /\ q \in 1 .. n - 1 + 1
      BY <1>1, <2>1, <2>8
    <3>2. x[q] = v[d + q]
      BY <2>6, <3>1
    <3>3. y[q] = w[q]
      BY <2>7, <3>1
    <3> QED
      BY <1>3, <3>1, <3>2, <3>3
  <2>10. x = y
    <3>1. x \in Seq(R) /\ y \in Seq(R) /\ Len(x) = n /\ Len(y) = n
      BY <2>6, <2>7, <2>8
    <3> QED
      BY <2>1, <2>9, <3>1, SameSequence
  <2> QED
    BY <2>2, <2>10
<1> QED
  BY <1>4, <1>5, <1>6

LEMMA SharedPlace ==
  ASSUME NEW S, NEW text \in Seq(S), NEW R, NEW L \in SUBSET (Seq(R) \ {<<>>}), Apart(L),
         NEW v \in L, NEW w \in L, NEW j \in Nat, NEW k \in Nat, NEW p \in Nat,
         Begins(text, v, j), Begins(text, w, k),
         j <= p, p <= j + Len(v) - 1, k <= p, p <= k + Len(w) - 1
  PROVE  v = w /\ j = k
<1>1. Len(v) \in Nat /\ Len(w) \in Nat
  <2>1. v \in Seq(R) /\ w \in Seq(R)
    OBVIOUS
  <2> QED
    BY <2>1
<1>2. CASE j <= k
  <2>1. k <= j + Len(v) - 1
    BY <1>1
  <2> QED
    BY <1>2, <2>1, SharedFromLeft
<1>3. CASE k <= j
  <2>1. j <= k + Len(w) - 1
    BY <1>1
  <2>2. w = v /\ k = j
    BY <1>3, <2>1, SharedFromLeft
  <2> QED
    BY <2>2
<1> QED
  BY <1>2, <1>3

\* The character c stands for the places of a text from a to before b: for itself, if no
\* value covers it, or as a mask.
StandsFor(text, V, c, a, b) ==
  /\ a < b
  /\ \/ c = Mask /\ \A p \in a .. b - 1 : Covered(text, V, p)
     \/ b = a + 1 /\ c = text[a] /\ c # Mask /\ ~ Covered(text, V, a)

\* Each character of t stands for the next places of a text, from place a on.
Shows(text, V, t, pos, a) ==
  /\ pos[1] = a /\ pos[Len(t) + 1] = Len(text) + 1
  /\ \A k \in 1 .. Len(t) + 1 : pos[k] \in 1 .. Len(text) + 1
  /\ \A k \in 1 .. Len(t) : StandsFor(text, V, t[k], pos[k], pos[k + 1])

LEMMA ShowsNothing ==
  ASSUME NEW text, NEW V, Len(text) \in Nat
  PROVE  \E pos : Shows(text, V, <<>>, pos, Len(text) + 1)
<1> DEFINE pos == [k \in {1} |-> Len(text) + 1]
           e == <<>>
<1>1. Len(e) = 0 /\ 0 + 1 = 1 /\ 1 .. 0 = {} /\ 1 .. 1 = {1}
  OBVIOUS
<1>2. pos[1] = Len(text) + 1 /\ Len(text) + 1 \in 1 .. Len(text) + 1
  OBVIOUS
<1> HIDE DEF pos, e
<1>3. Shows(text, V, e, pos, Len(text) + 1)
  BY <1>1, <1>2 DEF Shows
<1> QED
  BY <1>3 DEF e

LEMMA ShowsOneMore ==
  ASSUME NEW text, NEW V, Len(text) \in Nat, NEW S, NEW t \in Seq(S), NEW c \in S,
         NEW a \in 1 .. Len(text) + 1, NEW b, StandsFor(text, V, c, a, b),
         \E pos : Shows(text, V, t, pos, b)
  PROVE  \E pos : Shows(text, V, <<c>> \o t, pos, a)
<1>1. PICK old : Shows(text, V, t, old, b)
  OBVIOUS
<1> DEFINE u == <<c>> \o t
           n == Len(t)
           pos == [k \in 1 .. n + 2 |-> IF k = 1 THEN a ELSE old[k - 1]]
<1>2. n \in Nat /\ u \in Seq(S) /\ Len(u) = n + 1 /\ u[1] = c /\ \A k \in 1 .. n : u[k + 1] = t[k]
  BY Prepended
<1>3. pos[1] = a /\ \A k \in 1 .. n + 1 : pos[k + 1] = old[k]
  <2>1. 1 \in 1 .. n + 2
    BY <1>2
  <2>2. \A k \in 1 .. n + 1 : k + 1 \in 1 .. n + 2 /\ k + 1 # 1 /\ (k + 1) - 1 = k
    BY <1>2
  <2> HIDE DEF n
  <2> QED
    BY <2>1, <2>2
<1> HIDE DEF u, pos, n
<1>4. /\ old[1] = b /\ old[n + 1] = Len(text) + 1
      /\ \A k \in 1 .. n + 1 : old[k] \in 1 .. Len(text) + 1
      /\ \A k \in 1 .. n : StandsFor(text, V, t[k], old[k], old[k + 1])
  BY <1>1 DEF Shows, n
<1>5. ASSUME NEW k \in 1 .. n + 1 PROVE k = 1 \/ (k - 1 \in 1 .. n /\ (k - 1) + 1 = k)
  BY <1>2
<1>6. pos[(n + 1) + 1] = Len(text) + 1
  <2>1. n + 1 \in 1 .. n + 1
    BY <1>2
  <2> QED
    BY <1>3, <1>4, <2>1
<1>7. ASSUME NEW k \in 1 .. (n + 1) + 1 PROVE pos[k] \in 1 .. Len(text) + 1
  <2>1. k = 1 \/ (k - 1 \in 1 .. n + 1 /\ (k - 1) + 1 = k)
    BY <1>2
  <2> QED
    BY <1>3, <1>4, <2>1
<1>8. ASSUME NEW k \in 1 .. n + 1 PROVE StandsFor(text, V, u[k], pos[k], pos[k + 1])
  <2>1. CASE k = 1
    <3>1. 1 \in 1 .. n + 1
      BY <1>2
    <3>2. pos[1 + 1] = b
      BY <1>3, <1>4, <3>1
    <3> QED
      BY <1>2, <1>3, <2>1, <3>2
  <2>2. CASE k # 1
    <3>1. k - 1 \in 1 .. n /\ (k - 1) + 1 = k
      BY <1>5, <2>2
    <3>2. u[k] = t[k - 1]
      BY <1>2, <3>1
    <3>3. pos[k] = old[k - 1] /\ pos[k + 1] = old[(k - 1) + 1]
      <4>1. k - 1 \in 1 .. n + 1
        BY <1>2, <3>1
      <4> QED
        BY <1>3, <3>1, <4>1
    <3> QED
      BY <1>4, <3>1, <3>2, <3>3
  <2> QED
    BY <2>1, <2>2
<1>9. Shows(text, V, u, pos, a)
  BY <1>2, <1>3, <1>6, <1>7, <1>8 DEF Shows
<1> QED
  BY <1>9 DEF u

\* Places that follow each other.
LEMMA Stretch ==
  ASSUME NEW pos, NEW i \in Nat, NEW m \in Nat, pos[i] \in Nat,
         \A k \in 0 .. m - 1 : pos[i + k] = pos[i] + k => pos[i + k + 1] = pos[i + k] + 1
  PROVE  \A k \in 0 .. m : pos[i + k] = pos[i] + k
<1> DEFINE T == {k \in Nat : k <= m => pos[i + k] = pos[i] + k}
<1>1. 0 \in T
  OBVIOUS
<1>2. ASSUME NEW k \in T PROVE k + 1 \in T
  <2>1. k \in Nat /\ k + 1 \in Nat
    OBVIOUS
  <2>2. ASSUME k + 1 <= m PROVE pos[i + (k + 1)] = pos[i] + (k + 1)
    <3>1. k <= m /\ k \in 0 .. m - 1 /\ i + (k + 1) = i + k + 1
      BY <2>1, <2>2
    <3>2. pos[i + k] = pos[i] + k
      BY <3>1
    <3>3. pos[i + k + 1] = pos[i + k] + 1
      BY <3>1, <3>2
    <3> QED
      BY <2>1, <3>1, <3>2, <3>3
  <2> QED
    BY <2>1, <2>2
<1>3. T \in SUBSET Nat
  OBVIOUS
<1>4. Nat \subseteq T
  <2> HIDE DEF T
  <2> QED
    BY <1>1, <1>2, <1>3, Counting
<1> QED
  BY <1>4

\* A text t in which the values V are replaced, and s is the next of the values L.
HalfMasked(S, R, text, L, V, s, t, pos) ==
  /\ text \in Seq(S) /\ t \in Seq(S)
  /\ L \in SUBSET (Seq(R) \ {<<>>}) /\ Apart(L)
  /\ V \subseteq L /\ s \in L /\ s \notin V /\ Maskless(s)
  /\ Shows(text, V, t, pos, 1)

\* Where s is in the text, no other value covers it.
LEMMA NotCovered ==
  ASSUME NEW S, NEW R, NEW text, NEW L, NEW V, NEW s, NEW t, NEW pos,
         HalfMasked(S, R, text, L, V, s, t, pos),
         NEW j \in Nat, Begins(text, s, j), NEW p \in Nat, j <= p, p <= j + Len(s) - 1
  PROVE  ~ Covered(text, V, p)
<1> SUFFICES ASSUME Covered(text, V, p) PROVE FALSE
  OBVIOUS
<1>1. /\ text \in Seq(S) /\ L \in SUBSET (Seq(R) \ {<<>>}) /\ Apart(L)
      /\ V \subseteq L /\ s \in L /\ s \notin V
  BY DEF HalfMasked
<1>2. V \in SUBSET Seq(R)
  BY <1>1
<1>3. PICK v \in V : \E k \in Nat : Begins(text, v, k) /\ k <= p /\ p <= k + Len(v) - 1
  BY <1>1, <1>2, CoveredIs
<1>4. PICK k \in Nat : Begins(text, v, k) /\ k <= p /\ p <= k + Len(v) - 1
  BY <1>3
<1>5. v \in L
  BY <1>1
<1>6. v = s
  BY <1>1, <1>4, <1>5, SharedPlace
<1> QED
  BY <1>1, <1>6

\* The value is found where it is in the text, and there all of it is still to be seen.
LEMMA StillThere ==
  ASSUME NEW S, NEW R, NEW text, NEW L, NEW V, NEW s, NEW t, NEW pos,
         HalfMasked(S, R, text, L, V, s, t, pos),
         NEW i \in 1 .. Len(t) + 1, Begins(text, s, pos[i])
  PROVE  i + Len(s) - 1 <= Len(t) /\ OccursAt(s, t, i)
<1> DEFINE m == Len(s)
           n == Len(t)
           N == Len(text)
           a == pos[i]
<1>1. /\ text \in Seq(S) /\ t \in Seq(S) /\ s \in Seq(R) /\ s # <<>> /\ Maskless(s)
      /\ Shows(text, V, t, pos, 1)
  BY DEF HalfMasked
<1>2. m \in Nat /\ m # 0 /\ n \in Nat /\ N \in Nat /\ i \in Nat
  BY <1>1
<1>3. a \in 1 .. N + 1 /\ a \in Nat /\ a >= 1
  BY <1>1, <1>2 DEF Shows
<1>4. a + m - 1 <= N /\ Found(s, text, a)
  BY <1>1, <1>3, BeginsIs
<1> HIDE DEF m, n, N, a
<1>5. ASSUME NEW k \in 0 .. m - 1, pos[i + k] = a + k, i + k <= n + 1
      PROVE  i + k \in 1 .. n /\ pos[i + k + 1] = pos[i + k] + 1 /\ t[i + k] = text[a + k]
  <2>1. a + k <= N /\ a + k \in Nat /\ k \in Nat /\ a <= a + k /\ a + k <= a + m - 1 /\ a + k \in a + k .. a + k
    BY <1>2, <1>3, <1>4
  <2>2. i + k # n + 1
    BY <1>1, <1>5, <2>1 DEF Shows, n, N
  <2>3. i + k \in 1 .. n
    BY <1>2, <1>5, <2>1, <2>2
  <2>4. StandsFor(text, V, t[i + k], a + k, pos[i + k + 1])
    BY <1>1, <1>5, <2>3 DEF Shows, n
  <2>5. ~ Covered(text, V, a + k)
    <3> DEFINE p == a + k
    <3>1. Begins(text, s, a) /\ p \in Nat /\ a <= p /\ p <= a + Len(s) - 1
      BY <2>1 DEF a, m
    <3> HIDE DEF p
    <3>2. ~ Covered(text, V, p)
      BY <1>3, <3>1, NotCovered
    <3> QED
      BY <3>2 DEF p
  <2>6. pos[i + k + 1] \in 1 .. N + 1
    <3>1. i + k + 1 \in 1 .. n + 1
      BY <1>2, <2>3
    <3> QED
      BY <1>1, <3>1 DEF Shows, n, N
  <2>7. a + k < pos[i + k + 1] => a + k \in a + k .. pos[i + k + 1] - 1
    BY <1>2, <2>1, <2>6
  <2> QED
    BY <1>5, <2>3, <2>4, <2>5, <2>7 DEF StandsFor
<1> DEFINE T == {k \in Nat : k <= m => pos[i + k] = a + k /\ i + k <= n + 1}
<1>6. 0 \in T
  BY <1>2, <1>3 DEF a, n
<1>7. ASSUME NEW k \in T PROVE k + 1 \in T
  <2>1. k \in Nat /\ k + 1 \in Nat
    OBVIOUS
  <2>2. ASSUME k + 1 <= m PROVE pos[i + (k + 1)] = a + (k + 1) /\ i + (k + 1) <= n + 1
    <3>1. k <= m /\ k \in 0 .. m - 1 /\ i + (k + 1) = i + k + 1
      BY <1>2, <2>1, <2>2
    <3>2. pos[i + k] = a + k /\ i + k <= n + 1
      BY <3>1
    <3>3. i + k \in 1 .. n /\ pos[i + k + 1] = pos[i + k] + 1
      BY <1>5, <3>1, <3>2
    <3> QED
      BY <1>2, <1>3, <2>1, <3>1, <3>2, <3>3
  <2> QED
    BY <2>1, <2>2
<1>8. \A k \in 0 .. m : pos[i + k] = a + k /\ i + k <= n + 1
  <2>1. T \in SUBSET Nat
    OBVIOUS
  <2>2. Nat \subseteq T
    <3> HIDE DEF T
    <3> QED
      BY <1>6, <1>7, <2>1, Counting
  <2>3. \A k \in 0 .. m : k \in Nat /\ k <= m
    BY <1>2
  <2> QED
    BY <2>2, <2>3
<1>9. i + m - 1 <= n
  <2>1. m \in 0 .. m
    BY <1>2
  <2>2. i + m <= n + 1
    BY <1>8, <2>1
  <2> QED
    BY <1>2, <2>2
<1>10. ASSUME NEW q \in 1 .. m PROVE t[i + q - 1] = s[q]
  <2>1. q - 1 \in 0 .. m - 1 /\ q - 1 \in 0 .. m /\ i + (q - 1) = i + q - 1 /\ a + (q - 1) = a + q - 1
    BY <1>2, <1>3
  <2>2. t[i + (q - 1)] = text[a + (q - 1)]
    BY <1>5, <1>8, <2>1
  <2>3. text[a + q - 1] = s[q]
    BY <1>4 DEF Found, m
  <2> QED
    BY <2>1, <2>2, <2>3
<1>11. i \in 1 .. Len(t) - Len(s) + 1
  BY <1>2, <1>9 DEF m, n
<1>12. OccursAt(s, t, i)
  BY <1>1, <1>10, <1>11, OccursAtIs DEF m
<1> QED
  BY <1>9, <1>12 DEF m, n

\* And it is found nowhere else.
LEMMA ReallyThere ==
  ASSUME NEW S, NEW R, NEW text, NEW L, NEW V, NEW s, NEW t, NEW pos,
         HalfMasked(S, R, text, L, V, s, t, pos),
         NEW i \in 1 .. Len(t), i + Len(s) - 1 <= Len(t), OccursAt(s, t, i)
  PROVE  Begins(text, s, pos[i]) /\ pos[i + Len(s)] = pos[i] + Len(s)
<1> DEFINE m == Len(s)
           n == Len(t)
           N == Len(text)
           a == pos[i]
<1>1. /\ text \in Seq(S) /\ t \in Seq(S) /\ s \in Seq(R) /\ s # <<>> /\ Maskless(s)
      /\ Shows(text, V, t, pos, 1)
  BY DEF HalfMasked
<1>2. m \in Nat /\ m # 0 /\ n \in Nat /\ N \in Nat /\ i \in Nat
  BY <1>1
<1>3. a \in 1 .. N + 1 /\ a \in Nat /\ a >= 1
  <2>1. i \in 1 .. n + 1
    BY <1>2
  <2> QED
    BY <1>1, <1>2, <2>1 DEF Shows
<1>4. \A q \in 1 .. m : t[i + q - 1] = s[q]
  <2>1. i \in 1 .. Len(t) - Len(s) + 1
    BY <1>2
  <2> QED
    BY <1>1, <2>1, OccursAtIs
<1> HIDE DEF m, n, N, a
<1>5. ASSUME NEW k \in 0 .. m - 1, pos[i + k] = a + k
      PROVE  pos[i + k + 1] = pos[i + k] + 1 /\ t[i + k] = text[a + k]
  <2>1. k + 1 \in 1 .. m /\ i + (k + 1) - 1 = i + k /\ i + k \in 1 .. n
    BY <1>2 DEF m, n
  <2>2. t[i + k] = s[k + 1] /\ s[k + 1] # Mask
    BY <1>1, <1>4, <2>1 DEF Maskless, m
  <2>3. StandsFor(text, V, t[i + k], a + k, pos[i + k + 1])
    BY <1>1, <1>5, <2>1 DEF Shows, n
  <2> QED
    BY <1>5, <2>2, <2>3 DEF StandsFor
<1>6. \A k \in 0 .. m : pos[i + k] = a + k
  <2>1. pos[i] \in Nat /\ pos[i] = a
    BY <1>3 DEF a
  <2>2. \A k \in 0 .. m - 1 : pos[i + k] = pos[i] + k => pos[i + k + 1] = pos[i + k] + 1
    BY <1>5, <2>1
  <2>3. \A k \in 0 .. m : pos[i + k] = pos[i] + k
    BY <1>2, <2>1, <2>2, Stretch
  <2> QED
    BY <2>1, <2>3
<1>7. pos[i + m] = a + m
  <2>1. m \in 0 .. m
    BY <1>2
  <2> QED
    BY <1>6, <2>1
<1>8. a + m - 1 <= N
  <2>1. i + m \in 1 .. n + 1
    BY <1>2 DEF m, n
  <2>2. pos[i + m] \in 1 .. N + 1
    BY <1>1, <2>1 DEF Shows, n, N
  <2> QED
    BY <1>2, <1>3, <1>7, <2>2
<1>9. ASSUME NEW q \in 1 .. m PROVE text[a + q - 1] = s[q]
  <2>1. q - 1 \in 0 .. m - 1 /\ q - 1 \in 0 .. m /\ i + (q - 1) = i + q - 1 /\ a + (q - 1) = a + q - 1
    BY <1>2, <1>3
  <2>2. t[i + (q - 1)] = text[a + (q - 1)]
    BY <1>5, <1>6, <2>1
  <2> QED
    BY <1>4, <2>1, <2>2
<1>10. Found(s, text, a)
  BY <1>9 DEF Found, m
<1>11. Begins(text, s, a)
  BY <1>1, <1>3, <1>8, <1>10, BeginsIs DEF m, N
<1> QED
  BY <1>7, <1>11 DEF a, m

\* One replacement more: a text in which s is masked too.
LEMMA MaskedOneMore ==
  ASSUME NEW S, NEW R, NEW text, NEW L, NEW V, NEW s, NEW t, NEW pos,
         HalfMasked(S, R, text, L, V, s, t, pos), Mask \in S
  PROVE  /\ Replaced(t, s) \in Seq(S)
         /\ \E new : Shows(text, V \cup {s}, Replaced(t, s), new, 1)
<1> DEFINE m == Len(s)
           n == Len(t)
           N == Len(text)
           W == V \cup {s}
<1>1. /\ text \in Seq(S) /\ t \in Seq(S) /\ s \in Seq(R) /\ s # <<>> /\ Maskless(s)
      /\ L \in SUBSET (Seq(R) \ {<<>>}) /\ Apart(L) /\ s \in L /\ V \subseteq L
      /\ Shows(text, V, t, pos, 1)
  BY DEF HalfMasked
<1>2. m \in Nat /\ m # 0 /\ n \in Nat /\ N \in Nat
  BY <1>1
<1>3. PICK f : Replaced(t, s) = f[1] /\ Replaces(t, s, f) /\ Rewrites(t, s, f)
  BY <1>1, ReplacedRewrites
<1>4. \A i \in 1 .. n + 1 : f[i] \in Seq(S)
  BY <1>1, <1>3, RewrittenType
<1>5. V \in SUBSET Seq(R) /\ W \in SUBSET Seq(R)
  BY <1>1
<1> DEFINE Clean(i) == \A j \in Nat : Begins(text, s, j) => ~ (j < pos[i] /\ pos[i] < j + m)
           Goal(i) == \E new : Shows(text, W, f[i], new, pos[i])
           T == {i \in 1 .. n + 1 : Clean(i) => Goal(i)}
<1>6. ASSUME NEW p, Covered(text, V, p) PROVE Covered(text, W, p)
  BY <1>6 DEF Covered
<1> HIDE DEF m, n, N, W
<1>7. \A i \in 1 .. n + 1 : pos[i] \in 1 .. N + 1
  BY <1>1 DEF Shows, n, N
<1>8. n + 1 \in T
  <2>1. pos[n + 1] = N + 1 /\ f[n + 1] = <<>> /\ n + 1 \in 1 .. n + 1
    BY <1>1, <1>2, <1>3 DEF Shows, Replaces, n, N
  <2>2. \E new : Shows(text, W, <<>>, new, N + 1)
    BY <1>2, ShowsNothing DEF N
  <2>3. Goal(n + 1)
    BY <2>1, <2>2
  <2> HIDE DEF Goal, Clean
  <2> QED
    BY <2>1, <2>3
<1>9. ASSUME NEW i \in 1 .. n, Clean(i), \A k \in i + 1 .. n + 1 : k \in T PROVE Goal(i)
  <2> DEFINE a == pos[i]
             hit == i + Len(s) - 1 <= Len(t) /\ OccursAt(s, t, i)
  <2>1. a \in 1 .. N + 1 /\ a \in Nat /\ i \in 1 .. n + 1 /\ i + 1 \in 1 .. n + 1 /\ i + 1 \in i + 1 .. n + 1
    <3>1. i \in 1 .. n + 1 /\ i + 1 \in 1 .. n + 1 /\ i + 1 \in i + 1 .. n + 1
      BY <1>2
    <3> QED
      BY <1>2, <1>7, <3>1
  <2>2. f[i] = IF hit THEN <<Mask>> \o f[i + m] ELSE <<t[i]>> \o f[i + 1]
    BY <1>3 DEF Replaces, n, m
  <2> HIDE DEF hit, Clean
  <2>3. ASSUME NEW k \in i + 1 .. n + 1, Clean(k), NEW c \in S, StandsFor(text, W, c, a, pos[k]),
               f[i] = <<c>> \o f[k]
        PROVE  Goal(i)
    <3>1. Goal(k)
      BY <1>9, <2>3
    <3>2. k \in 1 .. n + 1
      BY <1>2, <2>3
    <3> DEFINE b == pos[k]
               u == f[k]
    <3>3. u \in Seq(S) /\ StandsFor(text, W, c, a, b) /\ \E new : Shows(text, W, u, new, b)
      BY <1>4, <2>3, <3>1, <3>2
    <3>4. Len(text) \in Nat /\ a \in 1 .. Len(text) + 1
      BY <1>2, <2>1 DEF N
    <3> HIDE DEF a, b, u
    <3>5. \E new : Shows(text, W, <<c>> \o u, new, a)
      BY <2>3, <3>3, <3>4, ShowsOneMore
    <3> QED
      BY <2>3, <3>5 DEF a, u
  <2>4. CASE hit
    <3>1. Begins(text, s, a) /\ pos[i + m] = a + m
      BY <2>4, ReallyThere DEF hit, m, n
    <3>2. i + m \in i + 1 .. n + 1
      BY <1>2, <2>4 DEF hit, m, n
    <3>3. Clean(i + m)
      <4> SUFFICES ASSUME NEW j \in Nat, Begins(text, s, j), j < a + m, a + m < j + m PROVE FALSE
        BY <3>1 DEF Clean
      <4>1. a <= j /\ j <= a + m - 1 /\ j <= j /\ j <= j + m - 1 /\ a # j
        BY <1>2, <2>1
      <4> HIDE DEF a
      <4> QED
        BY <1>1, <2>1, <3>1, <4>1, SharedPlace DEF m
    <3>4. StandsFor(text, W, Mask, a, pos[i + m])
      <4> DEFINE b == a + m
      <4>1. a < b
        BY <1>2, <2>1
      <4>2. ASSUME NEW p \in a .. b - 1 PROVE Covered(text, W, p)
        <5>1. p \in Nat /\ a <= p /\ p <= a + Len(s) - 1
          BY <1>2, <2>1 DEF m
        <5>2. s \in W
          BY DEF W
        <5> HIDE DEF a, b
        <5> QED
          BY <1>1, <1>5, <2>1, <3>1, <5>1, <5>2, CoveredIs
      <4>3. pos[i + m] = b
        BY <3>1
      <4> HIDE DEF a, b
      <4>4. StandsFor(text, W, Mask, a, b)
        BY <4>1, <4>2, Zenon DEF StandsFor
      <4> QED
        BY <4>3, <4>4
    <3>5. f[i] = <<Mask>> \o f[i + m]
      BY <2>2, <2>4, Zenon
    <3> HIDE DEF a
    <3> QED
      BY <2>3, <3>2, <3>3, <3>4, <3>5
  <2>5. CASE ~ hit
    <3>1. ~ Begins(text, s, a)
      BY <2>1, <2>5, StillThere DEF hit, n
    <3>2. ASSUME NEW j \in Nat, Begins(text, s, j), j <= a, a <= j + m - 1 PROVE FALSE
      <4>1. j = a \/ (j < a /\ a < j + m)
        BY <1>2, <2>1, <3>2
      <4> QED
        BY <1>9, <3>1, <3>2, <4>1 DEF Clean
    <3> DEFINE b == pos[i + 1]
    <3>3. StandsFor(text, V, t[i], a, b) /\ b \in Nat
      <4>1. b \in 1 .. N + 1
        BY <1>7, <2>1
      <4>2. b \in Nat
        BY <1>2, <4>1
      <4> QED
        BY <1>1, <4>2 DEF Shows, n
    <3>4. t[i] \in S /\ f[i] = <<t[i]>> \o f[i + 1]
      <4>1. t[i] \in S
        BY <1>1 DEF n
      <4>2. f[i] = <<t[i]>> \o f[i + 1]
        BY <2>2, <2>5, Zenon
      <4> QED
        BY <4>1, <4>2
    <3> HIDE DEF a, b
    <3>5. CASE t[i] = Mask /\ \A p \in a .. b - 1 : Covered(text, V, p)
      <4>1. StandsFor(text, W, t[i], a, b)
        BY <1>6, <3>3, <3>5 DEF StandsFor
      <4>2. Clean(i + 1)
        <5> SUFFICES ASSUME NEW j \in Nat, Begins(text, s, j), j < b, b < j + m PROVE FALSE
          BY DEF Clean, b
        <5> DEFINE p == b - 1
        <5>1. p \in Nat /\ p \in a .. b - 1 /\ j <= p /\ p <= j + Len(s) - 1
          BY <1>2, <2>1, <3>3 DEF StandsFor, m
        <5> HIDE DEF p
        <5>2. ~ Covered(text, V, p)
          BY <5>1, NotCovered
        <5> QED
          BY <3>5, <5>1, <5>2
      <4> QED
        BY <2>1, <2>3, <3>4, <4>1, <4>2 DEF b
    <3>6. CASE b = a + 1 /\ t[i] = text[a] /\ t[i] # Mask /\ ~ Covered(text, V, a)
      <4>1. ~ Covered(text, W, a)
        <5> SUFFICES ASSUME Covered(text, W, a) PROVE FALSE
          OBVIOUS
        <5>1. PICK v \in W : \E j \in Nat : Begins(text, v, j) /\ j <= a /\ a <= j + Len(v) - 1
          BY <1>1, <1>5, <2>1, CoveredIs
        <5>2. PICK j \in Nat : Begins(text, v, j) /\ j <= a /\ a <= j + Len(v) - 1
          BY <5>1
        <5>3. CASE v = s
          BY <3>2, <5>2, <5>3 DEF m
        <5>4. CASE v \in V
          <6>1. Covered(text, V, a)
            BY <1>1, <1>5, <2>1, <5>2, <5>4, CoveredIs
          <6> QED
            BY <3>6, <6>1
        <5> QED
          BY <5>3, <5>4 DEF W
      <4>2. StandsFor(text, W, t[i], a, b)
        BY <3>3, <3>6, <4>1 DEF StandsFor
      <4>3. Clean(i + 1)
        <5> SUFFICES ASSUME NEW j \in Nat, Begins(text, s, j), j < b, b < j + m PROVE FALSE
          BY DEF Clean, b
        <5>1. j <= a /\ a <= j + m - 1
          BY <1>2, <2>1, <3>6
        <5> QED
          BY <3>2, <5>1
      <4> QED
        BY <2>1, <2>3, <3>4, <4>2, <4>3 DEF b
    <3> QED
      BY <3>3, <3>5, <3>6 DEF StandsFor
  <2> QED
    BY <2>4, <2>5
<1>10. ASSUME NEW i \in 1 .. n, \A k \in i + 1 .. n + 1 : k \in T PROVE i \in T
  <2>1. i \in 1 .. n + 1
    BY <1>2
  <2>2. Clean(i) => Goal(i)
    BY <1>9, <1>10
  <2> HIDE DEF Clean, Goal
  <2> QED
    BY <2>1, <2>2
<1>11. 1 \in T
  <2>1. 1 .. n + 1 \subseteq T
    <3> HIDE DEF T
    <3> QED
      BY <1>2, <1>8, <1>10, Downwards
  <2>2. 1 \in 1 .. n + 1
    BY <1>2
  <2> QED
    BY <2>1, <2>2
<1>12. pos[1] = 1
  BY <1>1 DEF Shows
<1>13. Clean(1)
  BY <1>12 DEF Begins
<1>14. Goal(1)
  <2> HIDE DEF Clean, Goal
  <2> QED
    BY <1>11, <1>13
<1>15. f[1] \in Seq(S)
  <2>1. 1 \in 1 .. n + 1
    BY <1>2
  <2> QED
    BY <1>4, <2>1
<1> QED
  BY <1>3, <1>12, <1>14, <1>15 DEF W

LEMMA ShowsItself ==
  ASSUME NEW S, NEW text \in Seq(S), \A i \in 1 .. Len(text) : text[i] # Mask
  PROVE  \E pos : Shows(text, {}, text, pos, 1)
<1> DEFINE N == Len(text)
           pos == [k \in 1 .. N + 1 |-> k]
<1>1. N \in Nat /\ 1 \in 1 .. N + 1 /\ N + 1 \in 1 .. N + 1
      /\ \A k \in 1 .. N : k \in 1 .. N + 1 /\ k + 1 \in 1 .. N + 1 /\ k < k + 1
  OBVIOUS
<1>2. \A k \in 1 .. N + 1 : pos[k] = k
  OBVIOUS
<1> HIDE DEF pos
<1>3. \A p : ~ Covered(text, {}, p)
  BY DEF Covered
<1>4. \A k \in 1 .. N : StandsFor(text, {}, text[k], pos[k], pos[k + 1])
  BY <1>1, <1>2, <1>3 DEF StandsFor
<1>5. Shows(text, {}, text, pos, 1)
  BY <1>1, <1>2, <1>4 DEF Shows
<1> QED
  BY <1>5

\* After all replacements all values are masked, in any order.
LEMMA FoldShows ==
  ASSUME NEW S, NEW text \in Seq(S), \A i \in 1 .. Len(text) : text[i] # Mask, Mask \in S,
         NEW R, NEW L \in SUBSET (Seq(R) \ {<<>>}), Apart(L), \A v \in L : Maskless(v),
         IsFiniteSet(L), NEW order \in SetToSeqs(L)
  PROVE  /\ FoldLeft(Replaced, text, order) \in Seq(S)
         /\ \E pos : Shows(text, L, FoldLeft(Replaced, text, order), pos, 1)
<1>1. PICK n \in Nat : /\ DOMAIN order = 1 .. n /\ \A i \in 1 .. n : order[i] \in L
                       /\ \A v \in L : \E i \in 1 .. n : order[i] = v
                       /\ \A i, j \in 1 .. n : i # j => order[i] # order[j]
  BY OrdersCover
<1>0. PICK f : FoldLeft(Replaced, text, order) = f[n] /\ FoldSteps(f, n, text, order)
  BY <1>1, FoldIs
<1>2. /\ FoldLeft(Replaced, text, order) = f[n]
      /\ f[0] = text
      /\ \A i \in 1 .. n : f[i] = Replaced(f[i - 1], order[i])
  BY <1>0 DEF FoldSteps
<1> DEFINE V(i) == {order[j] : j \in 1 .. i}
           Good(i) == f[i] \in Seq(S) /\ \E pos : Shows(text, V(i), f[i], pos, 1)
           T == {i \in Nat : i <= n => Good(i)}
<1>3. 0 \in T
  <2>1. V(0) = {}
    OBVIOUS
  <2> HIDE DEF V
  <2>2. Good(0)
    BY <1>2, <2>1, ShowsItself
  <2> HIDE DEF Good
  <2> QED
    BY <2>2
<1>4. ASSUME NEW i \in T PROVE i + 1 \in T
  <2>1. i \in Nat /\ i + 1 \in Nat
    OBVIOUS
  <2> SUFFICES ASSUME i + 1 <= n PROVE Good(i + 1)
    <3> HIDE DEF Good
    <3> QED
      BY <2>1
  <2>2. i <= n /\ i + 1 \in 1 .. n /\ (i + 1) - 1 = i
    BY <2>1
  <2>3. Good(i)
    <3> HIDE DEF Good
    <3> QED
      BY <2>2
  <2> DEFINE old == f[i]
             s == order[i + 1]
             new == f[i + 1]
             U == V(i)
  <2>4. new = Replaced(old, s) /\ s \in L
    BY <1>1, <1>2, <2>2
  <2>5. U \subseteq L /\ s \notin U
    <3>1. \A j \in 1 .. i : j \in 1 .. n /\ j # i + 1
      BY <2>1, <2>2
    <3> QED
      BY <1>1, <2>2, <3>1
  <2>6. V(i + 1) = U \cup {s}
    <3>1. \A j : j \in 1 .. i + 1 <=> j \in 1 .. i \/ j = i + 1
      BY <2>1
    <3> QED
      BY <3>1
  <2>7. old \in Seq(S) /\ \E pos : Shows(text, U, old, pos, 1)
    BY <2>3
  <2> HIDE DEF old, s, new, U, V
  <2>8. PICK pos : Shows(text, U, old, pos, 1)
    BY <2>7
  <2>9. HalfMasked(S, R, text, L, U, s, old, pos)
    BY <2>4, <2>5, <2>7, <2>8 DEF HalfMasked
  <2>10. /\ Replaced(old, s) \in Seq(S)
         /\ \E more : Shows(text, U \cup {s}, Replaced(old, s), more, 1)
    BY <2>9, MaskedOneMore
  <2> QED
    BY <2>4, <2>6, <2>10 DEF new
<1>5. Good(n)
  <2>1. T \in SUBSET Nat
    OBVIOUS
  <2>2. Nat \subseteq T
    <3> HIDE DEF T
    <3> QED
      BY <1>3, <1>4, <2>1, Counting
  <2> HIDE DEF Good
  <2> QED
    BY <2>2
<1>6. V(n) = L
  BY <1>1
<1> HIDE DEF V
<1> QED
  BY <1>2, <1>5, <1>6

\* The chosen characters, from each place on.
ChosenSteps(text, places, g) ==
  /\ g[Len(text) + 1] = <<>>
  /\ \A i \in 1 .. Len(text) : g[i] = IF i \in places THEN <<text[i]>> \o g[i + 1] ELSE g[i + 1]

LEMMA ChosenIs ==
  ASSUME NEW S, NEW text \in Seq(S), NEW places
  PROVE  \E g : Chosen(text, places) = g[1] /\ ChosenSteps(text, places, g)
<1> DEFINE n == Len(text)
           part(i) == IF i \in places THEN <<text[i]>> ELSE <<>>
           Step(f, i) == IF i > Len(text) THEN <<>>
                         ELSE (IF i \in places THEN <<text[i]>> ELSE <<>>) \o f[i + 1]
           IsIt(f) == f = [i \in 1 .. Len(text) + 1 |-> Step(f, i)]
           piece == [i \in 1 .. n |-> part(i)]
           next == [i \in 1 .. n |-> i + 1]
<1>1. n \in Nat
  OBVIOUS
<1>2. \A i \in 1 .. n : next[i] \in i + 1 .. n + 1
  <2>1. \A i \in 1 .. n : i + 1 \in i + 1 .. n + 1
    BY <1>1
  <2> HIDE DEF n
  <2> QED
    BY <2>1
<1>3. PICK f : FromPieces(n, piece, next, 1, f)
  <2> HIDE DEF n, piece, next
  <2> QED
    BY <1>1, <1>2, PiecesExist, Zenon
<1>4. f[n + 1] = <<>> /\ \A i \in 1 .. n : f[i] = part(i) \o f[i + 1]
  <2>1. /\ f[n + 1] = <<>> /\ \A i \in 1 .. n : f[i] = piece[i] \o f[next[i]]
    <3>1. \A i \in 1 .. n : 1 <= i
      BY <1>1
    <3> HIDE DEF piece, next, n
    <3> QED
      BY <1>3, <3>1 DEF FromPieces
  <2>2. \A i \in 1 .. n : piece[i] = part(i) /\ next[i] = i + 1
    <3> HIDE DEF part
    <3> QED
      OBVIOUS
  <2> HIDE DEF piece, next, part, n
  <2> QED
    BY <2>1, <2>2
<1> DEFINE g == [i \in 1 .. n + 1 |-> f[i]]
<1>5. \A i \in 1 .. n + 1 : g[i] = f[i]
  OBVIOUS
<1>6. \A i \in 1 .. n + 1 : g[i] = Step(g, i)
  <2> HIDE DEF g
  <2> SUFFICES ASSUME NEW i \in 1 .. n + 1 PROVE g[i] = Step(g, i)
    OBVIOUS
  <2>1. CASE i = n + 1
    <3>1. i > n /\ g[i] = <<>>
      BY <1>1, <1>4, <1>5, <2>1
    <3> QED
      BY <3>1
  <2>2. CASE i \in 1 .. n
    <3>1. ~ (i > n) /\ i + 1 \in 1 .. n + 1
      BY <1>1, <2>2
    <3>2. g[i] = part(i) \o g[i + 1]
      <4> HIDE DEF part, n
      <4> QED
        BY <1>4, <1>5, <2>2, <3>1
    <3> QED
      BY <3>1, <3>2
  <2> QED
    BY <1>1, <2>1, <2>2
<1>7. IsIt(g)
  <2>1. g = [i \in 1 .. n + 1 |-> g[i]]
    OBVIOUS
  <2> HIDE DEF g, Step
  <2> QED
    BY <1>6, <2>1
<1> DEFINE from == CHOOSE x : IsIt(x)
<1>8. IsIt(from)
  <2> HIDE DEF IsIt, g
  <2> QED
    BY <1>7
<1>9. Chosen(text, places) = from[1]
  BY DEF Chosen
<1> HIDE DEF from, g
<1>10. \A i \in 1 .. n + 1 : from[i] = Step(from, i)
  <2> HIDE DEF Step
  <2> QED
    BY <1>8
<1>11. from[n + 1] = <<>>
  <2>1. n + 1 \in 1 .. n + 1 /\ n + 1 > n
    BY <1>1
  <2> QED
    BY <1>10, <2>1
<1>12. \A i \in 1 .. n : from[i] = part(i) \o from[i + 1]
  <2>1. \A i \in 1 .. n : i \in 1 .. n + 1 /\ ~ (i > n)
    BY <1>1
  <2> QED
    BY <1>10, <2>1
<1> DEFINE T == {i \in 1 .. n + 1 : from[i] \in Seq(S)}
<1>13. \A i \in 1 .. n : part(i) \in Seq(S)
  <2> SUFFICES ASSUME NEW i \in 1 .. n PROVE part(i) \in Seq(S)
    OBVIOUS
  <2>1. text[i] \in S
    OBVIOUS
  <2>2. <<text[i]>> \in Seq(S) /\ <<>> \in Seq(S)
    BY <2>1
  <2> QED
    BY <2>2
<1>14. 1 .. n + 1 \subseteq T
  <2>1. n + 1 \in T
    <3>1. <<>> \in Seq(S) /\ n + 1 \in 1 .. n + 1
      BY <1>1
    <3> QED
      BY <1>11, <3>1
  <2>2. ASSUME NEW i \in 1 .. n, \A j \in i + 1 .. n + 1 : j \in T PROVE i \in T
    <3>1. i + 1 \in i + 1 .. n + 1 /\ i \in 1 .. n + 1
      BY <1>1
    <3> DEFINE x == part(i)
               y == from[i + 1]
    <3>2. x \in Seq(S) /\ y \in Seq(S) /\ from[i] = x \o y
      BY <1>12, <1>13, <2>2, <3>1
    <3> HIDE DEF x, y
    <3>3. from[i] \in Seq(S)
      BY <3>2
    <3> QED
      BY <3>1, <3>3
  <2> HIDE DEF T, n
  <2> QED
    BY <1>1, <2>1, <2>2, Downwards
<1>15. \A i \in 1 .. n : from[i] = IF i \in places THEN <<text[i]>> \o from[i + 1] ELSE from[i + 1]
  <2> SUFFICES ASSUME NEW i \in 1 .. n
               PROVE  from[i] = IF i \in places THEN <<text[i]>> \o from[i + 1] ELSE from[i + 1]
    OBVIOUS
  <2>1. i + 1 \in 1 .. n + 1
    BY <1>1
  <2> DEFINE y == from[i + 1]
  <2>2. y \in Seq(S) /\ from[i] = part(i) \o y
    BY <1>12, <1>14, <2>1
  <2> HIDE DEF y
  <2>3. <<>> \o y = y
    BY <2>2
  <2>4. CASE i \in places
    BY <2>2, <2>4, Zenon DEF y
  <2>5. CASE i \notin places
    <3>1. from[i] = <<>> \o y
      BY <2>2, <2>5, Zenon
    <3> QED
      BY <2>3, <2>5, <3>1 DEF y
  <2> QED
    BY <2>4, <2>5
<1>16. ChosenSteps(text, places, from)
  BY <1>11, <1>15, Zenon DEF ChosenSteps
<1> QED
  BY <1>9, <1>16

\* Places that are not chosen.
LEMMA ChosenSkips ==
  ASSUME NEW text, Len(text) \in Nat, NEW places, NEW g, ChosenSteps(text, places, g),
         NEW a \in 1 .. Len(text) + 1, NEW b \in 1 .. Len(text) + 1, a <= b,
         \A p \in a .. b - 1 : p \notin places
  PROVE  g[a] = g[b]
<1> DEFINE T == {d \in Nat : a + d <= b => g[a + d] = g[a]}
<1>1. a \in Nat /\ b \in Nat /\ b <= Len(text) + 1 /\ a >= 1
  OBVIOUS
<1>2. 0 \in T
  BY <1>1
<1>3. ASSUME NEW d \in T PROVE d + 1 \in T
  <2>1. d \in Nat /\ d + 1 \in Nat
    OBVIOUS
  <2>2. ASSUME a + (d + 1) <= b PROVE g[a + (d + 1)] = g[a]
    <3>1. a + d <= b /\ a + d \in a .. b - 1 /\ a + d \in 1 .. Len(text) /\ a + (d + 1) = (a + d) + 1
      BY <1>1, <2>1, <2>2
    <3>2. g[a + d] = g[(a + d) + 1]
      BY <3>1 DEF ChosenSteps
    <3> QED
      BY <3>1, <3>2
  <2> QED
    BY <2>1, <2>2
<1>4. b - a \in T
  <2>1. T \in SUBSET Nat
    OBVIOUS
  <2>2. Nat \subseteq T
    <3> HIDE DEF T
    <3> QED
      BY <1>2, <1>3, <2>1, Counting
  <2>3. b - a \in Nat
    BY <1>1
  <2> QED
    BY <2>2, <2>3
<1>5. a + (b - a) = b /\ a + (b - a) <= b
  BY <1>1
<1> QED
  BY <1>4, <1>5

\* What the masks and the formats leave of a text is what is public in it.
LEMMA UnmaskedIs ==
  ASSUME NEW S, NEW text \in Seq(S), Mask \in S, NEW L, NEW t \in Seq(S),
         NEW pos, Shows(text, L, t, pos, 1)
  PROVE  Unmasked(ScrubFormats(t)) = Public(text, L)
<1> DEFINE n == Len(t)
           m == Len(text)
           u == ScrubFormats(t)
           P == {i \in DOMAIN u : u[i] # Mask}
           Q == DOMAIN text \ Secret(text, L)
<1>1. n \in Nat /\ m \in Nat /\ DOMAIN text = 1 .. m
  OBVIOUS
<1>2. u \in Seq(S) /\ DOMAIN u = 1 .. n /\ Len(u) = n
      /\ \A k \in 1 .. n : u[k] = IF t[k] \in Formatted THEN Mask ELSE t[k]
  <2>1. DOMAIN t = 1 .. n
    OBVIOUS
  <2>2. u = [i \in 1 .. n |-> IF t[i] \in Formatted THEN Mask ELSE t[i]]
    BY <2>1 DEF ScrubFormats
  <2>3. u \in Seq(S)
    BY FormatsHide
  <2> HIDE DEF u
  <2>4. DOMAIN u = 1 .. n /\ \A k \in 1 .. n : u[k] = IF t[k] \in Formatted THEN Mask ELSE t[k]
    BY <2>2
  <2>5. Len(u) = n
    BY <1>1, <2>3, <2>4
  <2> QED
    BY <2>3, <2>4, <2>5
<1>3. Unmasked(u) = Chosen(u, P) /\ Public(text, L) = Chosen(text, Q)
  BY DEF Unmasked, Public
<1>4. \A k \in 1 .. n : k \in P <=> u[k] # Mask
  BY <1>2
<1>5. /\ \A p \in 1 .. m : p \in Q <=> text[p] \notin Formatted /\ ~ Covered(text, L, p)
      /\ \A p \in Q : p \in 1 .. m
  BY <1>1 DEF Secret
<1> HIDE DEF u, P, Q
<1>6. PICK g : Chosen(u, P) = g[1] /\ ChosenSteps(u, P, g)
  BY <1>2, ChosenIs
<1>7. PICK h : Chosen(text, Q) = h[1] /\ ChosenSteps(text, Q, h)
  BY ChosenIs
<1>8. /\ g[n + 1] = <<>>
      /\ \A k \in 1 .. n : g[k] = IF k \in P THEN <<u[k]>> \o g[k + 1] ELSE g[k + 1]
  BY <1>2, <1>6 DEF ChosenSteps
<1>9. /\ h[m + 1] = <<>>
      /\ \A p \in 1 .. m : h[p] = IF p \in Q THEN <<text[p]>> \o h[p + 1] ELSE h[p + 1]
  BY <1>7 DEF ChosenSteps
<1>10. /\ pos[1] = 1 /\ pos[n + 1] = m + 1
       /\ \A k \in 1 .. n + 1 : pos[k] \in 1 .. m + 1
       /\ \A k \in 1 .. n : StandsFor(text, L, t[k], pos[k], pos[k + 1])
  BY DEF Shows
<1> HIDE DEF n, m
<1> DEFINE T == {k \in 1 .. n + 1 : g[k] = h[pos[k]]}
<1>11. n + 1 \in T
  BY <1>1, <1>8, <1>9, <1>10
<1>12. ASSUME NEW k \in 1 .. n, \A j \in k + 1 .. n + 1 : j \in T PROVE k \in T
  <2>1. k \in 1 .. n + 1 /\ k + 1 \in 1 .. n + 1 /\ k + 1 \in k + 1 .. n + 1
    BY <1>1
  <2>2. g[k + 1] = h[pos[k + 1]]
    BY <1>12, <2>1
  <2> DEFINE a == pos[k]
             b == pos[k + 1]
  <2>3. a \in 1 .. m + 1 /\ b \in 1 .. m + 1
    BY <1>10, <2>1
  <2>4. StandsFor(text, L, t[k], a, b)
    BY <1>10
  <2> HIDE DEF a, b, T
  <2>5. a < b
    BY <2>4 DEF StandsFor
  <2>6. CASE t[k] = Mask /\ \A p \in a .. b - 1 : Covered(text, L, p)
    <3>1. u[k] = Mask
      BY <1>2, <2>6
    <3>2. g[k] = g[k + 1]
      BY <1>4, <1>8, <3>1
    <3>3. \A p \in a .. b - 1 : p \notin Q
      BY <1>5, <2>6
    <3>4. a <= b
      BY <2>3, <2>5
    <3>5. h[a] = h[b]
      BY <1>1, <1>7, <2>3, <3>3, <3>4, ChosenSkips DEF m
    <3> QED
      BY <2>1, <2>2, <3>2, <3>5 DEF a, b, T
  <2>7. CASE b = a + 1 /\ t[k] = text[a] /\ t[k] # Mask /\ ~ Covered(text, L, a)
    <3>1. a \in 1 .. m
      BY <1>1, <2>3, <2>7
    <3>2. CASE t[k] \in Formatted
      <4>1. k \notin P
        BY <1>2, <1>4, <3>2
      <4>2. a \notin Q
        BY <1>5, <2>7, <3>1, <3>2
      <4>3. g[k] = g[k + 1] /\ h[a] = h[a + 1]
        BY <1>8, <1>9, <3>1, <4>1, <4>2
      <4> QED
        BY <2>1, <2>2, <2>7, <4>3 DEF a, b, T
    <3>3. CASE t[k] \notin Formatted
      <4>1. u[k] = text[a] /\ k \in P
        BY <1>2, <1>4, <2>7, <3>3
      <4>2. a \in Q
        BY <1>5, <2>7, <3>1, <3>3
      <4>3. g[k] = <<u[k]>> \o g[k + 1] /\ h[a] = <<text[a]>> \o h[a + 1]
        BY <1>8, <1>9, <3>1, <4>1, <4>2, Zenon
      <4>4. g[k] = h[a]
        BY <2>2, <2>7, <4>1, <4>3, Zenon DEF b
      <4> QED
        BY <2>1, <4>4 DEF a, T
    <3> QED
      BY <3>2, <3>3
  <2> QED
    BY <2>4, <2>6, <2>7, Zenon DEF StandsFor
<1>13. 1 .. n + 1 \subseteq T
  <2> HIDE DEF T
  <2> QED
    BY <1>1, <1>11, <1>12, Downwards
<1>14. g[1] = h[1]
  <2>1. 1 \in 1 .. n + 1
    BY <1>1
  <2> QED
    BY <1>10, <1>13, <2>1
<1> QED
  BY <1>3, <1>6, <1>7, <1>14 DEF u

\* What scrub_output takes away, and nothing else.
LEMMA ScrubbingSpares ==
  ASSUME NEW S, NEW text \in Seq(S), \A i \in 1 .. Len(text) : text[i] # Mask, Mask \in S,
         NEW R, NEW values \in SUBSET Seq(R), IsFiniteSet(values), NoMaskIn(values),
         Apart(Literals(values)), NEW new \in ScrubOutputs(text, values)
  PROVE  Unmasked(new) = Public(text, Literals(values))
<1> DEFINE L == Literals(values)
<1>1. IsFiniteSet(L) /\ L \in SUBSET (Seq(R) \ {<<>>}) /\ Apart(L)
  BY LiteralsAre
<1>2. \A v \in L : Maskless(v)
  BY LiteralsAre
<1>3. PICK order \in SetToSeqs(L) : new = ScrubFormats(FoldLeft(Replaced, text, order))
  BY DEF ScrubOutputs
<1> HIDE DEF L
<1> DEFINE t == FoldLeft(Replaced, text, order)
<1>4. t \in Seq(S) /\ \E pos : Shows(text, L, t, pos, 1)
  BY <1>1, <1>2, FoldShows
<1>5. new = ScrubFormats(t)
  BY <1>3
<1> HIDE DEF t
<1>6. PICK pos : Shows(text, L, t, pos, 1)
  BY <1>4
<1> QED
  BY <1>4, <1>5, <1>6, UnmaskedIs DEF L

LEMMA NothingIsMasked == \A L : Unmasked(<<>>) = Public(<<>>, L)
<1>1. ASSUME NEW places PROVE Chosen(<<>>, places) = <<>>
  <2>1. PICK g : Chosen(<<>>, places) = g[1] /\ ChosenSteps(<<>>, places, g)
    <3>1. <<>> \in Seq({})
      OBVIOUS
    <3> QED
      BY <3>1, ChosenIs
  <2>2. Len(<<>>) = 0 /\ 0 + 1 = 1
    OBVIOUS
  <2> QED
    BY <2>1, <2>2 DEF ChosenSteps
<1> QED
  BY <1>1 DEF Unmasked, Public

-----------------------------------------------------------------------------
(* What a call holds and what it answers.                                  *)

LEMMA CharsAre == Mask \in Chars /\ Names \subseteq Chars
BY DEF Chars

LEMMA OutputsAreTexts == Outputs \subseteq Texts
<1> SUFFICES ASSUME NEW o \in Outputs PROVE o \in Texts
  OBVIOUS
<1>1. o \in Seq(STRING)
  BY ToolCallsAssumption
<1>2. Len(o) \in Nat /\ DOMAIN o = 1 .. Len(o) /\ o = [i \in 1 .. Len(o) |-> o[i]]
  BY <1>1
<1>3. \A i \in 1 .. Len(o) : o[i] \in Chars
  <2> DEFINE C(p) == {p[i] : i \in DOMAIN p}
  <2>1. \A i \in 1 .. Len(o) : o[i] \in C(o)
    BY <1>2
  <2>2. C(o) \subseteq Chars
    BY DEF Chars
  <2> HIDE DEF C
  <2> QED
    BY <2>1, <2>2
<1>4. o \in [1 .. Len(o) -> Chars]
  BY <1>2, <1>3
<1>5. o \in Seq(Chars)
  BY <1>2, <1>4, FunctionIsSeq
<1> QED
  BY <1>5 DEF Texts

\* The values of a vault.
LEMMA LoadedIs ==
  ASSUME NEW f \in [Names -> Values \cup {None}]
  PROVE  /\ {f[n] : n \in Names} \ {None} \in SUBSET Values
         /\ IsFiniteSet({f[n] : n \in Names} \ {None})
<1> DEFINE all == {f[n] : n \in Names}
<1>1. f \in Surjection(Names, all)
  <2>1. f \in [Names -> all]
    OBVIOUS
  <2> QED
    BY <2>1 DEF Surjection
<1>2. IsFiniteSet(all)
  <2> HIDE DEF all
  <2> QED
    BY <1>1, FS_Surjection, ToolCallsAssumption
<1>3. all \ {None} \in SUBSET all
  OBVIOUS
<1>4. IsFiniteSet(all \ {None})
  <2> HIDE DEF all
  <2> QED
    BY <1>2, <1>3, FS_Subset
<1>5. all \ {None} \in SUBSET Values
  OBVIOUS
<1> QED
  BY <1>4, <1>5

LEMMA KnownIs ==
  ASSUME vault \in [Names -> Values \cup {None}]
  PROVE  Known \in SUBSET Values /\ IsFiniteSet(Known)
BY LoadedIs, FS_EmptySet DEF Known

\* An order of some names.
LEMMA NamesInOrder ==
  ASSUME NEW L \in SUBSET Names, NEW order \in SetToSeqs(L)
  PROVE  order \in Seq(Names)
<1>1. IsFiniteSet(L)
  BY FS_Subset, ToolCallsAssumption
<1>2. PICK n \in Nat : DOMAIN order = 1 .. n /\ \A i \in 1 .. n : order[i] \in L
  BY <1>1, OrdersCover
<1>3. order = [i \in DOMAIN order |-> order[i]]
  BY DEF SetToSeqs
<1>4. order \in [1 .. n -> Names]
  BY <1>2, <1>3
<1> QED
  BY <1>4, FunctionIsSeq

LEMMA ListedIs ==
  ASSUME ListSecretNames PROVE answer' \in Seq(Names) /\ answer' \in Texts
<1>1. answer' \in Seq(Names)
  <2>1. CASE readable
    <3>1. {n \in Names : vault[n] # None} \in SUBSET Names
      OBVIOUS
    <3>2. answer' \in SetToSeqs({n \in Names : vault[n] # None})
      BY <2>1 DEF ListSecretNames
    <3> QED
      BY <3>1, <3>2, NamesInOrder
  <2>2. CASE ~ readable
    <3>1. answer' = <<>>
      BY <2>2 DEF ListSecretNames
    <3> QED
      BY <3>1
  <2> QED
    BY <2>1, <2>2
<1>2. Names \subseteq Chars
  BY CharsAre
<1>3. answer' \in Seq(Chars)
  BY <1>1, <1>2
<1> QED
  BY <1>1, <1>3 DEF Texts

UnderWay == pc \in {"remote", "body", "returned"}

\* A call has answered nothing before it ends.  While it is under way a service's
\* credential is held, the vault still has what it had all the time, and the gcloud
\* runner has loaded it.
CallInv ==
  /\ TypeOK /\ IsFiniteSet(held)
  /\ pc = "idle" => held = {}
  /\ pc # "answered" => answer = <<>>
  /\ UnderWay /\ tool = "call_service_api" => \E v \in Values : held = {v}
  /\ UnderWay => lasting \subseteq Known /\ (tool = "gcloud_command" => lasting \subseteq held)

LEMMA NothingIsText == <<>> \in Texts
BY DEF Texts

\* What a remote end answered, without the secrets.
LEMMA RedactedIs ==
  ASSUME output \in Texts, NEW v \in Values, held = {v}
  PROVE  /\ Redacted \in Texts
         /\ NoMaskIn(Values) => ~ Occurs(v, Redacted)
<1>1. output \in Seq(Chars) /\ Mask \in Chars
  BY CharsAre DEF Texts
<1>2. v \in Seq(STRING) /\ v # <<>>
  BY ToolCallsAssumption
<1>3. (CHOOSE w \in held : TRUE) = v
  OBVIOUS
<1> DEFINE t == Replaced(output, v)
<1>4. Redacted = ScrubFormats(t)
  BY <1>3 DEF Redacted
<1>5. t \in Seq(Chars) /\ (Maskless(v) => ~ Occurs(v, t))
  BY <1>1, <1>2, ReplacedHides
<1> HIDE DEF t
<1>6. /\ ScrubFormats(t) \in Seq(Chars)
      /\ Maskless(v) /\ Occurs(v, ScrubFormats(t)) => Occurs(v, t)
  BY <1>1, <1>2, <1>5, FormatsHide
<1>7. NoMaskIn(Values) => Maskless(v)
  BY <1>2 DEF NoMaskIn, Maskless
<1>8. Redacted \in Texts
  BY <1>4, <1>6 DEF Texts
<1> QED
  BY <1>4, <1>5, <1>6, <1>7, <1>8

LEMMA ScrubbedIs ==
  ASSUME output \in Texts, NEW values \in SUBSET Values, IsFiniteSet(values),
         NEW new \in ScrubOutputs(output, values)
  PROVE  /\ new \in Texts
         /\ NoMaskIn(Values) => \A v \in Literals(values) : ~ Occurs(v, new)
<1>1. output \in Seq(Chars) /\ Mask \in Chars
  BY CharsAre DEF Texts
<1>2. values \in SUBSET Seq(STRING)
  BY ToolCallsAssumption
<1>3. /\ new \in Seq(Chars)
      /\ NoMaskIn(values) => \A v \in Literals(values) : ~ Occurs(v, new)
  BY <1>1, <1>2, ScrubbingHides
<1>4. NoMaskIn(Values) => NoMaskIn(values)
  BY DEF NoMaskIn
<1>5. new \in Texts
  BY <1>3 DEF Texts
<1> QED
  BY <1>3, <1>4, <1>5


LEMMA CallStep == ASSUME CallInv, [Next]_vars PROVE CallInv'
<1>1. /\ vault \in [Names -> Values \cup {None}] /\ readable \in BOOLEAN
      /\ events \in 0 .. MaxEvents /\ pc \in Steps /\ tool \in Tools \cup {None}
      /\ held \subseteq Values /\ lasting \subseteq Values
      /\ output \in Texts /\ answer \in Texts /\ IsFiniteSet(held)
  BY DEF CallInv, TypeOK
<1>2. /\ pc = "idle" => held = {}
      /\ pc # "answered" => answer = <<>>
      /\ UnderWay /\ tool = "call_service_api" => \E v \in Values : held = {v}
      /\ UnderWay => lasting \subseteq Known /\ (tool = "gcloud_command" => lasting \subseteq held)
  BY DEF CallInv
<1>3. Known \in SUBSET Values /\ IsFiniteSet(Known)
  BY <1>1, KnownIs
<1>4. vault' = vault /\ readable' = readable => Known' = Known
  BY DEF Known
<1>5. /\ "idle" \in Steps /\ "remote" \in Steps /\ "body" \in Steps /\ "returned" \in Steps
      /\ "answered" \in Steps
  BY DEF Steps
\* A call that is refused, or is asked by a tool that loads nothing before.
<1>6. ASSUME NEW t \in Tools, Begin(t),
             \/ Refuse
             \/ t \in ServerTools /\ \E what : Ask(what)
      PROVE  CallInv'
  <2>1. /\ pc = "idle" /\ tool' = t /\ lasting' = Known
        /\ vault' = vault /\ readable' = readable /\ events' = events /\ output' = output
        /\ held' = held /\ held = {}
    BY <1>2, <1>6 DEF Begin, Refuse, Ask
  <2>2. \/ pc' = "answered" /\ answer' = <<>>
        \/ pc' = "remote" /\ answer' = answer /\ t \in ServerTools
    BY <1>6 DEF Refuse, Ask
  <2>3. TypeOK'
    BY <1>1, <1>3, <1>5, <2>1, <2>2, NothingIsText DEF TypeOK
  <2>4. t \in ServerTools => t # "gcloud_command" /\ t # "call_service_api"
    BY DEF ServerTools
  <2> QED
    BY <1>1, <1>2, <1>4, <2>1, <2>2, <2>3, <2>4 DEF CallInv, UnderWay
<1>7. CASE \/ \E c \in Commands, ps \in PrefixLists : RunCommand(c, ps)
           \/ \E isEnv \in BOOLEAN : ReadRemoteFile(isEnv)
           \/ \E sql \in SqlTexts, readonly \in BOOLEAN : QueryDatabase(sql, readonly)
           \/ ListDbTables
  <2>1. PICK t \in ServerTools : Begin(t) /\ (Refuse \/ \E what : Ask(what))
    BY <1>7 DEF RunCommand, ReadRemoteFile, QueryDatabase, ListDbTables, ServerTools
  <2> QED
    BY <1>6, <2>1 DEF Tools
<1>8. CASE ListSecretNames
  <2>1. /\ pc = "idle" /\ tool' = "list_local_secret_names" /\ lasting' = Known
        /\ vault' = vault /\ readable' = readable /\ events' = events /\ output' = output
        /\ held' = held /\ pc' = "answered"
    BY <1>8 DEF ListSecretNames, Begin
  <2>2. answer' \in Texts
    BY <1>8, ListedIs
  <2>3. TypeOK'
    BY <1>1, <1>3, <1>5, <2>1, <2>2 DEF TypeOK, Tools
  <2> QED
    BY <1>1, <2>1, <2>3 DEF CallInv, UnderWay
<1>9. CASE GcloudCommand
  <2>1. CASE Refuse
    BY <1>6, <1>9, <2>1 DEF GcloudCommand, Tools
  <2>2. CASE ~ Refuse
    <3>1. /\ pc = "idle" /\ tool' = "gcloud_command" /\ lasting' = Known
          /\ vault' = vault /\ readable' = readable /\ events' = events /\ output' = output
          /\ held' = Known /\ pc' = "remote" /\ answer' = answer
      BY <1>9, <2>2 DEF GcloudCommand, Begin
    <3>2. TypeOK'
      BY <1>1, <1>3, <1>5, <3>1 DEF TypeOK, Tools
    <3> QED
      BY <1>2, <1>3, <1>4, <3>1, <3>2 DEF CallInv, UnderWay
  <2> QED
    BY <2>1, <2>2
<1>10. ASSUME NEW s \in Services, NEW c \in ServiceCalls, CallService(s, c) PROVE CallInv'
  <2>1. /\ pc = "idle" /\ tool' = "call_service_api" /\ lasting' = Known
        /\ vault' = vault /\ readable' = readable /\ events' = events /\ output' = output
        /\ \/ /\ vault[s.secret_name] # None /\ held' = {vault[s.secret_name]}
              /\ pc' = "remote" /\ answer' = answer
           \/ pc' = "answered" /\ answer' = <<>> /\ held' = held
    BY <1>10 DEF CallService, Begin
  <2>2. CASE pc' = "answered" /\ answer' = <<>> /\ held' = held
    <3>1. TypeOK'
      BY <1>1, <1>3, <1>5, <2>1, <2>2, NothingIsText DEF TypeOK, Tools
    <3> QED
      BY <1>1, <2>1, <2>2, <3>1 DEF CallInv, UnderWay
  <2>3. CASE /\ vault[s.secret_name] # None /\ held' = {vault[s.secret_name]}
             /\ pc' = "remote" /\ answer' = answer
    <3>1. s.secret_name \in Names
      BY ToolCallsAssumption
    <3>2. vault[s.secret_name] \in Values
      BY <1>1, <2>3, <3>1
    <3>3. TypeOK'
      BY <1>1, <1>3, <1>5, <2>1, <2>3, <3>2 DEF TypeOK, Tools
    <3>4. IsFiniteSet(held')
      BY <2>3, FS_Singleton
    <3> QED
      BY <1>2, <1>4, <2>1, <2>3, <3>2, <3>3, <3>4 DEF CallInv, UnderWay
  <2> QED
    BY <2>1, <2>2, <2>3
\* The remote end: what the call holds stays.
<1>11. ASSUME UnderWay, pc' \in Steps, pc' # "idle", pc' = "answered" \/ UnderWay',
              output' = output \/ output' \in Outputs,
              UNCHANGED <<world, tool, held, answer>>
       PROVE  CallInv'
  <2>1. /\ vault' = vault /\ readable' = readable /\ events' = events /\ lasting' = lasting
        /\ tool' = tool /\ held' = held /\ answer' = answer
    BY <1>11 DEF world
  <2>2. output' \in Texts
    BY <1>1, <1>11, OutputsAreTexts
  <2>3. TypeOK'
    BY <1>1, <1>11, <2>1, <2>2 DEF TypeOK
  <2>4. pc # "answered"
    BY <1>11 DEF UnderWay
  <2> QED
    BY <1>1, <1>2, <1>4, <1>11, <2>1, <2>3, <2>4 DEF CallInv
<1>12. CASE \E text \in Outputs : Returns(text) \/ BodyArrives(text) \/ RequestFails(text)
  BY <1>5, <1>11, <1>12 DEF Returns, BodyArrives, RequestFails, UnderWay
<1>13. CASE ConnectionFails \/ Responds
  BY <1>5, <1>11, <1>13 DEF ConnectionFails, Responds, UnderWay
<1>14. CASE TimesOut
  BY <1>12, <1>14 DEF TimesOut
<1>15. CASE Answer
  <2>1. /\ pc = "returned" /\ pc' = "answered"
        /\ vault' = vault /\ readable' = readable /\ events' = events /\ lasting' = lasting
        /\ tool' = tool /\ output' = output
    BY <1>15 DEF Answer, world
  <2>2. UnderWay
    BY <2>1 DEF UnderWay
  <2>3. held' \in SUBSET Values /\ IsFiniteSet(held') /\ answer' \in Texts
    <3>1. CASE tool = "call_service_api"
      <4>1. held' = held /\ answer' = Redacted
        BY <1>15, <3>1 DEF Answer
      <4>2. PICK v \in Values : held = {v}
        BY <1>2, <2>2, <3>1
      <4>3. Redacted \in Texts
        BY <1>1, <4>2, RedactedIs
      <4> QED
        BY <1>1, <4>1, <4>3
    <3>2. CASE tool # "call_service_api"
      <4>1. /\ held' = held \/ held' = Known
            /\ answer' \in ScrubOutputs(output, held) \/ answer' \in ScrubOutputs(output, Known)
        BY <1>15, <3>2 DEF Answer, Scrubbed
      <4>2. answer' \in Texts
        BY <1>1, <1>3, <4>1, ScrubbedIs
      <4> QED
        BY <1>1, <1>3, <4>1, <4>2
    <3> QED
      BY <3>1, <3>2
  <2>4. TypeOK'
    BY <1>1, <1>5, <2>1, <2>3 DEF TypeOK
  <2> QED
    BY <2>1, <2>3, <2>4 DEF CallInv, UnderWay
\* Around the call.
<1>16. ASSUME Event, vault' \in [Names -> Values \cup {None}], readable' \in BOOLEAN PROVE CallInv'
  <2>1. /\ events < MaxEvents /\ events' = events + 1
        /\ UnderWay /\ lasting' = lasting \cap Known'
        /\ pc' = pc /\ tool' = tool /\ held' = held /\ output' = output /\ answer' = answer
    BY <1>16 DEF Event, UnderWay
  <2>2. events' \in 0 .. MaxEvents
    BY <1>1, <2>1, ToolCallsAssumption
  <2>3. TypeOK'
    BY <1>1, <1>16, <2>1, <2>2 DEF TypeOK
  <2> QED
    BY <1>1, <1>2, <2>1, <2>3 DEF CallInv, UnderWay
<1>17. CASE ToggleReadable
  <2>1. vault' = vault /\ readable' \in BOOLEAN
    BY <1>1, <1>17 DEF ToggleReadable
  <2> QED
    BY <1>1, <1>16, <1>17, <2>1 DEF ToggleReadable
<1>18. ASSUME NEW n \in Names, NEW v \in Values \cup {None}, ChangeSecret(n, v) PROVE CallInv'
  <2>1. vault' = [vault EXCEPT ![n] = v] /\ readable' = readable /\ Event
    BY <1>18 DEF ChangeSecret
  <2>2. vault' \in [Names -> Values \cup {None}]
    BY <1>1, <2>1
  <2> QED
    BY <1>1, <1>16, <2>1, <2>2
<1>19. CASE UNCHANGED vars
  <2>1. /\ vault' = vault /\ readable' = readable /\ events' = events /\ pc' = pc /\ tool' = tool
        /\ held' = held /\ output' = output /\ answer' = answer /\ lasting' = lasting
    BY <1>19 DEF vars
  <2>2. TypeOK'
    BY <1>1, <2>1 DEF TypeOK
  <2> QED
    BY <1>1, <1>2, <1>4, <2>1, <2>2 DEF CallInv, UnderWay
<1> QED
  BY <1>7, <1>8, <1>9, <1>10, <1>12, <1>13, <1>14, <1>15, <1>17, <1>18, <1>19 DEF Next, Calls

LEMMA CallAlways == Spec => []CallInv
<1>1. Init => CallInv
  <2> SUFFICES ASSUME Init PROVE CallInv
    OBVIOUS
  <2>1. vault \in [Names -> Values \cup {None}]
    BY ToolCallsAssumption DEF Init
  <2>2. TypeOK
    BY <2>1, ToolCallsAssumption, NothingIsText DEF Init, TypeOK, Steps
  <2> QED
    BY <2>2, FS_EmptySet DEF Init, CallInv, UnderWay
<1> QED
  BY <1>1, CallStep, PTL DEF Spec

\* The types, for every vault, caller and remote end.
THEOREM TypeCorrect == Spec => []TypeOK
<1>1. CallInv => TypeOK
  BY DEF CallInv
<1> QED
  BY <1>1, CallAlways, PTL

\* The credential of a service does not come back, whatever the service, or the error,
\* says and whatever happens to the vault (redact_secret): as long as no secret has the
\* mask in it, which a replacement could put together.
THEOREM CredentialsStay == ASSUME NoMaskIn(Values) PROVE Spec => []CredentialStays
<1>1. Init => CredentialStays
  BY DEF Init, CredentialStays
<1>2. ASSUME CallInv, CredentialStays, [Next]_vars PROVE CredentialStays'
  <2> SUFFICES ASSUME pc' = "answered", tool' = "call_service_api", NEW v \in held'
               PROVE  ~ Occurs(v, answer')
    BY DEF CredentialStays
  <2>1. CASE UNCHANGED vars
    BY <1>2, <2>1 DEF CredentialStays, vars
  <2>2. CASE Answer
    <3>1. pc = "returned" /\ tool = "call_service_api" /\ held' = held /\ answer' = Redacted
      BY <2>2 DEF Answer
    <3>2. PICK w \in Values : held = {w}
      BY <1>2, <3>1 DEF CallInv, UnderWay
    <3>3. output \in Texts
      BY <1>2 DEF CallInv, TypeOK
    <3>4. ~ Occurs(w, Redacted)
      BY <3>2, <3>3, RedactedIs
    <3> QED
      BY <3>1, <3>2, <3>4
  <2>3. CASE \E s \in Services, c \in ServiceCalls : CallService(s, c)
    <3>1. pc = "idle" /\ held' = held
      BY <2>3 DEF CallService, Begin
    <3> QED
      BY <1>2, <3>1 DEF CallInv
  <2>4. CASE /\ Calls /\ ~ \E s \in Services, c \in ServiceCalls : CallService(s, c)
    BY <2>4 DEF Calls, RunCommand, ReadRemoteFile, QueryDatabase, ListDbTables, ListSecretNames,
                GcloudCommand, Begin
  <2>5. CASE \/ \E text \in Outputs : Returns(text) \/ BodyArrives(text) \/ RequestFails(text)
             \/ ConnectionFails \/ Responds \/ TimesOut
    BY <2>5 DEF Returns, BodyArrives, RequestFails, ConnectionFails, Responds, TimesOut, ServerTools
  <2>6. CASE ToggleReadable \/ \E n \in Names, w \in Values \cup {None} : ChangeSecret(n, w)
    BY <2>6 DEF ToggleReadable, ChangeSecret, Event
  <2> QED
    BY <1>2, <2>1, <2>2, <2>3, <2>4, <2>5, <2>6 DEF Next
<1> QED
  BY <1>1, <1>2, CallAlways, PTL DEF Spec

\* No value has the name of a secret in it: list_local_secret_names is not scrubbed.
NoNameIn(values) == \A v \in values : \A i \in 1 .. Len(v) : v[i] \notin Names

LEMMA NotAmongNames ==
  ASSUME NoNameIn(Values), NEW values \in SUBSET Values,
         NEW v \in Literals(values), NEW names \in Seq(Names)
  PROVE  ~ Occurs(v, names)
<1> SUFFICES ASSUME Occurs(v, names) PROVE FALSE
  OBVIOUS
<1>1. PICK u \in values : v = Trim(u) /\ Len(v) >= MinLength
  BY DEF Literals
<1>2. u \in Seq(STRING)
  BY ToolCallsAssumption
<1>3. v \in Seq(STRING) /\ \A q \in 1 .. Len(v) : \E k \in 1 .. Len(u) : v[q] = u[k]
  BY <1>1, <1>2, TrimIs
<1>4. PICK i \in 1 .. Len(names) - Len(v) + 1 : Found(v, names, i)
  BY <1>3, OccursIs
<1>5. Len(v) \in Nat /\ Len(v) # 0 /\ Len(names) \in Nat
  BY <1>1, <1>3, ScrubberAssumption
<1>6. 1 \in 1 .. Len(v) /\ i + 1 - 1 \in 1 .. Len(names)
  BY <1>4, <1>5
<1>7. v[1] = names[i + 1 - 1]
  BY <1>4, <1>6 DEF Found
<1>8. v[1] \in Names
  BY <1>6, <1>7
<1> QED
  BY <1>3, <1>6, <1>8 DEF NoNameIn

\* A value that the vault holds all through a call is not in its answer, whatever the
\* remote end sends and however the vault changes, in every order of the values
\* (scrub_for_target): as long as no secret has the mask in it, or the name of one.
THEOREM LastingSecretsAreMasked ==
  ASSUME NoMaskIn(Values), NoNameIn(Values) PROVE Spec => []LastingSecretsStay
<1>1. Init => LastingSecretsStay
  BY DEF Init, LastingSecretsStay
<1>2. ASSUME CallInv, LastingSecretsStay, [Next]_vars PROVE LastingSecretsStay'
  <2>0. /\ vault \in [Names -> Values \cup {None}] /\ output \in Texts
        /\ held \in SUBSET Values /\ IsFiniteSet(held) /\ lasting \in SUBSET Values
        /\ pc # "answered" => answer = <<>>
    BY <1>2 DEF CallInv, TypeOK
  <2>1. Known \in SUBSET Values /\ IsFiniteSet(Known)
    BY <2>0, KnownIs
  <2> SUFFICES ASSUME pc' = "answered", tool' # "call_service_api", NEW v \in Literals(lasting')
               PROVE  ~ Occurs(v, answer')
    BY DEF LastingSecretsStay
  <2>2. CASE UNCHANGED vars
    BY <1>2, <2>2 DEF LastingSecretsStay, vars
  <2>3. CASE Answer
    <3>1. /\ pc = "returned" /\ tool # "call_service_api" /\ lasting' = lasting
          /\ \/ tool = "gcloud_command" /\ answer' \in ScrubOutputs(output, held)
             \/ answer' \in ScrubOutputs(output, Known)
      BY <2>3 DEF Answer, Scrubbed, world
    <3>2. lasting \subseteq Known /\ (tool = "gcloud_command" => lasting \subseteq held)
      BY <1>2, <3>1 DEF CallInv, UnderWay
    <3>3. \A values : lasting \subseteq values => Literals(lasting) \subseteq Literals(values)
      BY DEF Literals
    <3>4. CASE tool = "gcloud_command" /\ answer' \in ScrubOutputs(output, held)
      <4>1. v \in Literals(held)
        BY <3>1, <3>2, <3>3, <3>4
      <4> QED
        BY <2>0, <3>4, <4>1, ScrubbedIs
    <3>5. CASE answer' \in ScrubOutputs(output, Known)
      <4>1. v \in Literals(Known)
        BY <3>1, <3>2, <3>3
      <4> QED
        BY <2>0, <2>1, <3>5, <4>1, ScrubbedIs
    <3> QED
      BY <3>1, <3>4, <3>5
  <2>4. ASSUME lasting' = Known \/ lasting' = lasting, answer' = <<>> \/ answer' \in Seq(Names)
        PROVE  ~ Occurs(v, answer')
    <3>1. lasting' \in SUBSET Values
      BY <2>0, <2>1, <2>4
    <3>2. answer' \in Seq(Names)
      <4>1. <<>> \in Seq(Names)
        OBVIOUS
      <4> QED
        BY <2>4, <4>1
    <3> QED
      BY <3>1, <3>2, NotAmongNames
  <2>5. CASE ListSecretNames
    BY <2>4, <2>5, ListedIs DEF ListSecretNames, Begin
  <2>6. CASE Calls /\ ~ ListSecretNames
    <3>1. lasting' = Known /\ (pc' = "answered" => answer' = <<>>)
      BY <2>6 DEF Calls, RunCommand, ReadRemoteFile, QueryDatabase, ListDbTables, GcloudCommand,
                  CallService, Begin, Refuse, Ask
    <3> QED
      BY <2>4, <3>1
  <2>7. CASE \/ \E text \in Outputs : Returns(text) \/ BodyArrives(text) \/ RequestFails(text)
             \/ ConnectionFails \/ Responds \/ TimesOut
    <3>1. lasting' = lasting /\ answer' = <<>>
      BY <2>0, <2>7 DEF Returns, BodyArrives, RequestFails, ConnectionFails, Responds, TimesOut, world
    <3> QED
      BY <2>4, <3>1
  <2>8. CASE ToggleReadable \/ \E n \in Names, w \in Values \cup {None} : ChangeSecret(n, w)
    BY <2>8 DEF ToggleReadable, ChangeSecret, Event
  <2> QED
    BY <1>2, <2>2, <2>3, <2>5, <2>6, <2>7, <2>8 DEF Next
<1> QED
  BY <1>1, <1>2, CallAlways, PTL DEF Spec

\* What a call has been answered by the remote end: nothing before it returns.
OutputInv == /\ output \in Outputs \cup {<<>>}
             /\ pc \in {"idle", "remote", "body"} => output = <<>>

LEMMA OutputStep == ASSUME OutputInv, [Next]_vars PROVE OutputInv'
<1>1. output \in Outputs \cup {<<>>} /\ (pc \in {"idle", "remote", "body"} => output = <<>>)
  BY DEF OutputInv
<1>2. ASSUME output' = output, pc \in {"idle", "remote", "body"} \/ pc' \notin {"idle", "remote", "body"}
      PROVE  OutputInv'
  BY <1>1, <1>2 DEF OutputInv
<1>3. CASE Calls
  <2>1. output' = output /\ pc = "idle"
    BY <1>3 DEF Calls, RunCommand, ReadRemoteFile, QueryDatabase, ListDbTables, ListSecretNames,
                GcloudCommand, CallService, Begin
  <2> QED
    BY <1>2, <2>1
<1>4. CASE (\E text \in Outputs : Returns(text) \/ BodyArrives(text) \/ RequestFails(text)) \/ TimesOut
  <2>1. output' \in Outputs /\ pc' = "returned"
    BY <1>4 DEF Returns, BodyArrives, RequestFails, TimesOut
  <2> QED
    BY <2>1 DEF OutputInv
<1>5. CASE ConnectionFails \/ Responds
  <2>1. output' = output /\ pc = "remote"
    BY <1>5 DEF ConnectionFails, Responds
  <2> QED
    BY <1>2, <2>1
<1>6. CASE Answer
  <2>1. output' = output /\ pc' = "answered"
    BY <1>6 DEF Answer
  <2> QED
    BY <1>2, <2>1
<1>7. CASE ToggleReadable \/ \E n \in Names, v \in Values \cup {None} : ChangeSecret(n, v)
  <2>1. output' = output /\ pc' = pc
    BY <1>7 DEF ToggleReadable, ChangeSecret, Event
  <2> QED
    BY <1>1, <2>1 DEF OutputInv
<1>8. CASE UNCHANGED vars
  <2>1. output' = output /\ pc' = pc
    BY <1>8 DEF vars
  <2> QED
    BY <1>1, <2>1 DEF OutputInv
<1> QED
  BY <1>3, <1>4, <1>5, <1>6, <1>7, <1>8 DEF Next

LEMMA OutputAlways == Spec => []OutputInv
<1>1. Init => OutputInv
  BY DEF Init, OutputInv
<1> QED
  BY <1>1, OutputStep, PTL DEF Spec

\* Secrets that do not overlap are masked to the last character and nothing else is
\* changed, whatever the remote end sends and in every order of the values (the loop of
\* scrub_output): as long as neither a secret nor the remote end has the mask in what it
\* says.
THEOREM NothingElseIsTakenAway ==
  ASSUME NoMaskIn(Values), NoMaskIn(Outputs) PROVE Spec => []OnlySecretsAreMasked
<1>1. Init => OnlySecretsAreMasked
  BY DEF Init, OnlySecretsAreMasked
<1>2. ASSUME CallInv, OutputInv, OnlySecretsAreMasked, [Next]_vars PROVE OnlySecretsAreMasked'
  <2>0. /\ vault \in [Names -> Values \cup {None}] /\ output \in Texts
        /\ held \in SUBSET Values /\ IsFiniteSet(held)
        /\ pc # "answered" => answer = <<>>
        /\ output \in Outputs \cup {<<>>} /\ (pc \in {"idle", "remote", "body"} => output = <<>>)
    BY <1>2 DEF CallInv, TypeOK, OutputInv
  <2>1. Known \in SUBSET Values /\ IsFiniteSet(Known)
    BY <2>0, KnownIs
  <2> SUFFICES ASSUME pc' = "answered", tool' \in ServerTools \cup {"gcloud_command"},
                      Apart(Literals(held'))
               PROVE  Unmasked(answer') = Public(output', Literals(held'))
    BY DEF OnlySecretsAreMasked
  <2>2. "call_service_api" \notin ServerTools \cup {"gcloud_command"}
        /\ "list_local_secret_names" \notin ServerTools \cup {"gcloud_command"}
    BY DEF ServerTools
  <2>3. CASE UNCHANGED vars
    BY <1>2, <2>3 DEF OnlySecretsAreMasked, vars
  <2>4. CASE Answer
    <3>1. /\ tool' = tool /\ output' = output
          /\ tool # "call_service_api" =>
               /\ held' = IF tool = "gcloud_command" THEN held ELSE Known
               /\ answer' \in Scrubbed
      BY <2>4 DEF Answer
    <3>2. held' \in SUBSET Values /\ IsFiniteSet(held') /\ answer' \in ScrubOutputs(output, held')
      BY <2>0, <2>1, <2>2, <3>1 DEF Scrubbed
    <3>3. output \in Seq(Chars) /\ Mask \in Chars
      BY <2>0, CharsAre DEF Texts
    <3>4. \A i \in 1 .. Len(output) : output[i] # Mask
      BY <2>0 DEF NoMaskIn
    <3>5. held' \in SUBSET Seq(STRING) /\ NoMaskIn(held')
      BY <3>2, ToolCallsAssumption DEF NoMaskIn
    <3> DEFINE values == held'
    <3> HIDE DEF values
    <3>6. Unmasked(answer') = Public(output, Literals(values))
      BY <3>2, <3>3, <3>4, <3>5, ScrubbingSpares DEF values
    <3> QED
      BY <3>1, <3>6 DEF values
  <2>5. ASSUME output' = <<>>, answer' = <<>> PROVE Unmasked(answer') = Public(output', Literals(held'))
    BY <2>5, NothingIsMasked
  <2>6. CASE Calls
    <3>1. /\ tool' = "list_local_secret_names" \/ tool' = "call_service_api"
             \/ (pc' = "answered" => answer' = <<>>)
          /\ pc = "idle" /\ output' = output
      BY <2>6 DEF Calls, RunCommand, ReadRemoteFile, QueryDatabase, ListDbTables, ListSecretNames,
                  GcloudCommand, CallService, Begin, Refuse, Ask
    <3> QED
      BY <2>0, <2>2, <2>5, <3>1
  <2>7. CASE ConnectionFails
    <3>1. output' = output /\ answer' = answer /\ pc = "remote"
      BY <2>7 DEF ConnectionFails
    <3> QED
      BY <2>0, <2>5, <3>1
  <2>8. CASE (\E text \in Outputs : Returns(text) \/ BodyArrives(text) \/ RequestFails(text))
             \/ Responds \/ TimesOut
    BY <2>8 DEF Returns, BodyArrives, RequestFails, Responds, TimesOut
  <2>9. CASE ToggleReadable \/ \E n \in Names, w \in Values \cup {None} : ChangeSecret(n, w)
    BY <2>9 DEF ToggleReadable, ChangeSecret, Event
  <2> QED
    BY <1>2, <2>3, <2>4, <2>6, <2>7, <2>8, <2>9 DEF Next
<1> QED
  BY <1>1, <1>2, CallAlways, OutputAlways, PTL DEF Spec
=============================================================================
