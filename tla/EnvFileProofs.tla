--------------------------- MODULE EnvFileProofs ---------------------------
(* Facts about the operators of EnvFile, for files of any length.          *)
EXTENDS EnvFile, SequenceTheorems, WellFoundedInduction, TLAPS

LEMMA JoinType == ASSUME NEW ls \in Seq(Line) PROVE Join(ls) \in Text
<1>1. CASE ls # <<>> /\ ls[Len(ls)] = Blank
  <2>1. SubSeq(ls, 1, Len(ls) - 1) \in Seq(Line)
    BY <1>1, SMT
  <2>2. QED BY <1>1, <2>1 DEF Join, Text
<1>2. CASE ~ (ls # <<>> /\ ls[Len(ls)] = Blank)
  BY <1>2 DEF Join, Text
<1>3. QED BY <1>1, <1>2

\* A non-empty set of naturals has a least element.
LEMMA LeastByOrder ==
  ASSUME NEW R, IsWellFoundedOn(R, Nat), \A x, y \in Nat : <<y, x>> \in R <=> y < x,
         NEW T, T \subseteq Nat, T # {}
  PROVE  \E x \in T : \A y \in T : x <= y
<1>1. \E x \in T : \A y \in T : <<y, x>> \notin R
  BY WFMin
<1>2. PICK x \in T : \A y \in T : <<y, x>> \notin R
  BY <1>1
<1>3. ASSUME NEW y \in T PROVE x <= y
  <2>1. x \in Nat /\ y \in Nat /\ <<y, x>> \notin R
    BY <1>2
  <2>2. ~ (y < x)
    BY <2>1, Zenon
  <2>3. QED BY <2>1, <2>2
<1>4. QED BY <1>3

LEMMA LeastNatural == \A T \in SUBSET Nat : T # {} => \E x \in T : \A y \in T : x <= y
<1>1. \A x, y \in Nat : <<y, x>> \in OpToRel(<, Nat) <=> y < x
  BY DEF OpToRel
<1>2. QED BY ONLY <1>1, NatLessThanWellFounded, LeastByOrder, Zenon

\* The first assignment of a key, where there is one, is an assignment of it
\* with none before it.
LEMMA FirstKeyLineIsFirst ==
  ASSUME NEW ls \in Seq(Line), NEW k, KeyLines(ls, k) # {}
  PROVE  /\ FirstKeyLine(ls, k) \in KeyLines(ls, k)
         /\ FirstKeyLine(ls, k) \in 1 .. Len(ls)
         /\ \A j \in KeyLines(ls, k) : FirstKeyLine(ls, k) <= j
<1>1. KeyLines(ls, k) \subseteq 1 .. Len(ls)
  BY DEF KeyLines
<1>2. \E i \in KeyLines(ls, k) : \A j \in KeyLines(ls, k) : i <= j
  BY <1>1, LeastNatural
<1>3. FirstKeyLine(ls, k) \in KeyLines(ls, k)
         /\ \A j \in KeyLines(ls, k) : FirstKeyLine(ls, k) <= j
  BY <1>2 DEF FirstKeyLine
<1>4. QED BY <1>1, <1>3

LEMMA NewLinesType ==
  ASSUME NEW k \in EnvKey, NEW v \in SecretValue
  PROVE  /\ NewLine(k, v) \in Assigning(k.name) /\ NewLine(k, v) \in Line
         /\ NewLines(k, v) \in Seq(Line)
         /\ \E i \in DOMAIN NewLines(k, v) : NewLines(k, v)[i] = NewLine(k, v)
<1> DEFINE x == NewLine(k, v)
<1>1. /\ k.name \in Keys /\ k.above \in Seq(Line) /\ k.tail \in Tails \cup {NoTail}
      /\ v.rest \in Seq(Line) /\ v.head \in Words
  BY DEF EnvKey, SecretValue
<1>2. (IF k.tail = NoTail THEN v.head ELSE <<k.tail, v.head>>) \in Word
  BY <1>1 DEF Word
<1>3. x \in Assigning(k.name) /\ x \in Line
  BY <1>1, <1>2 DEF NewLine, Line, Assignments, Assigning
<1>4. NewLines(k, v) = k.above \o <<x>> \o v.rest
  BY DEF NewLines
<1> HIDE DEF x
<1>5. NewLines(k, v) \in Seq(Line)
  BY <1>1, <1>3, <1>4
<1>6. /\ Len(k.above) + 1 \in DOMAIN NewLines(k, v)
      /\ NewLines(k, v)[Len(k.above) + 1] = x
  <2> DEFINE a == k.above
             b == v.rest
             n == Len(a) + 1
  <2>1. a \in Seq(Line) /\ b \in Seq(Line) /\ NewLines(k, v) = a \o <<x>> \o b
    BY <1>1, <1>4
  <2> HIDE DEF a, b
  <2>2. n \in DOMAIN (a \o <<x>> \o b) /\ (a \o <<x>> \o b)[n] = x
    BY <1>3, <2>1
  <2>3. QED BY <2>1, <2>2 DEF a
<1>7. QED BY <1>3, <1>5, <1>6 DEF x

\* compute_env_update turns a text into a text.
LEMMA EnvUpdateType ==
  ASSUME NEW t \in Text, NEW k \in EnvKey, NEW v \in SecretValue
  PROVE  EnvUpdate(t, k, v) \in Text
<1>1. t.lines \in Seq(Line)
  BY DEF Text
<1>2. NewLines(k, v) \in Seq(Line)
  BY NewLinesType
<1>3. EnvUpdatedLines(t.lines, k, v) \in Seq(Line)
  <2>1. CASE KeyLines(t.lines, k) = {}
    BY <1>1, <1>2, <2>1 DEF EnvUpdatedLines
  <2>2. CASE KeyLines(t.lines, k) # {}
    <3> DEFINE i == FirstKeyLine(t.lines, k)
    <3>1. i \in 1 .. Len(t.lines)
      BY <1>1, <2>2, FirstKeyLineIsFirst
    <3> HIDE DEF i
    <3>2. SubSeq(t.lines, 1, i - 1) \in Seq(Line)
      BY <1>1, <3>1, SMT
    <3>3. SubSeq(t.lines, i + 1, Len(t.lines)) \in Seq(Line)
      BY <1>1, <3>1, SMT
    <3>4. QED BY <1>2, <2>2, <3>2, <3>3 DEF EnvUpdatedLines, i
  <2>3. QED BY <2>1, <2>2
<1>4. QED BY <1>3, JoinType DEF EnvUpdate

\* Induction on the natural numbers, for sets of them.
LEMMA Counting ==
  \A T \in SUBSET Nat : 0 \in T /\ (\A n \in T : n + 1 \in T) => Nat \subseteq T
<1> SUFFICES ASSUME NEW T \in SUBSET Nat, 0 \in T, \A n \in T : n + 1 \in T,
                    Nat \ T # {}
             PROVE  FALSE
  OBVIOUS
<1>1. PICK x \in Nat \ T : \A y \in Nat \ T : x <= y
  BY LeastNatural
<1>2. x - 1 \in Nat /\ x - 1 < x
  BY <1>1
<1>3. x - 1 \in T
  BY <1>1, <1>2
<1>4. (x - 1) + 1 = x
  BY <1>1
<1>5. QED BY <1>1, <1>3, <1>4

\* The first m steps of Without: f[i] is what is kept of the first i lines.
KeepsUpTo(ls, dropped, m, f) ==
  /\ f[0] = <<>>
  /\ \A i \in 1 .. m : f[i] = IF ls[i] \in dropped THEN f[i - 1] ELSE Append(f[i - 1], ls[i])

\* They stay within the lines.
LEMMA KeptLines ==
  ASSUME NEW ls \in Seq(Line), NEW dropped, NEW f, KeepsUpTo(ls, dropped, Len(ls), f),
         NEW m \in 0 .. Len(ls)
  PROVE  f[m] \in Seq(Line)
<1> DEFINE T == {n \in Nat : n <= Len(ls) => f[n] \in Seq(Line)}
<1>1. 0 \in T
  <2>1. f[0] = <<>>
    BY DEF KeepsUpTo
  <2>2. f[0] \in Seq(Line)
    BY ONLY <2>1
  <2>3. QED BY <2>2
<1>2. ASSUME NEW n \in T PROVE n + 1 \in T
  <2> SUFFICES ASSUME n + 1 <= Len(ls) PROVE f[n + 1] \in Seq(Line)
    OBVIOUS
  <2>1. f[n] \in Seq(Line) /\ ls[n + 1] \in Line /\ n + 1 \in 1 .. Len(ls) /\ (n + 1) - 1 = n
    OBVIOUS
  <2>2. f[n + 1] = IF ls[n + 1] \in dropped THEN f[n] ELSE Append(f[n], ls[n + 1])
    BY <2>1 DEF KeepsUpTo
  <2>3. QED BY ONLY <2>1, <2>2
<1>3. T \in SUBSET Nat
  OBVIOUS
<1>4. Nat \subseteq T
  <2> HIDE DEF T
  <2>1. QED BY <1>1, <1>2, <1>3, Counting
<1>5. m \in T
  BY <1>4
<1>6. QED BY <1>5

\* They exist.
LEMMA KeptExists ==
  ASSUME NEW ls, NEW dropped, NEW n \in Nat
  PROVE  \E f : KeepsUpTo(ls, dropped, n, f)
<1> DEFINE T == {m \in Nat : \E f : KeepsUpTo(ls, dropped, m, f)}
<1>1. 0 \in T
  <2>1. KeepsUpTo(ls, dropped, 0, [i \in {0} |-> <<>>])
    BY DEF KeepsUpTo
  <2>2. QED BY <2>1
<1>2. ASSUME NEW m \in T PROVE m + 1 \in T
  <2>1. PICK f : KeepsUpTo(ls, dropped, m, f)
    OBVIOUS
  <2> DEFINE g == [i \in 0 .. m + 1 |->
                     IF i <= m THEN f[i]
                     ELSE IF ls[m + 1] \in dropped THEN f[m] ELSE Append(f[m], ls[m + 1])]
  <2>2. KeepsUpTo(ls, dropped, m + 1, g)
    <3>1. g[0] = <<>>
      BY <2>1 DEF KeepsUpTo
    <3>2. ASSUME NEW i \in 1 .. m
          PROVE  g[i] = IF ls[i] \in dropped THEN g[i - 1] ELSE Append(g[i - 1], ls[i])
      <4>1. g[i] = f[i] /\ g[i - 1] = f[i - 1]
        OBVIOUS
      <4> HIDE DEF g
      <4>2. QED BY <2>1, <4>1 DEF KeepsUpTo
    <3>3. g[m + 1] = IF ls[m + 1] \in dropped THEN g[m] ELSE Append(g[m], ls[m + 1])
      OBVIOUS
    <3>4. \A i \in 1 .. m + 1 : i \in 1 .. m \/ (i = m + 1 /\ i - 1 = m)
      OBVIOUS
    <3> HIDE DEF g
    <3>5. \A i \in 1 .. m + 1 :
            g[i] = IF ls[i] \in dropped THEN g[i - 1] ELSE Append(g[i - 1], ls[i])
      BY <3>2, <3>3, <3>4
    <3>6. QED BY <3>1, <3>5 DEF KeepsUpTo
  <2>3. QED BY <2>2
<1>3. T \in SUBSET Nat
  OBVIOUS
<1>4. Nat \subseteq T
  <2> HIDE DEF T
  <2>1. QED BY <1>1, <1>2, <1>3, Counting
<1>5. n \in T
  BY <1>4
<1>6. QED BY <1>5

\* They are unique.
LEMMA KeptUnique ==
  ASSUME NEW ls, NEW dropped, NEW n \in Nat, NEW f, NEW g, NEW m \in 0 .. n,
         KeepsUpTo(ls, dropped, n, f), KeepsUpTo(ls, dropped, n, g)
  PROVE  f[m] = g[m]
<1> DEFINE T == {k \in Nat : k <= n => f[k] = g[k]}
<1>1. 0 \in T
  BY DEF KeepsUpTo
<1>2. ASSUME NEW k \in T PROVE k + 1 \in T
  <2> SUFFICES ASSUME k + 1 <= n PROVE f[k + 1] = g[k + 1]
    OBVIOUS
  <2>1. f[k] = g[k] /\ k + 1 \in 1 .. n /\ (k + 1) - 1 = k
    OBVIOUS
  <2>2. /\ f[k + 1] = IF ls[k + 1] \in dropped THEN f[k] ELSE Append(f[k], ls[k + 1])
        /\ g[k + 1] = IF ls[k + 1] \in dropped THEN g[k] ELSE Append(g[k], ls[k + 1])
    BY <2>1 DEF KeepsUpTo
  <2>3. QED BY ONLY <2>1, <2>2
<1>3. T \in SUBSET Nat
  OBVIOUS
<1>4. Nat \subseteq T
  <2> HIDE DEF T
  <2>1. QED BY <1>1, <1>2, <1>3, Counting
<1>5. m \in T
  BY <1>4
<1>6. QED BY <1>5

\* Without is the last of them.
LEMMA WithoutSteps ==
  ASSUME NEW ls \in Seq(Line), NEW dropped
  PROVE  \E f : KeepsUpTo(ls, dropped, Len(ls), f) /\ Without(ls, dropped) = f[Len(ls)]
<1> DEFINE Kept(f) == f = [i \in 0 .. Len(ls) |->
                             IF i = 0 THEN <<>>
                             ELSE IF ls[i] \in dropped THEN f[i - 1]
                             ELSE Append(f[i - 1], ls[i])]
           kept == CHOOSE f : Kept(f)
<1>1. \E f : Kept(f)
  <2>0. Len(ls) \in Nat
    OBVIOUS
  <2>1. PICK f : KeepsUpTo(ls, dropped, Len(ls), f)
    BY <2>0, KeptExists, Zenon
  <2> DEFINE g == [i \in 0 .. Len(ls) |-> f[i]]
  <2>2. \A i \in 1 .. Len(ls) : g[i] = f[i] /\ g[i - 1] = f[i - 1]
    OBVIOUS
  <2>3. g[0] = <<>> /\ \A i \in 1 .. Len(ls) :
          g[i] = IF ls[i] \in dropped THEN g[i - 1] ELSE Append(g[i - 1], ls[i])
    BY <2>1, <2>2 DEF KeepsUpTo
  <2>4. g = [i \in 0 .. Len(ls) |-> g[i]]
    OBVIOUS
  <2> HIDE DEF g
  <2>5. \A i \in 0 .. Len(ls) : i = 0 \/ i \in 1 .. Len(ls)
    OBVIOUS
  <2>6. Kept(g)
    BY <2>3, <2>4, <2>5
  <2>7. QED BY <2>6
<1>2. Kept(kept)
  BY <1>1
<1>3. Without(ls, dropped) = kept[Len(ls)]
  BY DEF Without
<1> HIDE DEF kept
<1>4. KeepsUpTo(ls, dropped, Len(ls), kept)
  <2>1. \A i \in 1 .. Len(ls) : i \in 0 .. Len(ls) /\ i # 0
    OBVIOUS
  <2>2. 0 \in 0 .. Len(ls)
    OBVIOUS
  <2>3. QED BY <1>2, <2>1, <2>2 DEF KeepsUpTo
<1>5. QED BY <1>3, <1>4

LEMMA WithoutIs ==
  ASSUME NEW ls \in Seq(Line), NEW dropped, NEW f, KeepsUpTo(ls, dropped, Len(ls), f)
  PROVE  Without(ls, dropped) = f[Len(ls)]
<1>1. PICK g : KeepsUpTo(ls, dropped, Len(ls), g) /\ Without(ls, dropped) = g[Len(ls)]
  BY WithoutSteps
<1>2. Len(ls) \in Nat /\ Len(ls) \in 0 .. Len(ls)
  OBVIOUS
<1>3. f[Len(ls)] = g[Len(ls)]
  BY <1>1, <1>2, KeptUnique
<1>4. QED BY <1>1, <1>3

LEMMA WithoutType ==
  ASSUME NEW ls \in Seq(Line), NEW dropped PROVE Without(ls, dropped) \in Seq(Line)
<1>1. PICK f : KeepsUpTo(ls, dropped, Len(ls), f) /\ Without(ls, dropped) = f[Len(ls)]
  BY WithoutSteps
<1>2. Len(ls) \in 0 .. Len(ls)
  OBVIOUS
<1>3. f[Len(ls)] \in Seq(Line)
  BY <1>1, <1>2, KeptLines, Zenon
<1>4. QED BY <1>1, <1>3

\* Without, line by line.
LEMMA WithoutNothing == ASSUME NEW dropped PROVE Without(<<>>, dropped) = <<>>
<1>1. <<>> \in Seq(Line) /\ Len(<<>>) = 0
  OBVIOUS
<1>2. PICK f : KeepsUpTo(<<>>, dropped, Len(<<>>), f) /\ Without(<<>>, dropped) = f[Len(<<>>)]
  BY <1>1, WithoutSteps
<1>3. QED BY <1>1, <1>2 DEF KeepsUpTo

LEMMA WithoutAppend ==
  ASSUME NEW ls \in Seq(Line), NEW line \in Line, NEW dropped
  PROVE  Without(Append(ls, line), dropped)
           = IF line \in dropped THEN Without(ls, dropped)
                                 ELSE Append(Without(ls, dropped), line)
<1> DEFINE more == Append(ls, line)
<1>1. /\ more \in Seq(Line) /\ Len(ls) \in Nat /\ Len(more) = Len(ls) + 1
      /\ \A i \in 1 .. Len(ls) : more[i] = ls[i]
      /\ more[Len(ls) + 1] = line
  OBVIOUS
<1> HIDE DEF more
<1>2. PICK f : KeepsUpTo(more, dropped, Len(more), f) /\ Without(more, dropped) = f[Len(more)]
  BY <1>1, WithoutSteps
<1>3. KeepsUpTo(ls, dropped, Len(ls), f)
  <2>1. \A i \in 1 .. Len(ls) : i \in 1 .. Len(more)
    BY <1>1
  <2>2. QED BY <1>1, <1>2, <2>1 DEF KeepsUpTo
<1>4. Without(ls, dropped) = f[Len(ls)]
  BY <1>3, WithoutIs
<1>5. f[Len(more)] = IF line \in dropped THEN f[Len(ls)] ELSE Append(f[Len(ls)], line)
  <2>1. Len(more) \in 1 .. Len(more) /\ Len(more) - 1 = Len(ls) /\ more[Len(more)] = line
    BY <1>1
  <2>2. QED BY <1>2, <2>1 DEF KeepsUpTo
<1>6. QED BY <1>2, <1>4, <1>5 DEF more

\* Induction on sequences of lines, for sets of them.
LEMMA LineByLine ==
  ASSUME NEW T \in SUBSET Seq(Line), <<>> \in T,
         \A ls \in T, line \in Line : Append(ls, line) \in T
  PROVE  Seq(Line) \subseteq T
<1> DEFINE N == {n \in Nat : \A ls \in Seq(Line) : Len(ls) = n => ls \in T}
<1>1. 0 \in N
  <2>1. \A ls \in Seq(Line) : Len(ls) = 0 => ls = <<>>
    OBVIOUS
  <2>2. QED BY <2>1
<1>2. ASSUME NEW n \in N PROVE n + 1 \in N
  <2> SUFFICES ASSUME NEW ls \in Seq(Line), Len(ls) = n + 1 PROVE ls \in T
    OBVIOUS
  <2>1. n \in Nat /\ ls # <<>>
    OBVIOUS
  <2>2. PICK s \in Seq(Line), line \in Line : ls = Append(s, line)
    BY <2>1, SequenceEmptyOrAppend
  <2>3. Len(ls) = Len(s) + 1 /\ Len(s) \in Nat
    BY <2>2, AppendProperties
  <2>4. Len(s) = n
    BY <2>1, <2>3
  <2>5. s \in T
    BY <2>4
  <2>6. QED BY <2>2, <2>5
<1>3. N \in SUBSET Nat
  OBVIOUS
<1>4. Nat \subseteq N
  <2> HIDE DEF N
  <2>1. QED BY <1>1, <1>2, <1>3, Counting
<1>5. ASSUME NEW ls \in Seq(Line) PROVE ls \in T
  <2>1. Len(ls) \in N
    BY <1>4
  <2>2. QED BY <2>1
<1>6. QED BY <1>5

\* What is kept of two parts of a file is kept of the whole.
LEMMA WithoutConcat ==
  ASSUME NEW a \in Seq(Line), NEW b \in Seq(Line), NEW dropped
  PROVE  Without(a \o b, dropped) = Without(a, dropped) \o Without(b, dropped)
<1> DEFINE T == {s \in Seq(Line) :
                   Without(a \o s, dropped) = Without(a, dropped) \o Without(s, dropped)}
<1>1. <<>> \in T
  <2>1. a \o <<>> = a /\ Without(a, dropped) \o <<>> = Without(a, dropped)
    BY WithoutType, ConcatEmptySeq
  <2>2. Without(<<>>, dropped) = <<>>
    BY WithoutNothing
  <2>3. Without(a \o <<>>, dropped) = Without(a, dropped) \o Without(<<>>, dropped)
    BY <2>1, <2>2, Zenon
  <2>4. QED BY <2>3
<1>2. ASSUME NEW s \in T, NEW line \in Line PROVE Append(s, line) \in T
  <2> DEFINE ka == Without(a, dropped)
             ks == Without(s, dropped)
  <2>1. s \in Seq(Line) /\ a \o s \in Seq(Line) /\ Append(s, line) \in Seq(Line)
    BY ConcatProperties, AppendProperties
  <2>2. a \o Append(s, line) = Append(a \o s, line)
    OBVIOUS
  <2>3. ka \in Seq(Line) /\ ks \in Seq(Line)
    BY <2>1, WithoutType
  <2>4. Without(a \o s, dropped) = ka \o ks
    OBVIOUS
  <2>5. Without(Append(a \o s, line), dropped)
          = IF line \in dropped THEN ka \o ks ELSE Append(ka \o ks, line)
    <3>1. Without(Append(a \o s, line), dropped)
            = IF line \in dropped THEN Without(a \o s, dropped)
                                  ELSE Append(Without(a \o s, dropped), line)
      BY <2>1, WithoutAppend
    <3>2. QED BY <2>4, <3>1
  <2>6. Without(Append(s, line), dropped) = IF line \in dropped THEN ks ELSE Append(ks, line)
    BY <2>1, WithoutAppend
  <2> HIDE DEF ka, ks
  <2>7. ka \o Append(ks, line) = Append(ka \o ks, line)
    BY <2>3
  <2>8. QED BY <2>1, <2>2, <2>5, <2>6, <2>7 DEF ka
<1>3. T \in SUBSET Seq(Line)
  OBVIOUS
<1>4. Seq(Line) \subseteq T
  <2> HIDE DEF T
  <2>1. QED BY <1>1, <1>2, <1>3, LineByLine
<1>5. b \in T
  BY <1>4
<1>6. QED BY <1>5

\* Of lines that are all dropped nothing is kept.
LEMMA WithoutAll ==
  ASSUME NEW ls \in Seq(Line), NEW dropped, \A i \in 1 .. Len(ls) : ls[i] \in dropped
  PROVE  Without(ls, dropped) = <<>>
<1> DEFINE T == {s \in Seq(Line) : (\A i \in 1 .. Len(s) : s[i] \in dropped)
                                     => Without(s, dropped) = <<>>}
<1>1. <<>> \in T
  BY WithoutNothing
<1>2. ASSUME NEW s \in T, NEW line \in Line PROVE Append(s, line) \in T
  <2>1. /\ s \in Seq(Line) /\ Len(s) \in Nat
        /\ Append(s, line) \in Seq(Line) /\ Len(Append(s, line)) = Len(s) + 1
        /\ \A i \in 1 .. Len(s) : Append(s, line)[i] = s[i]
        /\ Append(s, line)[Len(s) + 1] = line
    BY AppendProperties
  <2> SUFFICES ASSUME \A i \in 1 .. Len(Append(s, line)) : Append(s, line)[i] \in dropped
               PROVE  Without(Append(s, line), dropped) = <<>>
    BY <2>1
  <2>2. line \in dropped
    BY <2>1
  <2>3. \A i \in 1 .. Len(s) : s[i] \in dropped
    BY <2>1
  <2>4. Without(s, dropped) = <<>>
    BY <2>3
  <2>5. QED BY <2>1, <2>2, <2>4, WithoutAppend
<1>3. T \in SUBSET Seq(Line)
  OBVIOUS
<1>4. Seq(Line) \subseteq T
  <2> HIDE DEF T
  <2>1. QED BY <1>1, <1>2, <1>3, LineByLine
<1>5. ls \in T
  BY <1>4
<1>6. QED BY <1>5

\* join("\n") and str::lines lose no line but a blank one at the end.
LEMMA JoinKeeps ==
  ASSUME NEW ls \in Seq(Line), NEW dropped, Blank \in dropped
  PROVE  Without(Join(ls).lines, dropped) = Without(ls, dropped)
<1>1. CASE ls # <<>> /\ ls[Len(ls)] = Blank
  <2>1. PICK s \in Seq(Line), line \in Line : ls = Append(s, line)
    BY <1>1, SequenceEmptyOrAppend
  <2>2. line = Blank /\ SubSeq(ls, 1, Len(ls) - 1) = s
    BY <1>1, <2>1
  <2>3. Join(ls).lines = s
    BY <1>1, <2>2 DEF Join
  <2>4. QED BY <2>1, <2>2, <2>3, WithoutAppend
<1>2. CASE ~ (ls # <<>> /\ ls[Len(ls)] = Blank)
  BY <1>2 DEF Join
<1>3. QED BY <1>1, <1>2

LEMMA SplitAt ==
  ASSUME NEW ls \in Seq(Line), NEW i \in 1 .. Len(ls)
  PROVE  /\ SubSeq(ls, 1, i - 1) \in Seq(Line) /\ SubSeq(ls, i + 1, Len(ls)) \in Seq(Line)
         /\ Len(SubSeq(ls, 1, i - 1)) = i - 1
         /\ \A j \in 1 .. i - 1 : SubSeq(ls, 1, i - 1)[j] = ls[j]
         /\ <<ls[i]>> \in Seq(Line)
         /\ ls = SubSeq(ls, 1, i - 1) \o <<ls[i]>> \o SubSeq(ls, i + 1, Len(ls))
<1>1. SubSeq(ls, 1, i) = SubSeq(ls, 1, i - 1) \o <<ls[i]>>
  BY SubSeqRecursiveSecond
<1>2. SubSeq(ls, 1, i) \o SubSeq(ls, i + 1, Len(ls)) = SubSeq(ls, 1, Len(ls))
  BY ConcatAdjacentSubSeq
<1>3. SubSeq(ls, 1, Len(ls)) = ls
  BY SubSeqFull
<1>4. /\ SubSeq(ls, 1, i - 1) \in Seq(Line) /\ SubSeq(ls, i + 1, Len(ls)) \in Seq(Line)
      /\ Len(SubSeq(ls, 1, i - 1)) = i - 1
      /\ \A j \in 1 .. i - 1 : SubSeq(ls, 1, i - 1)[j] = ls[j]
      /\ <<ls[i]>> \in Seq(Line)
  OBVIOUS
<1>5. QED BY <1>1, <1>2, <1>3, <1>4

\* Whatever is neither blank, nor taken for k, nor one of the lines written, is in
\* the updated file as it was in the file, and in the same order.
LEMMA EnvUpdateKeeps ==
  ASSUME NEW t \in Text, NEW k \in EnvKey, NEW v \in SecretValue, NEW dropped,
         Blank \in dropped, KeyAssignments(k) \subseteq dropped,
         \A j \in DOMAIN NewLines(k, v) : NewLines(k, v)[j] \in dropped
  PROVE  Without(EnvUpdate(t, k, v).lines, dropped) = Without(t.lines, dropped)
<1> DEFINE ls == t.lines
           new == NewLines(k, v)
           keep(s) == Without(s, dropped)
<1>1. ls \in Seq(Line) /\ new \in Seq(Line)
  BY NewLinesType DEF Text
<1>2. keep(new) = <<>>
  <2>1. \A j \in 1 .. Len(new) : new[j] \in dropped
    BY <1>1
  <2>2. QED BY <1>1, <2>1, WithoutAll
<1>3. EnvUpdatedLines(ls, k, v) \in Seq(Line)
        /\ keep(EnvUpdatedLines(ls, k, v)) = keep(ls)
  <2>1. CASE KeyLines(ls, k) = {}
    <3>1. EnvUpdatedLines(ls, k, v) = ls \o new
      BY <2>1 DEF EnvUpdatedLines
    <3>2. ls \o new \in Seq(Line) /\ keep(ls \o new) = keep(ls) \o keep(new)
      BY <1>1, WithoutConcat, ConcatProperties
    <3>3. keep(ls) \o <<>> = keep(ls)
      BY <1>1, WithoutType, ConcatEmptySeq
    <3>4. QED BY <1>2, <3>1, <3>2, <3>3
  <2>2. CASE KeyLines(ls, k) # {}
    <3> DEFINE i == FirstKeyLine(ls, k)
               a == SubSeq(ls, 1, i - 1)
               b == SubSeq(ls, i + 1, Len(ls))
    <3>1. i \in 1 .. Len(ls) /\ ls[i] \in dropped
      BY <1>1, <2>2, FirstKeyLineIsFirst DEF KeyLines, IsEnvKeyLine
    <3>2. /\ a \in Seq(Line) /\ b \in Seq(Line) /\ <<ls[i]>> \in Seq(Line)
          /\ ls = a \o <<ls[i]>> \o b
      BY <1>1, <3>1, SplitAt
    <3>3. EnvUpdatedLines(ls, k, v) = a \o new \o b
      BY <2>2 DEF EnvUpdatedLines
    <3>4. keep(<<ls[i]>>) = <<>>
      <4>1. \A j \in 1 .. Len(<<ls[i]>>) : <<ls[i]>>[j] \in dropped
        BY <3>1
      <4>2. QED BY ONLY <3>2, <4>1, WithoutAll
    <3> DEFINE x == <<ls[i]>>
    <3> HIDE DEF new, a, b, ls, x, keep
    <3>5. ASSUME NEW c \in Seq(Line), keep(c) = <<>>
          PROVE  a \o c \o b \in Seq(Line) /\ keep(a \o c \o b) = keep(a) \o keep(b)
      <4>1. a \o c \in Seq(Line) /\ a \o c \o b \in Seq(Line)
        BY <3>2, ConcatProperties
      <4>2. keep(a \o c \o b) = keep(a \o c) \o keep(b)
        <5> DEFINE ac == a \o c
        <5>1. ac \in Seq(Line)
          BY <4>1
        <5> HIDE DEF ac
        <5>2. keep(ac \o b) = keep(ac) \o keep(b)
          BY <3>2, <5>1, WithoutConcat DEF keep
        <5>3. QED BY <5>2 DEF ac
      <4>3. keep(a \o c) = keep(a) \o keep(c)
        BY <3>2, WithoutConcat DEF keep
      <4>4. keep(a) \o <<>> = keep(a)
        BY <3>2, WithoutType, ConcatEmptySeq DEF keep
      <4>5. QED BY <3>5, <4>1, <4>2, <4>3, <4>4
    <3>6. QED BY <1>1, <1>2, <3>2, <3>3, <3>4, <3>5 DEF x
  <2>3. QED BY <2>1, <2>2
<1>4. QED BY <1>3, JoinKeeps DEF EnvUpdate

-----------------------------------------------------------------------------
(* What a reader finds under a name.                                      *)

Others(n) == Line \ Assigning(n)

LEMMA OthersDrop ==
  ASSUME NEW n \in Keys
  PROVE  /\ Blank \in Others(n)
         /\ \A line \in Line : line \in Others(n) <=> line \notin Assigning(n)
BY RawAssumption DEF Others, Line, Assignments, Assigning

LEMMA PartsAssociate ==
  \A a, b, c \in Seq(Line) : (a \o b) \o c = a \o (b \o c)
BY ConcatAssociative

\* A sequence with a line in front.
Headed(x, s) == <<x>> \o s

\* What is kept begins with the first line that is not dropped.
LEMMA FirstKept ==
  ASSUME NEW a \in Seq(Line), NEW x \in Line, NEW b \in Seq(Line), NEW dropped,
         x \notin dropped, \A j \in 1 .. Len(a) : a[j] \in dropped
  PROVE  /\ a \o <<x>> \o b \in Seq(Line)
         /\ Without(a \o <<x>> \o b, dropped) = Headed(x, Without(b, dropped))
<1> DEFINE ax == Append(a, x)
           keep(s) == Without(s, dropped)
<1>1. ax \in Seq(Line) /\ ax = a \o <<x>>
  BY AppendProperties, AppendIsConcat
<1>2. keep(a) = <<>>
  BY WithoutAll
<1>3. keep(ax) = Append(keep(a), x)
  BY WithoutAppend
<1> HIDE DEF ax
<1>4. ax \o b \in Seq(Line)
  BY <1>1, ConcatProperties
<1>5. keep(ax \o b) = keep(ax) \o keep(b)
  BY <1>1, WithoutConcat
<1> HIDE DEF keep
<1>6. keep(ax) = <<x>>
  BY <1>2, <1>3
<1>7. QED BY <1>1, <1>4, <1>5, <1>6 DEF keep, Headed

\* A sequence that begins with a line is not empty.
LEMMA BeginsWithLine ==
  ASSUME NEW x \in Line, NEW s \in Seq(Line)
  PROVE  /\ Headed(x, s) # <<>> /\ Headed(x, s)[1] = x
         /\ Len(Headed(x, s)) = 1 + Len(s)
<1>1. Len(<<x>> \o s) = 1 + Len(s) /\ (<<x>> \o s)[1] = x /\ Len(s) \in Nat
  OBVIOUS
<1>2. <<x>> \o s # <<>>
  <2>1. Len(<<>>) = 0
    OBVIOUS
  <2>2. QED BY ONLY <1>1, <2>1
<1>3. QED BY <1>1, <1>2 DEF Headed

\* The lines before the first one taken for k do not assign its name.
LEMMA BeforeFirst ==
  ASSUME NEW ls \in Seq(Line), NEW k \in EnvKey, Exact(k), NEW n \in 0 .. Len(ls),
         \A i \in KeyLines(ls, k) : n < i,
         NEW a \in Seq(Line), Len(a) = n, \A j \in 1 .. n : a[j] = ls[j]
  PROVE  \A j \in 1 .. Len(a) : a[j] \in Others(k.name)
<1> SUFFICES ASSUME NEW j \in 1 .. n PROVE a[j] \in Others(k.name)
  OBVIOUS
<1>1. j \in 1 .. Len(ls) /\ ~ (n < j) /\ a[j] = ls[j]
  OBVIOUS
<1>2. j \notin KeyLines(ls, k) /\ ls[j] \in Line
  BY <1>1
<1>3. QED BY <1>1, <1>2, OthersDrop DEF KeyLines, IsEnvKeyLine, KeyAssignments, EnvKey

\* A file at its first line taken for k, if there is one.
LEMMA FirstOfKept ==
  ASSUME NEW ls \in Seq(Line), NEW k \in EnvKey, Exact(k)
  PROVE  /\ KeyLines(ls, k) = {} => \A j \in 1 .. Len(ls) : ls[j] \in Others(k.name)
         /\ KeyLines(ls, k) # {} =>
              LET i == FirstKeyLine(ls, k)
                  a == SubSeq(ls, 1, i - 1)
                  b == SubSeq(ls, i + 1, Len(ls))
              IN  /\ i \in 1 .. Len(ls) /\ ls[i] \in Line
                  /\ a \in Seq(Line) /\ b \in Seq(Line)
                  /\ \A j \in 1 .. Len(a) : a[j] \in Others(k.name)
                  /\ Without(ls, Others(k.name)) = Headed(ls[i], Without(b, Others(k.name)))
<1>1. ASSUME KeyLines(ls, k) = {}, NEW j \in 1 .. Len(ls)
      PROVE  ls[j] \in Others(k.name)
  <2>1. ls[j] \in Line /\ ls[j] \notin Assigning(k.name)
    BY <1>1 DEF KeyLines, IsEnvKeyLine, KeyAssignments
  <2>2. QED BY <2>1, OthersDrop DEF EnvKey
<1> DEFINE i == FirstKeyLine(ls, k)
           a == SubSeq(ls, 1, i - 1)
           b == SubSeq(ls, i + 1, Len(ls))
           x == ls[i]
<1>2. ASSUME KeyLines(ls, k) # {}
      PROVE  /\ i \in 1 .. Len(ls) /\ x \in Line
             /\ a \in Seq(Line) /\ b \in Seq(Line)
             /\ \A j \in 1 .. Len(a) : a[j] \in Others(k.name)
             /\ Without(ls, Others(k.name)) = Headed(x, Without(b, Others(k.name)))
  <2>1. /\ i \in KeyLines(ls, k) /\ i \in 1 .. Len(ls)
        /\ \A j \in KeyLines(ls, k) : i <= j
    BY <1>2, FirstKeyLineIsFirst
  <2>2. /\ a \in Seq(Line) /\ b \in Seq(Line)
        /\ Len(a) = i - 1 /\ \A j \in 1 .. i - 1 : a[j] = ls[j]
        /\ ls = a \o <<x>> \o b
    BY <2>1, SplitAt
  <2>3. x \in Line /\ x \notin Others(k.name)
    BY <2>1, OthersDrop DEF KeyLines, IsEnvKeyLine, KeyAssignments, EnvKey
  <2> HIDE DEF i, a, b, x
  <2>4. i - 1 \in 0 .. Len(ls) /\ \A j \in KeyLines(ls, k) : i - 1 < j
    BY <2>1 DEF KeyLines
  <2>5. \A j \in 1 .. Len(a) : a[j] \in Others(k.name)
    BY <2>2, <2>4, BeforeFirst
  <2>6. Without(ls, Others(k.name)) = Headed(x, Without(b, Others(k.name)))
    <3> DEFINE D == Others(k.name)
    <3>1. x \notin D /\ \A j \in 1 .. Len(a) : a[j] \in D
      BY <2>3, <2>5
    <3> HIDE DEF D
    <3>2. Without(a \o <<x>> \o b, D) = Headed(x, Without(b, D))
      BY ONLY <2>2, <2>3, <3>1, FirstKept
    <3>3. QED BY <2>2, <3>2, Zenon DEF D
  <2>7. QED BY <2>1, <2>2, <2>3, <2>5, <2>6
<1>3. QED BY <1>1, <1>2

\* Under an exact key, the updated file has the new line before any other
\* assignment of the name; and it has no other one if the file had at most one
\* and the value brings none along.
LEMMA UpdatedParts ==
  ASSUME NEW ls \in Seq(Line), NEW k \in EnvKey, NEW v \in SecretValue, Exact(k)
  PROVE  \E a, c \in Seq(Line) :
           /\ \A j \in 1 .. Len(a) : a[j] \in Others(k.name)
           /\ EnvUpdatedLines(ls, k, v) = a \o <<NewLine(k, v)>> \o c
           /\ Len(Without(ls, Others(k.name))) <= 1 /\ ~ Assigns(v.rest, k.name)
                => Without(c, Others(k.name)) = <<>>
<1> DEFINE x == NewLine(k, v)
           keep(s) == Without(s, Others(k.name))
<1>1. v.rest \in Seq(Line) /\ x \in Line /\ <<x>> \in Seq(Line)
  BY NewLinesType DEF SecretValue
<1>2. NewLines(k, v) = <<x>> \o v.rest
  <2>1. NewLines(k, v) = <<>> \o <<x>> \o v.rest
    BY DEF NewLines, Exact
  <2> HIDE DEF x
  <2>2. QED BY <1>1, <2>1
<1>3. ~ Assigns(v.rest, k.name) => keep(v.rest) = <<>>
  <2> SUFFICES ASSUME ~ Assigns(v.rest, k.name) PROVE keep(v.rest) = <<>>
    OBVIOUS
  <2>1. \A j \in 1 .. Len(v.rest) : v.rest[j] \in Line /\ v.rest[j] \notin Assigning(k.name)
    BY <1>1 DEF Assigns
  <2>2. \A j \in 1 .. Len(v.rest) : v.rest[j] \in Others(k.name)
    BY <2>1, OthersDrop DEF EnvKey
  <2>3. QED BY <1>1, <2>2, WithoutAll
<1> HIDE DEF x
<1>4. CASE KeyLines(ls, k) = {}
  <2>1. \A j \in 1 .. Len(ls) : ls[j] \in Others(k.name)
    BY <1>4, FirstOfKept
  <2>2. EnvUpdatedLines(ls, k, v) = ls \o (<<x>> \o v.rest)
    BY <1>2, <1>4 DEF EnvUpdatedLines
  <2>3. EnvUpdatedLines(ls, k, v) = ls \o <<x>> \o v.rest
    BY <1>1, <2>2, PartsAssociate
  <2>4. QED BY <1>1, <1>3, <2>1, <2>3 DEF x
<1>5. CASE KeyLines(ls, k) # {}
  <2> DEFINE i == FirstKeyLine(ls, k)
             a == SubSeq(ls, 1, i - 1)
             b == SubSeq(ls, i + 1, Len(ls))
  <2>1. /\ ls[i] \in Line /\ a \in Seq(Line) /\ b \in Seq(Line)
        /\ \A j \in 1 .. Len(a) : a[j] \in Others(k.name)
        /\ keep(ls) = Headed(ls[i], keep(b))
    BY <1>5, FirstOfKept
  <2>2. EnvUpdatedLines(ls, k, v) = a \o (<<x>> \o v.rest) \o b
    BY <1>2, <1>5 DEF EnvUpdatedLines
  <2> DEFINE y == ls[i]
  <2> HIDE DEF i, a, b, y
  <2>3. v.rest \o b \in Seq(Line) /\ keep(v.rest \o b) = keep(v.rest) \o keep(b)
    BY <1>1, <2>1, ConcatProperties, WithoutConcat
  <2>4. keep(b) \in Seq(Line)
    BY <2>1, WithoutType
  <2> HIDE DEF keep
  <2>5. EnvUpdatedLines(ls, k, v) = a \o <<x>> \o (v.rest \o b)
    <3>1. a \o (<<x>> \o v.rest) = a \o <<x>> \o v.rest
      BY <1>1, <2>1, PartsAssociate
    <3> DEFINE ax == a \o <<x>>
    <3>2. ax \in Seq(Line)
      BY <1>1, <2>1, ConcatProperties
    <3> HIDE DEF ax
    <3>3. (ax \o v.rest) \o b = ax \o (v.rest \o b)
      BY <1>1, <2>1, <3>2, PartsAssociate
    <3>4. QED BY <2>2, <3>1, <3>3 DEF ax
  <2>6. ASSUME Len(keep(ls)) <= 1, keep(v.rest) = <<>>
        PROVE  keep(v.rest \o b) = <<>>
    <3>1. Len(keep(ls)) = 1 + Len(keep(b))
      BY <2>1, <2>4, BeginsWithLine DEF y
    <3>2. keep(b) = <<>>
      BY <2>4, <2>6, <3>1
    <3>3. QED BY <2>3, <2>6, <3>2
  <2>7. QED BY <1>1, <1>3, <2>1, <2>3, <2>5, <2>6 DEF keep, x
<1>6. QED BY <1>4, <1>5

\* After an update under an exact key, its first line is the new one.
LEMMA UpdatedFirst ==
  ASSUME NEW t \in Text, NEW k \in EnvKey, NEW v \in SecretValue, Exact(k)
  PROVE  LET new == EnvUpdate(t, k, v).lines
         IN  KeyLines(new, k) # {} /\ new[FirstKeyLine(new, k)] = NewLine(k, v)
<1> DEFINE up == EnvUpdatedLines(t.lines, k, v)
           new == EnvUpdate(t, k, v).lines
           x == NewLine(k, v)
<1>1. t.lines \in Seq(Line) /\ new \in Seq(Line)
  BY EnvUpdateType DEF Text
<1>2. x \in Line /\ x \notin Others(k.name)
  BY NewLinesType DEF Others
<1>3. PICK a, c \in Seq(Line) : /\ \A j \in 1 .. Len(a) : a[j] \in Others(k.name)
                                /\ up = a \o <<x>> \o c
  BY <1>1, UpdatedParts
<1> HIDE DEF up, x
<1>4. up \in Seq(Line) /\ Without(up, Others(k.name)) = Headed(x, Without(c, Others(k.name)))
  <2> DEFINE D == Others(k.name)
  <2>0. x \notin D /\ \A j \in 1 .. Len(a) : a[j] \in D
    BY <1>2, <1>3
  <2> HIDE DEF D
  <2>1. a \o <<x>> \o c \in Seq(Line) /\ Without(a \o <<x>> \o c, D) = Headed(x, Without(c, D))
    BY ONLY <1>2, <1>3, <2>0, FirstKept
  <2>2. QED BY <1>3, <2>1, Zenon DEF D
<1>5. Blank \in Others(k.name)
  BY OthersDrop DEF EnvKey
<1>6. Without(new, Others(k.name)) = Headed(x, Without(c, Others(k.name)))
  BY <1>4, <1>5, JoinKeeps DEF EnvUpdate, up
<1> HIDE DEF new
<1>7. Without(c, Others(k.name)) \in Seq(Line)
  BY WithoutType
<1>8. Without(new, Others(k.name)) # <<>> /\ Without(new, Others(k.name))[1] = x
  BY <1>2, <1>6, <1>7, BeginsWithLine
<1>9. KeyLines(new, k) # {}
  BY <1>1, <1>8, FirstOfKept, WithoutAll
<1>10. new[FirstKeyLine(new, k)] = x
  <2> DEFINE y == new[FirstKeyLine(new, k)]
             b == SubSeq(new, FirstKeyLine(new, k) + 1, Len(new))
  <2>1. y \in Line /\ b \in Seq(Line)
        /\ Without(new, Others(k.name)) = Headed(y, Without(b, Others(k.name)))
    BY <1>1, <1>9, FirstOfKept
  <2> HIDE DEF y, b
  <2>2. Without(b, Others(k.name)) \in Seq(Line)
    BY <2>1, WithoutType
  <2>3. Without(new, Others(k.name))[1] = y
    BY <2>1, <2>2, BeginsWithLine
  <2>4. QED BY <1>8, <2>3 DEF y
<1>11. QED BY <1>9, <1>10 DEF new, x

\* A name that the file assigned at most once reads back its new value.
LEMMA UpdatedReadsBack ==
  ASSUME NEW t \in Text, NEW k \in EnvKey, NEW v \in SecretValue, Exact(k),
         Len(AssignmentsOf(t.lines, k.name)) <= 1, ~ Assigns(v.rest, k.name)
  PROVE  ReadsBack(EnvUpdate(t, k, v), k.name, v)
<1> DEFINE up == EnvUpdatedLines(t.lines, k, v)
           x == NewLine(k, v)
<1>1. t.lines \in Seq(Line)
  BY DEF Text
<1>2. x \in Line /\ x \notin Others(k.name) /\ x = [key |-> k.name, word |-> v.head]
  BY NewLinesType DEF Others, NewLine, Exact
<1>3. Len(Without(t.lines, Others(k.name))) <= 1
  BY DEF AssignmentsOf, Others
<1>4. PICK a, c \in Seq(Line) : /\ \A j \in 1 .. Len(a) : a[j] \in Others(k.name)
                                /\ up = a \o <<x>> \o c
                                /\ Without(c, Others(k.name)) = <<>>
  BY <1>1, <1>3, UpdatedParts
<1> HIDE DEF up, x
<1>5. up \in Seq(Line) /\ Without(up, Others(k.name)) = Headed(x, <<>>)
  <2> DEFINE D == Others(k.name)
  <2>0. x \notin D /\ \A j \in 1 .. Len(a) : a[j] \in D
    BY <1>2, <1>4
  <2> HIDE DEF D
  <2>1. a \o <<x>> \o c \in Seq(Line) /\ Without(a \o <<x>> \o c, D) = Headed(x, Without(c, D))
    BY ONLY <1>2, <1>4, <2>0, FirstKept
  <2>2. QED BY <1>4, <2>1, Zenon DEF D
<1>6. Blank \in Others(k.name)
  BY OthersDrop DEF EnvKey
<1>7. Without(EnvUpdate(t, k, v).lines, Others(k.name)) = Headed(x, <<>>)
  BY <1>5, <1>6, JoinKeeps DEF EnvUpdate, up
<1>8. Headed(x, <<>>) = <<x>>
  BY DEF Headed
<1>9. QED BY <1>2, <1>7, <1>8 DEF ReadsBack, AssignmentsOf, Others

\* The assignments of a name that no line written assigns stay as they are.
LEMMA OthersStay ==
  ASSUME NEW t \in Text, NEW k \in EnvKey, NEW v \in SecretValue, NEW n \in Keys,
         ~ Assigns(NewLines(k, v), n)
  PROVE  AssignmentsOf(EnvUpdate(t, k, v).lines, n) = AssignmentsOf(t.lines, n)
<1>1. /\ NewLine(k, v) \in Assigning(k.name) /\ NewLines(k, v) \in Seq(Line)
      /\ \E i \in DOMAIN NewLines(k, v) : NewLines(k, v)[i] = NewLine(k, v)
  BY NewLinesType
<1>2. k.name # n
  BY <1>1 DEF Assigns
<1>3. KeyAssignments(k) \subseteq Others(n)
  <2>1. k.name \in Keys
    BY DEF EnvKey
  <2>2. Assigning(k.name) \subseteq Line
    BY <2>1 DEF Assigning, Line, Assignments
  <2>3. \A line \in Assigning(k.name) : line \notin Assigning(n)
    BY <1>2 DEF Assigning
  <2>4. QED BY <2>2, <2>3 DEF KeyAssignments, Others
<1>4. \A j \in DOMAIN NewLines(k, v) : NewLines(k, v)[j] \in Others(n)
  <2>1. \A j \in DOMAIN NewLines(k, v) :
          NewLines(k, v)[j] \in Line /\ NewLines(k, v)[j] \notin Assigning(n)
    BY <1>1 DEF Assigns
  <2>2. QED BY <2>1, OthersDrop
<1>5. Blank \in Others(n)
  BY OthersDrop
<1>6. QED BY <1>3, <1>4, <1>5, EnvUpdateKeeps DEF AssignmentsOf, Others
=============================================================================
