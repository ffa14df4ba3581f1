-------------------------- MODULE EnvDeploysProofs --------------------------
(***************************************************************************)
(* What any number of deployments does to an env file of any length.        *)
(***************************************************************************)
EXTENDS EnvDeploys, EnvFileProofs

-----------------------------------------------------------------------------
(* Lines of an updated file, and of a preview, come from somewhere.        *)

LEMMA JoinedLines ==
  ASSUME NEW S, NEW ls \in Seq(S), NEW i \in DOMAIN Join(ls).lines
  PROVE  i \in DOMAIN ls /\ Join(ls).lines[i] = ls[i]
<1>1. CASE ls # <<>> /\ ls[Len(ls)] = Blank
  <2>1. Join(ls).lines = SubSeq(ls, 1, Len(ls) - 1)
    BY <1>1 DEF Join
  <2>2. QED BY <2>1
<1>2. CASE ~ (ls # <<>> /\ ls[Len(ls)] = Blank)
  BY <1>2 DEF Join
<1>3. QED BY <1>1, <1>2

\* A secret of one line, under an exact key, adds no line but its assignment.
LEMMA UpdatedLines ==
  ASSUME NEW t \in Text, NEW k \in EnvKey, NEW v \in SecretValue, Exact(k), v.rest = <<>>,
         NEW i \in DOMAIN EnvUpdate(t, k, v).lines
  PROVE  \/ EnvUpdate(t, k, v).lines[i] = NewLine(k, v)
         \/ \E j \in DOMAIN t.lines : EnvUpdate(t, k, v).lines[i] = t.lines[j]
<1> DEFINE ls == t.lines
           up == EnvUpdatedLines(ls, k, v)
           x == NewLine(k, v)
<1>1. ls \in Seq(Line) /\ x \in Line /\ NewLines(k, v) = <<x>>
  <2>1. ls \in Seq(Line) /\ x \in Line
    BY NewLinesType DEF Text
  <2>2. NewLines(k, v) = <<>> \o <<x>> \o <<>>
    BY DEF NewLines, Exact
  <2> HIDE DEF x, ls
  <2>3. QED BY <2>1, <2>2
<1>2. up \in Seq(Line) /\ \A n \in DOMAIN up : up[n] = x \/ \E j \in DOMAIN ls : up[n] = ls[j]
  <2> HIDE DEF x, ls
  <2>1. CASE KeyLines(ls, k) = {}
    <3>1. up = Append(ls, x)
      BY <1>1, <2>1, AppendIsConcat DEF EnvUpdatedLines
    <3> HIDE DEF up
    <3>2. QED BY <1>1, <3>1
  <2>2. CASE KeyLines(ls, k) # {}
    <3> DEFINE f == FirstKeyLine(ls, k)
               a == SubSeq(ls, 1, f - 1)
               b == SubSeq(ls, f + 1, Len(ls))
    <3>1. f \in 1 .. Len(ls)
      BY <1>1, <2>2, FirstKeyLineIsFirst
    <3>2. up = a \o <<x>> \o b
      BY <1>1, <2>2 DEF EnvUpdatedLines
    <3>3. /\ a \in Seq(Line) /\ b \in Seq(Line) /\ <<x>> \in Seq(Line)
          /\ \A n \in DOMAIN a : \E j \in DOMAIN ls : a[n] = ls[j]
          /\ \A n \in DOMAIN b : \E j \in DOMAIN ls : b[n] = ls[j]
      <4> HIDE DEF f
      <4>1. a \in Seq(Line) /\ \A n \in DOMAIN a : n \in DOMAIN ls /\ a[n] = ls[n]
        BY <1>1, <3>1
      <4>2. b \in Seq(Line) /\ \A n \in DOMAIN b : n + f \in DOMAIN ls /\ b[n] = ls[n + f]
        BY <1>1, <3>1
      <4>3. <<x>> \in Seq(Line)
        BY <1>1
      <4>4. QED BY <4>1, <4>2, <4>3
    <3> HIDE DEF a, b, f, up
    <3>4. /\ up \in Seq(Line) /\ Len(up) = Len(a) + 1 + Len(b)
          /\ \A n \in 1 .. Len(up) :
               up[n] = IF n <= Len(a) THEN a[n]
                       ELSE IF n = Len(a) + 1 THEN x ELSE b[n - (Len(a) + 1)]
      BY <3>2, <3>3
    <3>5. ASSUME NEW n \in 1 .. Len(up)
          PROVE  up[n] = x \/ \E j \in DOMAIN ls : up[n] = ls[j]
      <4>1. CASE n <= Len(a)
        <5>1. n \in DOMAIN a /\ up[n] = a[n]
          BY <3>3, <3>4, <4>1
        <5>2. QED BY <3>3, <5>1
      <4>2. CASE n = Len(a) + 1
        BY <3>3, <3>4, <4>2
      <4>3. CASE n > Len(a) + 1
        <5>1. n - (Len(a) + 1) \in DOMAIN b /\ up[n] = b[n - (Len(a) + 1)]
          BY <3>3, <3>4, <4>3
        <5>2. QED BY <3>3, <5>1
      <4>4. QED BY <3>3, <4>1, <4>2, <4>3
    <3>6. DOMAIN up = 1 .. Len(up)
      BY <3>4
    <3>7. QED BY <3>4, <3>5, <3>6
  <2>3. QED BY <2>1, <2>2
<1> HIDE DEF ls, up, x
<1>3. i \in DOMAIN up /\ EnvUpdate(t, k, v).lines[i] = up[i]
  BY <1>2, JoinedLines DEF EnvUpdate, ls, up
<1>4. QED BY <1>2, <1>3 DEF ls, x

\* A preview masks every assignment of its key and shows the other lines.
LEMMA RedactedLines ==
  ASSUME NEW t \in Text, NEW k, NEW label,
         NEW i \in DOMAIN RedactEnvValue(t, k, label).lines
  PROVE  \/ RedactEnvValue(t, k, label).lines[i] = Mask(k, label)
         \/ \E j \in DOMAIN t.lines \ KeyLines(t.lines, k) :
              RedactEnvValue(t, k, label).lines[i] = t.lines[j]
<1> DEFINE ls == t.lines
           masked == [j \in DOMAIN ls |-> IF IsEnvKeyLine(ls[j], k) THEN Mask(k, label)
                                          ELSE ls[j]]
           S == Line \cup {Mask(k, label)}
<1>1. ls \in Seq(Line)
  BY DEF Text
<1>2. masked \in Seq(S)
  <2>1. \A j \in 1 .. Len(ls) : masked[j] \in S
    BY <1>1
  <2>2. DOMAIN ls = 1 .. Len(ls) /\ Len(ls) \in Nat
    BY <1>1
  <2> HIDE DEF S, ls
  <2>3. QED BY <2>1, <2>2, IsASeq
<1>3. i \in DOMAIN masked /\ RedactEnvValue(t, k, label).lines[i] = masked[i]
  <2>1. RedactEnvValue(t, k, label) = Join(masked)
    BY DEF RedactEnvValue
  <2> HIDE DEF masked, S
  <2>2. QED BY <1>2, <2>1, JoinedLines
<1>4. QED BY <1>3 DEF KeyLines

-----------------------------------------------------------------------------
(* The inductive invariant.                                                *)

\* The file is what the last deployment made of the one before.
LastDeployment == deployed # <<>> => text = EnvUpdate(old, Last.key, Last.value)

LEMMA LastType ==
  ASSUME TypeOK, deployed # <<>>
  PROVE  /\ Len(deployed) \in DOMAIN deployed
         /\ Last.key \in EnvKey /\ Last.value \in Secrets /\ Last.value \in SecretValue
<1>1. Len(deployed) \in DOMAIN deployed /\ Last \in Deployment
  BY DEF TypeOK, Last
<1>2. QED BY <1>1, EnvDeploysAssumption DEF Deployment, EnvDeploysAssumption

LEMMA InitRun == Init => TypeOK /\ LastDeployment
BY EnvDeploysAssumption DEF Init, TypeOK, LastDeployment, EnvDeploysAssumption

\* A deployment, and what it leaves behind.
LEMMA Deployed ==
  ASSUME TypeOK, NEW k \in EnvKeys, NEW v \in Secrets, Deploy(k, v)
  PROVE  /\ k \in EnvKey /\ v \in SecretValue
         /\ old' = text /\ text' = EnvUpdate(text, k, v) /\ original' = original
         /\ deployed' \in Seq(Deployment) /\ Len(deployed) \in Nat
         /\ Len(deployed') = Len(deployed) + 1
         /\ deployed'[Len(deployed) + 1] = [key |-> k, value |-> v]
         /\ \A i \in 1 .. Len(deployed) : deployed'[i] = deployed[i]
<1>1. k \in EnvKey /\ v \in SecretValue
  BY EnvDeploysAssumption DEF EnvDeploysAssumption
<1>2. deployed \in Seq(Deployment) /\ [key |-> k, value |-> v] \in Deployment
  BY DEF TypeOK, Deployment
<1>3. deployed' = Append(deployed, [key |-> k, value |-> v])
  BY DEF Deploy
<1>4. QED BY <1>1, <1>2, <1>3, AppendProperties DEF Deploy

LEMMA NextRun ==
  ASSUME TypeOK, LastDeployment, [Next]_vars PROVE (TypeOK /\ LastDeployment)'
<1>1. ASSUME NEW k \in EnvKeys, NEW v \in Secrets, Deploy(k, v)
      PROVE  (TypeOK /\ LastDeployment)'
  <2>1. /\ k \in EnvKey /\ v \in SecretValue
        /\ old' = text /\ text' = EnvUpdate(text, k, v) /\ original' = original
        /\ deployed' \in Seq(Deployment) /\ Len(deployed') = Len(deployed) + 1
        /\ deployed'[Len(deployed) + 1] = [key |-> k, value |-> v]
    BY <1>1, Deployed
  <2>2. TypeOK'
    BY <2>1, EnvUpdateType DEF TypeOK
  <2>3. LastDeployment'
    BY <2>1 DEF LastDeployment, Last
  <2>4. QED BY <2>2, <2>3
<1>2. CASE UNCHANGED vars
  BY <1>2 DEF vars, TypeOK, LastDeployment, Last
<1>3. QED BY <1>1, <1>2 DEF Next

LEMMA RunInvariance == Spec => [](TypeOK /\ LastDeployment)
<1>1. TypeOK /\ LastDeployment /\ [Next]_vars => (TypeOK /\ LastDeployment)'
  BY NextRun
<1>2. QED BY <1>1, InitRun, PTL DEF Spec

-----------------------------------------------------------------------------
(* How often the file assigns a name.                                      *)

\* Nothing in a run writes the name n but the lines taken for it.
Undisturbed(run, n) ==
  \A j \in DOMAIN run :
    LET k == run[j].key
        v == run[j].value
    IN  ~ Assigns(IF Exact(k) /\ k.name = n THEN v.rest ELSE NewLines(k, v), n)

\* Then the file assigns it no more than once, if it did not at first.
OnceInv ==
  \A n \in Keys : Len(AssignmentsOf(original.lines, n)) <= 1 /\ Undisturbed(deployed, n)
                    => Len(AssignmentsOf(text.lines, n)) <= 1

\* Exact keys are told apart by their names.
LEMMA ExactKeys ==
  ASSUME NEW k \in EnvKey, NEW q \in EnvKey, Exact(q)
  PROVE  k = q <=> Exact(k) /\ k.name = q.name
BY DEF EnvKey, Exact

LEMMA KeysType ==
  ASSUME NEW run \in Seq(Deployment) PROVE \A j \in DOMAIN run : run[j].key \in EnvKey
<1>1. \A j \in DOMAIN run : run[j] \in Deployment
  OBVIOUS
<1>2. Deployment \subseteq [key : EnvKey, value : Secrets]
  BY EnvDeploysAssumption DEF Deployment, EnvDeploysAssumption
<1>3. QED BY <1>1, <1>2

LEMMA OnlyWriterIs ==
  ASSUME TypeOK, NEW i \in DOMAIN deployed, Exact(deployed[i].key)
  PROVE  deployed[i].key.name \in Keys
           /\ (OnlyWriter(i) <=> Undisturbed(deployed, deployed[i].key.name))
<1>1. \A j \in DOMAIN deployed : deployed[j].key \in EnvKey
  BY KeysType DEF TypeOK
<1>2. \A j \in DOMAIN deployed :
        deployed[j].key = deployed[i].key
          <=> Exact(deployed[j].key) /\ deployed[j].key.name = deployed[i].key.name
  BY <1>1, ExactKeys
<1>3. deployed[i].key.name \in Keys
  BY <1>1 DEF EnvKey
<1>4. QED BY <1>2, <1>3 DEF OnlyWriter, Undisturbed

\* What a run has not disturbed, it had not before its last deployment.
LEMMA UndisturbedBefore ==
  ASSUME TypeOK, NEW k \in EnvKeys, NEW v \in Secrets, Deploy(k, v), NEW n, Undisturbed(deployed', n)
  PROVE  /\ Undisturbed(deployed, n)
         /\ ~ Assigns(IF Exact(k) /\ k.name = n THEN v.rest ELSE NewLines(k, v), n)
<1>1. /\ deployed \in Seq(Deployment) /\ deployed' \in Seq(Deployment)
      /\ Len(deployed) \in Nat /\ Len(deployed') = Len(deployed) + 1
      /\ deployed'[Len(deployed) + 1] = [key |-> k, value |-> v]
      /\ \A i \in 1 .. Len(deployed) : deployed'[i] = deployed[i]
  BY Deployed DEF TypeOK
<1>2. DOMAIN deployed = 1 .. Len(deployed) /\ DOMAIN deployed' = 1 .. Len(deployed) + 1
  BY <1>1
<1>3. \A j \in 1 .. Len(deployed) : j \in 1 .. Len(deployed) + 1
  BY <1>1
<1>4. Undisturbed(deployed, n)
  BY <1>1, <1>2, <1>3 DEF Undisturbed
<1>5. Len(deployed) + 1 \in 1 .. Len(deployed) + 1
  BY <1>1
<1>6. QED BY <1>1, <1>2, <1>4, <1>5 DEF Undisturbed

LEMMA NextOnce ==
  ASSUME TypeOK, OnceInv, [Next]_vars PROVE OnceInv'
<1>1. ASSUME NEW k \in EnvKeys, NEW v \in Secrets, Deploy(k, v),
             NEW n \in Keys, Len(AssignmentsOf(original'.lines, n)) <= 1, Undisturbed(deployed', n)
      PROVE  Len(AssignmentsOf(text'.lines, n)) <= 1
  <2>1. /\ k \in EnvKey /\ v \in SecretValue /\ text \in Text
        /\ text' = EnvUpdate(text, k, v) /\ original' = original
    BY <1>1, Deployed DEF TypeOK
  <2>2. /\ Undisturbed(deployed, n)
        /\ ~ Assigns(IF Exact(k) /\ k.name = n THEN v.rest ELSE NewLines(k, v), n)
    BY <1>1, UndisturbedBefore
  <2>3. Len(AssignmentsOf(text.lines, n)) <= 1
    BY <1>1, <2>1, <2>2 DEF OnceInv
  <2>4. CASE Exact(k) /\ k.name = n
    <3>1. ~ Assigns(v.rest, k.name) /\ Len(AssignmentsOf(text.lines, k.name)) <= 1
      BY <2>2, <2>3, <2>4
    <3>2. ReadsBack(text', n, v)
      BY <2>1, <2>4, <3>1, UpdatedReadsBack
    <3>3. QED BY <3>2 DEF ReadsBack
  <2>5. CASE ~ (Exact(k) /\ k.name = n)
    <3>1. ~ Assigns(NewLines(k, v), n)
      BY <2>2, <2>5
    <3>2. QED BY <2>1, <2>3, <3>1, OthersStay
  <2>6. QED BY <2>4, <2>5
<1>2. ASSUME NEW k \in EnvKeys, NEW v \in Secrets, Deploy(k, v) PROVE OnceInv'
  BY <1>1, <1>2 DEF OnceInv
<1>3. CASE UNCHANGED vars
  BY <1>3 DEF vars, OnceInv, Undisturbed
<1>4. QED BY <1>2, <1>3 DEF Next

LEMMA OnceInvariance == Spec => []OnceInv
<1>1. Init => OnceInv
  BY DEF Init, OnceInv
<1>2. TypeOK /\ OnceInv /\ [Next]_vars => OnceInv'
  BY NextOnce
<1>3. QED BY <1>1, <1>2, RunInvariance, PTL DEF Spec

-----------------------------------------------------------------------------
\* However many deployments, of however many keys, well-formed or not, into a
\* file of any length: a name that the file assigned at most once, and that
\* nothing else in the run writes, is assigned once, to its last value.
THEOREM LastValueIsRead == Spec => []LastValueReadsBack
<1>1. Init => LastValueReadsBack
  BY DEF Init, LastValueReadsBack
<1>2. TypeOK /\ OnceInv /\ LastValueReadsBack /\ [Next]_vars => LastValueReadsBack'
  <2> SUFFICES ASSUME TypeOK, OnceInv, LastValueReadsBack, [Next]_vars
               PROVE  LastValueReadsBack'
    OBVIOUS
  <2>1. ASSUME NEW k \in EnvKeys, NEW v \in Secrets, Deploy(k, v),
               NEW i \in DOMAIN deployed',
               Exact(deployed'[i].key), OnlyWriter(i)',
               Len(AssignmentsOf(original'.lines, deployed'[i].key.name)) <= 1,
               \A j \in i + 1 .. Len(deployed') : deployed'[j].key # deployed'[i].key
        PROVE  ReadsBack(text', deployed'[i].key.name, deployed'[i].value)
    <3> DEFINE q == deployed'[i].key
    <3>1. /\ k \in EnvKey /\ v \in SecretValue /\ text \in Text
          /\ text' = EnvUpdate(text, k, v) /\ original' = original
          /\ deployed \in Seq(Deployment) /\ deployed' \in Seq(Deployment)
          /\ Len(deployed) \in Nat /\ Len(deployed') = Len(deployed) + 1
          /\ deployed'[Len(deployed) + 1] = [key |-> k, value |-> v]
          /\ \A j \in 1 .. Len(deployed) : deployed'[j] = deployed[j]
      BY <2>1, Deployed DEF TypeOK
    <3>2. DOMAIN deployed = 1 .. Len(deployed) /\ i \in 1 .. Len(deployed) + 1
      BY <2>1, <3>1
    <3>3. \A j \in DOMAIN deployed' : deployed'[j].key \in EnvKey
      BY <3>1, KeysType
    <3>4. q.name \in Keys /\ Undisturbed(deployed', q.name)
      <4>1. \A j \in DOMAIN deployed' :
              deployed'[j].key = q <=> Exact(deployed'[j].key) /\ deployed'[j].key.name = q.name
        BY <2>1, <3>3, ExactKeys
      <4>2. q.name \in Keys
        BY <2>1, <3>3 DEF EnvKey
      <4>3. QED BY <2>1, <4>1, <4>2 DEF OnlyWriter, Undisturbed
    <3>5. /\ Undisturbed(deployed, q.name)
          /\ ~ Assigns(IF Exact(k) /\ k.name = q.name THEN v.rest ELSE NewLines(k, v), q.name)
      BY <2>1, <3>4, UndisturbedBefore
    <3>6. CASE i = Len(deployed) + 1
      <4>1. q = k /\ deployed'[i].value = v /\ Exact(k)
        BY <2>1, <3>1, <3>6
      <4>2. Len(AssignmentsOf(text.lines, k.name)) <= 1
        BY <2>1, <3>1, <3>4, <3>5, <4>1 DEF OnceInv
      <4>3. ~ Assigns(v.rest, k.name)
        BY <3>5, <4>1
      <4>4. QED BY <3>1, <4>1, <4>2, <4>3, UpdatedReadsBack
    <3>7. CASE i \in 1 .. Len(deployed)
      <4>1. deployed'[i] = deployed[i] /\ i \in DOMAIN deployed
        BY <3>1, <3>2, <3>7
      <4>2. k # q
        <5>1. Len(deployed) + 1 \in i + 1 .. Len(deployed')
          BY <3>1, <3>7
        <5>2. QED BY <2>1, <3>1, <5>1
      <4>3. \A j \in i + 1 .. Len(deployed) : deployed[j].key # deployed[i].key
        <5> SUFFICES ASSUME NEW j \in i + 1 .. Len(deployed)
                     PROVE  deployed[j].key # deployed[i].key
          OBVIOUS
        <5>1. j \in 1 .. Len(deployed) /\ j \in i + 1 .. Len(deployed')
          BY <3>1, <3>7
        <5>2. QED BY <2>1, <3>1, <4>1, <5>1
      <4>4. OnlyWriter(i)
        BY <2>1, <3>5, <4>1, OnlyWriterIs
      <4>5. ReadsBack(text, deployed[i].key.name, deployed[i].value)
        BY <2>1, <3>1, <4>1, <4>3, <4>4 DEF LastValueReadsBack
      <4>6. ~ (Exact(k) /\ k.name = q.name)
        <5>1. q \in EnvKey
          BY <2>1, <3>3
        <5>2. QED BY <2>1, <3>1, <4>2, <5>1, ExactKeys
      <4>7. AssignmentsOf(text'.lines, q.name) = AssignmentsOf(text.lines, q.name)
        <5>1. ~ Assigns(NewLines(k, v), q.name)
          BY <3>5, <4>6
        <5>2. QED BY <3>1, <3>4, <5>1, OthersStay
      <4>8. QED BY <4>1, <4>5, <4>7 DEF ReadsBack
    <3>8. QED BY <3>1, <3>2, <3>6, <3>7
  <2>2. ASSUME NEW k \in EnvKeys, NEW v \in Secrets, Deploy(k, v)
        PROVE  LastValueReadsBack'
    BY <2>1, <2>2 DEF LastValueReadsBack
  <2>3. CASE UNCHANGED vars
    BY <2>3 DEF vars, LastValueReadsBack, OnlyWriter
  <2>4. QED BY <2>2, <2>3 DEF Next
<1>3. QED BY <1>1, <1>2, OnceInvariance, RunInvariance, PTL DEF Spec

\* A deployment, whatever its key and value, leaves every other assignment and
\* every comment of a file of any length as it was, in the same order.
THEOREM NothingElseIsLost == Spec => []OtherLinesKept
<1>1. TypeOK /\ LastDeployment => OtherLinesKept
  <2> SUFFICES ASSUME TypeOK, LastDeployment, deployed # <<>>
               PROVE  WithoutKey(text.lines, Last.key, Last.value)
                        = WithoutKey(old.lines, Last.key, Last.value)
    BY DEF OtherLinesKept
  <2> DEFINE k == Last.key
             v == Last.value
             new == NewLines(k, v)
             dropped == {Blank} \cup KeyAssignments(k) \cup {new[i] : i \in DOMAIN new}
  <2>1. /\ text = EnvUpdate(old, k, v) /\ old \in Text /\ k \in EnvKey /\ v \in SecretValue
    BY LastType DEF LastDeployment, TypeOK
  <2>2. /\ Blank \in dropped /\ KeyAssignments(k) \subseteq dropped
        /\ \A j \in DOMAIN NewLines(k, v) : NewLines(k, v)[j] \in dropped
    OBVIOUS
  <2>3. \A ls : WithoutKey(ls, k, v) = Without(ls, dropped)
    BY DEF WithoutKey
  <2> HIDE DEF dropped, k, v
  <2>4. Without(text.lines, dropped) = Without(old.lines, dropped)
    BY <2>1, <2>2, EnvUpdateKeeps
  <2>5. QED BY <2>3, <2>4 DEF k, v
<1>2. QED BY <1>1, RunInvariance, PTL

\* A retry of the last deployment, if it can be recognised, changes no line but
\* blank ones: files do not grow with retries.
THEOREM RetriesAddNothing == Spec => []RedeployKeepsLines
<1>1. TypeOK /\ LastDeployment => RedeployKeepsLines
  <2> SUFFICES ASSUME TypeOK, LastDeployment, deployed # <<>>, Recognised(Last)
               PROVE  NonBlank(EnvUpdate(text, Last.key, Last.value).lines)
                        = NonBlank(text.lines)
    BY DEF RedeployKeepsLines
  <2> DEFINE k == Last.key
             v == Last.value
             ls == text.lines
             i == FirstKeyLine(ls, k)
             x == NewLine(k, v)
  <2>1. /\ k \in EnvKey /\ v \in SecretValue /\ Exact(k) /\ v.rest = <<>>
        /\ ls \in Seq(Line) /\ old \in Text /\ text = EnvUpdate(old, k, v)
    BY LastType DEF TypeOK, LastDeployment, Text, Recognised
  <2>2. KeyLines(ls, k) # {} /\ ls[i] = x
    BY <2>1, UpdatedFirst
  <2>3. i \in 1 .. Len(ls)
    BY <2>1, <2>2, FirstKeyLineIsFirst
  <2>4. NewLines(k, v) = <<ls[i]>>
    <3>1. NewLines(k, v) = <<>> \o <<x>> \o <<>> /\ x \in Line
      BY <2>1, NewLinesType DEF NewLines, Exact
    <3> HIDE DEF x
    <3>2. NewLines(k, v) = <<x>>
      BY <3>1
    <3>3. QED BY <2>2, <3>2
  <2>5. EnvUpdatedLines(ls, k, v) = ls
    <3>1. EnvUpdatedLines(ls, k, v)
            = SubSeq(ls, 1, i - 1) \o NewLines(k, v) \o SubSeq(ls, i + 1, Len(ls))
      BY <2>2 DEF EnvUpdatedLines
    <3> HIDE DEF i, ls
    <3>2. ls = SubSeq(ls, 1, i - 1) \o <<ls[i]>> \o SubSeq(ls, i + 1, Len(ls))
      BY <2>1, <2>3, SplitAt
    <3>3. QED BY <2>4, <3>1, <3>2
  <2>6. Without(Join(ls).lines, {Blank}) = Without(ls, {Blank})
    BY <2>1, JoinKeeps
  <2>7. QED BY <2>5, <2>6 DEF EnvUpdate, NonBlank
<1>2. QED BY <1>1, RunInvariance, PTL

\* The preview of a deployment that can be recognised shows the mask, blank
\* lines and lines the file already had for something else; never a value of
\* the key, the new one or an old one.
THEOREM PreviewsAreMasked == Spec => []PreviewShowsNoSecret
<1>1. TypeOK /\ LastDeployment => PreviewShowsNoSecret
  <2> SUFFICES ASSUME TypeOK, LastDeployment, deployed # <<>>, Recognised(Last)
               PROVE  LastPreviewIsSafe
    BY DEF PreviewShowsNoSecret
  <2> DEFINE k == Last.key
             v == Last.value
             others == {old.lines[i] : i \in {j \in DOMAIN old.lines :
                                                old.lines[j] \notin Assigning(k.name)}}
             red(t, label) == RedactEnvValue(t, k, label).lines
  <2>1. /\ k \in EnvKey /\ v \in SecretValue /\ Exact(k) /\ v.rest = <<>>
        /\ old \in Text /\ text \in Text /\ text = EnvUpdate(old, k, v)
    BY LastType DEF LastDeployment, TypeOK, Recognised
  <2>2. \A line : IsEnvKeyLine(line, k) <=> line \in Assigning(k.name)
    BY <2>1 DEF IsEnvKeyLine, KeyAssignments
  <2>3. ASSUME NEW label, NEW i \in DOMAIN red(old, label)
        PROVE  red(old, label)[i] \in {Mask(k, label), Blank} \cup others
    <3>1. \A j \in DOMAIN old.lines \ KeyLines(old.lines, k) :
            j \in DOMAIN old.lines /\ old.lines[j] \notin Assigning(k.name)
      BY <2>2 DEF KeyLines
    <3>2. QED BY <2>1, <3>1, RedactedLines
  <2>4. ASSUME NEW label, NEW i \in DOMAIN red(text, label)
        PROVE  red(text, label)[i] \in {Mask(k, label), Blank} \cup others
    <3>1. CASE red(text, label)[i] = Mask(k, label)
      BY <3>1
    <3>2. CASE \E j \in DOMAIN text.lines \ KeyLines(text.lines, k) :
                 red(text, label)[i] = text.lines[j]
      <4>1. PICK j \in DOMAIN text.lines \ KeyLines(text.lines, k) :
                   red(text, label)[i] = text.lines[j]
        BY <3>2
      <4>2. text.lines[j] \notin Assigning(k.name)
        BY <2>2, <4>1 DEF KeyLines
      <4>3. text.lines[j] # NewLine(k, v)
        BY <2>1, <4>2, NewLinesType
      <4>4. PICK n \in DOMAIN old.lines : text.lines[j] = old.lines[n]
        BY <2>1, <4>3, UpdatedLines
      <4>5. QED BY <4>1, <4>2, <4>4
    <3>3. QED BY <2>1, <3>1, <3>2, RedactedLines
  <2>5. QED BY <2>3, <2>4 DEF LastPreviewIsSafe
<1>2. QED BY <1>1, RunInvariance, PTL
=============================================================================
