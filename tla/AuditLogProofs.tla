--------------------------- MODULE AuditLogProofs ---------------------------
(***************************************************************************)
(* One server, any number of records, any failures and crashes: what can be *)
(* read of the log verifies, and tampering with it shows.                   *)
(***************************************************************************)
EXTENDS AuditLog, SequenceTheorems, WellFoundedInduction, TLAPS

IsSeq(s) == \E S : s \in Seq(S)

LEMMA SeqFacts ==
  ASSUME NEW s, IsSeq(s)
  PROVE  Len(s) \in Nat /\ DOMAIN s = 1 .. Len(s) /\ (s = <<>> <=> Len(s) = 0)
<1>1. PICK S : s \in Seq(S)
  BY DEF IsSeq
<1>2. QED BY <1>1, EmptySeq, LenProperties

LEMMA AppendFacts ==
  ASSUME NEW s, NEW e, IsSeq(s)
  PROVE  /\ IsSeq(Append(s, e))
         /\ Len(Append(s, e)) = Len(s) + 1
         /\ \A n \in 1 .. Len(s) : Append(s, e)[n] = s[n]
         /\ Append(s, e)[Len(s) + 1] = e
<1>1. PICK S : s \in Seq(S)
  BY DEF IsSeq
<1>2. s \in Seq(S \cup {e}) /\ e \in S \cup {e}
  BY <1>1, SeqMonotonic
<1>3. Append(s, e) \in Seq(S \cup {e})
  BY <1>2, AppendProperties
<1>4. QED BY <1>2, <1>3, AppendProperties, LenProperties DEF IsSeq

-----------------------------------------------------------------------------
(* Types, for any number of servers.                                       *)

\* What else holds of the shapes: a log with an unfinished line has a line.
TypeInv == /\ TypeOK
           /\ IsSeq(lines) /\ IsSeq(acked)
           /\ open => lines # <<>>
           /\ DOMAIN proc = Instances

LEMMA NewEntryType ==
  ASSUME NEW prev, NEW seq \in Nat, NEW d \in Data PROVE IsEntry(NewEntry(prev, seq, d))
BY DEF IsEntry, NewEntry

\* A process, by its step.
ProcOK(q) == /\ q.pc \in {"down", "ready", "line", "newline"}
             /\ q.pc # "down" => q.next_seq \in Nat
             /\ q.pc \in {"line", "newline"} => IsEntry(q.entry)

LEMMA ProcTypes == TypeOK => \A i \in Instances : ProcOK(proc[i])
BY DEF TypeOK, ProcOK

\* A step of process i leaves the others as they are.
LEMMA StepTypes ==
  ASSUME TypeInv, NEW i \in Instances, NEW q, proc' = [proc EXCEPT ![i] = q], ProcOK(q)
  PROVE  DOMAIN proc' = Instances /\ \A j \in Instances : ProcOK(proc'[j])
<1>1. DOMAIN proc' = Instances /\ \A j \in Instances : proc'[j] = IF j = i THEN q ELSE proc[j]
  BY DEF TypeInv
<1>2. \A j \in Instances : ProcOK(proc[j])
  BY ProcTypes DEF TypeInv
<1>3. QED BY <1>1, <1>2

\* Bytes of an entry keep the shape of the log.
LEMMA PutTypes ==
  ASSUME TypeInv, NEW e, IsEntry(e), NEW whole \in BOOLEAN, PutBytes(e, whole)
  PROVE  /\ IsSeq(lines') /\ \A n \in DOMAIN lines' : IsEntry(lines'[n])
         /\ bad' \subseteq DOMAIN lines' /\ open' = TRUE /\ lines' # <<>>
<1>1. /\ Len(lines) \in Nat /\ DOMAIN lines = 1 .. Len(lines)
      /\ (lines = <<>> <=> Len(lines) = 0)
  BY SeqFacts DEF TypeInv
<1>2. open' = TRUE /\ bad' \subseteq bad \cup {Len(lines')}
  BY DEF PutBytes
<1>3. CASE open
  <2>1. lines' = lines /\ lines # <<>>
    BY <1>3 DEF PutBytes, TypeInv
  <2>2. Len(lines) \in DOMAIN lines
    BY <1>1, <2>1
  <2>3. QED BY <1>2, <2>1, <2>2 DEF TypeInv, TypeOK
<1>4. CASE ~ open
  <2>1. lines' = Append(lines, e)
    BY <1>4 DEF PutBytes
  <2>2. /\ IsSeq(lines') /\ Len(lines') = Len(lines) + 1
        /\ \A n \in 1 .. Len(lines) : lines'[n] = lines[n]
        /\ lines'[Len(lines) + 1] = e
    BY <2>1, AppendFacts DEF TypeInv
  <2>3. DOMAIN lines' = 1 .. Len(lines) + 1 /\ lines' # <<>>
    BY <1>1, <2>2, SeqFacts
  <2>4. \A n \in DOMAIN lines' : IsEntry(lines'[n])
    <3>1. \A n \in DOMAIN lines' : n \in DOMAIN lines \/ n = Len(lines) + 1
      BY <1>1, <2>3
    <3>2. QED BY <1>1, <2>2, <3>1 DEF TypeInv, TypeOK
  <2>5. bad' \subseteq DOMAIN lines'
    <3>1. \A n \in DOMAIN lines : n \in DOMAIN lines'
      BY <1>1, <2>3
    <3>2. Len(lines') \in DOMAIN lines'
      BY <1>1, <2>2, <2>3
    <3>3. QED BY <1>2, <3>1, <3>2 DEF TypeInv, TypeOK
  <2>6. QED BY <1>2, <2>2, <2>3, <2>4, <2>5
<1>5. QED BY <1>3, <1>4

\* Steps that write nothing, and steps that write.
LEMMA QuietTypes ==
  ASSUME TypeInv, UNCHANGED <<lines, bad, open, acked>>,
         DOMAIN proc' = Instances, \A j \in Instances : ProcOK(proc'[j])
  PROVE  TypeInv'
<1>1. TypeOK'
  BY DEF TypeInv, TypeOK, ProcOK
<1>2. QED BY <1>1 DEF TypeInv, IsSeq

LEMMA WritingTypes ==
  ASSUME TypeInv, NEW e, IsEntry(e), NEW whole \in BOOLEAN, PutBytes(e, whole),
         UNCHANGED acked, DOMAIN proc' = Instances, \A j \in Instances : ProcOK(proc'[j])
  PROVE  TypeInv'
<1>1. /\ IsSeq(lines') /\ \A n \in DOMAIN lines' : IsEntry(lines'[n])
      /\ bad' \subseteq DOMAIN lines' /\ open' = TRUE /\ lines' # <<>>
  BY PutTypes
<1>2. open' \in BOOLEAN
  BY <1>1, Zenon
<1>3. TypeOK'
  BY <1>1, <1>2 DEF TypeInv, TypeOK, ProcOK
<1>4. QED BY <1>1, <1>3 DEF TypeInv, IsSeq

LEMMA NextTypes == ASSUME TypeInv, [Next]_vars PROVE TypeInv'
<1>1. ASSUME NEW i \in Instances, Open(i) PROVE TypeInv'
  <2>1. NextSeq(lines) \in Nat
    <3>1. CASE lines = <<>>
      BY <3>1 DEF NextSeq
    <3>2. CASE lines # <<>>
      <4>1. Len(lines) \in DOMAIN lines
        <5>1. Len(lines) \in Nat /\ DOMAIN lines = 1 .. Len(lines) /\ Len(lines) # 0
          BY <3>2, SeqFacts DEF TypeInv
        <5>2. QED BY <5>1
      <4>2. lines[Len(lines)].seq \in Nat
        BY <4>1 DEF TypeInv, TypeOK, IsEntry
      <4>3. QED BY <3>2, <4>2 DEF NextSeq
    <3>3. QED BY <3>1, <3>2
  <2>2. ProcOK(Up(LastHash(lines), NextSeq(lines)))
    BY <2>1 DEF ProcOK, Up
  <2>3. QED BY <1>1, <2>2, StepTypes, QuietTypes DEF Open
<1>2. ASSUME NEW i \in Instances, NEW d \in Data, Record(i, d) PROVE TypeInv'
  <2> DEFINE e == NewEntry(proc[i].last_hash, proc[i].next_seq, d)
             q == Writing("line", proc[i].last_hash, proc[i].next_seq, e)
  <2>1. proc[i].next_seq \in Nat
    BY <1>2 DEF Record, TypeInv, TypeOK
  <2>2. IsEntry(e)
    BY <2>1, NewEntryType
  <2>3. q.pc = "line" /\ q.next_seq = proc[i].next_seq /\ q.entry = e
    BY DEF Writing
  <2>4. proc' = [proc EXCEPT ![i] = q] /\ UNCHANGED <<lines, bad, open, acked>>
    BY <1>2 DEF Record, TypeInv
  <2> HIDE DEF q, e
  <2>5. ProcOK(q)
    BY <2>1, <2>2, <2>3 DEF ProcOK
  <2>6. QED BY <2>4, <2>5, StepTypes, QuietTypes
<1>3. ASSUME NEW i \in Instances, WriteLine(i) PROVE TypeInv'
  <2> DEFINE q == Writing("newline", proc[i].last_hash, proc[i].next_seq, proc[i].entry)
  <2>1. proc[i].next_seq \in Nat /\ IsEntry(proc[i].entry)
    BY <1>3 DEF WriteLine, TypeInv, TypeOK
  <2>2. q.pc = "newline" /\ q.next_seq = proc[i].next_seq /\ q.entry = proc[i].entry
    BY DEF Writing
  <2>3. proc' = [proc EXCEPT ![i] = q] /\ PutBytes(proc[i].entry, TRUE) /\ UNCHANGED acked
    BY <1>3 DEF WriteLine, TypeInv
  <2> HIDE DEF q
  <2>4. ProcOK(q)
    BY <2>1, <2>2 DEF ProcOK
  <2>5. DOMAIN proc' = Instances /\ \A j \in Instances : ProcOK(proc'[j])
    BY <2>3, <2>4, StepTypes
  <2>6. QED BY <2>1, <2>3, <2>5, WritingTypes
<1>4. ASSUME NEW i \in Instances, WriteNewline(i) PROVE TypeInv'
  <2> DEFINE q == Up(proc[i].entry.hash, proc[i].next_seq + 1)
  <2>1. proc[i].next_seq \in Nat /\ IsEntry(proc[i].entry)
    BY <1>4 DEF WriteNewline, TypeInv, TypeOK
  <2>2. ProcOK(q)
    BY <2>1 DEF ProcOK, Up
  <2>3. /\ proc' = [proc EXCEPT ![i] = q] /\ open' = FALSE
        /\ acked' = Append(acked, proc[i].entry) /\ UNCHANGED <<lines, bad>>
    BY <1>4 DEF WriteNewline, TypeInv
  <2> HIDE DEF q
  <2>4. DOMAIN proc' = Instances /\ \A j \in Instances : ProcOK(proc'[j])
    BY <2>2, <2>3, StepTypes
  <2>5. IsSeq(acked') /\ \A n \in DOMAIN acked' : IsEntry(acked'[n])
    <3>1. /\ IsSeq(acked') /\ Len(acked') = Len(acked) + 1
          /\ \A n \in 1 .. Len(acked) : acked'[n] = acked[n]
          /\ acked'[Len(acked) + 1] = proc[i].entry
      BY <2>3, AppendFacts DEF TypeInv
    <3>2. /\ Len(acked) \in Nat /\ DOMAIN acked = 1 .. Len(acked)
          /\ DOMAIN acked' = 1 .. Len(acked')
      BY <3>1, SeqFacts DEF TypeInv
    <3>3. \A n \in DOMAIN acked' : n \in DOMAIN acked \/ n = Len(acked) + 1
      BY <3>1, <3>2
    <3>4. QED BY <2>1, <3>1, <3>2, <3>3 DEF TypeInv, TypeOK
  <2>6. open' \in BOOLEAN
    BY <2>3, Zenon
  <2>7. TypeOK'
    BY <2>3, <2>4, <2>5, <2>6 DEF TypeInv, TypeOK, ProcOK
  <2>8. QED BY <2>3, <2>4, <2>5, <2>7 DEF TypeInv, IsSeq
<1>5. ASSUME NEW i \in Instances, LineFails(i) PROVE TypeInv'
  <2> DEFINE q == Up(proc[i].last_hash, proc[i].next_seq)
  <2>1. proc[i].next_seq \in Nat /\ IsEntry(proc[i].entry)
    BY <1>5 DEF LineFails, TypeInv, TypeOK
  <2>2. ProcOK(q)
    BY <2>1 DEF ProcOK, Up
  <2>3. proc' = [proc EXCEPT ![i] = q] /\ UNCHANGED acked
    BY <1>5 DEF LineFails, TypeInv
  <2> HIDE DEF q
  <2>4. DOMAIN proc' = Instances /\ \A j \in Instances : ProcOK(proc'[j])
    BY <2>2, <2>3, StepTypes
  <2>5. CASE PutBytes(proc[i].entry, FALSE)
    BY <2>1, <2>3, <2>4, <2>5, WritingTypes
  <2>6. CASE UNCHANGED <<lines, bad, open>>
    BY <2>3, <2>4, <2>6, QuietTypes
  <2>7. QED BY <1>5, <2>5, <2>6 DEF LineFails
<1>6. ASSUME NEW i \in Instances, NewlineFails(i) PROVE TypeInv'
  <2> DEFINE q == Up(proc[i].last_hash, proc[i].next_seq)
  <2>1. proc[i].next_seq \in Nat
    BY <1>6 DEF NewlineFails, TypeInv, TypeOK
  <2>2. ProcOK(q)
    BY <2>1 DEF ProcOK, Up
  <2>3. proc' = [proc EXCEPT ![i] = q] /\ UNCHANGED <<lines, bad, open, acked>>
    BY <1>6 DEF NewlineFails, TypeInv
  <2> HIDE DEF q
  <2>4. QED BY <2>2, <2>3, StepTypes, QuietTypes
<1>7. ASSUME NEW i \in Instances, Stop(i) \/ Crash(i) PROVE TypeInv'
  <2>1. ProcOK(Down) /\ proc' = [proc EXCEPT ![i] = Down] /\ UNCHANGED acked
    BY <1>7 DEF Stop, Crash, ProcOK, Down
  <2>2. DOMAIN proc' = Instances /\ \A j \in Instances : ProcOK(proc'[j])
    BY <2>1, StepTypes
  <2>3. CASE UNCHANGED <<lines, bad, open>>
    BY <2>1, <2>2, <2>3, QuietTypes
  <2>4. CASE proc[i].pc = "line" /\ PutBytes(proc[i].entry, FALSE)
    <3>1. IsEntry(proc[i].entry)
      BY <2>4 DEF TypeInv, TypeOK
    <3>2. QED BY <2>1, <2>2, <2>4, <3>1, WritingTypes
  <2>5. QED BY <1>7, <2>3, <2>4 DEF Stop, Crash
<1>8. CASE UNCHANGED vars
  <2>1. DOMAIN proc' = Instances /\ \A j \in Instances : ProcOK(proc'[j])
    BY <1>8, ProcTypes DEF vars, TypeInv
  <2>2. QED BY <1>8, <2>1, QuietTypes DEF vars
<1>9. QED BY <1>1, <1>2, <1>3, <1>4, <1>5, <1>6, <1>7, <1>8 DEF Next

\* Whatever fails, and with any number of servers on one log: what is in the
\* log, in hand or acknowledged is an entry with the hash of its own contents.
THEOREM TypeCorrect == Spec => []TypeOK
<1>1. Init => TypeInv
  <2> SUFFICES ASSUME Init PROVE TypeInv
    OBVIOUS
  <2>1. lines = <<>> /\ acked = <<>> /\ bad = {} /\ open = FALSE
    BY DEF Init
  <2>2. IsSeq(<<>>)
    BY EmptySeq DEF IsSeq
  <2>3. open \in BOOLEAN /\ (open => lines # <<>>)
    BY <2>1, Zenon
  <2>4. DOMAIN proc = Instances /\ \A i \in Instances : proc[i].pc = "down"
    BY DEF Init, Down
  <2>5. DOMAIN lines = {} /\ DOMAIN acked = {}
    BY <2>1
  <2>6. TypeOK
    BY <2>1, <2>3, <2>4, <2>5 DEF TypeOK
  <2>7. QED BY <2>1, <2>2, <2>3, <2>4, <2>6 DEF TypeInv
<1>2. TypeInv /\ [Next]_vars => TypeInv'
  BY NextTypes
<1>3. TypeInv => TypeOK
  BY DEF TypeInv
<1>4. QED BY <1>1, <1>2, <1>3, PTL DEF Spec

-----------------------------------------------------------------------------
(* The invariant of a log with the one server i.                           *)

\* Where the log is good, it is a chain, and the server that is about to write
\* a line of its own knows its end.
ChainInv(i) ==
  /\ IsSeq(lines) /\ open \in BOOLEAN
  /\ bad \subseteq 1 .. Len(lines)
  /\ open => lines # <<>>
  /\ \A n \in 1 .. Len(lines) : bad \cap 1 .. n = {} => Linked(lines, n)
  /\ i \in DOMAIN proc
  /\ proc[i].pc \in {"down", "ready", "line", "newline"}
  /\ proc[i].pc \in {"ready", "line"} /\ bad = {} /\ ~ open =>
       /\ proc[i].last_hash = LastHash(lines)
       /\ proc[i].next_seq = Len(lines)
  /\ proc[i].pc = "line" =>
       \E d \in Data : proc[i].entry = NewEntry(proc[i].last_hash, proc[i].next_seq, d)
  /\ proc[i].pc = "newline" => open
  /\ proc[i].pc = "newline" /\ bad = {} =>
       /\ lines # <<>> /\ proc[i].next_seq + 1 = Len(lines)
       /\ proc[i].entry = lines[Len(lines)]

LEMMA InitChain == ASSUME NEW i \in Instances, Init PROVE ChainInv(i)
<1>1. lines = <<>> /\ IsSeq(lines) /\ Len(lines) = 0
  BY EmptySeq DEF Init, IsSeq
<1>2. bad = {} /\ open = FALSE /\ i \in DOMAIN proc /\ proc[i].pc = "down"
  BY DEF Init, Down
<1>3. /\ bad \subseteq 1 .. Len(lines)
      /\ \A n \in 1 .. Len(lines) : bad \cap 1 .. n = {} => Linked(lines, n)
  BY <1>1, <1>2
<1>4. open \in BOOLEAN /\ (open => lines # <<>>)
  BY <1>2, Zenon
<1>5. QED BY <1>1, <1>2, <1>3, <1>4, Zenon DEF ChainInv

\* Opening a log that can be read finds the end of its chain.
LEMMA OpenChain ==
  ASSUME NEW i, ChainInv(i), Open(i) PROVE ChainInv(i)'
<1>1. /\ bad = {} /\ UNCHANGED <<lines, bad, open>>
      /\ proc' = [proc EXCEPT ![i] = Up(LastHash(lines), NextSeq(lines))]
  BY DEF Open, Readable
<1>2. NextSeq(lines) = Len(lines)
  <2>1. CASE lines = <<>>
    BY <2>1, SeqFacts DEF NextSeq, ChainInv
  <2>2. CASE lines # <<>>
    <3>1. Len(lines) \in 1 .. Len(lines)
      BY <2>2, SeqFacts DEF ChainInv
    <3>2. lines[Len(lines)].seq = Len(lines) - 1
      BY <1>1, <3>1 DEF ChainInv, Linked
    <3>3. QED BY <2>2, <3>1, <3>2 DEF NextSeq
  <2>3. QED BY <2>1, <2>2
<1>3. /\ DOMAIN proc' = DOMAIN proc /\ proc'[i].pc = "ready"
      /\ proc'[i].last_hash = LastHash(lines) /\ proc'[i].next_seq = Len(lines)
  BY <1>1, <1>2 DEF Up, ChainInv
<1>4. QED BY <1>1, <1>3 DEF ChainInv, Linked, LastHash

\* Bytes of the entry in hand keep the chain.
LEMMA PutChain ==
  ASSUME NEW i, ChainInv(i), proc[i].pc = "line",
         NEW whole \in BOOLEAN, PutBytes(proc[i].entry, whole)
  PROVE  /\ IsSeq(lines') /\ open' \in BOOLEAN
         /\ bad' \subseteq 1 .. Len(lines') /\ bad \subseteq bad'
         /\ open' /\ lines' # <<>>
         /\ \A n \in 1 .. Len(lines') : bad' \cap 1 .. n = {} => Linked(lines', n)
         /\ bad' = {} => /\ proc[i].next_seq + 1 = Len(lines')
                         /\ proc[i].entry = lines'[Len(lines')]
<1> DEFINE e == proc[i].entry
<1>1. /\ lines' = IF open THEN lines ELSE Append(lines, e)
      /\ bad' = IF whole /\ ~ open THEN bad ELSE bad \cup {Len(lines')}
      /\ open' = TRUE
  BY DEF PutBytes
<1>2. /\ Len(lines) \in Nat /\ (lines = <<>> <=> Len(lines) = 0)
      /\ IsSeq(lines) /\ bad \subseteq 1 .. Len(lines)
  BY SeqFacts DEF ChainInv
<1>3. PICK d \in Data : e = NewEntry(proc[i].last_hash, proc[i].next_seq, d)
  BY DEF ChainInv
<1> HIDE DEF e
<1>4. CASE open
  <2>1. lines' = lines /\ bad' = bad \cup {Len(lines)} /\ Len(lines) \in 1 .. Len(lines)
    BY <1>1, <1>2, <1>4 DEF ChainInv
  <2>2. \A n \in 1 .. Len(lines) : bad' \cap 1 .. n = {} => Linked(lines', n)
    BY <2>1 DEF ChainInv
  <2>3. bad' # {} /\ bad \subseteq bad' /\ bad' \subseteq 1 .. Len(lines') /\ lines' # <<>>
    <3> Len(lines') = Len(lines)
      BY <2>1
    <3>1. bad' # {} /\ bad \subseteq bad' /\ bad' \subseteq 1 .. Len(lines')
      BY <1>2, <2>1
    <3>2. lines' # <<>>
      BY <1>2, <2>1
    <3>3. QED BY <3>1, <3>2
  <2>4. IsSeq(lines') /\ \A n \in 1 .. Len(lines') : bad' \cap 1 .. n = {} => Linked(lines', n)
    BY <1>2, <2>1, <2>2
  <2>5. QED BY <1>1, <2>3, <2>4
<1>5. CASE ~ open
  <2>1. /\ lines' = Append(lines, e) /\ IsSeq(lines') /\ Len(lines') = Len(lines) + 1
        /\ \A n \in 1 .. Len(lines) : lines'[n] = lines[n]
        /\ lines'[Len(lines) + 1] = e
    BY <1>1, <1>2, <1>5, AppendFacts
  <2>2. bad' \subseteq 1 .. Len(lines') /\ bad \subseteq bad'
    <3>1. bad' \in {bad, bad \cup {Len(lines')}}
      BY <1>1, Zenon
    <3>2. QED BY <1>2, <2>1, <3>1
  <2>3. lines' # <<>>
    BY <1>2, <2>1, SeqFacts
  <2>4. ASSUME NEW n \in 1 .. Len(lines), bad' \cap 1 .. n = {}
        PROVE  Linked(lines', n)
    <3>1. Linked(lines, n)
      BY <2>2, <2>4 DEF ChainInv
    <3>2. lines'[n] = lines[n] /\ (n # 1 => lines'[n - 1] = lines[n - 1])
      BY <1>2, <2>1
    <3>3. QED BY <3>1, <3>2 DEF Linked
  <2>5. ASSUME bad' \cap 1 .. Len(lines) + 1 = {}
        PROVE  /\ Linked(lines', Len(lines) + 1)
               /\ proc[i].next_seq + 1 = Len(lines')
    <3>1. bad = {}
      BY <1>2, <2>2, <2>5
    <3>2. proc[i].last_hash = LastHash(lines) /\ proc[i].next_seq = Len(lines)
      BY <1>5, <3>1 DEF ChainInv
    <3>3. /\ e.seq = Len(lines) /\ e.prev_hash = LastHash(lines)
          /\ e.hash = ComputeHash(e.prev_hash, e.seq, e.data)
      BY <1>3, <3>2 DEF NewEntry
    <3>4. LastHash(lines) = IF Len(lines) + 1 = 1 THEN Genesis
                            ELSE lines'[Len(lines) + 1 - 1].hash
      BY <1>2, <2>1 DEF LastHash
    <3>5. QED BY <1>2, <2>1, <3>2, <3>3, <3>4 DEF Linked
  <2>6. ASSUME NEW n \in 1 .. Len(lines'), bad' \cap 1 .. n = {}
        PROVE  Linked(lines', n)
    <3>1. n \in 1 .. Len(lines) \/ n = Len(lines) + 1
      BY <1>2, <2>1
    <3>2. QED BY <2>4, <2>5, <2>6, <3>1
  <2>7. bad' = {} => /\ proc[i].next_seq + 1 = Len(lines')
                     /\ e = lines'[Len(lines')]
    BY <2>1, <2>5
  <2>8. QED BY <1>1, <2>1, <2>2, <2>3, <2>6, <2>7 DEF e
<1>6. QED BY <1>4, <1>5 DEF ChainInv

\* A step of the server that leaves the file alone.
LEMMA QuietChain ==
  ASSUME NEW i, ChainInv(i), UNCHANGED <<lines, bad, open>>, i \in DOMAIN proc',
         proc'[i].pc \in {"down", "ready", "line"},
         proc'[i].pc # "down" =>
           /\ proc[i].pc \in {"ready", "line"} \/ bad # {} \/ open
           /\ proc'[i].last_hash = proc[i].last_hash
           /\ proc'[i].next_seq = proc[i].next_seq,
         proc'[i].pc = "line" =>
           \E d \in Data :
             proc'[i].entry = NewEntry(proc'[i].last_hash, proc'[i].next_seq, d)
  PROVE  ChainInv(i)'
<1>1. /\ IsSeq(lines)' /\ (open \in BOOLEAN)' /\ (bad \subseteq 1 .. Len(lines))'
      /\ (open => lines # <<>>)'
      /\ (\A n \in 1 .. Len(lines) : bad \cap 1 .. n = {} => Linked(lines, n))'
  BY DEF ChainInv, IsSeq, Linked
<1>2. (proc[i].pc \in {"ready", "line"} /\ bad = {} /\ ~ open =>
         /\ proc[i].last_hash = LastHash(lines)
         /\ proc[i].next_seq = Len(lines))'
  BY DEF ChainInv, LastHash
<1>3. QED BY <1>1, <1>2 DEF ChainInv

\* A step that puts bytes of the entry in hand.
LEMMA PutStepChain ==
  ASSUME NEW i, ChainInv(i), proc[i].pc = "line", NEW whole \in BOOLEAN,
         PutBytes(proc[i].entry, whole), i \in DOMAIN proc',
         \/ proc'[i].pc \in {"down", "ready"}
         \/ /\ proc'[i].pc = "newline" /\ proc'[i].next_seq = proc[i].next_seq
            /\ proc'[i].entry = proc[i].entry
  PROVE  ChainInv(i)'
<1>1. /\ IsSeq(lines') /\ open' \in BOOLEAN
      /\ bad' \subseteq 1 .. Len(lines')
      /\ open' /\ lines' # <<>>
      /\ \A n \in 1 .. Len(lines') : bad' \cap 1 .. n = {} => Linked(lines', n)
      /\ bad' = {} => /\ proc[i].next_seq + 1 = Len(lines')
                      /\ proc[i].entry = lines'[Len(lines')]
  BY PutChain
<1>2. (\A n \in 1 .. Len(lines) : bad \cap 1 .. n = {} => Linked(lines, n))'
  BY <1>1 DEF Linked
<1>3. IsSeq(lines)'
  BY <1>1 DEF IsSeq
<1>4. QED BY <1>1, <1>2, <1>3 DEF ChainInv

LEMMA NewlineChain ==
  ASSUME NEW i, ChainInv(i), WriteNewline(i) PROVE ChainInv(i)'
<1>1. /\ proc[i].pc = "newline" /\ open' = FALSE /\ UNCHANGED <<lines, bad>>
      /\ proc' = [proc EXCEPT ![i] = Up(@.entry.hash, @.next_seq + 1)]
      /\ i \in DOMAIN proc
  BY DEF WriteNewline, ChainInv
<1>2. /\ i \in DOMAIN proc' /\ proc'[i].pc = "ready"
      /\ proc'[i].last_hash = proc[i].entry.hash
      /\ proc'[i].next_seq = proc[i].next_seq + 1
  BY <1>1 DEF Up
<1>3. bad = {} => /\ proc'[i].last_hash = LastHash(lines)
                  /\ proc'[i].next_seq = Len(lines)
  BY <1>1, <1>2 DEF ChainInv, LastHash
<1>4. /\ IsSeq(lines)' /\ (bad \subseteq 1 .. Len(lines))'
      /\ (\A n \in 1 .. Len(lines) : bad \cap 1 .. n = {} => Linked(lines, n))'
  BY <1>1 DEF ChainInv, IsSeq, Linked
<1>5. (open \in BOOLEAN /\ (open => lines # <<>>))'
  BY <1>1, Zenon
<1>6. (proc[i].pc \in {"ready", "line"} /\ bad = {} /\ ~ open =>
         /\ proc[i].last_hash = LastHash(lines)
         /\ proc[i].next_seq = Len(lines))'
  BY <1>1, <1>3 DEF LastHash
<1>7. QED BY <1>2, <1>4, <1>5, <1>6 DEF ChainInv

LEMMA NextChain ==
  ASSUME NEW i, Instances = {i}, ChainInv(i), [Next]_vars PROVE ChainInv(i)'
<1>0. i \in DOMAIN proc
  BY DEF ChainInv
<1>1. CASE Open(i)
  BY <1>1, OpenChain
<1>2. ASSUME NEW d \in Data, Record(i, d) PROVE ChainInv(i)'
  <2>1. /\ i \in DOMAIN proc' /\ proc'[i].pc = "line" /\ proc[i].pc = "ready"
        /\ proc'[i].last_hash = proc[i].last_hash
        /\ proc'[i].next_seq = proc[i].next_seq
        /\ proc'[i].entry = NewEntry(proc[i].last_hash, proc[i].next_seq, d)
    BY <1>0, <1>2 DEF Record, Writing
  <2>2. UNCHANGED <<lines, bad, open>>
    BY <1>2 DEF Record
  <2>3. QED BY <2>1, <2>2, QuietChain
<1>3. CASE WriteLine(i)
  <2>1. proc[i].pc = "line" /\ PutBytes(proc[i].entry, TRUE)
    BY <1>3 DEF WriteLine
  <2>2. /\ i \in DOMAIN proc' /\ proc'[i].pc = "newline"
        /\ proc'[i].next_seq = proc[i].next_seq /\ proc'[i].entry = proc[i].entry
    BY <1>0, <1>3 DEF WriteLine, Writing
  <2>3. QED BY <2>1, <2>2, PutStepChain
<1>4. CASE WriteNewline(i)
  BY <1>4, NewlineChain
<1>5. CASE LineFails(i)
  <2>1. /\ i \in DOMAIN proc' /\ proc'[i].pc = "ready" /\ proc[i].pc = "line"
        /\ proc'[i].last_hash = proc[i].last_hash
        /\ proc'[i].next_seq = proc[i].next_seq
    BY <1>0, <1>5 DEF LineFails, Up
  <2>2. CASE PutBytes(proc[i].entry, FALSE)
    BY <2>1, <2>2, PutStepChain
  <2>3. CASE UNCHANGED <<lines, bad, open>>
    BY <2>1, <2>3, QuietChain
  <2>4. QED BY <1>5, <2>2, <2>3 DEF LineFails
<1>6. CASE NewlineFails(i)
  <2>1. /\ i \in DOMAIN proc' /\ proc'[i].pc = "ready" /\ proc[i].pc = "newline"
        /\ proc'[i].last_hash = proc[i].last_hash
        /\ proc'[i].next_seq = proc[i].next_seq
        /\ UNCHANGED <<lines, bad, open>>
    BY <1>0, <1>6 DEF NewlineFails, Up
  <2>2. open
    BY <2>1 DEF ChainInv
  <2>3. QED BY <2>1, <2>2, QuietChain
<1>7. CASE Stop(i)
  <2>1. i \in DOMAIN proc' /\ proc'[i].pc = "down" /\ UNCHANGED <<lines, bad, open>>
    BY <1>0, <1>7 DEF Stop, Down
  <2>2. QED BY <2>1, QuietChain
<1>8. CASE Crash(i)
  <2>1. i \in DOMAIN proc' /\ proc'[i].pc = "down"
    BY <1>0, <1>8 DEF Crash, Down
  <2>2. CASE proc[i].pc = "line" /\ PutBytes(proc[i].entry, FALSE)
    BY <2>1, <2>2, PutStepChain
  <2>3. CASE UNCHANGED <<lines, bad, open>>
    BY <2>1, <2>3, QuietChain
  <2>4. QED BY <1>8, <2>2, <2>3 DEF Crash
<1>9. CASE UNCHANGED vars
  BY <1>9 DEF vars, ChainInv, IsSeq, Linked, LastHash
<1>10. QED
  BY <1>1, <1>2, <1>3, <1>4, <1>5, <1>6, <1>7, <1>8, <1>9 DEF Next

THEOREM ChainInvariance ==
  ASSUME NEW CONSTANT i, Instances = {i}
  PROVE  Spec => []ChainInv(i)
<1>1. Init => ChainInv(i)
  BY InitChain
<1>2. ChainInv(i) /\ [Next]_vars => ChainInv(i)'
  BY NextChain
<1>3. QED BY <1>1, <1>2, PTL DEF Spec

LEMMA PrefixFacts ==
  ASSUME NEW s, IsSeq(s), NEW n \in 0 .. Len(s)
  PROVE  /\ DOMAIN SubSeq(s, 1, n) = 1 .. n
         /\ \A m \in 1 .. n : SubSeq(s, 1, n)[m] = s[m]
<1>1. PICK S : s \in Seq(S)
  BY DEF IsSeq
<1>2. n \in Nat /\ \A m \in 1 .. n : s[m] \in S
  BY <1>1
<1>3. /\ SubSeq(s, 1, n) \in Seq(S)
      /\ Len(SubSeq(s, 1, n)) = IF 1 <= n THEN n - 1 + 1 ELSE 0
      /\ \A m \in 1 .. n - 1 + 1 : SubSeq(s, 1, n)[m] = s[1 + m - 1]
  BY <1>2, SubSeqProperties
<1>4. Len(SubSeq(s, 1, n)) = n
  BY <1>2, <1>3
<1>5. \A m \in 1 .. n : SubSeq(s, 1, n)[m] = s[m]
  BY <1>2, <1>3
<1>6. QED BY <1>3, <1>4, <1>5, LenProperties

\* With one server, every prefix of the log that can be read verifies, whatever
\* writes failed and wherever processes died: `audit verify' blames no one for
\* a log nobody touched.
THEOREM WhatIsReadVerifies ==
  ASSUME NEW CONSTANT i, Instances = {i}
  PROVE  Spec => []ReadableVerifies
<1>1. ChainInv(i) => ReadableVerifies
  <2> SUFFICES ASSUME ChainInv(i), NEW n \in 0 .. Len(lines), bad \cap 1 .. n = {},
                      NEW m \in DOMAIN SubSeq(lines, 1, n)
               PROVE  Linked(SubSeq(lines, 1, n), m)
    BY DEF ReadableVerifies, VerifyChain
  <2>1. IsSeq(lines) /\ Len(lines) \in Nat
    BY SeqFacts DEF ChainInv
  <2>2. m \in 1 .. n /\ \A k \in 1 .. n : SubSeq(lines, 1, n)[k] = lines[k]
    BY <2>1, PrefixFacts
  <2>3. m \in 1 .. Len(lines) /\ bad \cap 1 .. m = {}
    BY <2>1, <2>2
  <2>4. Linked(lines, m)
    BY <2>3 DEF ChainInv
  <2>5. m = 1 \/ m - 1 \in 1 .. n
    BY <2>2
  <2>6. QED BY <2>2, <2>4, <2>5 DEF Linked
<1>2. QED BY <1>1, ChainInvariance, PTL

-----------------------------------------------------------------------------
(* Acknowledged records.                                                   *)

\* The strengthening of AckedIsLog: between the two writes of a record, the
\* line that has no newline yet is the record's, unless it cannot be read.
AckInv(i) ==
  /\ IsSeq(acked)
  /\ Len(acked) = IF open THEN Len(lines) - 1 ELSE Len(lines)
  /\ \A n \in 1 .. Len(acked) : n \notin bad => lines[n] = acked[n]
  /\ proc[i].pc = "newline" /\ Len(lines) \notin bad =>
       lines[Len(lines)] = proc[i].entry

LEMMA InitAck == ASSUME NEW i \in Instances, Init PROVE AckInv(i)
<1>1. lines = <<>> /\ acked = <<>> /\ open = FALSE /\ proc[i].pc = "down"
  BY DEF Init, Down
<1>2. Len(lines) = 0 /\ Len(acked) = 0 /\ IsSeq(acked)
  BY <1>1, EmptySeq DEF IsSeq
<1>3. QED BY <1>1, <1>2 DEF AckInv

\* A step that leaves the file alone and ends outside the two writes.
LEMMA QuietAck ==
  ASSUME NEW i, AckInv(i), UNCHANGED <<lines, bad, open, acked>>,
         proc'[i].pc # "newline"
  PROVE  AckInv(i)'
BY DEF AckInv, IsSeq

\* A step that puts bytes of the entry in hand.
LEMMA PutAck ==
  ASSUME NEW i, ChainInv(i), AckInv(i), NEW whole \in BOOLEAN,
         PutBytes(proc[i].entry, whole), UNCHANGED acked,
         proc'[i].pc = "newline" => whole /\ proc'[i].entry = proc[i].entry
  PROVE  AckInv(i)'
<1> DEFINE e == proc[i].entry
<1>1. /\ lines' = IF open THEN lines ELSE Append(lines, e)
      /\ bad' = IF whole /\ ~ open THEN bad ELSE bad \cup {Len(lines')}
      /\ open' = TRUE
  BY DEF PutBytes
<1>2. /\ IsSeq(lines) /\ Len(lines) \in Nat /\ bad \subseteq 1 .. Len(lines)
      /\ IsSeq(acked) /\ Len(acked) \in Nat
  BY SeqFacts DEF ChainInv, AckInv
<1> HIDE DEF e
<1>3. CASE open
  <2>1. lines' = lines /\ bad' = bad \cup {Len(lines)}
    BY <1>1, <1>3
  <2>2. Len(acked') = Len(lines') - 1
    BY <1>3, <2>1 DEF AckInv
  <2>3. \A n \in 1 .. Len(acked') : n \notin bad' => lines'[n] = acked'[n]
    BY <2>1 DEF AckInv
  <2>4. Len(lines') \in bad'
    BY <2>1
  <2>5. QED BY <1>1, <1>2, <2>2, <2>3, <2>4 DEF AckInv, IsSeq
<1>4. CASE ~ open
  <2>1. /\ lines' = Append(lines, e) /\ Len(lines') = Len(lines) + 1
        /\ \A n \in 1 .. Len(lines) : lines'[n] = lines[n]
        /\ lines'[Len(lines')] = e
    BY <1>1, <1>2, <1>4, AppendFacts
  <2>2. Len(acked') = Len(lines') - 1 /\ Len(acked) = Len(lines)
    BY <1>2, <1>4, <2>1 DEF AckInv
  <2>3. bad \subseteq bad'
    <3>1. bad' = bad \/ bad' = bad \cup {Len(lines')}
      BY <1>1, Zenon
    <3>2. QED BY <3>1
  <2>4. \A n \in 1 .. Len(acked') : n \notin bad' => lines'[n] = acked'[n]
    BY <2>1, <2>2, <2>3 DEF AckInv
  <2>5. proc'[i].pc = "newline" => lines'[Len(lines')] = proc'[i].entry
    BY <2>1 DEF e
  <2>6. QED BY <1>1, <1>2, <2>2, <2>4, <2>5 DEF AckInv, IsSeq
<1>5. QED BY <1>3, <1>4

\* The newline ends the one line that had none, and acknowledges its record.
LEMMA NewlineAck ==
  ASSUME NEW i, ChainInv(i), AckInv(i), WriteNewline(i) PROVE AckInv(i)'
<1>1. /\ proc[i].pc = "newline" /\ open' = FALSE /\ UNCHANGED <<lines, bad>>
      /\ acked' = Append(acked, proc[i].entry)
      /\ i \in DOMAIN proc
      /\ proc' = [proc EXCEPT ![i] = Up(@.entry.hash, @.next_seq + 1)]
  BY DEF WriteNewline, ChainInv
<1>2. open /\ Len(lines) \in Nat /\ IsSeq(acked) /\ Len(acked) \in Nat
  BY <1>1, SeqFacts DEF ChainInv, AckInv
<1>3. Len(acked) = Len(lines) - 1
  BY <1>2 DEF AckInv
<1>4. /\ IsSeq(acked') /\ Len(acked') = Len(lines)
      /\ \A n \in 1 .. Len(acked) : acked'[n] = acked[n]
      /\ acked'[Len(lines)] = proc[i].entry
  BY <1>1, <1>2, <1>3, AppendFacts
<1>5. ASSUME NEW n \in 1 .. Len(acked'), n \notin bad PROVE lines[n] = acked'[n]
  <2>1. CASE n \in 1 .. Len(acked)
    BY <1>4, <1>5, <2>1 DEF AckInv
  <2>2. CASE n = Len(lines)
    BY <1>1, <1>4, <1>5, <2>2 DEF AckInv
  <2>3. QED BY <1>2, <1>3, <1>4, <2>1, <2>2
<1>6. proc'[i].pc = "ready"
  BY <1>1 DEF Up
<1>7. QED BY <1>1, <1>4, <1>5, <1>6 DEF AckInv, IsSeq

LEMMA NextAck ==
  ASSUME NEW i, Instances = {i}, ChainInv(i), AckInv(i), [Next]_vars PROVE AckInv(i)'
<1>0. i \in DOMAIN proc
  BY DEF ChainInv
<1>1. CASE Open(i) \/ NewlineFails(i) \/ Stop(i) \/ \E d \in Data : Record(i, d)
  <2>1. proc'[i].pc \in {"ready", "down", "line"}
    BY <1>0, <1>1 DEF Open, NewlineFails, Stop, Record, Up, Down, Writing
  <2>2. UNCHANGED <<lines, bad, open, acked>>
    BY <1>1 DEF Open, NewlineFails, Stop, Record
  <2>3. QED BY <2>1, <2>2, QuietAck
<1>2. CASE WriteLine(i)
  <2>1. proc'[i].entry = proc[i].entry
    BY <1>0, <1>2 DEF WriteLine, Writing
  <2>2. PutBytes(proc[i].entry, TRUE) /\ UNCHANGED acked
    BY <1>2 DEF WriteLine
  <2>3. QED BY <2>1, <2>2, PutAck
<1>3. CASE WriteNewline(i)
  BY <1>3, NewlineAck
<1>4. CASE LineFails(i) \/ Crash(i)
  <2>1. proc'[i].pc # "newline" /\ UNCHANGED acked
    <3>1. LineFails(i) => proc'[i].pc = "ready" /\ UNCHANGED acked
      BY <1>0 DEF LineFails, Up
    <3>2. Crash(i) => proc'[i].pc = "down" /\ UNCHANGED acked
      BY <1>0 DEF Crash, Down
    <3>3. QED BY <1>4, <3>1, <3>2
  <2>2. PutBytes(proc[i].entry, FALSE) \/ UNCHANGED <<lines, bad, open>>
    BY <1>4 DEF LineFails, Crash
  <2>3. CASE PutBytes(proc[i].entry, FALSE)
    BY <2>1, <2>3, PutAck
  <2>4. CASE UNCHANGED <<lines, bad, open>>
    BY <2>1, <2>4, QuietAck
  <2>5. QED BY <2>2, <2>3, <2>4
<1>5. CASE UNCHANGED vars
  BY <1>5 DEF vars, AckInv, IsSeq
<1>6. QED BY <1>1, <1>2, <1>3, <1>4, <1>5 DEF Next

\* With one server, each record that returned Ok ended one line of the log, in
\* order, and this line holds the record, if it can be read: nothing that was
\* acknowledged (AuditLog::record) is lost, doubled or overtaken, whatever
\* writes failed and wherever processes died.
THEOREM AcknowledgedIsLogged ==
  ASSUME NEW CONSTANT i, Instances = {i}
  PROVE  Spec => []AckedIsLog
<1>1. Init => AckInv(i)
  BY InitAck
<1>2. ChainInv(i) /\ AckInv(i) /\ [Next]_vars => AckInv(i)'
  BY NextAck
<1>3. AckInv(i) => AckedIsLog
  BY SeqFacts DEF AckInv, AckedIsLog
<1>4. QED BY <1>1, <1>2, <1>3, ChainInvariance, PTL DEF Spec

-----------------------------------------------------------------------------
(* Tampering, with any log that verifies.                                  *)

\* Removing an entry that is not the last leaves one with the wrong number.
LEMMA RemovalShows ==
  ASSUME NEW es, IsSeq(es), VerifyChain(es), NEW n \in 1 .. Len(es) - 1
  PROVE  ~ VerifyChain(Without(es, n))
<1>1. PICK S : es \in Seq(S)
  BY DEF IsSeq
<1> DEFINE a == SubSeq(es, 1, n - 1)
           b == SubSeq(es, n + 1, Len(es))
<1>2. Len(es) \in Nat /\ n \in Nat /\ n < Len(es) /\ n + 1 \in 1 .. Len(es)
  BY <1>1
<1>3. \A k \in 1 .. Len(es) : es[k] \in S
  BY <1>1
<1>4. a \in Seq(S) /\ Len(a) = n - 1
  <2>1. n - 1 \in Int /\ \A k \in 1 .. n - 1 : es[k] \in S
    BY <1>2, <1>3
  <2>2. a \in Seq(S) /\ Len(a) = IF 1 <= n - 1 THEN (n - 1) - 1 + 1 ELSE 0
    BY <2>1, SubSeqProperties
  <2>3. QED BY <1>2, <2>2
<1>5. b \in Seq(S) /\ Len(b) = Len(es) - n /\ b[1] = es[n + 1]
  <2>1. n + 1 \in Int /\ Len(es) \in Int /\ \A k \in n + 1 .. Len(es) : es[k] \in S
    BY <1>2, <1>3
  <2>2. /\ b \in Seq(S)
        /\ Len(b) = IF n + 1 <= Len(es) THEN Len(es) - (n + 1) + 1 ELSE 0
        /\ \A k \in 1 .. Len(es) - (n + 1) + 1 : b[k] = es[(n + 1) + k - 1]
    BY <2>1, SubSeqProperties
  <2>3. b[1] = es[(n + 1) + 1 - 1]
    BY <1>2, <2>2
  <2>4. QED BY <1>2, <2>2, <2>3
<1> HIDE DEF a, b
<1>6. /\ a \o b \in Seq(S) /\ Len(a \o b) = Len(a) + Len(b)
      /\ \A k \in 1 .. Len(a) + Len(b) :
           (a \o b)[k] = IF k <= Len(a) THEN a[k] ELSE b[k - Len(a)]
  BY <1>4, <1>5, ConcatProperties
<1>7. n \in DOMAIN (a \o b) /\ (a \o b)[n] = es[n + 1]
  <2>1. n \in 1 .. Len(a) + Len(b) /\ ~ (n <= Len(a)) /\ n - Len(a) = 1
    BY <1>2, <1>4, <1>5
  <2>2. (a \o b)[n] = b[1]
    BY <1>6, <2>1
  <2>3. DOMAIN (a \o b) = 1 .. Len(a) + Len(b)
    BY <1>6, LenProperties
  <2>4. QED BY <1>5, <2>1, <2>2, <2>3
<1>8. es[n + 1].seq = n
  <2>1. n + 1 \in DOMAIN es
    BY <1>1, <1>2
  <2>2. es[n + 1].seq = (n + 1) - 1
    BY <2>1 DEF VerifyChain, Linked
  <2>3. QED BY <1>2, <2>2
<1>9. Without(es, n) = a \o b
  BY DEF Without, a, b
<1>10. ASSUME VerifyChain(a \o b) PROVE FALSE
  <2>1. (a \o b)[n].seq = n - 1
    BY <1>7, <1>10 DEF VerifyChain, Linked
  <2>2. QED BY <1>2, <1>7, <1>8, <2>1
<1>11. QED BY <1>9, <1>10

\* Exchanging two entries shows as well.
LEMMA ExchangeShows ==
  ASSUME NEW es, IsSeq(es), VerifyChain(es),
         NEW m \in DOMAIN es, NEW n \in DOMAIN es, m # n
  PROVE  ~ VerifyChain(Swapped(es, m, n))
<1>1. m \in Int /\ n \in Int
  BY SeqFacts
<1>2. m \in DOMAIN Swapped(es, m, n) /\ Swapped(es, m, n)[m] = es[n]
  BY DEF Swapped
<1>3. es[n].seq = n - 1
  BY DEF VerifyChain, Linked
<1>4. ASSUME VerifyChain(Swapped(es, m, n)) PROVE FALSE
  <2>1. Swapped(es, m, n)[m].seq = m - 1
    BY <1>2, <1>4 DEF VerifyChain, Linked
  <2>2. QED BY <1>1, <1>2, <1>3, <2>1
<1>5. QED BY <1>4

-----------------------------------------------------------------------------
(* Editing an entry.                                                       *)

\* A text without a separator is its one piece.
LEMMA OnePiece ==
  ASSUME NEW t \in Text, Len(t) = 1
  PROVE  t = <<t[1]>> /\ t[1] \in Pieces
<1>1. t \in Seq(Pieces)
  BY DEF Text
<1>2. QED BY <1>1

\* The texts of a record, in a row.
LEMMA TextsAre ==
  ASSUME NEW d \in Saying
  PROVE  LET N == Len(d.secret_names)
         IN  /\ N \in Nat /\ Texts(d) \in Seq(Text) /\ Len(Texts(d)) = N + 5
             /\ Texts(d)[1] = d.actor /\ Texts(d)[2] = d.tool
             /\ Texts(d)[3] = d.target /\ Texts(d)[4] = d.action
             /\ \A k \in 1 .. N : Texts(d)[k + 4] = d.secret_names[k]
             /\ Texts(d)[N + 5] = d.outcome
<1> DEFINE N == Len(d.secret_names)
           a == <<d.actor, d.tool, d.target, d.action>>
           b == d.secret_names
           c == <<d.outcome>>
<1>1. /\ d.actor \in Text /\ d.tool \in Text /\ d.target \in Text /\ d.action \in Text
      /\ b \in Seq(Text) /\ d.outcome \in Text
  BY DEF Saying
<1>2. a \in Seq(Text) /\ Len(a) = 4 /\ c \in Seq(Text) /\ Len(c) = 1 /\ c[1] = d.outcome
  BY <1>1
<1>3. a[1] = d.actor /\ a[2] = d.tool /\ a[3] = d.target /\ a[4] = d.action
  OBVIOUS
<1>4. Texts(d) = (a \o b) \o c
  BY DEF Texts
<1>5. N \in Nat
  BY <1>1
<1> HIDE DEF a, b, c, N
<1>6. /\ a \o b \in Seq(Text) /\ Len(a \o b) = 4 + N
      /\ \A k \in 1 .. 4 + N : (a \o b)[k] = IF k <= 4 THEN a[k] ELSE b[k - 4]
  <2>1. Len(b) = N
    BY DEF N, b
  <2>2. a \in Seq(Text) /\ b \in Seq(Text) /\ Len(a) = 4
    BY <1>1, <1>2 DEF b
  <2>3. /\ a \o b \in Seq(Text) /\ Len(a \o b) = Len(a) + Len(b)
        /\ \A k \in 1 .. Len(a) + Len(b) :
             (a \o b)[k] = IF k <= Len(a) THEN a[k] ELSE b[k - Len(a)]
    BY <2>2, ConcatProperties
  <2>4. QED BY <2>1, <2>2, <2>3
<1>7. /\ Texts(d) \in Seq(Text) /\ Len(Texts(d)) = 4 + N + 1
      /\ \A k \in 1 .. 4 + N + 1 :
           Texts(d)[k] = IF k <= 4 + N THEN (a \o b)[k] ELSE c[k - (4 + N)]
  <2> DEFINE ab == a \o b
  <2> HIDE DEF ab
  <2>1. ab \in Seq(Text) /\ Len(ab) = 4 + N
    BY <1>6 DEF ab
  <2>2. /\ ab \o c \in Seq(Text) /\ Len(ab \o c) = Len(ab) + Len(c)
        /\ \A k \in 1 .. Len(ab) + Len(c) :
             (ab \o c)[k] = IF k <= Len(ab) THEN ab[k] ELSE c[k - Len(ab)]
    BY <1>2, <2>1, ConcatProperties
  <2>3. QED BY <1>2, <1>4, <2>1, <2>2 DEF ab
<1>8. \A k \in 1 .. 4 : Texts(d)[k] = a[k]
  BY <1>5, <1>6, <1>7
<1>9. \A k \in 1 .. N : Texts(d)[k + 4] = b[k]
  <2>1. ASSUME NEW k \in 1 .. N PROVE Texts(d)[k + 4] = b[(k + 4) - 4] /\ (k + 4) - 4 = k
    <3>1. k \in Int /\ k + 4 \in 1 .. 4 + N /\ k + 4 \in 1 .. 4 + N + 1 /\ ~ (k + 4 <= 4)
          /\ (k + 4) - 4 = k /\ k + 4 <= 4 + N
      BY <1>5
    <3>2. Texts(d)[k + 4] = (a \o b)[k + 4]
      BY <1>7, <3>1
    <3>3. (a \o b)[k + 4] = b[(k + 4) - 4]
      BY <1>6, <3>1
    <3>4. QED BY <3>1, <3>2, <3>3
  <2>2. QED BY <2>1
<1>10. Texts(d)[N + 5] = c[1]
  <2>1. N + 5 \in 1 .. 4 + N + 1 /\ ~ (N + 5 <= 4 + N) /\ (N + 5) - (4 + N) = 1
    BY <1>5
  <2>2. QED BY <1>7, <2>1
<1>11. QED BY <1>2, <1>3, <1>5, <1>7, <1>8, <1>9, <1>10 DEF N, a, b

\* A non-empty set of naturals has a least element.
LEMMA LeastByOrder ==
  ASSUME NEW R, IsWellFoundedOn(R, Nat), \A x, y \in Nat : <<y, x>> \in R <=> y < x,
         NEW T, T \subseteq Nat, T # {}
  PROVE  \E x \in T : \A y \in T : y >= x
<1>1. \E x \in T : \A y \in T : <<y, x>> \notin R
  BY WFMin
<1>2. PICK x \in T : \A y \in T : <<y, x>> \notin R
  BY <1>1
<1>3. ASSUME NEW y \in T PROVE y >= x
  <2>1. x \in Nat /\ y \in Nat /\ <<y, x>> \notin R
    BY <1>2
  <2>2. ~ (y < x)
    BY <2>1, Zenon
  <2>3. QED BY <2>1, <2>2
<1>4. QED BY <1>3

LEMMA LeastNatural == \A T \in SUBSET Nat : T # {} => \E x \in T : \A y \in T : y >= x
<1>1. \A x, y \in Nat : <<y, x>> \in OpToRel(<, Nat) <=> y < x
  BY DEF OpToRel
<1>2. QED BY ONLY <1>1, NatLessThanWellFounded, LeastByOrder, Zenon

\* The first piece of each text.
Firsts(ts, i) == [k \in 1 .. i |-> ts[k][1]]

LEMMA FirstsGrow ==
  ASSUME NEW ts \in Seq(Text), \A k \in 1 .. Len(ts) : Len(ts[k]) = 1,
         NEW i \in 1 .. Len(ts)
  PROVE  /\ i = 1 => Firsts(ts, i) = ts[i]
         /\ i # 1 => Firsts(ts, i - 1) \o ts[i] = Firsts(ts, i)
<1>1. ts[i] = <<ts[i][1]>> /\ \A k \in 1 .. Len(ts) : ts[k][1] \in Pieces
  BY OnePiece
<1>2. i \in Nat /\ Len(ts) \in Nat
  OBVIOUS
<1>3. ASSUME i = 1 PROVE Firsts(ts, i) = ts[i]
  <2> DEFINE p == ts[1][1]
  <2>1. [k \in 1 .. 1 |-> ts[k][1]] = [k \in 1 .. 1 |-> p]
    OBVIOUS
  <2> HIDE DEF p
  <2>2. [k \in 1 .. 1 |-> p] = <<p>>
    OBVIOUS
  <2>3. QED BY <1>1, <1>3, <2>1, <2>2 DEF Firsts, p
<1>4. ASSUME i # 1 PROVE Firsts(ts, i - 1) \o ts[i] = Firsts(ts, i)
  <2> DEFINE s == Firsts(ts, i - 1)
             t == Firsts(ts, i)
             e == ts[i][1]
  <2>1. i - 1 \in Nat /\ \A k \in 1 .. i - 1 : k \in 1 .. Len(ts)
    BY <1>2
  <2>2. s \in Seq(Pieces) /\ Len(s) = i - 1 /\ \A k \in 1 .. i - 1 : s[k] = ts[k][1]
    BY <1>1, <2>1 DEF Firsts
  <2>3. e \in Pieces /\ ts[i] = <<e>>
    BY <1>1
  <2>4. t \in Seq(Pieces) /\ Len(t) = i /\ \A k \in 1 .. i : t[k] = ts[k][1]
    <3>1. \A k \in 1 .. i : k \in 1 .. Len(ts)
      BY <1>2
    <3>2. QED BY <1>1, <1>2, <3>1 DEF Firsts
  <2>5. t[i] = e
    BY <1>2, <2>4
  <2> HIDE DEF s, t, e
  <2>6. /\ s \o <<e>> \in Seq(Pieces) /\ Len(s \o <<e>>) = i
        /\ \A k \in 1 .. i : (s \o <<e>>)[k] = IF k <= i - 1 THEN s[k] ELSE e
    BY <1>2, <2>2, <2>3
  <2>7. \A k \in 1 .. i : (s \o <<e>>)[k] = t[k]
    <3>1. \A k \in 1 .. i : k \in 1 .. i - 1 \/ k = i
      BY <1>2
    <3>2. \A k \in 1 .. i - 1 : k <= i - 1
      OBVIOUS
    <3>3. ~ (i <= i - 1)
      BY <1>2
    <3>4. QED BY <2>2, <2>4, <2>5, <2>6, <3>1, <3>2, <3>3
  <2>8. s \o <<e>> = t
    BY <1>2, <2>4, <2>6, <2>7
  <2>9. QED BY <2>3, <2>8 DEF s, t
<1>5. QED BY <1>3, <1>4

\* At place i, h is put together from the texts up to i.
Joins(ts, h, i) == /\ i = 1 => h[i] = ts[i]
                   /\ i # 1 => h[i] = h[i - 1] \o ts[i]

\* One after the other, texts without a separator are the row of their pieces.
LEMMA FlattenPlain ==
  ASSUME NEW ts \in Seq(Text), \A k \in 1 .. Len(ts) : Len(ts[k]) = 1, Len(ts) # 0
  PROVE  FlattenSeq(ts) = Firsts(ts, Len(ts))
<1> DEFINE n == Len(ts)
           Step(f, i) == IF i = 1 THEN ts[i] ELSE f[i - 1] \o ts[i]
           IsIt(f) == f = [i \in 1 .. n |-> Step(f, i)]
           flatten == CHOOSE f : IsIt(f)
           h == [i \in 1 .. n |-> Firsts(ts, i)]
<1>1. FlattenSeq(ts) = flatten[n]
  BY DEF FlattenSeq
<1>2. n \in Nat /\ n # 0
  OBVIOUS
<1>3. \A i \in 1 .. n : Joins(ts, h, i)
  <2> SUFFICES ASSUME NEW i \in 1 .. n PROVE Joins(ts, h, i)
    OBVIOUS
  <2>1. h[i] = Firsts(ts, i) /\ (i # 1 => h[i - 1] = Firsts(ts, i - 1))
    <3>1. i # 1 => i - 1 \in 1 .. n
      BY <1>2
    <3>2. QED BY <3>1
  <2>2. /\ i = 1 => Firsts(ts, i) = ts[i]
        /\ i # 1 => Firsts(ts, i - 1) \o ts[i] = Firsts(ts, i)
    BY FirstsGrow
  <2> HIDE DEF h
  <2>3. QED BY <2>1, <2>2 DEF Joins
<1>4. h[n] = Firsts(ts, n)
  BY <1>2
<1>5. IsIt(h)
  <2>1. \A i \in 1 .. n : Step(h, i) = h[i]
    <3> SUFFICES ASSUME NEW i \in 1 .. n PROVE Step(h, i) = h[i]
      OBVIOUS
    <3> HIDE DEF h, n
    <3>1. Joins(ts, h, i)
      BY <1>3
    <3>2. QED BY <3>1, Zenon DEF Joins
  <2>2. h = [i \in 1 .. n |-> h[i]]
    OBVIOUS
  <2> HIDE DEF h, n, Step
  <2>3. QED BY <2>1, <2>2
<1> HIDE DEF h
<1>6. IsIt(flatten)
  <2> HIDE DEF IsIt
  <2>1. QED BY <1>5
<1>7. \A i \in 1 .. n : flatten[i] = Step(flatten, i)
  <2> HIDE DEF flatten, Step, n
  <2>1. QED BY <1>6
<1> HIDE DEF flatten, IsIt
<1>8. \A i \in 1 .. n : flatten[i] = h[i]
  <2> DEFINE T == {i \in 1 .. n : flatten[i] # h[i]}
  <2> SUFFICES ASSUME T # {} PROVE FALSE
    OBVIOUS
  <2>1. PICK x \in T : \A y \in T : y >= x
    <3>1. T \in SUBSET Nat
      BY <1>2
    <3> HIDE DEF T
    <3>2. QED BY <3>1, LeastNatural
  <2>2. x \in 1 .. n /\ flatten[x] # h[x]
    BY <2>1
  <2>3. x # 1 => flatten[x - 1] = h[x - 1]
    <3>1. x # 1 => x - 1 \in 1 .. n /\ ~ (x - 1 >= x)
      BY <1>2, <2>2
    <3>2. QED BY <2>1, <3>1
  <2>4. flatten[x] = Step(flatten, x)
    BY <1>7, <2>2
  <2> HIDE DEF n, T
  <2>5. Joins(ts, h, x)
    BY <1>3, <2>2
  <2>6. QED BY <2>2, <2>3, <2>4, <2>5, Zenon DEF Joins
<1>9. n \in 1 .. n
  BY <1>2
<1> HIDE DEF n
<1>10. QED BY <1>1, <1>4, <1>8, <1>9 DEF n

\* Two records without separators in their texts are hashed alike only if they say
\* the same.
LEMMA PlainHashes ==
  ASSUME NEW c \in Saying, NEW d \in Saying, Plain(c), Plain(d), NEW prev, NEW seq,
         ComputeHash(prev, seq, c) = ComputeHash(prev, seq, d)
  PROVE  c = d
<1> DEFINE s == Texts(c)
           t == Texts(d)
           M == Len(c.secret_names)
           N == Len(d.secret_names)
<1>1. /\ s \in Seq(Text) /\ Len(s) = M + 5 /\ M \in Nat
      /\ s[1] = c.actor /\ s[2] = c.tool /\ s[3] = c.target /\ s[4] = c.action
      /\ \A k \in 1 .. M : s[k + 4] = c.secret_names[k]
      /\ s[M + 5] = c.outcome
  BY TextsAre
<1>2. /\ t \in Seq(Text) /\ Len(t) = N + 5 /\ N \in Nat
      /\ t[1] = d.actor /\ t[2] = d.tool /\ t[3] = d.target /\ t[4] = d.action
      /\ \A k \in 1 .. N : t[k + 4] = d.secret_names[k]
      /\ t[N + 5] = d.outcome
  BY TextsAre
<1>3. (\A k \in DOMAIN s : Len(s[k]) = 1) /\ (\A k \in DOMAIN t : Len(t[k]) = 1)
  BY DEF Plain
<1>4. c.timestamp_ms = d.timestamp_ms /\ FlattenSeq(s) = FlattenSeq(t)
  BY DEF ComputeHash
<1>5. /\ c = [timestamp_ms |-> c.timestamp_ms, actor |-> c.actor, tool |-> c.tool,
               target |-> c.target, action |-> c.action,
               secret_names |-> c.secret_names, outcome |-> c.outcome]
      /\ d = [timestamp_ms |-> d.timestamp_ms, actor |-> d.actor, tool |-> d.tool,
               target |-> d.target, action |-> d.action,
               secret_names |-> d.secret_names, outcome |-> d.outcome]
      /\ c.secret_names \in Seq(Text) /\ d.secret_names \in Seq(Text)
  BY DEF Saying
<1> HIDE DEF s, t
<1>6. DOMAIN s = 1 .. M + 5 /\ DOMAIN t = 1 .. N + 5
  BY <1>1, <1>2
<1>7. Firsts(s, M + 5) = Firsts(t, N + 5)
  <2>1. FlattenSeq(s) = Firsts(s, Len(s))
    BY <1>1, <1>3, <1>6, FlattenPlain
  <2>2. FlattenSeq(t) = Firsts(t, Len(t))
    <3>1. t \in Seq(Text)
      BY <1>2
    <3>2. Len(t) = N + 5 /\ Len(t) # 0
      BY <1>2
    <3>3. \A k \in 1 .. Len(t) : Len(t[k]) = 1
      BY <1>3, <1>6, <3>2, Zenon
    <3>4. QED BY <3>1, <3>2, <3>3, FlattenPlain
  <2>3. QED BY <1>1, <1>2, <1>4, <2>1, <2>2
<1>8. M = N
  <2>1. 1 .. M + 5 = 1 .. N + 5
    BY <1>7 DEF Firsts
  <2> HIDE DEF M, N
  <2>2. QED BY <1>1, <1>2, <2>1
<1>9. \A k \in 1 .. N + 5 : s[k] = t[k]
  <2> SUFFICES ASSUME NEW k \in 1 .. N + 5 PROVE s[k] = t[k]
    OBVIOUS
  <2>1. s[k][1] = t[k][1]
    BY <1>7, <1>8 DEF Firsts
  <2>2. s[k] \in Text /\ t[k] \in Text /\ Len(s[k]) = 1 /\ Len(t[k]) = 1
    BY <1>1, <1>2, <1>3, <1>6, <1>8
  <2>3. s[k] = <<s[k][1]>> /\ t[k] = <<t[k][1]>>
    BY <2>2, OnePiece
  <2>4. QED BY <2>1, <2>3
<1>10. /\ c.actor = d.actor /\ c.tool = d.tool /\ c.target = d.target
       /\ c.action = d.action /\ c.outcome = d.outcome
  <2>1. {1, 2, 3, 4, N + 5} \subseteq 1 .. N + 5
    BY <1>2
  <2> HIDE DEF M, N
  <2>2. QED BY <1>1, <1>2, <1>8, <1>9, <2>1
<1>11. c.secret_names = d.secret_names
  <2>1. \A k \in 1 .. N : k + 4 \in 1 .. N + 5
    BY <1>2
  <2>2. \A k \in 1 .. N : c.secret_names[k] = d.secret_names[k]
    BY <1>1, <1>2, <1>8, <1>9, <2>1
  <2>3. QED BY <1>5, <1>8, <2>2
<1>12. QED BY <1>4, <1>5, <1>10, <1>11

LEMMA EditShows ==
  ASSUME NEW es, VerifyChain(es), NEW n \in DOMAIN es, es[n].data \in Saying,
         NEW d \in Saying, d # es[n].data, Plain(es[n].data), Plain(d)
  PROVE  ~ VerifyChain(Edited(es, n, d))
<1> DEFINE e == Edited(es, n, d)[n]
<1>1. /\ n \in DOMAIN Edited(es, n, d)
      /\ e.data = d /\ e.seq = es[n].seq
      /\ e.prev_hash = es[n].prev_hash /\ e.hash = es[n].hash
  BY DEF Edited
<1>2. es[n].hash = ComputeHash(es[n].prev_hash, es[n].seq, es[n].data)
  BY DEF VerifyChain, Linked
<1>3. ASSUME VerifyChain(Edited(es, n, d)) PROVE FALSE
  <2>1. e.hash = ComputeHash(e.prev_hash, e.seq, e.data)
    BY <1>1, <1>3 DEF VerifyChain, Linked
  <2> HIDE DEF e
  <2>2. QED BY <1>1, <1>2, <2>1, PlainHashes
<1>4. QED BY <1>3

LEMMA RehashShows ==
  ASSUME NEW es, IsSeq(es), VerifyChain(es), NEW n \in DOMAIN es, n < Len(es),
         es[n].data \in Saying, NEW d \in Saying, d # es[n].data,
         Plain(es[n].data), Plain(d)
  PROVE  ~ VerifyChain(Rehashed(es, n, d))
<1> DEFINE r == Rehashed(es, n, d)
<1>1. Len(es) \in Nat /\ DOMAIN es = 1 .. Len(es)
  BY SeqFacts
<1>2. n \in Nat /\ n + 1 \in DOMAIN es /\ n + 1 # n /\ n + 1 # 1 /\ (n + 1) - 1 = n
  BY <1>1
<1>3. /\ DOMAIN r = DOMAIN es /\ r[n + 1] = es[n + 1]
      /\ r[n].hash = ComputeHash(es[n].prev_hash, es[n].seq, d)
  BY <1>2 DEF Rehashed, NewEntry
<1> HIDE DEF r
<1>4. es[n + 1].prev_hash = es[n].hash
  BY <1>2 DEF VerifyChain, Linked
<1>5. es[n].hash = ComputeHash(es[n].prev_hash, es[n].seq, es[n].data)
  BY DEF VerifyChain, Linked
<1>6. ASSUME VerifyChain(r) PROVE FALSE
  <2>1. r[n + 1].prev_hash = r[n].hash
    BY <1>2, <1>3, <1>6 DEF VerifyChain, Linked
  <2>2. ComputeHash(es[n].prev_hash, es[n].seq, d)
          = ComputeHash(es[n].prev_hash, es[n].seq, es[n].data)
    BY <1>3, <1>4, <1>5, <2>1
  <2>3. QED BY <2>2, PlainHashes
<1>7. QED BY <1>6 DEF r

\* With one server, removing an entry that is not the last or exchanging two makes
\* verify_chain reject a log that could be read; so does editing one, the hash
\* computed again or not, where no text holds a separator.
THEOREM TamperingIsCaught ==
  ASSUME NEW CONSTANT i, Instances = {i}
  PROVE  Spec => []TamperingShows
<1>1. ChainInv(i) /\ TypeOK => TamperingShows
  <2> SUFFICES ASSUME ChainInv(i), TypeOK, bad = {} PROVE TamperingShows
    BY DEF TamperingShows, Readable
  <2>1. IsSeq(lines)
    BY DEF ChainInv
  <2>2. VerifyChain(lines)
    <3>1. DOMAIN lines = 1 .. Len(lines)
      BY <2>1, SeqFacts
    <3>2. QED BY <3>1 DEF ChainInv, VerifyChain
  <2>3. \A n \in 1 .. Len(lines) - 1 : ~ VerifyChain(Without(lines, n))
    BY <2>1, <2>2, RemovalShows
  <2>4. \A m, n \in DOMAIN lines : m # n => ~ VerifyChain(Swapped(lines, m, n))
    BY <2>1, <2>2, ExchangeShows
  <2>5. Data \subseteq Saying /\ \A n \in DOMAIN lines : lines[n].data \in Data
    BY AuditLogAssumption DEF TypeOK, IsEntry
  <2>6. \A n \in DOMAIN lines : \A d \in Data \ {lines[n].data} :
          Plain(lines[n].data) /\ Plain(d) => ~ VerifyChain(Edited(lines, n, d))
    BY <2>2, <2>5, EditShows
  <2>7. \A n \in DOMAIN lines : \A d \in Data \ {lines[n].data} :
          Plain(lines[n].data) /\ Plain(d) /\ n < Len(lines) =>
            ~ VerifyChain(Rehashed(lines, n, d))
    BY <2>1, <2>2, <2>5, RehashShows
  <2>8. QED BY <2>3, <2>4, <2>6, <2>7 DEF TamperingShows
<1>2. QED BY <1>1, ChainInvariance, TypeCorrect, PTL
=============================================================================
