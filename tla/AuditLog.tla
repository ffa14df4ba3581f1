------------------------------ MODULE AuditLog ------------------------------
(***************************************************************************)
(* The hash-chained audit log (src/src/audit.rs).  A server process reads   *)
(* the log when it starts, keeps the last hash and the next sequence number *)
(* in memory, and appends one line per record.  writeln! issues two writes, *)
(* the line and its newline; either may fail, and the process may die       *)
(* before, between or after them.  Nothing locks the file, so processes     *)
(* that share it interleave write by write.                                 *)
(***************************************************************************)
EXTENDS Naturals, SequencesExt

CONSTANTS Instances,   \* server processes sharing the log
          Pieces,      \* what stands in a text between two separators
          Data,        \* what the records of a run may say
          Genesis,     \* GENESIS_HASH
          Faults,      \* which of the faults below may happen
          MaxLines     \* bound on the lines of the log

FaultKinds == {"stop",     \* a process ends between two records
               "crash",    \* a process dies anywhere
               "line",     \* writing a line fails, perhaps half-way
               "newline"}  \* writing a newline fails

\* A text, as the separator (SEP, \x1f) cuts it: one piece unless it holds one.
Text == Seq(Pieces) \ {<<>>}

\* What a record says, but for its place in the chain.
Saying == [timestamp_ms : Nat, actor : Text, tool : Text, target : Text, action : Text,
           secret_names : Seq(Text), outcome : Text]

Texts(d) == <<d.actor, d.tool, d.target, d.action>> \o d.secret_names \o <<d.outcome>>

\* Wrong: what the record says is left out of its hash.
HashWithoutData(prev, seq, data) == <<prev, seq>>

\* compute_hash, as a function without collisions of the bytes it is given: fields
\* of fixed width, then the texts, a separator after each but the last.  Nothing
\* tells these separators from those within a text, nor counts the names.
ComputeHash(prev, seq, data) == <<prev, seq, data.timestamp_ms, FlattenSeq(Texts(data))>>

NewEntry(prev, seq, data) ==
  [seq |-> seq, data |-> data, prev_hash |-> prev, hash |-> ComputeHash(prev, seq, data)]

IsEntry(e) == e = NewEntry(e.prev_hash, e.seq, e.data) /\ e.seq \in Nat /\ e.data \in Data

ASSUME AuditLogAssumption ==
  /\ Data \subseteq Saying
  /\ Faults \subseteq FaultKinds
  /\ MaxLines \in Nat

VARIABLES lines,   \* the lines of the file, each the entry it was to hold
          bad,     \* the lines whose bytes serde_json does not parse as an entry
          open,    \* the last line has no newline yet
          proc,    \* each process: its step, its ChainState, its entry in hand
          acked    \* history: the records that returned Ok, in order

vars == <<lines, bad, open, proc, acked>>

-----------------------------------------------------------------------------
(* Reading and verifying.                                                  *)

\* read_entries succeeds.
Readable == bad = {}

LastHash(es) == IF es = <<>> THEN Genesis ELSE es[Len(es)].hash
CountsDown(es) == IF es = <<>> THEN 0 ELSE es[Len(es)].seq - 1  \* wrong
NextSeq(es) == IF es = <<>> THEN 0 ELSE es[Len(es)].seq + 1

\* verify_chain: the three checks of each entry.
Linked(es, n) ==
  /\ es[n].seq = n - 1
  /\ es[n].prev_hash = IF n = 1 THEN Genesis ELSE es[n - 1].hash
  /\ es[n].hash = ComputeHash(es[n].prev_hash, es[n].seq, es[n].data)

VerifyChain(es) == \A n \in DOMAIN es : Linked(es, n)

-----------------------------------------------------------------------------
(* Writing.                                                                *)

\* Bytes appended to the file: a line of its own, which parses if whole; or
\* more of a line that had no newline, which no longer parses.
PutBytes(entry, whole) ==
  /\ lines' = IF open THEN lines ELSE Append(lines, entry)
  /\ bad' = IF whole /\ ~ open THEN bad ELSE bad \cup {Len(lines')}
  /\ open' = TRUE

Down == [pc |-> "down"]
Up(last, next) == [pc |-> "ready", last_hash |-> last, next_seq |-> next]
Writing(pc, last, next, entry) ==
  [pc |-> pc, last_hash |-> last, next_seq |-> next, entry |-> entry]

Init == /\ lines = <<>> /\ bad = {} /\ open = FALSE
        /\ proc = [i \in Instances |-> Down]
        /\ acked = <<>>

\* AuditLog::open: a line that does not parse keeps the server from starting.
Open(i) == /\ proc[i].pc = "down"
           /\ Readable
           /\ proc' = [proc EXCEPT ![i] = Up(LastHash(lines), NextSeq(lines))]
           /\ UNCHANGED <<lines, bad, open, acked>>

\* record: the entry is built from the chain state, and the file opened.
Record(i, d) ==
  /\ proc[i].pc = "ready"
  /\ Len(lines) < MaxLines
  /\ proc' = [proc EXCEPT ![i] =
                Writing("line", @.last_hash, @.next_seq,
                        NewEntry(@.last_hash, @.next_seq, d))]
  /\ UNCHANGED <<lines, bad, open, acked>>

\* The first write of writeln!.
WriteLine(i) == /\ proc[i].pc = "line"
                /\ PutBytes(proc[i].entry, TRUE)
                /\ proc' = [proc EXCEPT ![i] =
                              Writing("newline", @.last_hash, @.next_seq, @.entry)]
                /\ UNCHANGED acked

\* Wrong: the newline is forgotten.
ForgetsNewline(i) ==
  /\ proc[i].pc = "newline"
  /\ proc' = [proc EXCEPT ![i] = Up(@.entry.hash, @.next_seq + 1)]
  /\ acked' = Append(acked, proc[i].entry)
  /\ UNCHANGED <<lines, bad, open>>

\* The second; only then does the chain state move on.
WriteNewline(i) ==
  /\ proc[i].pc = "newline"
  /\ open' = FALSE
  /\ proc' = [proc EXCEPT ![i] = Up(@.entry.hash, @.next_seq + 1)]
  /\ acked' = Append(acked, proc[i].entry)
  /\ UNCHANGED <<lines, bad>>

\* Wrong: the chain state moves on although the write failed.
FailureMovesOn(i) ==
  /\ "line" \in Faults
  /\ proc[i].pc = "line"
  /\ PutBytes(proc[i].entry, FALSE) \/ UNCHANGED <<lines, bad, open>>
  /\ proc' = [proc EXCEPT ![i] = Up(@.entry.hash, @.next_seq + 1)]
  /\ UNCHANGED acked

\* record returns Err: the chain state stays, what was written stays too.
LineFails(i) ==
  /\ "line" \in Faults
  /\ proc[i].pc = "line"
  /\ PutBytes(proc[i].entry, FALSE) \/ UNCHANGED <<lines, bad, open>>
  /\ proc' = [proc EXCEPT ![i] = Up(@.last_hash, @.next_seq)]
  /\ UNCHANGED acked

NewlineFails(i) ==
  /\ "newline" \in Faults
  /\ proc[i].pc = "newline"
  /\ proc' = [proc EXCEPT ![i] = Up(@.last_hash, @.next_seq)]
  /\ UNCHANGED <<lines, bad, open, acked>>

Stop(i) == /\ "stop" \in Faults
           /\ proc[i].pc = "ready"
           /\ proc' = [proc EXCEPT ![i] = Down]
           /\ UNCHANGED <<lines, bad, open, acked>>

Crash(i) == /\ "crash" \in Faults
            /\ proc[i].pc # "down"
            /\ proc' = [proc EXCEPT ![i] = Down]
            /\ \/ "line" \in Faults /\ proc[i].pc = "line" /\ PutBytes(proc[i].entry, FALSE)
               \/ UNCHANGED <<lines, bad, open>>
            /\ UNCHANGED acked

Next == \E i \in Instances :
          \/ Open(i) \/ WriteLine(i) \/ WriteNewline(i)
          \/ LineFails(i) \/ NewlineFails(i) \/ Stop(i) \/ Crash(i)
          \/ \E d \in Data : Record(i, d)

Spec == Init /\ [][Next]_vars

-----------------------------------------------------------------------------
(* Properties.                                                             *)

\* Type invariant.
TypeOK ==
  /\ \A n \in DOMAIN lines : IsEntry(lines[n])
  /\ bad \subseteq DOMAIN lines
  /\ open \in BOOLEAN
  /\ \A i \in Instances :
       /\ proc[i].pc \in {"down", "ready", "line", "newline"}
       /\ proc[i].pc # "down" => proc[i].next_seq \in Nat
       /\ proc[i].pc \in {"line", "newline"} => IsEntry(proc[i].entry)
  /\ \A n \in DOMAIN acked : IsEntry(acked[n])

\* With one server, `audit verify' never reports tampering on a log nobody
\* tampered with: whatever failed or died, every prefix of the log that can be
\* read at all is an unbroken chain.
ReadableVerifies ==
  \A n \in 0 .. Len(lines) :
    bad \cap 1 .. n = {} => VerifyChain(SubSeq(lines, 1, n))

\* The log can be read, so that a server can start (AuditLog::open) and `audit
\* verify' can run.  This one needs a server that is only ever stopped cleanly.
StaysReadable == Readable

\* With one server, whatever failed or died, each record that returned Ok ended
\* one line, in order, across restarts; and that line, if it can be read, holds
\* this record and no other.
AckedIsLog ==
  /\ Len(acked) = IF open THEN Len(lines) - 1 ELSE Len(lines)
  /\ \A n \in DOMAIN acked \ bad : lines[n] = acked[n]

Without(es, n) == SubSeq(es, 1, n - 1) \o SubSeq(es, n + 1, Len(es))
Swapped(es, m, n) == [es EXCEPT ![m] = es[n], ![n] = es[m]]
Edited(es, n, d) == [es EXCEPT ![n] = [seq |-> @.seq, data |-> d,
                                       prev_hash |-> @.prev_hash, hash |-> @.hash]]

\* An entry edited by someone who computes its hash again.
Rehashed(es, n, d) == [es EXCEPT ![n] = NewEntry(@.prev_hash, @.seq, d)]

\* None of its texts holds a separator.
Plain(d) == \A k \in DOMAIN Texts(d) : Len(Texts(d)[k]) = 1

\* verify_chain rejects a log from which an entry was removed, other than the
\* last, and one in which two entries changed places.  It also rejects one in which
\* an entry was edited, the hash computed again or not (the last entry's not), if
\* neither the record nor the edit has a separator within a text.
TamperingShows ==
  Readable =>
    /\ \A n \in 1 .. Len(lines) - 1 : ~ VerifyChain(Without(lines, n))
    /\ \A m, n \in DOMAIN lines : m # n => ~ VerifyChain(Swapped(lines, m, n))
    /\ \A n \in DOMAIN lines : \A d \in Data \ {lines[n].data} :
         Plain(lines[n].data) /\ Plain(d) =>
           /\ ~ VerifyChain(Edited(lines, n, d))
           /\ n < Len(lines) => ~ VerifyChain(Rehashed(lines, n, d))
=============================================================================
