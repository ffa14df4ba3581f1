--------------------------- MODULE McpServerProofs ---------------------------
(***************************************************************************)
(* For any requests, faults and bounds: no edit of the config is lost while *)
(* the server runs, provided that nobody edits the config while the server  *)
(* starts; and calls that are answered are recorded as they were answered.  *)
(***************************************************************************)
EXTENDS McpServer, FiniteSetTheorems, TLAPS

\* What the watcher knows, by the step of the process and of the watcher: the
\* invariant needs to say what holds while a load is under way, and that a
\* process that is starting, or gone, has neither an event nor a load.
WatcherInv ==
  /\ up \in {"off", "loaded", "serving"}
  /\ up # "serving" => notified = FALSE /\ reading = Torn
  /\ up = "loaded" => mem = disk
  /\ up = "serving" /\ notified = FALSE /\ reading # Torn => disk = reading
  /\ QuietMeansCurrent

LEMMA WatcherInit == Init => WatcherInv
  BY DEF Init, WatcherInv, QuietMeansCurrent

\* The events of the environment: with the config edited or the log appended,
\* the watcher of a running server has an event to handle.
LEMMA EditStep ==
  ASSUME "bootEdit" \notin Faults, WatcherInv, Truncate \/ Save
  PROVE  WatcherInv'
  <1>1. up # "loaded"
    BY DEF Truncate, Save, EditsConfig
  <1>2. up' = up /\ mem' = mem /\ reading' = reading
    BY DEF Truncate, Save, EditsConfig
  <1>3. notified' = (notified \/ up = "serving")
    BY DEF Truncate, Save, EditsConfig, Modified
  <1> QED
    BY <1>1, <1>2, <1>3 DEF WatcherInv, QuietMeansCurrent

\* The steps of the main thread leave the config alone, on disk and in memory.
LEMMA MainStep ==
  ASSUME WatcherInv,
         UNCHANGED <<disk, up, mem, reading>>,
         UNCHANGED notified \/ Modified
  PROVE  WatcherInv'
  BY DEF WatcherInv, QuietMeansCurrent, Modified

LEMMA EndStep == ASSUME Ends PROVE WatcherInv'
  BY DEF Ends, WatcherInv, QuietMeansCurrent

LEMMA WatcherStep ==
  ASSUME "bootEdit" \notin Faults, WatcherInv, [Next]_vars
  PROVE  WatcherInv'
  <1>1. CASE Boot
    BY <1>1 DEF Boot, config, WatcherInv, QuietMeansCurrent
  <1>2. CASE Watch
    BY <1>2 DEF Watch, config, watcher, WatcherInv, QuietMeansCurrent
  <1>3. CASE GivesUp \/ EndOfInput \/ Crash \/ AnswerFails
    BY <1>3, EndStep DEF GivesUp, EndOfInput, Crash, AnswerFails
  <1>4. CASE Truncate \/ Save
    BY <1>4, EditStep
  <1>5. CASE LoadAgain
    BY <1>5 DEF LoadAgain, config, WatcherInv, QuietMeansCurrent
  <1>6. CASE StoreConfig
    BY <1>6 DEF StoreConfig, config, WatcherInv, QuietMeansCurrent
  <1>7. CASE (\E kind \in Kinds : Send(kind)) \/ Take
    BY <1>7, MainStep DEF Send, Take, config, watcher
  <1>8. CASE Handler \/ Return
    BY <1>8, MainStep DEF Handler, Finish, Reach, Return, Audit, Answer, Go, config, watcher
  <1>9. CASE UNCHANGED vars
    BY <1>9, MainStep DEF vars
  <1> QED
    BY <1>1, <1>2, <1>3, <1>4, <1>5, <1>6, <1>7, <1>8, <1>9 DEF Next, Watcher

\* While the watcher has nothing to do, the config in memory is the one on
\* disk, if that parses (the watcher's closure, mcp.rs:137).
THEOREM NoEditIsLost ==
  ASSUME "bootEdit" \notin Faults
  PROVE  Spec => []QuietMeansCurrent
  <1>1. Init => WatcherInv
    BY WatcherInit
  <1>2. WatcherInv /\ [Next]_vars => WatcherInv'
    BY WatcherStep
  <1>3. WatcherInv => QuietMeansCurrent
    BY DEF WatcherInv
  <1> QED
    BY <1>1, <1>2, <1>3, PTL DEF Spec

-----------------------------------------------------------------------------
(* Types.                                                                  *)

\* What the proofs need of sequences.
LEMMA Appended ==
  ASSUME NEW S, NEW s \in Seq(S), NEW e \in S
  PROVE  /\ Append(s, e) \in Seq(S)
         /\ DOMAIN s = 1 .. Len(s) /\ Len(s) \in Nat
         /\ DOMAIN Append(s, e) = 1 .. Len(s) + 1
         /\ \A i \in DOMAIN s : Append(s, e)[i] = s[i]
         /\ Append(s, e)[Len(s) + 1] = e
  OBVIOUS

LEMMA Taken ==
  ASSUME NEW S, NEW s \in Seq(S), s # <<>>
  PROVE  /\ Head(s) \in S /\ Tail(s) \in Seq(S)
         /\ DOMAIN s = 1 .. Len(s) /\ Len(s) \in Nat \ {0}
         /\ Head(s) = s[1]
         /\ DOMAIN Tail(s) = 1 .. Len(s) - 1
         /\ \A i \in DOMAIN Tail(s) : Tail(s)[i] = s[i + 1]
  OBVIOUS

LEMMA Element == ASSUME NEW S, NEW s \in Seq(S), NEW i \in DOMAIN s PROVE s[i] \in S
  OBVIOUS

Busy == [pc : {"run", "away", "audit", "answer"}, req : Request, ok : BOOLEAN]

\* The types of the parts that most steps leave alone.
ConfigType == /\ disk \in Version \cup {Torn} /\ edits \in Version
              /\ up \in {"off", "loaded", "serving"}
              /\ mem \in Version
              /\ notified \in BOOLEAN /\ reading \in Version \cup {Torn}
              /\ boots \in 0 .. MaxBoots
QueueType == /\ sent \in 0 .. MaxRequests /\ inbox \in Seq(Request)
             /\ hand \in {Idle} \cup Busy
HistoryType == /\ reached \in Seq(Request)
               /\ log \in Seq(Outcome) /\ answers \in Seq(Outcome) /\ lost \subseteq Request

LEMMA TypeParts == TypeOK <=> ConfigType /\ QueueType /\ HistoryType
  BY DEF TypeOK, ConfigType, QueueType, HistoryType, Busy

LEMMA TypeInit == Init => TypeOK
<1> SUFFICES ASSUME Init PROVE ConfigType /\ QueueType /\ HistoryType
  BY TypeParts
<1>1. ConfigType
  <2>1. notified \in BOOLEAN
    BY DEF Init
  <2>2. 0 \in Version /\ 0 \in 0 .. MaxBoots
    BY McpServerAssumption DEF Version
  <2>3. /\ disk = 0 /\ edits = 0 /\ up = "off" /\ mem = 0 /\ reading = Torn /\ boots = 0
    BY DEF Init
  <2> QED
    BY <2>1, <2>2, <2>3 DEF ConfigType
<1>2. QueueType
  BY McpServerAssumption DEF Init, QueueType
<1>3. HistoryType
  BY DEF Init, HistoryType
<1> QED
  BY <1>1, <1>2, <1>3

LEMMA InHandType ==
  ASSUME TypeOK, NEW pc \in {"run", "away", "audit", "answer"}, InHand(pc)
  PROVE  hand \in Busy /\ hand # Idle /\ hand.req \in Request /\ hand.ok \in BOOLEAN /\ hand.pc = pc
  BY DEF TypeOK, InHand, Idle, Busy

LEMMA TypeStep == ASSUME TypeOK, [Next]_vars PROVE TypeOK'
<1> USE TypeParts
<1>0. ConfigType /\ QueueType /\ HistoryType
  OBVIOUS
<1> SUFFICES ConfigType' /\ QueueType' /\ HistoryType'
  BY DEF TypeOK, ConfigType, QueueType, HistoryType, Busy
<1> USE DEF config, watcher, history, queue
<1>1. CASE Boot
  BY <1>0, <1>1, McpServerAssumption DEF Boot, ConfigType, QueueType, HistoryType
<1>2. CASE Watch
  BY <1>0, <1>2 DEF Watch, ConfigType, QueueType, HistoryType
<1>3. CASE GivesUp \/ EndOfInput \/ Crash \/ AnswerFails
  <2>1. Ends
    BY <1>3 DEF GivesUp, EndOfInput, Crash, AnswerFails
  <2>2. notified' \in BOOLEAN
    BY <2>1 DEF Ends
  <2>3. /\ up' = "off" /\ reading' = Torn /\ inbox' = <<>> /\ hand' = Idle
        /\ UNCHANGED <<config, mem, sent, history, boots>>
    BY <2>1 DEF Ends
  <2> QED
    BY <1>0, <2>2, <2>3 DEF ConfigType, QueueType, HistoryType
<1>4. CASE Truncate \/ Save
  <2>1. disk' \in Version \cup {Torn} /\ edits' \in Version
    BY <1>0, <1>4, McpServerAssumption DEF Truncate, Save, EditsConfig, ConfigType, Version
  <2>2. notified' \in BOOLEAN /\ UNCHANGED <<up, mem, reading, queue, hand, history, boots>>
    BY <1>4 DEF Truncate, Save, EditsConfig, Modified
  <2> QED
    BY <1>0, <2>1, <2>2 DEF ConfigType, QueueType, HistoryType
<1>5. CASE LoadAgain \/ StoreConfig
  BY <1>0, <1>5 DEF LoadAgain, StoreConfig, ConfigType, QueueType, HistoryType
<1>6. ASSUME NEW kind \in Kinds, Send(kind) PROVE ConfigType' /\ QueueType' /\ HistoryType'
  <2> DEFINE r == [id |-> sent + 1, kind |-> kind]
  <2>1. sent' \in 0 .. MaxRequests /\ r \in Request
    BY <1>0, <1>6, McpServerAssumption DEF Send, QueueType, Request
  <2>2. inbox' = Append(inbox, r)
    BY <1>6 DEF Send
  <2> HIDE DEF r
  <2>3. inbox' \in Seq(Request)
    BY <1>0, <2>1, <2>2, Appended DEF QueueType
  <2> QED
    BY <1>0, <1>6, <2>1, <2>3 DEF Send, ConfigType, QueueType, HistoryType
<1>7. CASE Take
  <2>1. Head(inbox) \in Request /\ Tail(inbox) \in Seq(Request)
    BY <1>0, <1>7, Taken DEF Take, QueueType
  <2>2. hand' \in {Idle} \cup Busy
    <3>1. [pc |-> "run", req |-> Head(inbox), ok |-> FALSE] \in Busy
      BY <2>1 DEF Busy
    <3> QED
      BY <1>7, <3>1 DEF Take
  <2> QED
    BY <1>0, <1>7, <2>1, <2>2 DEF Take, ConfigType, QueueType, HistoryType
<1>8. ASSUME NEW pc, NEW ok \in BOOLEAN, pc \in {"away", "audit", "answer"}, Go(pc, ok),
             hand \in Busy, notified' \in BOOLEAN
      PROVE  ConfigType' /\ QueueType'
  <2>1. hand' \in Busy
    BY <1>8 DEF Go, Busy
  <2> QED
    BY <1>0, <1>8, <2>1 DEF Go, ConfigType, QueueType
<1>9. CASE Finish \/ Return
  <2>1. hand \in Busy
    BY <1>9, InHandType DEF Finish, Return
  <2>2. PICK ok \in BOOLEAN, pc \in {"answer", "audit"} : Go(pc, ok)
    BY <1>9 DEF Finish, Return
  <2>3. UNCHANGED <<notified, history>>
    BY <1>9 DEF Finish, Return
  <2>4. notified' \in BOOLEAN
    BY <1>0, <2>3 DEF ConfigType
  <2> QED
    BY <1>0, <1>8, <2>1, <2>2, <2>3, <2>4 DEF HistoryType
<1>10. CASE Reach
  <2>1. hand \in Busy /\ hand.req \in Request
    BY <1>10, InHandType DEF Reach
  <2>2. reached' \in Seq(Request)
    BY <1>0, <1>10, <2>1, Appended DEF Reach, HistoryType
  <2>3. notified' \in BOOLEAN
    BY <1>0, <1>10 DEF Reach, ConfigType
  <2>4. Go("away", FALSE)
    BY <1>10 DEF Reach
  <2>5. ConfigType' /\ QueueType'
    BY <1>8, <2>1, <2>3, <2>4
  <2> QED
    BY <1>0, <1>10, <2>2, <2>5 DEF Reach, HistoryType
<1>11. CASE Audit
  <2>1. hand \in Busy /\ hand.req \in Request /\ hand.ok \in BOOLEAN
    BY <1>11, InHandType DEF Audit
  <2>2. [req |-> hand.req, ok |-> hand.ok] \in Outcome
    BY <2>1 DEF Outcome
  <2>3. log' \in Seq(Outcome)
    BY <1>0, <1>11, <2>2, Appended DEF Audit, HistoryType
  <2>4. notified' \in BOOLEAN
    BY <1>0, <1>11 DEF Audit, Modified, ConfigType
  <2>5. Go("answer", hand.ok)
    BY <1>11 DEF Audit
  <2>6. ConfigType' /\ QueueType'
    BY <1>8, <2>1, <2>4, <2>5
  <2> QED
    BY <1>0, <1>11, <2>1, <2>3, <2>6 DEF Audit, HistoryType
<1>12. CASE Answer
  <2>1. hand \in Busy /\ hand.req \in Request /\ hand.ok \in BOOLEAN
    BY <1>12, InHandType DEF Answer
  <2>2. [req |-> hand.req, ok |-> hand.ok] \in Outcome
    BY <2>1 DEF Outcome
  <2>3. answers' \in Seq(Outcome)
    BY <1>0, <1>12, <2>2, Appended DEF Answer, HistoryType
  <2> QED
    BY <1>0, <1>12, <2>3 DEF Answer, ConfigType, QueueType, HistoryType
<1>13. CASE UNCHANGED vars
  BY <1>0, <1>13 DEF vars, ConfigType, QueueType, HistoryType
<1> QED
  BY <1>1, <1>2, <1>3, <1>4, <1>5, <1>6, <1>7, <1>9, <1>10, <1>11, <1>12, <1>13
  DEF Next, Watcher, Handler

\* The type invariant of start, watcher and request loop (run_server), for any
\* requests, faults and bounds.
THEOREM TypeCorrect == Spec => []TypeOK
<1> QED
  BY TypeInit, TypeStep, PTL DEF Spec

-----------------------------------------------------------------------------
(* Requests are handled in the order in which they were sent: the numbers  *)
(* of what is past lie before the one in hand, and this before the queue.  *)

OnHand(pcs) == hand # Idle /\ hand.pc \in pcs

Handled(n) == /\ n <= sent
              /\ \A i \in DOMAIN inbox : n < inbox[i].id
              /\ hand # Idle => n <= hand.req.id

\* Handled, and not in hand at one of the steps pcs.
Past(n, pcs) == Handled(n) /\ (OnHand(pcs) => n < hand.req.id)

QueueInv ==
  /\ \A i \in DOMAIN inbox : inbox[i].id <= sent
  /\ \A i, j \in DOMAIN inbox : i < j => inbox[i].id < inbox[j].id
  /\ hand # Idle => Handled(hand.req.id)

ReachedPast == \A i \in DOMAIN reached : Past(reached[i].id, {"run"})
LogPast == \A n \in DOMAIN log : Past(log[n].req.id, {"run", "away", "audit"})
LostPast == \A r \in lost : Past(r.id, {"run", "away", "audit"})
AnswersPast ==
  \A a \in DOMAIN answers : Past(answers[a].req.id, {"run", "away", "audit", "answer"})
PastInv == ReachedPast /\ LogPast /\ LostPast /\ AnswersPast

SortedInv ==
  /\ \A m, n \in DOMAIN reached : m < n => reached[m].id < reached[n].id
  /\ \A m, n \in DOMAIN log : m < n => log[m].req.id < log[n].req.id

OrderInv == QueueInv /\ PastInv /\ SortedInv

LEMMA Numbers ==
  ASSUME TypeOK
  PROVE  /\ sent \in Nat
         /\ \A i \in DOMAIN inbox : inbox[i] \in Request /\ inbox[i].id \in Nat
         /\ hand # Idle => hand \in Busy /\ hand.req \in Request /\ hand.req.id \in Nat
         /\ \A i \in DOMAIN reached : reached[i] \in Request /\ reached[i].id \in Nat
         /\ \A n \in DOMAIN log : log[n] \in Outcome /\ log[n].req.id \in Nat
         /\ \A a \in DOMAIN answers : answers[a] \in Outcome /\ answers[a].req.id \in Nat
         /\ \A r \in lost : r \in Request /\ r.id \in Nat
<1>1. \A r \in Request : r.id \in Nat
  BY McpServerAssumption DEF Request
<1>2. \A o \in Outcome : o.req.id \in Nat
  BY <1>1 DEF Outcome
<1>3. /\ inbox \in Seq(Request) /\ reached \in Seq(Request)
      /\ log \in Seq(Outcome) /\ answers \in Seq(Outcome) /\ lost \subseteq Request
      /\ hand \in {Idle} \cup Busy /\ sent \in 0 .. MaxRequests
  BY TypeParts DEF QueueType, HistoryType
<1>4. /\ \A i \in DOMAIN inbox : inbox[i] \in Request
      /\ \A i \in DOMAIN reached : reached[i] \in Request
      /\ \A n \in DOMAIN log : log[n] \in Outcome
      /\ \A a \in DOMAIN answers : answers[a] \in Outcome
  BY <1>3, Element
<1> QED
  BY <1>1, <1>2, <1>3, <1>4, McpServerAssumption DEF Busy

\* What Go does with the request in hand.
LEMMA GoesOn ==
  ASSUME TypeOK, NEW at \in {"run", "away", "audit", "answer"}, InHand(at),
         NEW pc \in {"away", "audit", "answer"}, NEW ok \in BOOLEAN, Go(pc, ok)
  PROVE  /\ hand # Idle /\ hand' # Idle /\ hand.pc = at
         /\ hand'.pc = pc /\ hand'.ok = ok /\ hand'.req = hand.req
         /\ sent' = sent /\ inbox' = inbox
<1>1. hand \in Busy /\ hand # Idle /\ hand.pc = at
  BY InHandType
<1>2. hand' = [hand EXCEPT !.pc = pc, !.ok = ok] /\ sent' = sent /\ inbox' = inbox
  BY DEF Go, queue
<1>3. hand'.pc = pc /\ hand'.ok = ok /\ hand'.req = hand.req
  BY <1>1, <1>2 DEF Busy
<1> QED
  BY <1>1, <1>2, <1>3 DEF Idle

\* A step that neither takes a request nor sends one.
LEMMA HandledStays ==
  ASSUME UNCHANGED <<sent, inbox>>, hand # Idle, hand' = Idle \/ hand'.req = hand.req,
         NEW n, Handled(n)
  PROVE  Handled(n)'
  BY DEF Handled

LEMMA OrderInit == Init => OrderInv
  BY DEF Init, OrderInv, QueueInv, PastInv, ReachedPast, LogPast, LostPast, AnswersPast, SortedInv

LEMMA OrderStep == ASSUME TypeOK, OrderInv, [Next]_vars PROVE OrderInv'
<1> USE Numbers DEF OrderInv, PastInv, ReachedPast, LogPast, LostPast, AnswersPast
<1>1. CASE UNCHANGED <<sent, inbox, hand, history>>
  BY <1>1 DEF QueueInv, PastInv, SortedInv, Past, OnHand, Handled, history
<1>2. CASE Ends
  <2>1. sent' = sent /\ inbox' = <<>> /\ hand' = Idle /\ UNCHANGED history
    BY <1>2 DEF Ends
  <2> QED
    BY <2>1 DEF QueueInv, PastInv, SortedInv, Past, OnHand, Handled, history
<1>3. ASSUME NEW kind \in Kinds, Send(kind) PROVE OrderInv'
  <2> DEFINE r == [id |-> sent + 1, kind |-> kind]
  <2>1. /\ sent' = sent + 1 /\ inbox' = Append(inbox, r)
        /\ hand' = hand /\ UNCHANGED history /\ sent + 1 \in 1 .. MaxRequests
    BY <1>3, McpServerAssumption DEF Send
  <2>2. r \in Request /\ r.id = sent + 1
    BY <2>1 DEF Request
  <2> HIDE DEF r
  <2>3. inbox \in Seq(Request)
    BY TypeParts DEF QueueType
  <2>4. /\ DOMAIN inbox = 1 .. Len(inbox) /\ Len(inbox) \in Nat
        /\ DOMAIN inbox' = 1 .. Len(inbox) + 1
        /\ \A i \in DOMAIN inbox : inbox'[i] = inbox[i]
        /\ inbox'[Len(inbox) + 1] = r
    BY <2>1, <2>2, <2>3, Appended
  <2>5. \A i \in DOMAIN inbox' : (i \in DOMAIN inbox /\ inbox'[i] = inbox[i])
                                 \/ (i = Len(inbox) + 1 /\ inbox'[i].id = sent + 1)
    BY <2>2, <2>4
  <2>6. \A n \in Nat : Handled(n) => Handled(n)'
    BY <2>1, <2>5 DEF Handled
  <2>7. QueueInv'
    BY <2>1, <2>4, <2>5, <2>6 DEF QueueInv
  <2>8. PastInv'
    BY <2>1, <2>6 DEF PastInv, Past, OnHand, history
  <2>9. SortedInv'
    BY <2>1 DEF SortedInv, history
  <2> QED
    BY <2>7, <2>8, <2>9
<1>4. CASE Take
  <2>1. /\ hand = Idle /\ inbox # <<>> /\ inbox' = Tail(inbox) /\ sent' = sent
        /\ UNCHANGED history
        /\ hand' = Idle \/ hand' = [pc |-> "run", req |-> Head(inbox), ok |-> FALSE]
    BY <1>4 DEF Take
  <2>2. inbox \in Seq(Request)
    BY TypeParts DEF QueueType
  <2>3. /\ DOMAIN inbox = 1 .. Len(inbox) /\ Len(inbox) \in Nat \ {0}
        /\ Head(inbox) = inbox[1]
        /\ DOMAIN inbox' = 1 .. Len(inbox) - 1
        /\ \A i \in DOMAIN inbox' : inbox'[i] = inbox[i + 1]
    BY <2>1, <2>2, Taken
  <2>4. 1 \in DOMAIN inbox /\ \A i \in DOMAIN inbox' : i + 1 \in DOMAIN inbox /\ 1 < i + 1
    BY <2>3
  <2>5. hand' # Idle => hand'.req = inbox[1] /\ hand'.pc = "run"
    BY <2>1, <2>3
  <2>6. \A n \in Nat : Handled(n) => Handled(n)' /\ (hand' # Idle => n < hand'.req.id)
    BY <2>1, <2>3, <2>4, <2>5 DEF Handled
  <2>7. QueueInv'
    <3>1. \A i \in DOMAIN inbox' : inbox'[i].id <= sent' /\ inbox[1].id < inbox'[i].id
      BY <2>1, <2>3, <2>4 DEF QueueInv
    <3>2. \A i, j \in DOMAIN inbox' : i < j => inbox'[i].id < inbox'[j].id
      BY <2>3, <2>4 DEF QueueInv
    <3>3. inbox[1].id <= sent /\ inbox[1].id \in Nat
      BY <2>4 DEF QueueInv
    <3> QED
      BY <2>1, <2>5, <3>1, <3>2, <3>3 DEF QueueInv, Handled
  <2>8. PastInv'
    BY <2>1, <2>6 DEF PastInv, Past, OnHand, history
  <2>9. SortedInv'
    BY <2>1 DEF SortedInv, history
  <2> QED
    BY <2>7, <2>8, <2>9
<1>5. ASSUME NEW at \in {"run", "away", "audit", "answer"}, InHand(at),
             NEW pc \in {"away", "audit", "answer"}, NEW ok \in BOOLEAN, Go(pc, ok)
      PROVE  /\ QueueInv'
             /\ \A n \in Nat : Handled(n) => Handled(n)'
             /\ hand # Idle /\ hand' # Idle /\ hand'.pc = pc /\ hand.pc = at
             /\ hand'.req = hand.req
  <2>1. /\ hand # Idle /\ hand' # Idle /\ hand'.pc = pc /\ hand.pc = at
        /\ hand'.req = hand.req /\ UNCHANGED <<sent, inbox>>
    BY <1>5, GoesOn
  <2> QED
    BY <2>1 DEF QueueInv, Handled
<1>6. CASE Finish \/ Return
  <2>1. PICK at \in {"run", "away"}, pc \in {"audit", "answer"}, ok \in BOOLEAN :
          /\ InHand(at) /\ Go(pc, ok)
    BY <1>6 DEF Finish, Return
  <2>2. UNCHANGED history
    BY <1>6 DEF Finish, Return
  <2>3. QueueInv' /\ hand # Idle /\ hand' # Idle /\ hand'.pc = pc /\ hand.pc = at
        /\ hand'.req = hand.req /\ \A n \in Nat : Handled(n) => Handled(n)'
    BY <1>5, <2>1
  <2>4. PastInv'
    BY <2>1, <2>2, <2>3 DEF PastInv, Past, OnHand, history
  <2> QED
    BY <2>2, <2>3, <2>4 DEF SortedInv, history
<1>7. CASE Reach
  <2>1. /\ InHand("run") /\ Go("away", FALSE) /\ reached' = Append(reached, hand.req)
        /\ UNCHANGED <<log, answers, lost>>
    BY <1>7 DEF Reach
  <2>2. QueueInv' /\ hand # Idle /\ hand' # Idle /\ hand'.pc = "away" /\ hand.pc = "run"
        /\ hand'.req = hand.req /\ \A n \in Nat : Handled(n) => Handled(n)'
    BY <1>5, <2>1
  <2>3. reached \in Seq(Request) /\ hand.req \in Request
    BY <2>2, TypeParts DEF HistoryType
  <2>4. /\ DOMAIN reached = 1 .. Len(reached) /\ Len(reached) \in Nat
        /\ DOMAIN reached' = 1 .. Len(reached) + 1
        /\ \A i \in DOMAIN reached : reached'[i] = reached[i]
        /\ reached'[Len(reached) + 1] = hand.req
    BY <2>1, <2>3, Appended
  <2>5. \A i \in DOMAIN reached' : (i \in DOMAIN reached /\ reached'[i] = reached[i])
                                   \/ (i = Len(reached) + 1 /\ reached'[i] = hand.req)
    BY <2>4
  <2>6. Handled(hand.req.id)
    BY <2>2 DEF QueueInv
  <2>7. ReachedPast'
    BY <2>2, <2>5, <2>6 DEF PastInv, Past, OnHand
  <2>8. PastInv'
    BY <2>1, <2>2, <2>7 DEF PastInv, Past, OnHand
  <2>9. SortedInv'
    <3>1. \A i \in DOMAIN reached : reached[i].id < hand.req.id
      BY <2>2 DEF PastInv, Past, OnHand
    <3> QED
      BY <2>1, <2>4, <2>5, <3>1 DEF SortedInv
  <2> QED
    BY <2>2, <2>8, <2>9
<1>8. CASE Audit
  <2> DEFINE o == [req |-> hand.req, ok |-> hand.ok]
  <2>1. /\ InHand("audit") /\ Go("answer", hand.ok) /\ UNCHANGED <<reached, answers>>
        /\ \/ log' = Append(log, o) /\ lost' = lost
           \/ log' = log /\ lost' = lost \cup {hand.req}
    BY <1>8 DEF Audit
  <2>2. hand.req \in Request /\ hand.ok \in BOOLEAN
    BY <2>1, InHandType
  <2>3. QueueInv' /\ hand # Idle /\ hand' # Idle /\ hand'.pc = "answer" /\ hand.pc = "audit"
        /\ hand'.req = hand.req /\ \A n \in Nat : Handled(n) => Handled(n)'
    BY <1>5, <2>1, <2>2
  <2>4. Handled(hand.req.id)' /\ \A n \in DOMAIN log : log[n].req.id < hand.req.id
    BY <2>3 DEF QueueInv, PastInv, Past, OnHand
  <2>5. ReachedPast' /\ AnswersPast'
    BY <2>1, <2>3 DEF PastInv, Past, OnHand
  <2>6. LostPast'
    BY <2>1, <2>3, <2>4 DEF PastInv, Past, OnHand
  <2>7. CASE log' = log
    <3>1. LogPast'
      BY <2>3, <2>7 DEF PastInv, Past, OnHand
    <3> QED
      BY <2>1, <2>3, <2>5, <2>6, <2>7, <3>1 DEF PastInv, SortedInv
  <2>8. CASE log' = Append(log, o)
    <3>1. o \in Outcome /\ o.req = hand.req /\ log \in Seq(Outcome)
      BY <2>2, TypeParts DEF Outcome, HistoryType
    <3> HIDE DEF o
    <3>2. /\ DOMAIN log = 1 .. Len(log) /\ Len(log) \in Nat
          /\ DOMAIN log' = 1 .. Len(log) + 1
          /\ \A n \in DOMAIN log : log'[n] = log[n]
          /\ log'[Len(log) + 1] = o
      BY <2>8, <3>1, Appended
    <3>3. \A n \in DOMAIN log' : (n \in DOMAIN log /\ log'[n] = log[n])
                                 \/ (n = Len(log) + 1 /\ log'[n].req = hand.req)
      BY <3>1, <3>2
    <3>4. LogPast'
      BY <2>3, <2>4, <3>3 DEF PastInv, Past, OnHand
    <3>5. SortedInv'
      BY <2>1, <2>4, <3>2, <3>3 DEF SortedInv
    <3> QED
      BY <2>3, <2>5, <2>6, <3>4, <3>5 DEF PastInv
  <2> QED
    BY <2>1, <2>7, <2>8
<1>9. CASE Answer
  <2> DEFINE o == [req |-> hand.req, ok |-> hand.ok]
  <2>1. /\ InHand("answer") /\ hand' = Idle /\ UNCHANGED <<sent, inbox, reached, log, lost>>
        /\ answers' = Append(answers, o)
    BY <1>9 DEF Answer, queue
  <2>2. hand.req \in Request /\ hand.ok \in BOOLEAN /\ hand # Idle /\ hand.pc = "answer"
    BY <2>1, InHandType
  <2>3. o \in Outcome /\ o.req = hand.req /\ answers \in Seq(Outcome)
    BY <2>2, TypeParts DEF Outcome, HistoryType
  <2> HIDE DEF o
  <2>4. \A a \in DOMAIN answers' : (a \in DOMAIN answers /\ answers'[a] = answers[a])
                                   \/ answers'[a].req = hand.req
    <3>1. /\ DOMAIN answers = 1 .. Len(answers) /\ Len(answers) \in Nat
          /\ DOMAIN answers' = 1 .. Len(answers) + 1
          /\ \A a \in DOMAIN answers : answers'[a] = answers[a]
          /\ answers'[Len(answers) + 1] = o
      BY <2>1, <2>3, Appended
    <3> QED
      BY <2>3, <3>1
  <2>5. \A n \in Nat : Handled(n) => Handled(n)'
    BY <2>1 DEF Handled
  <2>6. Handled(hand.req.id)
    BY <2>2 DEF QueueInv
  <2>7. PastInv'
    <3>1. AnswersPast'
      BY <2>1, <2>2, <2>4, <2>5, <2>6 DEF Past, OnHand
    <3> QED
      BY <2>1, <2>5, <3>1 DEF PastInv, Past, OnHand
  <2>8. QueueInv' /\ SortedInv'
    BY <2>1 DEF QueueInv, SortedInv
  <2> QED
    BY <2>7, <2>8
<1>10. CASE Boot \/ Watch \/ Truncate \/ Save \/ Watcher \/ UNCHANGED vars
  BY <1>1, <1>10 DEF Boot, Watch, Truncate, Save, EditsConfig, Watcher, LoadAgain, StoreConfig,
                     queue, history, vars
<1>11. CASE GivesUp \/ EndOfInput \/ Crash \/ AnswerFails
  BY <1>2, <1>11 DEF GivesUp, EndOfInput, Crash, AnswerFails
<1> QED
  BY <1>3, <1>4, <1>6, <1>7, <1>8, <1>9, <1>10, <1>11 DEF Next, Handler

-----------------------------------------------------------------------------
(* What was answered is recorded.                                          *)

Recorded(o) == (\E i \in DOMAIN reached : reached[i] = o.req)
                 => o.req \in lost \/ \E n \in DOMAIN log : log[n] = o

\* An answer that is about to be written is recorded as well.
RecordInv == /\ \A a \in DOMAIN answers : Recorded(answers[a])
             /\ OnHand({"answer"}) => Recorded([req |-> hand.req, ok |-> hand.ok])

LEMMA RecordStep == ASSUME TypeOK, OrderInv, RecordInv, [Next]_vars PROVE RecordInv'
<1>1. CASE UNCHANGED <<hand, history>>
  BY <1>1 DEF RecordInv, Recorded, OnHand, history
<1>2. CASE UNCHANGED history /\ (hand' = Idle \/ hand'.pc # "answer")
  BY <1>2 DEF RecordInv, Recorded, OnHand, history
<1>3. CASE Take
  BY <1>2, <1>3 DEF Take
<1>4. CASE GivesUp \/ EndOfInput \/ Crash \/ AnswerFails
  BY <1>2, <1>4 DEF GivesUp, EndOfInput, Crash, AnswerFails, Ends
<1>5. CASE Return
  <2>1. PICK ok \in BOOLEAN : InHand("away") /\ Go("audit", ok)
    BY <1>5 DEF Return
  <2>2. hand'.pc = "audit"
    BY <2>1, GoesOn
  <2> QED
    BY <1>2, <1>5, <2>2 DEF Return
<1>6. CASE Finish
  <2>1. PICK pc \in {"audit", "answer"}, ok \in BOOLEAN : InHand("run") /\ Go(pc, ok)
    BY <1>6 DEF Finish
  <2>2. hand # Idle /\ hand.pc = "run" /\ hand'.req = hand.req
    BY <2>1, GoesOn
  <2>3. \A i \in DOMAIN reached : reached[i].id < hand.req.id
    BY <2>2 DEF OrderInv, PastInv, ReachedPast, Past, OnHand
  <2>4. hand.req.id \in Nat
    BY <2>2, Numbers
  <2>5. \A i \in DOMAIN reached : reached[i] # hand.req
    BY <2>3, <2>4
  <2>6. UNCHANGED history
    BY <1>6 DEF Finish
  <2> QED
    BY <2>2, <2>5, <2>6 DEF RecordInv, Recorded, history
<1>7. CASE Reach
  <2>1. /\ InHand("run") /\ Go("away", FALSE) /\ reached' = Append(reached, hand.req)
        /\ UNCHANGED <<log, answers, lost>>
    BY <1>7 DEF Reach
  <2>2. hand # Idle /\ hand.pc = "run" /\ hand'.pc = "away"
    BY <2>1, GoesOn
  <2>3. reached \in Seq(Request) /\ hand.req \in Request /\ hand.req.id \in Nat
    BY <2>2, Numbers, TypeParts DEF HistoryType
  <2>4. \A i \in DOMAIN reached' : (i \in DOMAIN reached /\ reached'[i] = reached[i])
                                   \/ reached'[i] = hand.req
    <3>1. /\ DOMAIN reached = 1 .. Len(reached) /\ Len(reached) \in Nat
          /\ DOMAIN reached' = 1 .. Len(reached) + 1
          /\ \A i \in DOMAIN reached : reached'[i] = reached[i]
          /\ reached'[Len(reached) + 1] = hand.req
      BY <2>1, <2>3, Appended
    <3> QED
      BY <3>1
  <2>5. \A a \in DOMAIN answers : answers[a].req # hand.req
    <3>1. \A a \in DOMAIN answers : answers[a].req.id < hand.req.id
      BY <2>2 DEF OrderInv, PastInv, AnswersPast, Past, OnHand
    <3> QED
      BY <2>3, <3>1
  <2> QED
    BY <2>1, <2>2, <2>4, <2>5 DEF RecordInv, Recorded, OnHand
<1>8. CASE Audit
  <2> DEFINE o == [req |-> hand.req, ok |-> hand.ok]
  <2>1. /\ InHand("audit") /\ Go("answer", hand.ok) /\ UNCHANGED <<reached, answers>>
        /\ \/ log' = Append(log, o) /\ lost' = lost
           \/ log' = log /\ lost' = lost \cup {hand.req}
    BY <1>8 DEF Audit
  <2>2. hand.req \in Request /\ hand.ok \in BOOLEAN
    BY <2>1, InHandType
  <2>3. hand'.req = hand.req /\ hand'.ok = hand.ok
    BY <2>1, <2>2, GoesOn
  <2>4. o \in Outcome /\ o.req = hand.req /\ log \in Seq(Outcome)
    BY <2>2, TypeParts DEF Outcome, HistoryType
  <2>5. [req |-> hand.req, ok |-> hand.ok]' = o
    BY <2>3
  <2> HIDE DEF o
  <2>6. /\ \A n \in DOMAIN log : n \in DOMAIN log' /\ log'[n] = log[n]
        /\ \A r \in lost : r \in lost'
        /\ hand.req \in lost' \/ \E n \in DOMAIN log' : log'[n] = o
    <3>1. CASE log' = log /\ lost' = lost \cup {hand.req}
      BY <3>1
    <3>2. CASE log' = Append(log, o) /\ lost' = lost
      <4>1. /\ DOMAIN log = 1 .. Len(log) /\ Len(log) \in Nat
            /\ DOMAIN log' = 1 .. Len(log) + 1
            /\ \A n \in DOMAIN log : log'[n] = log[n]
            /\ log'[Len(log) + 1] = o
        BY <2>4, <3>2, Appended
      <4> QED
        BY <3>2, <4>1
    <3> QED
      BY <2>1, <3>1, <3>2
  <2>7. \A a \in DOMAIN answers' : Recorded(answers[a])'
    BY <2>1, <2>6 DEF RecordInv, Recorded
  <2>8. Recorded([req |-> hand.req, ok |-> hand.ok])'
    BY <2>4, <2>5, <2>6 DEF Recorded
  <2> QED
    BY <2>7, <2>8 DEF RecordInv
<1>9. CASE Answer
  <2> DEFINE o == [req |-> hand.req, ok |-> hand.ok]
  <2>1. /\ InHand("answer") /\ hand' = Idle /\ UNCHANGED <<reached, log, lost>>
        /\ answers' = Append(answers, o)
    BY <1>9 DEF Answer
  <2>2. hand.req \in Request /\ hand.ok \in BOOLEAN /\ hand # Idle /\ hand.pc = "answer"
    BY <2>1, InHandType
  <2>3. Recorded(o)
    BY <2>2 DEF RecordInv, OnHand
  <2>4. o \in Outcome /\ answers \in Seq(Outcome)
    BY <2>2, TypeParts DEF Outcome, HistoryType
  <2> HIDE DEF o
  <2>5. \A a \in DOMAIN answers' : (a \in DOMAIN answers /\ answers'[a] = answers[a])
                                   \/ answers'[a] = o
    <3>1. /\ DOMAIN answers = 1 .. Len(answers) /\ Len(answers) \in Nat
          /\ DOMAIN answers' = 1 .. Len(answers) + 1
          /\ \A a \in DOMAIN answers : answers'[a] = answers[a]
          /\ answers'[Len(answers) + 1] = o
      BY <2>1, <2>4, Appended
    <3> QED
      BY <3>1
  <2> QED
    BY <2>1, <2>3, <2>5 DEF RecordInv, Recorded, OnHand
<1>10. CASE Boot \/ Watch \/ Truncate \/ Save \/ Watcher \/ UNCHANGED vars
  BY <1>1, <1>10 DEF Boot, Watch, Truncate, Save, EditsConfig, Watcher, LoadAgain, StoreConfig,
                     history, vars
<1>11. CASE \E kind \in Kinds : Send(kind)
  BY <1>1, <1>11 DEF Send
<1> QED
  BY <1>3, <1>4, <1>5, <1>6, <1>7, <1>8, <1>9, <1>10, <1>11 DEF Next, Handler

\* What is answered of a call that reached a remote system is in the log, for any
\* requests, faults and bounds (handle_request, mcp.rs:1094).
THEOREM AnsweredIsRecorded == Spec => []AnswersAreRecorded
<1> DEFINE Inv == TypeOK /\ OrderInv /\ RecordInv
<1>1. Init => Inv
  BY TypeInit, OrderInit DEF Init, RecordInv, OnHand
<1>2. Inv /\ [Next]_vars => Inv'
  BY TypeStep, OrderStep, RecordStep
<1>3. Inv => AnswersAreRecorded
  BY DEF OrderInv, SortedInv, RecordInv, Recorded, AnswersAreRecorded
<1> HIDE DEF Inv
<1> QED
  BY <1>1, <1>2, <1>3, PTL DEF Spec

-----------------------------------------------------------------------------
(* A process leaves one call unrecorded at most.                           *)

UnrecordedCalls == {i \in DOMAIN reached : Unrecorded(i)}

\* The call in hand has reached a remote system, and its record is to come.
Pending == OnHand({"away", "audit"}) /\ \E i \in DOMAIN reached : reached[i] = hand.req

\* A process has one such call to its account, and a running one has it yet to use
\* but for the call in hand.
CountInv == /\ up # "serving" => hand = Idle
            /\ IF up = "off" \/ Pending
               THEN Cardinality(UnrecordedCalls) <= boots
               ELSE Cardinality(UnrecordedCalls) <= boots - 1

LEMMA CountIsNat ==
  ASSUME TypeOK
  PROVE  IsFiniteSet(UnrecordedCalls) /\ Cardinality(UnrecordedCalls) \in Nat /\ boots \in Nat
<1>1. reached \in Seq(Request) /\ boots \in 0 .. MaxBoots
  BY TypeParts DEF HistoryType, ConfigType
<1>2. DOMAIN reached = 1 .. Len(reached) /\ Len(reached) \in Nat
  BY <1>1
<1>3. IsFiniteSet(1 .. Len(reached))
  BY <1>2, FS_Interval
<1>4. UnrecordedCalls \in SUBSET (1 .. Len(reached))
  BY <1>2 DEF UnrecordedCalls
<1>5. IsFiniteSet(UnrecordedCalls)
  BY <1>3, <1>4, FS_Subset
<1>6. Cardinality(UnrecordedCalls) \in Nat
  BY <1>5, FS_CardinalityType
<1>7. boots \in Nat
  BY <1>1, McpServerAssumption
<1> QED
  BY <1>5, <1>6, <1>7

LEMMA CountStep ==
  ASSUME TypeOK, OrderInv, CountInv, [Next]_vars
  PROVE  CountInv'
<1> USE CountIsNat
<1>0. IsFiniteSet(UnrecordedCalls) /\ Cardinality(UnrecordedCalls) \in Nat /\ boots \in Nat
  OBVIOUS
<1>1. ASSUME UNCHANGED <<reached, log, lost>>
      PROVE  Cardinality(UnrecordedCalls)' = Cardinality(UnrecordedCalls)
  BY <1>1 DEF UnrecordedCalls, Unrecorded
<1>2. CASE UNCHANGED <<reached, log, lost, hand, boots>> /\ up' # "off" /\ up # "off"
           /\ (hand = Idle \/ up' = up)
  BY <1>0, <1>1, <1>2 DEF CountInv, Pending, OnHand
<1>3. CASE Boot
  <2>1. up = "off" /\ up' = "loaded" /\ boots' = boots + 1 /\ hand' = hand
        /\ UNCHANGED <<reached, log, lost>>
    BY <1>3 DEF Boot, history
  <2>2. ~ Pending'
    BY <2>1 DEF CountInv, Pending, OnHand
  <2> QED
    BY <1>0, <1>1, <2>1, <2>2 DEF CountInv
<1>4. CASE Watch \/ (\E kind \in Kinds : Send(kind)) \/ Watcher
  <2>1. hand = Idle \/ up' = up
    BY <1>4 DEF Watch, Send, Watcher, LoadAgain, StoreConfig, CountInv
  <2>2. up # "off" /\ up' # "off"
    BY <1>4 DEF Watch, Send, Watcher, LoadAgain, StoreConfig
  <2>3. UNCHANGED <<reached, log, lost, hand, boots>>
    BY <1>4 DEF Watch, Send, Watcher, LoadAgain, StoreConfig, history
  <2> QED
    BY <1>2, <2>1, <2>2, <2>3
<1>5. CASE Truncate \/ Save \/ UNCHANGED vars
  <2>1. UNCHANGED <<reached, log, lost, hand, boots, up>>
    BY <1>5 DEF Truncate, Save, EditsConfig, history, vars
  <2> QED
    BY <1>0, <1>1, <2>1 DEF CountInv, Pending, OnHand
<1>6. CASE GivesUp \/ EndOfInput \/ Crash \/ AnswerFails
  <2>1. up' = "off" /\ hand' = Idle /\ UNCHANGED <<reached, log, lost, boots>>
    BY <1>6 DEF GivesUp, EndOfInput, Crash, AnswerFails, Ends, history
  <2> QED
    BY <1>0, <1>1, <2>1 DEF CountInv
<1>7. CASE Take
  <2>1. up = "serving" /\ up' = up /\ hand = Idle /\ (hand' = Idle \/ hand'.pc = "run")
        /\ UNCHANGED <<reached, log, lost, boots>>
    BY <1>7 DEF Take, history
  <2>2. ~ Pending /\ ~ Pending'
    BY <2>1 DEF Pending, OnHand
  <2> QED
    BY <1>0, <1>1, <2>1, <2>2 DEF CountInv
<1>8. ASSUME NEW at \in {"run", "away", "audit", "answer"}, InHand(at),
             NEW pc \in {"away", "audit", "answer"}, NEW ok \in BOOLEAN, Go(pc, ok)
      PROVE  /\ up = "serving" /\ up' = up /\ boots' = boots
             /\ hand # Idle /\ hand' # Idle /\ hand.pc = at /\ hand'.pc = pc
             /\ hand'.req = hand.req /\ hand.req \in Request /\ hand.req.id \in Nat
  <2>1. up = "serving" /\ up' = up /\ boots' = boots
    BY <1>8 DEF InHand, Go
  <2>2. hand # Idle /\ hand' # Idle /\ hand.pc = at /\ hand'.pc = pc /\ hand'.req = hand.req
    BY <1>8, GoesOn
  <2> QED
    BY <2>1, <2>2, Numbers
<1>9. CASE Finish
  <2>1. PICK pc \in {"audit", "answer"}, ok \in BOOLEAN : InHand("run") /\ Go(pc, ok)
    BY <1>9 DEF Finish
  <2>2. UNCHANGED <<reached, log, lost>>
    BY <1>9 DEF Finish, history
  <2>3. /\ up = "serving" /\ up' = up /\ boots' = boots
        /\ hand # Idle /\ hand' # Idle /\ hand.pc = "run"
        /\ hand'.req = hand.req /\ hand.req \in Request /\ hand.req.id \in Nat
    BY <1>8, <2>1
  <2>4. \A i \in DOMAIN reached : reached[i].id < hand.req.id
    BY <2>3 DEF OrderInv, PastInv, ReachedPast, Past, OnHand
  <2>5. \A i \in DOMAIN reached : reached[i] # hand.req
    BY <2>3, <2>4
  <2>6. ~ Pending /\ ~ Pending'
    BY <2>2, <2>3, <2>5 DEF Pending, OnHand
  <2> QED
    BY <1>0, <1>1, <2>2, <2>3, <2>6 DEF CountInv
<1>10. CASE Return
  <2>1. PICK ok \in BOOLEAN : InHand("away") /\ Go("audit", ok)
    BY <1>10 DEF Return
  <2>2. UNCHANGED <<reached, log, lost>>
    BY <1>10 DEF Return, history
  <2>3. /\ up = "serving" /\ up' = up /\ boots' = boots
        /\ hand # Idle /\ hand' # Idle /\ hand.pc = "away" /\ hand'.pc = "audit"
        /\ hand'.req = hand.req
    BY <1>8, <2>1
  <2>4. Pending' = Pending
    BY <2>2, <2>3 DEF Pending, OnHand
  <2> QED
    BY <1>0, <1>1, <2>2, <2>3, <2>4 DEF CountInv
<1>11. CASE Reach
  <2>1. /\ InHand("run") /\ Go("away", FALSE) /\ reached' = Append(reached, hand.req)
        /\ UNCHANGED <<log, lost>>
    BY <1>11 DEF Reach
  <2>2. /\ up = "serving" /\ up' = up /\ boots' = boots
        /\ hand # Idle /\ hand' # Idle /\ hand.pc = "run" /\ hand'.pc = "away"
        /\ hand'.req = hand.req /\ hand.req \in Request
    BY <1>8, <2>1
  <2>3. reached \in Seq(Request)
    BY TypeParts DEF HistoryType
  <2>4. /\ DOMAIN reached = 1 .. Len(reached) /\ Len(reached) \in Nat
        /\ DOMAIN reached' = 1 .. Len(reached) + 1
        /\ \A i \in DOMAIN reached : reached'[i] = reached[i]
        /\ reached'[Len(reached) + 1] = hand.req
    BY <2>1, <2>2, <2>3, Appended
  <2>5. Pending' /\ ~ Pending
    BY <2>2, <2>4 DEF Pending, OnHand
  <2> DEFINE more == UnrecordedCalls \cup {Len(reached) + 1}
  <2>6. UnrecordedCalls' \in SUBSET more
    BY <2>1, <2>4 DEF UnrecordedCalls, Unrecorded
  <2>7. IsFiniteSet(more) /\ Cardinality(more) <= Cardinality(UnrecordedCalls) + 1
        /\ Cardinality(more) \in Nat
    <3>1. /\ IsFiniteSet(more)
          /\ Cardinality(more) = IF Len(reached) + 1 \in UnrecordedCalls
                                 THEN Cardinality(UnrecordedCalls)
                                 ELSE Cardinality(UnrecordedCalls) + 1
      BY <1>0, FS_AddElement
    <3> HIDE DEF more
    <3> QED
      BY <1>0, <3>1
  <2> HIDE DEF more
  <2>8. Cardinality(UnrecordedCalls') <= Cardinality(more) /\ Cardinality(UnrecordedCalls') \in Nat
    BY <2>6, <2>7, FS_Subset, FS_CardinalityType
  <2>9. Cardinality(UnrecordedCalls) <= boots - 1
    BY <2>2, <2>5 DEF CountInv
  <2>10. Cardinality(UnrecordedCalls') <= boots'
    BY <1>0, <2>2, <2>7, <2>8, <2>9
  <2> QED
    BY <2>2, <2>5, <2>10 DEF CountInv
<1>12. CASE Audit
  <2> DEFINE o == [req |-> hand.req, ok |-> hand.ok]
  <2>1. /\ InHand("audit") /\ Go("answer", hand.ok) /\ reached' = reached
        /\ \/ log' = Append(log, o) /\ lost' = lost
           \/ log' = log /\ lost' = lost \cup {hand.req}
    BY <1>12 DEF Audit
  <2>2. hand.req \in Request /\ hand.ok \in BOOLEAN
    BY <2>1, InHandType
  <2>3. /\ up = "serving" /\ up' = up /\ boots' = boots
        /\ hand # Idle /\ hand' # Idle /\ hand.pc = "audit" /\ hand'.pc = "answer"
        /\ hand'.req = hand.req /\ hand.req.id \in Nat
    BY <1>8, <2>1, <2>2
  <2>4. o \in Outcome /\ o.req = hand.req /\ log \in Seq(Outcome)
    BY <2>2, TypeParts DEF Outcome, HistoryType
  <2> HIDE DEF o
  <2>5. /\ \A n \in DOMAIN log : n \in DOMAIN log' /\ log'[n] = log[n]
        /\ \A r \in lost : r \in lost'
        /\ hand.req \in lost' \/ \E n \in DOMAIN log' : log'[n].req = hand.req
    <3>1. CASE log' = log /\ lost' = lost \cup {hand.req}
      BY <3>1
    <3>2. CASE log' = Append(log, o) /\ lost' = lost
      <4>1. /\ DOMAIN log = 1 .. Len(log) /\ Len(log) \in Nat
            /\ DOMAIN log' = 1 .. Len(log) + 1
            /\ \A n \in DOMAIN log : log'[n] = log[n]
            /\ log'[Len(log) + 1] = o
        BY <2>4, <3>2, Appended
      <4> QED
        BY <2>4, <3>2, <4>1
    <3> QED
      BY <2>1, <3>1, <3>2
  <2>6. UnrecordedCalls' \in SUBSET UnrecordedCalls
    BY <2>1, <2>5 DEF UnrecordedCalls, Unrecorded
  <2>7. \A i \in UnrecordedCalls' : reached[i] # hand.req
    BY <2>1, <2>5 DEF UnrecordedCalls, Unrecorded
  <2>8. ~ Pending'
    BY <2>3 DEF Pending, OnHand
  <2>9. Cardinality(UnrecordedCalls') <= boots - 1
    <3>1. CASE ~ Pending
      <4>1. Cardinality(UnrecordedCalls) <= boots - 1
        BY <2>3, <3>1 DEF CountInv
      <4>2. Cardinality(UnrecordedCalls') <= Cardinality(UnrecordedCalls)
            /\ Cardinality(UnrecordedCalls') \in Nat
        BY <1>0, <2>6, FS_Subset, FS_CardinalityType
      <4> QED
        BY <1>0, <4>1, <4>2
    <3>2. CASE Pending
      <4>1. PICK i \in DOMAIN reached : reached[i] = hand.req
        BY <3>2 DEF Pending
      <4>2. i \in UnrecordedCalls
        <5>1. \A n \in DOMAIN log : log[n].req.id < hand.req.id
          BY <2>3 DEF OrderInv, PastInv, LogPast, Past, OnHand
        <5>2. \A r \in lost : r.id < hand.req.id
          BY <2>3 DEF OrderInv, PastInv, LostPast, Past, OnHand
        <5>3. hand.req \notin lost /\ \A n \in DOMAIN log : log[n].req # hand.req
          BY <2>3, <5>1, <5>2
        <5> QED
          BY <4>1, <5>3 DEF UnrecordedCalls, Unrecorded
      <4> DEFINE others == UnrecordedCalls \ {i}
      <4>3. UnrecordedCalls' \in SUBSET others
        BY <2>6, <2>7, <4>1
      <4>4. IsFiniteSet(others) /\ Cardinality(others) = Cardinality(UnrecordedCalls) - 1
        BY <1>0, <4>2, FS_RemoveElement
      <4> HIDE DEF others
      <4>5. Cardinality(UnrecordedCalls') <= Cardinality(others)
            /\ Cardinality(UnrecordedCalls') \in Nat
        BY <4>3, <4>4, FS_Subset, FS_CardinalityType
      <4>6. Cardinality(UnrecordedCalls) <= boots
        BY <3>2 DEF CountInv
      <4> QED
        BY <1>0, <4>4, <4>5, <4>6
    <3> QED
      BY <3>1, <3>2
  <2> QED
    BY <2>3, <2>8, <2>9 DEF CountInv
<1>13. CASE Answer
  <2>1. InHand("answer") /\ hand' = Idle /\ UNCHANGED <<reached, log, lost, up, boots>>
    BY <1>13 DEF Answer
  <2>2. hand.pc = "answer" /\ up = "serving"
    BY <2>1 DEF InHand
  <2>3. ~ Pending /\ ~ Pending'
    BY <2>1, <2>2 DEF Pending, OnHand
  <2> QED
    BY <1>0, <1>1, <2>1, <2>2, <2>3 DEF CountInv
<1> QED
  BY <1>3, <1>4, <1>5, <1>6, <1>7, <1>9, <1>10, <1>11, <1>12, <1>13 DEF Next, Handler

\* However often the process dies, each one leaves one call at most that reached a
\* remote system and is not in the log, but for records that failed.
THEOREM FewUnrecorded == Spec => []OneUnrecordedPerProcess
<1> DEFINE Inv == TypeOK /\ OrderInv /\ CountInv
<1>1. Init => Inv
  <2> SUFFICES ASSUME Init PROVE CountInv
    BY TypeInit, OrderInit
  <2>1. UnrecordedCalls = {}
    BY DEF Init, UnrecordedCalls
  <2> QED
    BY <2>1, FS_EmptySet DEF Init, CountInv
<1>2. Inv /\ [Next]_vars => Inv'
  BY TypeStep, OrderStep, CountStep
<1>3. Inv => OneUnrecordedPerProcess
  <2> SUFFICES ASSUME Inv PROVE Cardinality(UnrecordedCalls) <= boots
    BY DEF OneUnrecordedPerProcess, UnrecordedCalls
  <2> QED
    BY CountIsNat DEF CountInv
<1> HIDE DEF Inv
<1> QED
  BY <1>1, <1>2, <1>3, PTL DEF Spec
=============================================================================
