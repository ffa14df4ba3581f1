------------------------------ MODULE McpServer ------------------------------
(***************************************************************************)
(* The server process (run_server in src/src/mcp.rs): it loads the config,  *)
(* starts watching it, and answers the requests on its standard input one   *)
(* at a time, each with its own clone of the config, recording tool calls   *)
(* in the audit log.  A second thread loads the config again when a file in *)
(* its directory changes.  An operator edits the config meanwhile; a call   *)
(* may hang on its remote system; the process may die and be started again. *)
(***************************************************************************)
EXTENDS Naturals, Sequences, FiniteSets

CONSTANTS Kinds,       \* the kinds of request the agent sends
          Hangs,       \* where the main thread may wait for ever
          Faults,      \* which of the faults below may happen
          LogBeside,   \* is the audit log in the directory of the config?
          Torn,        \* a config file that does not parse, or none
          MaxRequests, MaxEdits, MaxBoots   \* bounds

RequestKinds ==
  {"none",    \* a blank or malformed line, a notification: nothing to answer
   "method",  \* initialize, tools/list, an unknown method
   "local",   \* a tool that asks no other system, an unknown tool
   "remote",  \* a tool that does, recorded however it ends
   "early"}   \* run_command, deploy_secret_to_server: may return unrecorded

FaultKinds == {"audit",     \* writing the audit record fails
               "stdout",    \* writing the answer fails
               "stdin",     \* a line of the input cannot be read (no UTF-8)
               "crash",     \* the process dies
               "bootEdit"}  \* the config is edited while the server starts

ASSUME McpServerAssumption ==
  /\ Kinds \subseteq RequestKinds
  /\ Hangs \subseteq {"boot", "remote", "early"}  \* gcloud at start, a call
  /\ Faults \subseteq FaultKinds
  /\ LogBeside \in BOOLEAN
  /\ Torn \notin Nat
  /\ MaxRequests \in Nat /\ MaxEdits \in Nat /\ MaxBoots \in Nat

VARIABLES disk,     \* the config on disk: its version, or Torn
          edits,    \* the versions there were, the first one not counted
          up,       \* the process: off, loaded (it is starting), serving
          mem,      \* the version of the config in memory
          notified, \* the watcher has an event to handle
          reading,  \* what the watcher's Config::load has read; Torn if nothing
          sent,     \* how many requests the agent has sent
          inbox,    \* those the server has not read
          hand,     \* the request in hand
          reached,  \* history: the calls that reached a remote system
          log,      \* the audit log
          answers,  \* history: the answers written
          lost,     \* history: the calls whose record failed
          boots     \* how often the process was started

vars == <<disk, edits, up, mem, notified, reading, sent, inbox, hand,
          reached, log, answers, lost, boots>>
config  == <<disk, edits>>
watcher == <<mem, notified, reading>>
history == <<reached, log, answers, lost>>
queue   == <<sent, inbox>>

Idle == [pc |-> "idle"]

Init == /\ disk = 0 /\ edits = 0
        /\ up = "off" /\ mem = 0
        /\ notified = FALSE /\ reading = Torn
        /\ sent = 0 /\ inbox = <<>> /\ hand = Idle
        /\ reached = <<>> /\ log = <<>> /\ answers = <<>> /\ lost = {}
        /\ boots = 0

-----------------------------------------------------------------------------
(* Starting and ending.                                                    *)

\* Wrong: the server starts with whatever it read.
BootsAnyway == /\ up = "off"
               /\ boots < MaxBoots
               /\ boots' = boots + 1
               /\ up' = "loaded"
               /\ mem' = disk
               /\ UNCHANGED <<config, notified, reading, queue, hand, history>>

\* main loads the config; a file that does not parse ends the process.
Boot == /\ up = "off" /\ disk # Torn
        /\ boots < MaxBoots
        /\ boots' = boots + 1
        /\ up' = "loaded"
        /\ mem' = disk
        /\ UNCHANGED <<config, notified, reading, queue, hand, history>>

\* GCP is activated, the audit log opened, and only then the directory watched.
Watch == /\ up = "loaded"
         /\ up' = "serving"
         /\ UNCHANGED <<config, watcher, queue, hand, history, boots>>

\* The process is gone, with both its threads and what it had not read.
Ends == /\ up' = "off"
        /\ notified' = FALSE /\ reading' = Torn
        /\ inbox' = <<>> /\ hand' = Idle
        /\ UNCHANGED <<config, mem, sent, history, boots>>

\* The audit log or the watcher cannot be had; the input ends, or its next line
\* cannot be read, which ends the loop with whatever comes after it.
GivesUp == up = "loaded" /\ Ends
EndOfInput == /\ up = "serving" /\ hand = Idle
              /\ inbox = <<>> \/ "stdin" \in Faults
              /\ Ends
Crash == "crash" \in Faults /\ up # "off" /\ Ends

-----------------------------------------------------------------------------
(* The config and its watcher.                                             *)

\* A Modify event in the watched directory.
Modified == notified' = (notified \/ up = "serving")

\* The operator saves the config, in one step or truncating it first.
EditsConfig(content) ==
  /\ up = "loaded" => "bootEdit" \in Faults
  /\ disk' = content
  /\ Modified
  /\ UNCHANGED <<up, mem, reading, queue, hand, history, boots>>

Truncate == disk # Torn /\ edits < MaxEdits /\ EditsConfig(Torn) /\ UNCHANGED edits
Save == edits < MaxEdits /\ edits' = edits + 1 /\ EditsConfig(edits + 1)

\* Wrong: a load that waits for the call in hand; one that, once done, takes
\* every event up to now for handled.
LoadBetweenCalls ==
  /\ up = "serving" /\ notified /\ reading = Torn
  /\ hand = Idle
  /\ notified' = FALSE
  /\ reading' = disk
  /\ UNCHANGED <<config, up, mem, queue, hand, history, boots>>
StoreDropsEvents == /\ up = "serving" /\ reading # Torn
                    /\ mem' = reading
                    /\ reading' = Torn /\ notified' = FALSE
                    /\ UNCHANGED <<config, up, queue, hand, history, boots>>

\* The watcher's closure: Config::load, which reads the file and parses it, ...
LoadAgain == /\ up = "serving" /\ notified /\ reading = Torn
             /\ notified' = FALSE
             /\ reading' = disk
             /\ UNCHANGED <<config, up, mem, queue, hand, history, boots>>

\* ... and, when it did parse, the write lock.
StoreConfig == /\ up = "serving" /\ reading # Torn
               /\ mem' = reading
               /\ reading' = Torn
               /\ UNCHANGED <<config, up, notified, queue, hand, history, boots>>

-----------------------------------------------------------------------------
(* Requests.                                                               *)

\* The agent writes a request to the pipe; it waits there for the server.
Send(kind) == /\ up # "off"
              /\ sent < MaxRequests
              /\ sent' = sent + 1
              /\ inbox' = Append(inbox, [id |-> sent + 1, kind |-> kind])
              /\ UNCHANGED <<config, up, watcher, hand, history, boots>>

\* The loop reads a line, skips it if nothing is to be answered, and otherwise
\* handles it with a clone of the config in memory (see RemoteWrite).
Take ==
  /\ up = "serving" /\ hand = Idle
  /\ inbox # <<>>
  /\ inbox' = Tail(inbox)
  /\ hand' = IF Head(inbox).kind = "none" THEN Idle
             ELSE [pc |-> "run", req |-> Head(inbox), ok |-> FALSE]
  /\ UNCHANGED <<config, up, watcher, sent, history, boots>>

InHand(pc) == up = "serving" /\ hand.pc = pc

\* From here on the main thread runs handle_request.
Go(pc, ok) == /\ hand' = [hand EXCEPT !.pc = pc, !.ok = ok]
              /\ UNCHANGED <<config, up, mem, reading, queue, boots>>

\* Done with no other system asked: an error, a list, a refused call.  A method
\* is not a tool call; some tool calls return before the record is written.
Finish == /\ InHand("run")
          /\ \E ok \in BOOLEAN :
               \/ hand.req.kind = "method" /\ Go("answer", ok)
               \/ hand.req.kind = "local" /\ Go("audit", ok)
               \/ hand.req.kind = "remote" /\ ~ ok /\ Go("audit", ok)
               \/ hand.req.kind = "early" /\ ~ ok /\ Go("answer", ok)
               \/ hand.req.kind = "early" /\ ~ ok /\ Go("audit", ok)
          /\ UNCHANGED <<notified, history>>

\* Wrong: only what went well is recorded; a call returns unrecorded after it
\* has asked a remote system; a failed record ends the call.
RecordsSuccess == /\ InHand("away")
                  /\ \E ok \in BOOLEAN : Go(IF ok THEN "audit" ELSE "answer", ok)
                  /\ UNCHANGED <<notified, history>>
ReturnsEarly == /\ InHand("away")
                /\ \E ok \in BOOLEAN :
                     Go(IF hand.req.kind = "early" THEN "answer" ELSE "audit", ok)
                /\ UNCHANGED <<notified, history>>
AuditOrNothing ==
  /\ InHand("audit")
  /\ \/ /\ log' = Append(log, [req |-> hand.req, ok |-> hand.ok])
        /\ IF LogBeside THEN Modified ELSE UNCHANGED notified
        /\ Go("answer", hand.ok)
        /\ UNCHANGED lost
     \/ /\ "audit" \in Faults
        /\ lost' = lost \cup {hand.req}
        /\ hand' = Idle
        /\ UNCHANGED <<config, up, watcher, queue, boots, log>>
  /\ UNCHANGED <<reached, answers>>

\* A remote system is asked, and answers, fails, or never returns.
Reach == /\ InHand("run") /\ hand.req.kind \in {"remote", "early"}
         /\ reached' = Append(reached, hand.req)
         /\ Go("away", FALSE)
         /\ UNCHANGED <<notified, log, answers, lost>>

Return == /\ InHand("away")
          /\ \E ok \in BOOLEAN : Go("audit", ok)
          /\ UNCHANGED <<notified, history>>

\* audit.record; an error is logged and the call goes on.  The append is a
\* Modify event of its own when the log lies beside the config.
Audit == /\ InHand("audit")
         /\ \/ /\ log' = Append(log, [req |-> hand.req, ok |-> hand.ok])
               /\ IF LogBeside THEN Modified ELSE UNCHANGED notified
               /\ UNCHANGED lost
            \/ /\ "audit" \in Faults
               /\ lost' = lost \cup {hand.req}
               /\ UNCHANGED <<log, notified>>
         /\ Go("answer", hand.ok)
         /\ UNCHANGED <<reached, answers>>

Answer == /\ InHand("answer")
          /\ answers' = Append(answers, [req |-> hand.req, ok |-> hand.ok])
          /\ hand' = Idle
          /\ UNCHANGED <<config, up, watcher, queue, reached, log, lost, boots>>

\* The agent has closed the pipe: run_server returns.
AnswerFails == "stdout" \in Faults /\ InHand("answer") /\ Ends

-----------------------------------------------------------------------------
Watcher == LoadAgain \/ StoreConfig
Handler == Finish \/ Reach \/ Audit \/ Answer

Next == \/ Boot \/ Watch \/ GivesUp \/ EndOfInput \/ Crash
        \/ Truncate \/ Save \/ Watcher
        \/ \E kind \in Kinds : Send(kind)
        \/ Take \/ Handler \/ Return \/ AnswerFails

\* Each thread goes on while it can.  A remote call returns when its system
\* answers, and the start is over when gcloud has ended: neither has a timeout.
Spec == /\ Init /\ [][Next]_vars
        /\ WF_vars("boot" \notin Hangs /\ Watch) /\ WF_vars(Watcher)
        /\ WF_vars(Take) /\ WF_vars(Handler)
        /\ WF_vars(Return /\ hand.req.kind \notin Hangs)

-----------------------------------------------------------------------------
(* Properties.                                                             *)

Version == 0 .. MaxEdits
Request == [id : 1 .. MaxRequests, kind : Kinds]
Outcome == [req : Request, ok : BOOLEAN]

\* Type invariant.
TypeOK ==
  /\ disk \in Version \cup {Torn} /\ edits \in Version
  /\ up \in {"off", "loaded", "serving"}
  /\ mem \in Version
  /\ notified \in BOOLEAN /\ reading \in Version \cup {Torn}
  /\ sent \in 0 .. MaxRequests /\ inbox \in Seq(Request)
  /\ hand \in {Idle} \cup [pc : {"run", "away", "audit", "answer"},
                           req : Request, ok : BOOLEAN]
  /\ reached \in Seq(Request)
  /\ log \in Seq(Outcome) /\ answers \in Seq(Outcome) /\ lost \subseteq Request
  /\ boots \in 0 .. MaxBoots

\* While the watcher has nothing to do, the config in memory is the one on
\* disk, if that parses: no edit is lost between an event, the load it causes
\* and the next event.  Nobody edits the config while the server starts.
QuietMeansCurrent ==
  up = "serving" /\ ~ notified /\ reading = Torn => disk \in {mem, Torn}

\* An edit of the config that stands is in memory in the end, also while the
\* main thread hangs in a remote call, and whatever half-written file the
\* watcher read on the way (Hot-Reloading, README.md:11).  Same proviso.
EditsAreLoaded ==
  \A v \in Version :
    (up = "serving" /\ disk = v) ~> (mem = v \/ disk # v \/ up # "serving")

\* Every request with an id is answered, unless the server ends or the main
\* thread waits for ever: no failed call, refused call or failed record keeps
\* the loop from going on.
Answered(n) == \E i \in DOMAIN answers : answers[i].req.id = n
Waiting(n) == \/ \E i \in DOMAIN inbox : inbox[i].id = n /\ inbox[i].kind # "none"
              \/ hand # Idle /\ hand.req.id = n
Hung == \/ up = "loaded" /\ "boot" \in Hangs
        \/ InHand("away") /\ hand.req.kind \in Hangs
EveryRequestAnswered ==
  \A n \in 1 .. MaxRequests : Waiting(n) ~> (Answered(n) \/ up = "off" \/ []Hung)

\* What the agent was told of a call that reached a remote system is in the
\* audit log, with the same outcome, unless its record failed; and the log has
\* the calls in the order in which they were made.
AnswersAreRecorded ==
  /\ \A a \in DOMAIN answers :
       (\E i \in DOMAIN reached : reached[i] = answers[a].req)
         => answers[a].req \in lost \/ \E n \in DOMAIN log : log[n] = answers[a]
  /\ \A m, n \in DOMAIN log : m < n => log[m].req.id < log[n].req.id

\* A call that reached a remote system, is not in the log, and whose record did
\* not fail, is the one in hand, or was in hand when its process died.
Unrecorded(i) == /\ reached[i] \notin lost
                 /\ \A n \in DOMAIN log : log[n].req # reached[i]
OneUnrecordedPerProcess ==
  Cardinality({i \in DOMAIN reached : Unrecorded(i)}) <= boots

\* Every tool call the agent got an answer to is in the audit log.
EveryCallAudited ==
  \A a \in DOMAIN answers :
    answers[a].req.kind # "method" => \E n \in DOMAIN log : log[n] = answers[a]
=============================================================================
