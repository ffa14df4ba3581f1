-------------------------- MODULE RemoteWriteProofs --------------------------
(***************************************************************************)
(* The preview/confirm protocol keeps its promises for any number of        *)
(* servers, files, calls and faults.                                        *)
(***************************************************************************)
EXTENDS RemoteWrite, EnvFileProofs

LEMMA TokenType ==
  ASSUME NEW a \in Targets, NEW q \in Paths, NEW t \in Text
  PROVE  /\ ChangeToken(a, q, t) \in Token
         /\ ChangeToken(a, q, t)[1] = a
         /\ ChangeToken(a, q, t)[2] = q
         /\ ChangeToken(a, q, t)[3] = t
BY DEF ChangeToken, Token

LEMMA EmptyTextType == EmptyText \in Text
BY DEF EmptyText, Text

LEMMA CallFields ==
  ASSUME NEW c \in Call
  PROVE  /\ c.target \in Targets
         /\ c.tool \in {"write", "deploy"}
         /\ c.tool = "write" => c.path \in Paths /\ c.text \in Text
         /\ c.tool = "deploy" => /\ c.path \in Paths \cup {None}
                                 /\ c.key \in EnvKey /\ c.secret \in SecretNames
BY DEF Call, WriteCall, DeployCall

LEMMA LoadsType == ASSUME NEW c \in ConfigFile PROVE Loads(c) \subseteq LoadedConfig
BY DEF Loads, LoadedConfig

\* The fields of a call in hand, and the server it goes to.
LEMMA RequestFields ==
  ASSUME req \in Request
  PROVE  /\ req.pc \in {"read", "reread", "write", "consume"}
         /\ req.call \in Call /\ req.snap \in LoadedConfig /\ req.path \in Paths
         /\ req.value \in SecretValue \cup {None}
         /\ req.confirm \in Token \cup {None}
         /\ req.text \in Text \cup {None}
         /\ req.tok \in Token \cup {None}
         /\ req.from \in Servers \cup {None}
         /\ req.call.target \in Targets
         /\ Server(req) \in Servers \cup {None}
         /\ Server(req) # None => Dest(req) \in Servers \X Paths
<1>1. /\ req.pc \in {"read", "reread", "write", "consume"}
      /\ req.call \in Call /\ req.snap \in LoadedConfig /\ req.path \in Paths
      /\ req.value \in SecretValue \cup {None}
      /\ req.confirm \in Token \cup {None}
      /\ req.text \in Text \cup {None}
      /\ req.tok \in Token \cup {None}
      /\ req.from \in Servers \cup {None}
  BY DEF Request
<1>2. req.call.target \in Targets
  BY <1>1, CallFields
<1>3. Server(req) \in Servers \cup {None}
  BY <1>1, <1>2 DEF Server, LoadedConfig, Routes
<1>4. QED BY <1>1, <1>2, <1>3 DEF Dest

\* A step finds a call in hand, not the idle record.
LEMMA BusyRequest ==
  ASSUME TypeOK, req.pc # "idle" PROVE req \in Request
BY DEF TypeOK, Idle

\* What a read returns is a text or nothing.
LEMMA FoundType ==
  ASSUME TypeOK, req \in Request, Server(req) # None,
         NEW found \in {file[Dest(req)], None}
  PROVE  found \in Text \cup {None} /\ Content(found) \in Text
<1>1. found \in Text \cup {None}
  BY RequestFields DEF TypeOK
<1>2. QED BY <1>1, EmptyTextType DEF Content

\* What a deployment computes is a text.
LEMMA UpdatedType ==
  ASSUME TypeOK, RequestInv, req \in Request, IsDeploy, Server(req) # None,
         NEW found \in {file[Dest(req)], None}
  PROVE  Updated(found) \in Text
<1>1. req.call.key \in EnvKey
  BY RequestFields, CallFields DEF IsDeploy
<1>2. req.value \in SecretValue
  BY DEF RequestInv
<1>3. Content(found) \in Text
  BY FoundType
<1>4. QED BY <1>1, <1>2, <1>3, EnvUpdateType DEF Updated

\* What a broken write leaves are texts.
LEMMA TornType ==
  ASSUME TypeOK, RequestInv, req.pc = "write"
  PROVE  Torn \subseteq [Servers \X Paths -> Text \cup {None}]
<1>1. req \in Request /\ file \in [Servers \X Paths -> Text \cup {None}]
  BY BusyRequest DEF TypeOK
<1>2. req.text.lines \in Seq(Line)
  BY DEF RequestInv, Text
<1>3. ASSUME NEW n \in 0 .. Len(req.text.lines), Server(req) # None
      PROVE  [file EXCEPT ![Dest(req)] = Join(SubSeq(req.text.lines, 1, n))]
               \in [Servers \X Paths -> Text \cup {None}]
  <2>1. SubSeq(req.text.lines, 1, n) \in Seq(Line)
    BY <1>2, SMT
  <2>2. Join(SubSeq(req.text.lines, 1, n)) \in Text
    BY <2>1, JoinType
  <2>3. Dest(req) \in Servers \X Paths
    BY <1>1, <1>3, RequestFields
  <2>4. QED BY <1>1, <2>2, <2>3
<1>4. QED BY <1>1, <1>3 DEF Torn

-----------------------------------------------------------------------------
(* The inductive invariant.                                                *)

LEMMA InitIInv == ASSUME RemoteWriteAssumption, Init PROVE IInv
<1>1. cfg \in LoadedConfig
  BY LoadsType DEF Init, RemoteWriteAssumption
<1>2. vault \in [SecretNames -> SecretValue \cup {None}]
  BY DEF Init, RemoteWriteAssumption
<1>3. file \in [Servers \X Paths -> Text \cup {None}]
  BY DEF Init, RemoteWriteAssumption
<1>4. TypeOK
  BY <1>1, <1>2, <1>3 DEF Init, RemoteWriteAssumption, TypeOK
<1>5. RequestInv /\ ConfirmedInv /\ ShownInv /\ SpentInv
  BY DEF Init, Idle, RequestInv, ConfirmedInv, ShownInv, SpentInv, Confirmed, IsDeploy
<1>6. QED BY <1>4, <1>5 DEF IInv

\* Beginning a call: nothing but the call in hand changes.
LEMMA BeginIInv ==
  ASSUME RemoteWriteAssumption, IInv, Arrive,
         NEW pc \in {"read", "write"}, NEW c \in Call, NEW q \in Paths,
         NEW v \in SecretValue \cup {None}, NEW confirm \in Token \cup {None},
         NEW t \in Text \cup {None}, NEW tok \in Token \cup {None},
         Begin(pc, c, q, v, confirm, t, tok),
         c.tool = "write" => t \in Text,
         c.tool = "deploy" => pc = "read" /\ v \in SecretValue,
         pc = "write" => /\ tok \in pending
                         /\ tok[1] = c.target /\ tok[2] = q /\ tok[3] = t
  PROVE  IInv'
<1>1. /\ req'.pc = pc /\ req'.call = c /\ req'.value = v
      /\ req'.text = t /\ req'.tok = tok /\ req'.path = q
  BY DEF Begin
<1>2. req' \in Request
  BY DEF Begin, Request, IInv, TypeOK
<1>3. TypeOK'
  BY <1>2 DEF Arrive, IInv, TypeOK, RemoteWriteAssumption
<1>4. RequestInv' /\ ConfirmedInv'
  BY <1>1, CallFields DEF Arrive, IInv, RequestInv, ConfirmedInv, Confirmed, IsDeploy
<1>5. ShownInv' /\ SpentInv'
  BY <1>1 DEF Arrive, Busy, IInv, ShownInv, SpentInv
<1>6. QED BY <1>3, <1>4, <1>5 DEF IInv

\* A call refused on arrival.
LEMMA RefusedIInv ==
  ASSUME RemoteWriteAssumption, IInv, Arrive, UNCHANGED req PROVE IInv'
<1>1. TypeOK'
  BY DEF Arrive, IInv, TypeOK, RemoteWriteAssumption
<1>2. RequestInv' /\ ConfirmedInv' /\ ShownInv' /\ SpentInv'
  BY DEF Arrive, IInv, RequestInv, ConfirmedInv, ShownInv, SpentInv,
         Confirmed, IsDeploy, Server
<1>3. QED BY <1>1, <1>2 DEF IInv

LEMMA NewCallIInv ==
  ASSUME RemoteWriteAssumption, IInv, NewCall PROVE IInv'
<1>1. ASSUME NEW c \in WriteCalls, PreviewWrite(c) PROVE IInv'
  <2>1. c \in Call /\ c.tool = "write" /\ c.path \in Paths /\ c.text \in Text
    BY DEF RemoteWriteAssumption, Call, WriteCall
  <2>2. QED BY <1>1, <2>1, BeginIInv DEF PreviewWrite
<1>2. ASSUME NEW c \in WriteCalls, NEW confirm \in seen, ConfirmWrite(c, confirm)
      PROVE  IInv'
  <2> DEFINE tok == ChangeToken(c.target, c.path, c.text)
  <2>1. c \in Call /\ c.tool = "write" /\ c.path \in Paths /\ c.text \in Text
    BY DEF RemoteWriteAssumption, Call, WriteCall
  <2>2. tok \in Token /\ tok[1] = c.target /\ tok[2] = c.path /\ tok[3] = c.text
    BY <2>1, CallFields, TokenType
  <2>3. confirm \in Token
    BY DEF IInv, TypeOK
  <2>4. Arrive
    BY <1>2 DEF ConfirmWrite
  <2>5. CASE confirm = tok /\ tok \in pending
    <3>1. Begin("write", c, c.path, None, confirm, c.text, tok)
      BY <1>2, <2>5 DEF ConfirmWrite
    <3> HIDE DEF tok
    <3>2. QED BY <2>1, <2>2, <2>3, <2>4, <2>5, <3>1, BeginIInv
  <2>6. CASE ~ (confirm = tok /\ tok \in pending)
    BY <1>2, <2>4, <2>6, RefusedIInv DEF ConfirmWrite
  <2>7. QED BY <2>5, <2>6
<1>3. ASSUME NEW c \in DeployCalls, NEW confirm \in seen \cup {None},
             BeginDeploy(c, confirm)
      PROVE  IInv'
  <2>1. c \in Call /\ c.tool = "deploy" /\ c.target \in Targets
          /\ c.path \in Paths \cup {None} /\ c.secret \in SecretNames
    BY DEF RemoteWriteAssumption, Call, DeployCall
  <2>2. confirm \in Token \cup {None}
    BY DEF IInv, TypeOK
  <2>3. DeployPath(c) \in Paths
    <3>1. cfg.source \in ConfigFile /\ cfg.route[c.target] \in Servers
      BY <1>3, <2>1 DEF IInv, TypeOK, LoadedConfig, Routes, BeginDeploy
    <3>2. cfg.source.envPath[cfg.route[c.target]] \in Paths \cup {None}
      BY <3>1 DEF ConfigFile
    <3>3. QED BY <1>3, <2>1, <3>2 DEF DeployPath, BeginDeploy
  <2>4. vault[c.secret] \in SecretValue
    BY <1>3, <2>1 DEF IInv, TypeOK, BeginDeploy
  <2>5. Arrive /\ Begin("read", c, DeployPath(c), vault[c.secret], confirm, None, None)
    BY <1>3 DEF BeginDeploy
  <2>6. QED BY <2>1, <2>2, <2>3, <2>4, <2>5, BeginIInv
<1>4. ASSUME RefuseDeploy PROVE IInv'
  BY <1>4, RefusedIInv DEF RefuseDeploy
<1>5. QED BY <1>1, <1>2, <1>3, <1>4 DEF NewCall

\* Any read: the bound on events is kept, the request is what it was.
LEMMA ReadsType ==
  ASSUME RemoteWriteAssumption, TypeOK, NEW found, Reads(found)
  PROVE  events' \in 0 .. MaxEvents
BY DEF Reads, Event, TypeOK, RemoteWriteAssumption

\* Ending a call before its write leaves the bookkeeping as it was.
LEMMA GiveUpIInv ==
  ASSUME IInv, req.pc \in {"read", "reread", "write"}, req' = Idle, Unchanged,
         file' \in [Servers \X Paths -> Text \cup {None}], events' \in 0 .. MaxEvents,
         UNCHANGED <<pending, shown, seen, spent>>
  PROVE  IInv'
<1>1. TypeOK'
  BY DEF IInv, TypeOK, Unchanged
<1>2. RequestInv' /\ ConfirmedInv' /\ ShownInv'
  BY DEF IInv, RequestInv, ConfirmedInv, ShownInv, Confirmed, IsDeploy, Idle
<1>3. SpentInv'
  BY DEF IInv, SpentInv
<1>4. QED BY <1>1, <1>2, <1>3 DEF IInv

\* Showing a preview and ending the call.
LEMMA ShowIInv ==
  ASSUME IInv, req.pc = "read", Server(req) # None, NEW t \in Text,
         Show(ChangeToken(req.call.target, req.path, t)),
         req' = Idle, Unchanged, UNCHANGED file, events' \in 0 .. MaxEvents
  PROVE  IInv'
<1> DEFINE tok == ChangeToken(req.call.target, req.path, t)
<1>1. req \in Request
  BY BusyRequest DEF IInv
<1>2. tok \in Token
  BY <1>1, RequestFields, TokenType
<1>3. /\ pending' = pending \cup {tok}
      /\ shown' = shown \cup {[tok |-> tok, server |-> Server(req)]}
      /\ seen' = seen \cup {tok} /\ spent' = spent \ {tok}
  BY DEF Show
<1> HIDE DEF tok
<1>4. [tok |-> tok, server |-> Server(req)] \in Preview
  BY <1>1, <1>2, RequestFields DEF Preview
<1>5. TypeOK'
  BY <1>2, <1>3, <1>4 DEF IInv, TypeOK, Unchanged
<1>6. ShownInv'
  <2> DEFINE new == [tok |-> tok, server |-> Server(req)]
  <2>1. new.tok = tok /\ new \in shown'
    BY <1>3
  <2> HIDE DEF new
  <2>2. \A u \in pending : \E p \in shown' : p.tok = u
    BY <1>3 DEF IInv, ShownInv
  <2>3. \A u \in pending' : \E p \in shown' : p.tok = u
    BY <1>3, <2>1, <2>2
  <2>4. QED BY <2>3 DEF ShownInv
<1>7. SpentInv'
  BY <1>3 DEF IInv, SpentInv
<1>8. RequestInv' /\ ConfirmedInv'
  BY DEF RequestInv, ConfirmedInv, Confirmed, IsDeploy, Idle
<1>9. QED BY <1>5, <1>6, <1>7, <1>8 DEF IInv

LEMMA ReadStepIInv == ASSUME RemoteWriteAssumption, IInv, ReadStep PROVE IInv'
<1>1. req \in Request /\ Server(req) # None /\ TypeOK /\ RequestInv
  BY BusyRequest DEF ReadStep, IInv
<1>2. file \in [Servers \X Paths -> Text \cup {None}]
  BY <1>1 DEF TypeOK
<1>3. PICK found \in {file[Dest(req)], None} :
        ShowWrite(found) \/ ShowDeploy(found) \/ CheckDeploy(found) \/ Reread(found)
  BY DEF ReadStep
<1>4. found \in Text \cup {None}
  BY <1>1, FoundType
<1>5. events' \in 0 .. MaxEvents
  BY <1>1, <1>3, ReadsType DEF ShowWrite, ShowDeploy, CheckDeploy, Reread
<1>6. IsDeploy => Updated(found) \in Text
  BY <1>1, UpdatedType
<1>7. CASE ShowWrite(found)
  <2>1. req.text \in Text
    BY <1>1, <1>7 DEF ShowWrite, RequestInv, IsDeploy
  <2>2. CASE Content(found) = req.text
    BY <1>2, <1>5, <1>7, <2>2, GiveUpIInv DEF ShowWrite
  <2>3. CASE Content(found) # req.text
    BY <1>1, <1>4, <1>5, <1>7, <2>1, <2>3, ShowIInv DEF ShowWrite
  <2>4. QED BY <2>2, <2>3
<1>8. CASE ShowDeploy(found)
  <2>1. Updated(found) \in Text
    BY <1>6, <1>8 DEF ShowDeploy, IsDeploy
  <2>2. QED BY <1>1, <1>4, <1>5, <1>8, <2>1, ShowIInv DEF ShowDeploy
<1>9. CASE CheckDeploy(found)
  <2> DEFINE tok == ChangeToken(req.call.target, req.path, Updated(found))
  <2>1. IsDeploy /\ req.pc = "read"
    BY <1>9 DEF CheckDeploy, IsDeploy
  <2>2. /\ tok \in Token
        /\ tok[1] = req.call.target /\ tok[2] = req.path
    BY <1>1, <1>6, <2>1, RequestFields, TokenType
  <2>3. /\ req' = IF req.confirm = tok /\ tok \in pending
                  THEN [req EXCEPT !.pc = "reread", !.tok = tok, !.from = Server(req)]
                  ELSE Idle
        /\ Unchanged /\ UNCHANGED <<file, pending, shown, seen, spent>>
    BY <1>9 DEF CheckDeploy
  <2> HIDE DEF tok
  <2>4. CASE req' = Idle
    BY <1>2, <1>5, <2>1, <2>3, <2>4, GiveUpIInv
  <2>5. CASE /\ req' = [req EXCEPT !.pc = "reread", !.tok = tok, !.from = Server(req)]
             /\ tok \in pending
    <3>1. req' \in Request
      BY <1>1, <2>2, <2>5, RequestFields DEF Request
    <3>2. /\ req'.pc = "reread" /\ req'.tok = tok /\ req'.from = Server(req)
          /\ req'.call = req.call /\ req'.path = req.path
          /\ req'.value = req.value /\ req'.snap = req.snap
      BY <1>1, <2>5 DEF Request
    <3>3. TypeOK'
      BY <1>1, <1>5, <2>3, <3>1 DEF TypeOK, Unchanged
    <3>4. RequestInv' /\ ConfirmedInv'
      BY <1>1, <2>1, <2>2, <2>3, <2>5, <3>2
         DEF RequestInv, ConfirmedInv, Confirmed, IsDeploy, Server
    <3>5. ShownInv' /\ SpentInv'
      BY <2>1, <2>3, <3>2 DEF IInv, ShownInv, SpentInv
    <3>6. QED BY <3>3, <3>4, <3>5 DEF IInv
  <2>6. QED BY <2>3, <2>4, <2>5
<1>10. CASE Reread(found)
  <2>1. IsDeploy /\ req.pc = "reread"
    BY <1>1, <1>10 DEF Reread, RequestInv
  <2>2. /\ req' = [req EXCEPT !.pc = "write", !.text = Updated(found)]
        /\ Unchanged /\ UNCHANGED <<file, pending, shown, seen, spent>>
    BY <1>10 DEF Reread
  <2>3. req' \in Request
    BY <1>1, <1>6, <2>1, <2>2 DEF Request
  <2>4. /\ req'.pc = "write" /\ req'.text = Updated(found) /\ req'.tok = req.tok
        /\ req'.from = req.from /\ req'.call = req.call /\ req'.path = req.path
        /\ req'.value = req.value /\ req'.snap = req.snap
    BY <1>1, <2>2 DEF Request
  <2>5. TypeOK'
    BY <1>1, <1>5, <2>2, <2>3 DEF TypeOK, Unchanged
  <2>6. RequestInv' /\ ConfirmedInv'
    BY <1>1, <1>6, <2>1, <2>2, <2>4
       DEF IInv, RequestInv, ConfirmedInv, Confirmed, IsDeploy, Server
  <2>7. ShownInv' /\ SpentInv'
    BY <2>1, <2>2, <2>4 DEF IInv, ShownInv, SpentInv
  <2>8. QED BY <2>5, <2>6, <2>7 DEF IInv
<1>11. QED BY <1>3, <1>7, <1>8, <1>9, <1>10

LEMMA WriteDoneIInv == ASSUME IInv, WriteDone PROVE IInv'
<1>1. req \in Request /\ TypeOK /\ req.pc = "write" /\ Server(req) # None
  BY BusyRequest DEF WriteDone, IInv
<1>2. /\ file' = [file EXCEPT ![Dest(req)] = req.text]
      /\ spent' = spent \cup {req.tok}
      /\ req' = [req EXCEPT !.pc = "consume"]
      /\ Unchanged /\ UNCHANGED <<pending, shown, seen, events>>
  BY DEF WriteDone
<1>3. req.text \in Text /\ req.tok \in pending
  BY <1>1 DEF IInv, RequestInv, ConfirmedInv, Confirmed
<1>4. req' \in Request
  BY <1>1, <1>2 DEF Request
<1>5. /\ req'.pc = "consume" /\ req'.text = req.text /\ req'.tok = req.tok
      /\ req'.from = req.from /\ req'.call = req.call /\ req'.path = req.path
      /\ req'.value = req.value /\ req'.snap = req.snap
  BY <1>1, <1>2 DEF Request
<1>6. file' \in [Servers \X Paths -> Text \cup {None}]
  BY <1>1, <1>2, <1>3 DEF TypeOK
<1>7. TypeOK'
  BY <1>1, <1>2, <1>3, <1>4, <1>6 DEF TypeOK, Unchanged
<1>8. RequestInv' /\ ConfirmedInv'
  BY <1>1, <1>2, <1>3, <1>5
     DEF IInv, RequestInv, ConfirmedInv, Confirmed, IsDeploy, Server
<1>9. ShownInv' /\ SpentInv'
  BY <1>1, <1>2, <1>5 DEF IInv, ShownInv, SpentInv
<1>10. QED BY <1>7, <1>8, <1>9 DEF IInv

LEMMA ConsumeIInv == ASSUME IInv, Consume PROVE IInv'
<1>1. /\ req.pc = "consume" /\ req' = Idle /\ pending' = pending \ {req.tok}
      /\ Unchanged /\ UNCHANGED <<file, shown, seen, spent, events>>
  BY DEF Consume
<1>2. TypeOK'
  BY <1>1 DEF IInv, TypeOK, Unchanged
<1>3. RequestInv' /\ ConfirmedInv'
  BY <1>1 DEF RequestInv, ConfirmedInv, Confirmed, IsDeploy, Idle
<1>4. ShownInv' /\ SpentInv'
  BY <1>1 DEF IInv, ShownInv, SpentInv
<1>5. QED BY <1>2, <1>3, <1>4 DEF IInv

\* Steps that leave the call in hand and the previews alone.
LEMMA AsideIInv ==
  ASSUME IInv, UNCHANGED <<pending, req, shown, seen, spent, calls>>,
         cfg' \in LoadedConfig, vault' \in [SecretNames -> SecretValue \cup {None}],
         file' \in [Servers \X Paths -> Text \cup {None}], events' \in 0 .. MaxEvents
  PROVE  IInv'
<1>1. TypeOK'
  BY DEF IInv, TypeOK
<1>2. RequestInv' /\ ConfirmedInv' /\ ShownInv' /\ SpentInv'
  BY DEF IInv, RequestInv, ConfirmedInv, ShownInv, SpentInv, Confirmed, IsDeploy, Server
<1>3. QED BY <1>1, <1>2 DEF IInv

LEMMA RestartIInv ==
  ASSUME RemoteWriteAssumption, IInv, Restart PROVE IInv'
<1>1. file' \in [Servers \X Paths -> Text \cup {None}]
  <2>1. CASE req.pc = "write"
    BY <2>1, TornType DEF Restart, IInv
  <2>2. CASE req.pc # "write"
    BY <2>2 DEF Restart, IInv, TypeOK
  <2>3. QED BY <2>1, <2>2
<1>2. cfg' \in LoadedConfig
  BY LoadsType DEF Restart, IInv, TypeOK, LoadedConfig
<1>3. events' \in 0 .. MaxEvents
  BY DEF Restart, Event, IInv, TypeOK, RemoteWriteAssumption
<1>4. /\ pending' = {} /\ shown' = {} /\ req' = Idle
      /\ UNCHANGED <<vault, seen, spent, calls>>
  BY DEF Restart
<1>5. TypeOK'
  BY <1>1, <1>2, <1>3, <1>4 DEF IInv, TypeOK
<1>6. RequestInv' /\ ConfirmedInv' /\ ShownInv' /\ SpentInv'
  BY <1>4 DEF RequestInv, ConfirmedInv, ShownInv, SpentInv, Confirmed, IsDeploy, Idle
<1>7. QED BY <1>5, <1>6 DEF IInv

LEMMA NextIInv ==
  ASSUME RemoteWriteAssumption, IInv, [Next]_vars PROVE IInv'
<1>1. CASE NewCall
  BY <1>1, NewCallIInv
<1>2. CASE ReadStep
  BY <1>2, ReadStepIInv
<1>3. CASE ReadFails
  <2>1. file' \in [Servers \X Paths -> Text \cup {None}] /\ events' \in 0 .. MaxEvents
    BY <1>3 DEF ReadFails, IInv, TypeOK
  <2>2. QED BY <1>3, <2>1, GiveUpIInv DEF ReadFails
<1>4. CASE WriteDone
  BY <1>4, WriteDoneIInv
<1>5. CASE WriteFails
  <2>1. file' \in [Servers \X Paths -> Text \cup {None}] /\ events' \in 0 .. MaxEvents
    BY <1>5, TornType DEF WriteFails, IInv, TypeOK
  <2>2. QED BY <1>5, <2>1, GiveUpIInv DEF WriteFails
<1>6. CASE Consume
  BY <1>6, ConsumeIInv
<1>7. CASE Edit
  <2>1. file' \in [Servers \X Paths -> Text \cup {None}]
    BY <1>7 DEF Edit, IInv, TypeOK, RemoteWriteAssumption
  <2>2. events' \in 0 .. MaxEvents
    BY <1>7 DEF Edit, Event, IInv, TypeOK, RemoteWriteAssumption
  <2>3. QED BY <1>7, <2>1, <2>2, AsideIInv DEF Edit, IInv, TypeOK
<1>8. CASE Reload
  <2>1. cfg' \in LoadedConfig
    BY <1>8, LoadsType DEF Reload, RemoteWriteAssumption
  <2>2. events' \in 0 .. MaxEvents
    BY <1>8 DEF Reload, Event, IInv, TypeOK, RemoteWriteAssumption
  <2>3. QED BY <1>8, <2>1, <2>2, AsideIInv DEF Reload, IInv, TypeOK
<1>9. CASE SetSecret
  <2>1. vault' \in [SecretNames -> SecretValue \cup {None}]
    BY <1>9 DEF SetSecret, IInv, TypeOK, RemoteWriteAssumption
  <2>2. events' \in 0 .. MaxEvents
    BY <1>9 DEF SetSecret, Event, IInv, TypeOK, RemoteWriteAssumption
  <2>3. QED BY <1>9, <2>1, <2>2, AsideIInv DEF SetSecret, IInv, TypeOK
<1>10. CASE Restart
  BY <1>10, RestartIInv
<1>11. CASE UNCHANGED vars
  BY <1>11, AsideIInv DEF vars, IInv, TypeOK
<1>12. QED
  BY <1>1, <1>2, <1>3, <1>4, <1>5, <1>6, <1>7, <1>8, <1>9, <1>10, <1>11 DEF Next

\* The inductive invariant holds in every reachable state.
THEOREM Invariance == Spec => []IInv
<1>1. Init => IInv
  BY InitIInv, RemoteWriteAssumption
<1>2. IInv /\ [Next]_vars => IInv'
  BY NextIInv, RemoteWriteAssumption
<1>3. QED BY <1>1, <1>2, PTL DEF Spec

\* The variables keep their types: no step of a call, and no fault between two
\* steps, leaves the server's bookkeeping or a remote file in a shape the code
\* has no case for.
THEOREM TypeCorrect == Spec => []TypeOK
<1>1. IInv => TypeOK
  BY DEF IInv
<1>2. QED BY <1>1, Invariance, PTL

\* Whatever the faults, a call that got past the token check acts on a change
\* this process has shown.
THEOREM ChangesArePreviewed == Spec => []OnlyPreviewedChanges
<1>1. IInv => OnlyPreviewedChanges
  BY DEF IInv, ConfirmedInv, ShownInv, OnlyPreviewedChanges, Confirmed, IsDeploy
<1>2. QED BY <1>1, Invariance, PTL

\* Whatever the faults, one preview is applied at most once.
THEOREM PreviewsAreUsedOnce == Spec => []NoReplay
<1>1. IInv => NoReplay
  BY DEF IInv, ConfirmedInv, SpentInv, NoReplay, Confirmed
<1>2. QED BY <1>1, Invariance, PTL

-----------------------------------------------------------------------------
(* The protocol implements PreviewGate.                                    *)

Open == IF req.pc = "consume" THEN pending \ {req.tok} ELSE pending

\* Steps that do not touch the gate.
LEMMA GateStutters ==
  ASSUME Open' = Open, spent' = spent PROVE [PG!Next]_(PG!vars)
BY DEF PG!vars, Open

LEMMA GateShows ==
  ASSUME req.pc = "read", req' = Idle, NEW tok, Show(tok)
  PROVE  [PG!Next]_(PG!vars)
<1>1. Open = pending /\ Open' = Open \cup {tok} /\ spent' = spent \ {tok}
  BY DEF Open, Idle, Show
<1>2. QED BY <1>1 DEF Open, PG!Next, PG!Preview

LEMMA GateStep == ASSUME RemoteWriteAssumption, IInv, [Next]_vars PROVE [PG!Next]_(PG!vars)
<1>1. CASE NewCall
  <2>1. req.pc = "idle" /\ req'.pc # "consume" /\ UNCHANGED <<pending, spent>>
    BY <1>1 DEF NewCall, PreviewWrite, ConfirmWrite, BeginDeploy, RefuseDeploy,
                Arrive, Busy, Begin
  <2>2. QED BY <2>1, GateStutters DEF Open
<1>2. CASE ReadStep
  <2>1. PICK found \in {file[Dest(req)], None} :
          ShowWrite(found) \/ ShowDeploy(found) \/ CheckDeploy(found) \/ Reread(found)
    BY <1>2 DEF ReadStep
  <2>2. CASE ShowWrite(found)
    <3>1. CASE Content(found) = req.text
      BY <2>2, <3>1, GateStutters DEF ShowWrite, Open, Idle
    <3>2. CASE Content(found) # req.text
      BY <2>2, <3>2, GateShows DEF ShowWrite
    <3>3. QED BY <3>1, <3>2
  <2>3. CASE ShowDeploy(found)
    BY <2>3, GateShows DEF ShowDeploy
  <2>4. CASE CheckDeploy(found)
    <3>1. req.pc = "read" /\ req'.pc # "consume" /\ UNCHANGED <<pending, spent>>
      <4>1. req \in Request /\ req.pc = "read"
        BY <2>4, BusyRequest DEF CheckDeploy, IInv
      <4>2. QED BY <2>4, <4>1 DEF CheckDeploy, Idle, Request
    <3>2. QED BY <3>1, GateStutters DEF Open
  <2>5. CASE Reread(found)
    <3>1. req.pc = "reread" /\ req'.pc # "consume" /\ UNCHANGED <<pending, spent>>
      <4>1. req \in Request /\ req.pc = "reread"
        BY <2>5, BusyRequest DEF Reread, IInv
      <4>2. QED BY <2>5, <4>1 DEF Reread, Request
    <3>2. QED BY <3>1, GateStutters DEF Open
  <2>6. QED BY <2>1, <2>2, <2>3, <2>4, <2>5
<1>3. CASE ReadFails \/ WriteFails
  BY <1>3, GateStutters DEF ReadFails, WriteFails, Open, Idle
<1>4. CASE WriteDone
  <2>1. req \in Request /\ req.pc = "write" /\ req.tok \in pending
    BY <1>4, BusyRequest DEF WriteDone, IInv, ConfirmedInv, Confirmed
  <2>2. req'.pc = "consume" /\ req'.tok = req.tok
    BY <1>4, <2>1 DEF WriteDone, Request
  <2>3. /\ req.tok \in Open /\ Open' = Open \ {req.tok}
        /\ spent' = spent \cup {req.tok}
    BY <1>4, <2>1, <2>2 DEF WriteDone, Open
  <2>4. QED BY <2>3 DEF Open, PG!Next, PG!Apply
<1>5. CASE Consume
  BY <1>5, GateStutters DEF Consume, Open, Idle
<1>6. CASE Edit \/ Reload \/ SetSecret \/ UNCHANGED vars
  BY <1>6, GateStutters DEF Edit, Reload, SetSecret, vars, Open
<1>7. CASE Restart
  <2>1. Open' = {} /\ spent' = spent
    BY <1>7 DEF Restart, Open, Idle
  <2>2. QED BY <2>1 DEF Open, PG!Next, PG!Reset
<1>8. QED BY <1>1, <1>2, <1>3, <1>4, <1>5, <1>6, <1>7 DEF Next

\* Every behaviour of the two tools is one of the abstract gate: a change is
\* applied only while its preview is open, and only a restart forgets one.
THEOREM GateRefinement == Spec => ImplementsPreviewGate
<1>1. Init => PG!Init
  BY DEF Init, Idle, PG!Init
<1>2. IInv /\ [Next]_vars => [PG!Next]_(PG!vars)
  BY GateStep, RemoteWriteAssumption
<1>3. QED BY <1>1, <1>2, Invariance, PTL DEF Spec, ImplementsPreviewGate, PG!Spec

\* A deployment writes only to the server its token was checked against.
THEOREM DeploysToCheckedServer == Spec => OneServerPerCall
<1> DEFINE Step == WriteDone /\ req.call.tool = "deploy" =>
                     \A f \in Servers \X Paths : file'[f] # file[f] => f[1] = req.from
<1>1. IInv /\ [Next]_vars => [Step]_vars
  <2> SUFFICES ASSUME IInv, WriteDone, req.call.tool = "deploy",
                      NEW f \in Servers \X Paths, file'[f] # file[f]
               PROVE  f[1] = req.from
    OBVIOUS
  <2>1. req \in Request /\ Confirmed /\ IsDeploy
    BY BusyRequest DEF WriteDone, IInv, Confirmed, IsDeploy
  <2>2. req.from = Server(req)
    BY <2>1 DEF IInv, ConfirmedInv
  <2>3. f = Dest(req)
    BY DEF WriteDone, IInv, TypeOK
  <2>4. QED BY <2>2, <2>3 DEF Dest
<1>2. QED BY <1>1, Invariance, PTL DEF Spec, OneServerPerCall

-----------------------------------------------------------------------------
(* What is written, while nobody edits a file during a call and stat works. *)

Calm == "raceEdit" \notin Env /\ "stat" \notin Env

\* What a deployment past the check is about to write is still what its token
\* was computed from: the update of what the file holds.
CalmInv ==
  /\ req.pc = "reread" => /\ Server(req) # None
                          /\ req.tok[3] = Updated(file[Dest(req)])
  /\ req.pc = "write" => req.tok[3] = req.text
  /\ req.pc = "write" /\ IsDeploy => /\ Server(req) # None
                                     /\ req.text = Updated(file[Dest(req)])

\* A call that has not got past the check, or has written.
LEMMA CalmElsewhere ==
  ASSUME req'.pc \notin {"reread", "write"} PROVE CalmInv'
BY DEF CalmInv

\* Steps that leave the call in hand and the files alone.
LEMMA CalmStutters == ASSUME CalmInv, UNCHANGED <<req, file>> PROVE CalmInv'
BY DEF CalmInv, Server, Dest, Updated, IsDeploy

LEMMA CalmStep == ASSUME Calm, IInv, CalmInv, [Next]_vars PROVE CalmInv'
<1>1. CASE NewCall
  <2>1. ASSUME NEW c \in WriteCalls, PreviewWrite(c) PROVE CalmInv'
    BY <2>1, CalmElsewhere DEF PreviewWrite, Begin
  <2>2. ASSUME NEW c \in WriteCalls, NEW confirm \in seen, ConfirmWrite(c, confirm)
        PROVE  CalmInv'
    <3> DEFINE tok == ChangeToken(c.target, c.path, c.text)
    <3>1. CASE Begin("write", c, c.path, None, confirm, c.text, tok)
      <4>1. c.tool = "write" /\ tok[3] = c.text
        BY RemoteWriteAssumption DEF RemoteWriteAssumption, WriteCall, ChangeToken
      <4>2. /\ req'.pc = "write" /\ req'.text = c.text /\ req'.tok = tok
            /\ req'.call = c
        BY <3>1 DEF Begin
      <4> HIDE DEF tok
      <4>3. QED BY <4>1, <4>2 DEF CalmInv, IsDeploy
    <3>2. CASE UNCHANGED req
      BY <2>2, <3>2, CalmStutters DEF ConfirmWrite, Arrive
    <3>3. QED BY <2>2, <3>1, <3>2 DEF ConfirmWrite
  <2>3. ASSUME NEW c \in DeployCalls, NEW confirm \in seen \cup {None},
               BeginDeploy(c, confirm)
        PROVE  CalmInv'
    BY <2>3, CalmElsewhere DEF BeginDeploy, Begin
  <2>4. ASSUME RefuseDeploy PROVE CalmInv'
    BY <2>4, CalmStutters DEF RefuseDeploy, Arrive
  <2>5. QED BY <1>1, <2>1, <2>2, <2>3, <2>4 DEF NewCall
<1>2. CASE ReadStep
  <2>1. req \in Request /\ Server(req) # None /\ RequestInv
    BY <1>2, BusyRequest DEF ReadStep, IInv
  <2>2. PICK found \in {file[Dest(req)], None} :
          ShowWrite(found) \/ ShowDeploy(found) \/ CheckDeploy(found) \/ Reread(found)
    BY <1>2 DEF ReadStep
  <2>3. CASE ShowWrite(found) \/ ShowDeploy(found)
    BY <2>3, CalmElsewhere DEF ShowWrite, ShowDeploy, Idle
  <2>4. CASE CheckDeploy(found)
    <3> DEFINE tok == ChangeToken(req.call.target, req.path, Updated(found))
    <3>1. found = file[Dest(req)] /\ tok[3] = Updated(found) /\ UNCHANGED file
      BY <2>4 DEF CheckDeploy, Reads, Calm, ChangeToken
    <3>2. CASE req' = Idle
      BY <3>2, CalmElsewhere DEF Idle
    <3>3. CASE req' = [req EXCEPT !.pc = "reread", !.tok = tok, !.from = Server(req)]
      <4>1. /\ req'.pc = "reread" /\ req'.tok = tok /\ req'.call = req.call
            /\ req'.path = req.path /\ req'.value = req.value /\ req'.snap = req.snap
        BY <2>1, <3>3 DEF Request
      <4> HIDE DEF tok
      <4>2. Server(req)' = Server(req) /\ Dest(req)' = Dest(req)
              /\ Updated(file[Dest(req)])' = Updated(file[Dest(req)])
        BY <3>1, <4>1 DEF Server, Dest, Updated
      <4>3. QED BY <2>1, <3>1, <4>1, <4>2 DEF CalmInv
    <3>4. QED BY <2>4, <3>2, <3>3 DEF CheckDeploy
  <2>5. CASE Reread(found)
    <3>1. found = file[Dest(req)] /\ req.tok[3] = Updated(found) /\ UNCHANGED file
      BY <2>5 DEF Reread, Reads, Calm, CalmInv
    <3>2. /\ req'.pc = "write" /\ req'.text = Updated(found) /\ req'.tok = req.tok
          /\ req'.call = req.call /\ req'.path = req.path
          /\ req'.value = req.value /\ req'.snap = req.snap
      BY <2>1, <2>5 DEF Request, Reread
    <3>3. Server(req)' = Server(req) /\ Dest(req)' = Dest(req)
            /\ Updated(file[Dest(req)])' = Updated(file[Dest(req)])
      BY <3>1, <3>2 DEF Server, Dest, Updated
    <3>4. QED BY <2>1, <3>1, <3>2, <3>3 DEF CalmInv
  <2>6. QED BY <2>2, <2>3, <2>4, <2>5
<1>3. CASE ReadFails \/ WriteFails \/ Consume \/ Restart
  BY <1>3, CalmElsewhere DEF ReadFails, WriteFails, Consume, Restart, Idle
<1>4. CASE WriteDone
  <2>1. req \in Request
    BY <1>4, BusyRequest DEF WriteDone, IInv
  <2>2. req'.pc = "consume"
    BY <1>4, <2>1 DEF WriteDone, Request
  <2>3. QED BY <2>2, CalmElsewhere
<1>5. CASE Edit
  <2>1. req.pc = "idle" /\ UNCHANGED req
    BY <1>5 DEF Edit, Calm, Busy
  <2>2. QED BY <2>1, CalmElsewhere
<1>6. CASE Reload \/ SetSecret \/ UNCHANGED vars
  BY <1>6, CalmStutters DEF Reload, SetSecret, vars
<1>7. QED BY <1>1, <1>2, <1>3, <1>4, <1>5, <1>6 DEF Next

LEMMA CalmInvariance == ASSUME Calm PROVE Spec => []CalmInv
<1>1. Init => CalmInv
  BY DEF Init, Idle, CalmInv
<1>2. IInv /\ CalmInv /\ [Next]_vars => CalmInv'
  BY CalmStep
<1>3. QED BY <1>1, <1>2, Invariance, PTL DEF Spec

\* Although a deployment reads the file twice, what it writes is the text whose
\* token was confirmed, to the letter: when nobody edits the file between the
\* two reads, and neither takes it for missing.
THEOREM ConfirmedTextIsWritten == ASSUME Calm PROVE Spec => WritesConfirmedText
<1>1. CalmInv /\ [Next]_vars => [WriteDone => req.text = req.tok[3]]_vars
  BY DEF CalmInv, WriteDone
<1>2. QED BY <1>1, CalmInvariance, PTL DEF Spec, WritesConfirmedText

\* A deployment overwrites the env file with the same other assignments and the
\* same comments in the same order, whatever its key and its value, the length
\* of the file, and whatever happened between the preview and the confirmation;
\* under the same proviso as above.
THEOREM OtherLinesSurvive ==
  ASSUME Calm PROVE Spec => KeepsOtherLines
<1> DEFINE Step == WriteDone /\ req.call.tool = "deploy" =>
                     WithoutKey(Content(file'[Dest(req)]).lines, req.call.key, req.value)
                       = WithoutKey(Content(file[Dest(req)]).lines, req.call.key, req.value)
<1>1. IInv /\ CalmInv /\ [Next]_vars => [Step]_vars
  <2> SUFFICES ASSUME IInv, CalmInv, WriteDone, req.call.tool = "deploy"
               PROVE  WithoutKey(Content(file'[Dest(req)]).lines, req.call.key, req.value)
                        = WithoutKey(Content(file[Dest(req)]).lines, req.call.key, req.value)
    OBVIOUS
  <2> DEFINE t == Content(file[Dest(req)])
             k == req.call.key
             v == req.value
             new == NewLines(k, v)
             dropped == {Blank} \cup KeyAssignments(k) \cup {new[i] : i \in DOMAIN new}
  <2>1. req \in Request /\ IsDeploy /\ Server(req) # None
    BY BusyRequest DEF WriteDone, IInv, IsDeploy
  <2>2. file'[Dest(req)] = req.text /\ req.text = EnvUpdate(t, k, v) /\ req.text \in Text
    <3>1. Dest(req) \in Servers \X Paths
      BY <2>1, RequestFields
    <3>2. file'[Dest(req)] = req.text
      BY <3>1 DEF WriteDone, IInv, TypeOK
    <3>3. QED BY <2>1, <3>2 DEF WriteDone, CalmInv, Updated, IInv, RequestInv
  <2>3. Content(file'[Dest(req)]) = EnvUpdate(t, k, v)
    BY <2>2, RemoteWriteAssumption DEF Content, RemoteWriteAssumption
  <2>4. t \in Text
    BY <2>1, FoundType DEF IInv
  <2>5. k \in EnvKey /\ v \in SecretValue
    BY <2>1, RequestFields, CallFields DEF IInv, RequestInv, IsDeploy
  <2>6. /\ Blank \in dropped /\ KeyAssignments(k) \subseteq dropped
        /\ \A j \in DOMAIN NewLines(k, v) : NewLines(k, v)[j] \in dropped
    OBVIOUS
  <2> HIDE DEF t, k, v, dropped
  <2>7. Without(EnvUpdate(t, k, v).lines, dropped) = Without(t.lines, dropped)
    BY <2>4, <2>5, <2>6, EnvUpdateKeeps
  <2>8. QED BY <2>3, <2>7 DEF WithoutKey, dropped, new, t, k, v
<1>2. QED
  BY <1>1, Invariance, CalmInvariance, PTL DEF Spec, KeepsOtherLines

-----------------------------------------------------------------------------
(* Where it is written, while no config gives a name to another server.    *)

NamesKeep ==
  \A c, d \in ConfigFiles, t \in Targets :
    \A s \in Candidates(c, t) \ {None}, u \in Candidates(d, t) \ {None} : s = u

Known(loaded) == \E c \in ConfigFiles : loaded \in Loads(c)

\* What the server routes by was loaded from one of the configs, and so was
\* what it routed each preview by.
PlaceInv ==
  /\ Known(cfg)
  /\ Busy => Known(req.snap)
  /\ \A p \in shown : \E c \in ConfigFiles : p.server \in Candidates(c, p.tok[1]) \ {None}

\* The server of a call in hand is a candidate for its target.
LEMMA ServerIsCandidate ==
  ASSUME IInv, PlaceInv, Busy, Server(req) # None
  PROVE  \E c \in ConfigFiles : Server(req) \in Candidates(c, req.call.target) \ {None}
<1>1. req.call.target \in Targets
  BY BusyRequest, RequestFields DEF Busy, IInv
<1>2. PICK c \in ConfigFiles : req.snap \in Loads(c)
  BY DEF PlaceInv, Known
<1>3. Server(req) \in Candidates(c, req.call.target)
  BY <1>1, <1>2 DEF Loads, Server
<1>4. QED BY <1>3

\* Steps that load no config and show no preview.
LEMMA PlaceStutters ==
  ASSUME PlaceInv, UNCHANGED cfg, shown' \subseteq shown,
         ~ Busy' \/ (Busy /\ UNCHANGED req.snap) \/ req'.snap = cfg
  PROVE  PlaceInv'
<1>1. Known(cfg)' /\ (Busy' => Known(req.snap)')
  BY DEF PlaceInv, Known
<1>2. QED BY <1>1 DEF PlaceInv

LEMMA PlaceStep == ASSUME IInv, PlaceInv, [Next]_vars PROVE PlaceInv'
<1>1. CASE NewCall
  <2>1. UNCHANGED <<cfg, shown>> /\ (UNCHANGED req \/ req'.snap = cfg)
    BY <1>1 DEF NewCall, PreviewWrite, ConfirmWrite, BeginDeploy, RefuseDeploy, Arrive, Begin
  <2>2. UNCHANGED req => ~ Busy'
    BY <1>1 DEF NewCall, PreviewWrite, ConfirmWrite, BeginDeploy, RefuseDeploy, Arrive, Busy
  <2>3. QED BY <2>1, <2>2, PlaceStutters
<1>2. CASE ReadStep
  <2>1. req \in Request /\ Busy /\ Server(req) # None
    BY <1>2, BusyRequest DEF ReadStep, IInv, Busy
  <2>2. PICK found \in {file[Dest(req)], None} :
          ShowWrite(found) \/ ShowDeploy(found) \/ CheckDeploy(found) \/ Reread(found)
    BY <1>2 DEF ReadStep
  <2>3. ASSUME NEW text, Show(ChangeToken(req.call.target, req.path, text)),
               req' = Idle, UNCHANGED cfg
        PROVE  PlaceInv'
    <3> DEFINE new == [tok |-> ChangeToken(req.call.target, req.path, text),
                       server |-> Server(req)]
    <3>1. shown' = shown \cup {new}
      BY <2>3 DEF Show
    <3>2. new.tok[1] = req.call.target /\ new.server = Server(req)
      BY DEF ChangeToken
    <3> HIDE DEF new
    <3>3. \E c \in ConfigFiles : new.server \in Candidates(c, new.tok[1]) \ {None}
      BY <2>1, <3>2, ServerIsCandidate
    <3>4. \A p \in shown' :
            \E c \in ConfigFiles : p.server \in Candidates(c, p.tok[1]) \ {None}
      BY <3>1, <3>3 DEF PlaceInv
    <3>5. Known(cfg)' /\ ~ Busy'
      BY <2>3 DEF PlaceInv, Known, Busy, Idle
    <3>6. QED BY <3>4, <3>5 DEF PlaceInv
  <2>4. CASE ShowWrite(found)
    <3>1. CASE Content(found) = req.text
      BY <2>4, <3>1, PlaceStutters DEF ShowWrite, Unchanged, Busy, Idle
    <3>2. CASE Content(found) # req.text
      BY <2>3, <2>4, <3>2 DEF ShowWrite, Unchanged
    <3>3. QED BY <3>1, <3>2
  <2>5. CASE ShowDeploy(found)
    BY <2>3, <2>5 DEF ShowDeploy, Unchanged
  <2>6. CASE CheckDeploy(found)
    <3>1. req' = Idle \/ req'.snap = req.snap
      BY <2>1, <2>6 DEF CheckDeploy, Request
    <3>2. QED BY <2>1, <2>6, <3>1, PlaceStutters DEF CheckDeploy, Unchanged, Busy, Idle
  <2>7. CASE Reread(found)
    <3>1. req'.snap = req.snap
      BY <2>1, <2>7 DEF Reread, Request
    <3>2. QED BY <2>1, <2>7, <3>1, PlaceStutters DEF Reread, Unchanged
  <2>8. QED BY <2>2, <2>4, <2>5, <2>6, <2>7
<1>3. CASE ReadFails \/ WriteFails \/ Consume
  BY <1>3, PlaceStutters DEF ReadFails, WriteFails, Consume, Unchanged, Busy, Idle
<1>4. CASE WriteDone
  <2>1. req \in Request /\ Busy
    BY <1>4, BusyRequest DEF WriteDone, IInv, Busy
  <2>2. req'.snap = req.snap
    BY <1>4, <2>1 DEF WriteDone, Request
  <2>3. QED BY <1>4, <2>1, <2>2, PlaceStutters DEF WriteDone, Unchanged
<1>5. CASE Edit \/ SetSecret \/ UNCHANGED vars
  <2>1. UNCHANGED <<cfg, req, shown>>
    BY <1>5 DEF Edit, SetSecret, vars
  <2>2. QED BY <2>1 DEF PlaceInv, Known, Busy
<1>6. CASE Reload
  <2>1. Known(cfg)' /\ UNCHANGED <<req, shown>>
    BY <1>6 DEF Reload, Known
  <2>2. QED BY <2>1 DEF PlaceInv, Known, Busy
<1>7. CASE Restart
  <2>1. Known(cfg)'
    BY <1>7 DEF Restart, PlaceInv, Known, Loads
  <2>2. ~ Busy' /\ shown' = {}
    BY <1>7 DEF Restart, Busy, Idle
  <2>3. QED BY <2>1, <2>2 DEF PlaceInv
<1>8. QED BY <1>1, <1>2, <1>3, <1>4, <1>5, <1>6, <1>7 DEF Next

\* The token hashes the name of a server, not the server: when no config the
\* operator loads gives a name to another server, a change is nevertheless
\* applied on a server it was previewed on, also when names come and go.
THEOREM PreviewedServerIsWritten ==
  ASSUME NamesKeep PROVE Spec => AppliedWherePreviewed
<1> DEFINE Step == WriteDone => \E p \in shown : p.tok = req.tok /\ p.server = Server(req)
<1>1. Init => PlaceInv
  BY DEF Init, Idle, Busy, PlaceInv, Known
<1>2. IInv /\ PlaceInv /\ [Next]_vars => PlaceInv'
  BY PlaceStep
<1>3. IInv /\ PlaceInv /\ [Next]_vars => [Step]_vars
  <2> SUFFICES ASSUME IInv, PlaceInv, WriteDone
               PROVE  \E p \in shown : p.tok = req.tok /\ p.server = Server(req)
    OBVIOUS
  <2>1. Busy /\ Confirmed /\ Server(req) # None
    BY DEF WriteDone, Busy, Confirmed
  <2>2. req.tok \in pending /\ req.tok[1] = req.call.target /\ req.call.target \in Targets
    BY <2>1, BusyRequest, RequestFields DEF IInv, ConfirmedInv, Busy
  <2>3. PICK p \in shown : p.tok = req.tok
    BY <2>2 DEF IInv, ShownInv
  <2>4. PICK c \in ConfigFiles : p.server \in Candidates(c, req.call.target) \ {None}
    BY <2>2, <2>3 DEF PlaceInv
  <2>5. PICK d \in ConfigFiles : Server(req) \in Candidates(d, req.call.target) \ {None}
    BY <2>1, ServerIsCandidate
  <2>6. p.server = Server(req)
    BY <2>2, <2>4, <2>5 DEF NamesKeep
  <2>7. QED BY <2>3, <2>6
<1>4. QED BY <1>1, <1>2, <1>3, Invariance, PTL DEF Spec, AppliedWherePreviewed
=============================================================================
