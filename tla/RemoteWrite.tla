----------------------------- MODULE RemoteWrite -----------------------------
(***************************************************************************)
(* The two tools that change a file on a server, write_remote_file and      *)
(* deploy_secret_to_server (handle_request in src/src/mcp.rs), with the SFTP*)
(* calls they make (src/src/ssh.rs), the confirmation tokens of src/src/    *)
(* diff.rs, and what moves under them: people edit remote files, the config *)
(* is reloaded, the vault is edited from the command line, the server       *)
(* process dies.                                                            *)
(*                                                                         *)
(* A tool is called twice: without a token it shows a diff and hands out a  *)
(* token, with the token it applies the change.  Calls are handled one at a *)
(* time; `req' is the call in hand, between two of its remote operations.   *)
(***************************************************************************)
EXTENDS EnvFile

CONSTANTS Servers,      \* IP addresses
          Aliases,      \* names a config gives to servers
          Paths,        \* remote paths
          SecretNames,  \* names in the vault
          None,         \* Rust's None, and the empty confirm_token
          ConfigFiles,  \* the config files an operator may leave on disk
          Values,       \* the values a secret may be given
          Edits,        \* the texts other people may leave in a file
          WriteCalls, DeployCalls,   \* the calls the agent may make
          Env,          \* which of the events below may happen
          MaxCalls, MaxEvents        \* bounds on calls and on events

Targets == Servers \cup Aliases
ConfigFile == [servers : SUBSET Servers, alias : [Servers -> Aliases],
               envPath : [Servers -> Paths \cup {None}]]
WriteCall  == [tool : {"write"}, target : Targets, path : Paths, text : Text]
DeployCall == [tool : {"deploy"}, target : Targets, path : Paths \cup {None},
               key : EnvKey, secret : SecretNames]
Call == WriteCall \cup DeployCall

EnvEvents == {"edit",      \* a remote file changes between two calls
              "raceEdit",  \* a remote file changes during a call
              "reload",    \* the config file is edited and reloaded
              "secret",    \* a secret is set or removed
              "restart",   \* the server process dies and is started again
              "stat"}      \* SFTP stat fails on a file that exists

ASSUME RemoteWriteAssumption ==
  /\ None \notin Servers \cup Paths \cup Text \cup SecretValue
  /\ ConfigFiles \subseteq ConfigFile /\ ConfigFiles # {}
  /\ Values \subseteq SecretValue
  /\ Edits \subseteq Text
  /\ WriteCalls \subseteq WriteCall /\ DeployCalls \subseteq DeployCall
  /\ Env \subseteq EnvEvents
  /\ MaxCalls \in Nat /\ MaxEvents \in Nat

VARIABLES cfg,     \* the config the server last loaded
          vault,   \* the secrets, as the next SecretStore::load finds them
          file,    \* the remote files; None where there is no file
          pending, \* PendingStore: tokens previewed and not yet applied
          req,     \* the call in hand
          shown,   \* history: the previews this process has shown
          seen,    \* the tokens the agent has ever been given
          spent,   \* history: the changes applied since they were last shown
          calls, events  \* counters, for the bounds

vars == <<cfg, vault, file, pending, req, shown, seen, spent, calls, events>>

-----------------------------------------------------------------------------
(* The config.                                                             *)

\* Wrong: any server that has an alias.
AnyNamed(c, t) == IF t \in c.servers THEN {t}
                  ELSE IF c.servers = {} THEN {None} ELSE c.servers

\* The servers get_server_by_target may return for t: the key itself, else a
\* server with that alias, whichever the hash map yields first.
Candidates(c, t) ==
  IF t \in c.servers THEN {t}
  ELSE LET named == {s \in c.servers : c.alias[s] = t}
       IN  IF named = {} THEN {None} ELSE named

Routes == [Targets -> Servers \cup {None}]
LoadedConfig == [source : ConfigFile, route : Routes]

\* Config::load: a loaded map keeps its iteration order as long as it, or a
\* clone of it, lives.
Loads(c) == {[source |-> c, route |-> r] :
               r \in {f \in Routes : \A t \in Targets : f[t] \in Candidates(c, t)}}

-----------------------------------------------------------------------------
(* Tokens, and the call in hand.                                           *)

\* Wrong: the content is left out of the hash.
TokenWithoutText(target, path, text) == <<target, path>>

\* change_token: a hash of the target as the caller named it, the path and
\* the new content; collisions of the 64-bit hash are left out.
ChangeToken(target, path, text) == <<target, path, text>>
Token == Targets \X Paths \X Text

\* snap is run_server's clone of the config, path the resolved path, value the
\* secret read from the vault, text what is to be written, tok the confirmed
\* token, from the server the env file was read from when tok was checked.
Request == [pc : {"read", "reread", "write", "consume"}, call : Call,
            snap : LoadedConfig, path : Paths, value : SecretValue \cup {None},
            confirm : Token \cup {None}, text : Text \cup {None},
            tok : Token \cup {None}, from : Servers \cup {None}]
Idle == [pc |-> "idle"]

Busy == req.pc # "idle"

\* Wrong: the call asks the live config.
LiveServer(r) == cfg.route[r.call.target]

Server(r) == r.snap.route[r.call.target]
Dest(r) == <<Server(r), r.path>>

\* A preview the agent was shown: its token, and the server it was made on.
Preview == [tok : Token, server : Servers]

Init == /\ cfg \in UNION {Loads(c) : c \in ConfigFiles}
        /\ vault \in [SecretNames -> Values]
        /\ file \in [Servers \X Paths -> Edits \cup {None}]
        /\ pending = {}
        /\ req = Idle
        /\ shown = {} /\ seen = {} /\ spent = {}
        /\ calls = 0 /\ events = 0

-----------------------------------------------------------------------------
(* A call arrives.                                                         *)

Arrive == /\ ~ Busy
          /\ calls < MaxCalls
          /\ calls' = calls + 1
          /\ UNCHANGED <<cfg, vault, file, pending, shown, seen, spent, events>>

Begin(pc, c, path, value, confirm, text, tok) ==
  req' = [pc |-> pc, call |-> c, snap |-> cfg, path |-> path, value |-> value,
          confirm |-> confirm, text |-> text, tok |-> tok, from |-> None]

\* write_remote_file without a token: the current file is read first.
PreviewWrite(c) ==
  /\ Arrive
  /\ Begin("read", c, c.path, None, None, c.text, None)

\* Wrong: a token that fits the change is not looked up in PendingStore.
TrustsToken(c, confirm) ==
  LET tok == ChangeToken(c.target, c.path, c.text)
  IN  /\ Arrive
      /\ IF confirm = tok
         THEN Begin("write", c, c.path, None, confirm, c.text, tok)
         ELSE UNCHANGED req

\* write_remote_file with a token: applied, with no read, when the token is
\* that of this very change and is pending; refused otherwise.
ConfirmWrite(c, confirm) ==
  LET tok == ChangeToken(c.target, c.path, c.text)
  IN  /\ Arrive
      /\ IF confirm = tok /\ tok \in pending
         THEN Begin("write", c, c.path, None, confirm, c.text, tok)
         ELSE UNCHANGED req

\* deploy_secret_to_server, with or without a token: the server, the path and
\* the secret are looked up, then the env file is read.  The call ends there
\* when one of them is missing or the vault cannot be loaded.
DeployPath(c) ==
  IF c.path # None THEN c.path ELSE cfg.source.envPath[cfg.route[c.target]]

BeginDeploy(c, confirm) ==
  /\ Arrive
  /\ cfg.route[c.target] # None
  /\ DeployPath(c) # None
  /\ vault[c.secret] # None
  /\ Begin("read", c, DeployPath(c), vault[c.secret], confirm, None, None)

\* The load may fail for reasons of its own, so a refusal is always possible.
RefuseDeploy == DeployCalls # {} /\ Arrive /\ UNCHANGED req

-----------------------------------------------------------------------------
(* The steps of a call.                                                    *)

Event == events < MaxEvents /\ events' = events + 1

Unchanged == UNCHANGED <<cfg, vault, calls>>

Content(found) == IF found = None THEN EmptyText ELSE found

\* read_remote_file_if_exists returns Ok(found): any failure of stat counts
\* as a missing file.
Reads(found) ==
  \/ found = file[Dest(req)] /\ UNCHANGED events
  \/ "stat" \in Env /\ found = None /\ Event

\* It returns Err: unknown target, no connection, open or read refused.
ReadFails ==
  /\ req.pc \in {"read", "reread"}
  /\ req' = Idle
  /\ Unchanged /\ UNCHANGED <<file, pending, shown, seen, spent, events>>

Show(tok) ==
  /\ pending' = pending \cup {tok}
  /\ shown' = shown \cup {[tok |-> tok, server |-> Server(req)]}
  /\ seen' = seen \cup {tok}
  /\ spent' = spent \ {tok}

\* The dry run of write_remote_file: nothing to confirm when nothing changes.
ShowWrite(found) ==
  /\ req.pc = "read" /\ req.call.tool = "write"
  /\ Reads(found)
  /\ IF Content(found) = req.text
     THEN UNCHANGED <<pending, shown, seen, spent>>
     ELSE Show(ChangeToken(req.call.target, req.path, req.text))
  /\ req' = Idle
  /\ Unchanged /\ UNCHANGED file

\* The env file with the secret set in it.
Updated(found) == EnvUpdate(Content(found), req.call.key, req.value)

\* The dry run of deploy_secret_to_server.
ShowDeploy(found) ==
  /\ req.pc = "read" /\ req.call.tool = "deploy" /\ req.confirm = None
  /\ Reads(found)
  /\ Show(ChangeToken(req.call.target, req.path, Updated(found)))
  /\ req' = Idle
  /\ Unchanged /\ UNCHANGED file

\* The confirming call: the token is recomputed from what the file holds now.
CheckDeploy(found) ==
  LET tok == ChangeToken(req.call.target, req.path, Updated(found))
  IN  /\ req.pc = "read" /\ req.call.tool = "deploy" /\ req.confirm # None
      /\ Reads(found)
      /\ req' = IF req.confirm = tok /\ tok \in pending
                THEN [req EXCEPT !.pc = "reread", !.tok = tok, !.from = Server(req)]
                ELSE Idle
      /\ Unchanged /\ UNCHANGED <<file, pending, shown, seen, spent>>

\* Wrong: the secret is looked up once more.
ReadsVaultAgain(found) ==
  /\ req.pc = "reread"
  /\ Reads(found)
  /\ vault[req.call.secret] # None
  /\ req' = [req EXCEPT !.pc = "write",
                 !.text = EnvUpdate(Content(found), req.call.key, vault[req.call.secret])]
  /\ Unchanged /\ UNCHANGED <<file, pending, shown, seen, spent>>

\* update_remote_env_file reads the file again and computes the text again.
Reread(found) ==
  /\ req.pc = "reread"
  /\ Reads(found)
  /\ req' = [req EXCEPT !.pc = "write", !.text = Updated(found)]
  /\ Unchanged /\ UNCHANGED <<file, pending, shown, seen, spent>>

\* ssh::write_remote_file creates, that is truncates, the file, then writes.
WriteDone ==
  /\ req.pc = "write" /\ Server(req) # None
  /\ file' = [file EXCEPT ![Dest(req)] = req.text]
  /\ spent' = spent \cup {req.tok}
  /\ req' = [req EXCEPT !.pc = "consume"]
  /\ Unchanged /\ UNCHANGED <<pending, shown, seen, events>>

\* What a write that stopped somewhere leaves, to whole lines: the file as it
\* was, or the first lines of the new text.
Torn ==
  {file} \cup (IF Server(req) = None THEN {}
               ELSE {[file EXCEPT ![Dest(req)] = Join(SubSeq(req.text.lines, 1, n))] :
                       n \in 0 .. Len(req.text.lines)})

\* Wrong: a failed attempt uses up the token; a done one does not.
FailureUsesToken ==
  /\ req.pc = "write"
  /\ file' \in Torn
  /\ pending' = pending \ {req.tok}
  /\ req' = Idle
  /\ Unchanged /\ UNCHANGED <<shown, seen, spent, events>>
KeepsToken ==
  /\ req.pc = "consume"
  /\ req' = Idle
  /\ Unchanged /\ UNCHANGED <<file, pending, shown, seen, spent, events>>

\* An error while writing: the token stays pending.
WriteFails ==
  /\ req.pc = "write"
  /\ file' \in Torn
  /\ req' = Idle
  /\ Unchanged /\ UNCHANGED <<pending, shown, seen, spent, events>>

\* The write returned Ok: the token is used up and the agent answered.
Consume ==
  /\ req.pc = "consume"
  /\ pending' = pending \ {req.tok}
  /\ req' = Idle
  /\ Unchanged /\ UNCHANGED <<file, shown, seen, spent, events>>

-----------------------------------------------------------------------------
(* What happens around the server.                                         *)

\* Someone else leaves a text in a remote file, or removes it.
Edit == /\ \/ "edit" \in Env /\ ~ Busy
           \/ "raceEdit" \in Env
        /\ Event
        /\ \E f \in Servers \X Paths, t \in Edits \cup {None} :
             file' = [file EXCEPT ![f] = t]
        /\ UNCHANGED <<cfg, vault, pending, req, shown, seen, spent, calls>>

\* The watcher loads the config again; a call in hand keeps its clone.
Reload == /\ "reload" \in Env
          /\ Event
          /\ \E c \in ConfigFiles : cfg' \in Loads(c)
          /\ UNCHANGED <<vault, file, pending, req, shown, seen, spent, calls>>

\* mcp_deploy secret add, or remove.
SetSecret == /\ "secret" \in Env
             /\ Event
             /\ \E n \in SecretNames, v \in Values \cup {None} :
                  vault' = [vault EXCEPT ![n] = v]
             /\ UNCHANGED <<cfg, file, pending, req, shown, seen, spent, calls>>

\* The server process dies, perhaps in the middle of a write, and is started
\* again: PendingStore is in memory only.
Restart == /\ "restart" \in Env
           /\ Event
           /\ file' \in IF req.pc = "write" THEN Torn ELSE {file}
           /\ cfg' \in Loads(cfg.source)
           /\ pending' = {} /\ shown' = {}
           /\ req' = Idle
           /\ UNCHANGED <<vault, seen, spent, calls>>

-----------------------------------------------------------------------------
NewCall == \/ \E c \in WriteCalls :
                PreviewWrite(c) \/ \E confirm \in seen : ConfirmWrite(c, confirm)
           \/ \E c \in DeployCalls :
                (\E confirm \in seen \cup {None} : BeginDeploy(c, confirm))
           \/ RefuseDeploy

ReadStep == /\ req.pc \in {"read", "reread"}
            /\ Server(req) # None
            /\ \E found \in {file[Dest(req)], None} :
                 \/ ShowWrite(found)
                 \/ ShowDeploy(found)
                 \/ CheckDeploy(found)
                 \/ Reread(found)

Next == \/ NewCall \/ ReadStep \/ ReadFails \/ WriteDone \/ WriteFails \/ Consume
        \/ Edit \/ Reload \/ SetSecret \/ Restart

Spec == Init /\ [][Next]_vars

-----------------------------------------------------------------------------
(* Properties.                                                             *)

\* Type invariant.
TypeOK == /\ cfg \in LoadedConfig
          /\ vault \in [SecretNames -> SecretValue \cup {None}]
          /\ file \in [Servers \X Paths -> Text \cup {None}]
          /\ pending \subseteq Token
          /\ req \in Request \cup {Idle}
          /\ shown \subseteq Preview
          /\ seen \subseteq Token
          /\ spent \subseteq Token
          /\ calls \in 0 .. MaxCalls
          /\ events \in 0 .. MaxEvents

\* The strengthening that makes the two invariants below inductive.
Confirmed == req.pc \in {"reread", "write", "consume"}
IsDeploy == req.pc # "idle" /\ req.call.tool = "deploy"

\* What a call in hand has read, by its step.
RequestInv ==
  /\ req.pc \in {"write", "consume"} => req.text \in Text
  /\ req.pc = "read" /\ ~ IsDeploy => req.text \in Text
  /\ IsDeploy => req.value \in SecretValue
  /\ req.pc = "reread" => IsDeploy

\* A call past the check holds a pending token that names its own change.
ConfirmedInv ==
  Confirmed => /\ req.tok \in pending
               /\ req.tok[1] = req.call.target
               /\ req.tok[2] = req.path
               /\ ~ IsDeploy => req.tok[3] = req.text
               /\ IsDeploy => req.from = Server(req)

\* Every pending token was shown by this process.
ShownInv == \A t \in pending : \E p \in shown : p.tok = t

\* No pending change is spent, but for the one whose token is being removed.
SpentInv == \A t \in pending \cap spent : req.pc = "consume" /\ t = req.tok

IInv == TypeOK /\ RequestInv /\ ConfirmedInv /\ ShownInv /\ SpentInv

\* A call that got past the token check acts on a change this very process has
\* shown in a preview: the same target and path and, for write_remote_file, the
\* very text to be written; whatever was edited, reloaded or restarted between
\* the two calls (PendingStore's promise, mcp.rs:14).
OnlyPreviewedChanges ==
  Confirmed =>
    /\ \E p \in shown : p.tok = req.tok
    /\ req.tok[1] = req.call.target
    /\ req.tok[2] = req.path
    /\ req.call.tool = "write" => req.tok[3] = req.text

\* One preview is applied at most once: a call that got past the check acts on
\* a change not applied since it was last shown, also when earlier attempts
\* failed half-way, and when the process died between the remote write and the
\* removal of the token.
NoReplay == req.pc \in {"reread", "write"} => req.tok \notin spent

\* The protocol implements the abstract gate: a token leaves PendingStore only
\* by being applied or by a restart, never by a failed attempt.
PG == INSTANCE PreviewGate
        WITH open <- IF req.pc = "consume" THEN pending \ {req.tok} ELSE pending,
             spent <- spent

ImplementsPreviewGate == PG!Spec

\* A deployment writes to the server whose env file its token was checked
\* against, though the config may be reloaded in between (run_server hands the
\* call a clone).
OneServerPerCall ==
  [][WriteDone /\ req.call.tool = "deploy" =>
       \A f \in Servers \X Paths : file'[f] # file[f] => f[1] = req.from]_vars

\* What is written is, to the letter, the text whose token was confirmed.
\* Nobody may edit the file while the call runs, nor may stat fail.
WritesConfirmedText == [][WriteDone => req.text = req.tok[3]]_vars

\* A deployment keeps every other line of the file it overwrites, whatever its
\* key.  Same proviso.
KeepsOtherLines ==
  [][WriteDone /\ req.call.tool = "deploy" =>
       WithoutKey(Content(file'[Dest(req)]).lines, req.call.key, req.value)
         = WithoutKey(Content(file[Dest(req)]).lines, req.call.key, req.value)]_vars

\* A change is applied to a server it was previewed on.  The config must not
\* have been reloaded since.
AppliedWherePreviewed ==
  [][WriteDone => \E p \in shown : p.tok = req.tok /\ p.server = Server(req)]_vars
=============================================================================
