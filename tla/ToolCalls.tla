------------------------------ MODULE ToolCalls ------------------------------
(***************************************************************************)
(* One call of a tool that reads (src/src/mcp.rs, handle_request): what the *)
(* caller asks is checked by a guard, a remote end is asked, and what it    *)
(* answers is scrubbed with the secrets that the vault holds.  Meanwhile    *)
(* other processes change the vault.  A call leaves nothing behind for the  *)
(* next one, so one call is enough.                                         *)
(*                                                                         *)
(* The commands cli and gcloud of main.rs take the same steps as            *)
(* run_command and gcloud_command.                                          *)
(***************************************************************************)
EXTENDS CommandGuard, SqlGuard, HttpService, Scrubber

CONSTANTS Names,           \* names of secrets
          Values,          \* values of secrets
          Vaults,          \* what the vault may hold when a call begins
          Outputs,         \* what remote ends answer
          Commands,        \* commands that callers give
          PrefixLists,     \* allowed_command_prefixes of the servers; {}: none
          SqlTexts,        \* SQL that callers give
          MaxEvents,       \* bound on the events around the call
          None

\* secret add refuses an empty value.  The secret of a service may have none.
ASSUME ToolCallsAssumption == /\ None \notin Values /\ <<>> \notin Values
                              /\ Values \subseteq Seq(STRING) /\ Outputs \subseteq Seq(STRING)
                              /\ IsFiniteSet(Names)
                              /\ \A s \in Services : s.secret_name \in Names
                              /\ Vaults \subseteq [Names -> Values \cup {None}]
                              /\ Commands \subseteq Seq(STRING)
                              /\ SqlTexts \subseteq
                                   [parses : BOOLEAN, expands : BOOLEAN, statements : Seq(Statements)]
                              /\ MaxEvents \in Nat

VARIABLES vault,     \* the secrets: a value, or None, for each name
          readable,  \* can the vault be read?
          events,    \* how many events there were
          pc,        \* the call: see Steps
          tool,      \* its tool
          sent,      \* what the remote end was asked and has not answered
          held,      \* the values that the call has loaded
          output,    \* what the remote end answered
          answer,    \* what the caller is given
          lasting    \* the values that the vault held all through the call

vars == <<vault, readable, events, pc, tool, sent, held, output, answer, lasting>>
world == <<vault, readable, events, lasting>>

Steps == {"idle", "remote", "body", "returned", "answered"}
ServerTools == {"run_command", "read_remote_file", "query_database", "list_db_tables"}
Tools == ServerTools \cup {"list_local_secret_names", "gcloud_command", "call_service_api"}

\* Wrong: a name without a value counts.
KnownWithGaps == IF readable THEN {vault[n] : n \in Names} ELSE {}

\* known_secret_values, known_shared_secret_values: nothing if the vault cannot be read.
Known == IF readable THEN {vault[n] : n \in Names} \ {None} ELSE {}

Init == /\ vault \in Vaults
        /\ readable \in BOOLEAN
        /\ events = 0
        /\ pc = "idle" /\ tool = None /\ sent = None
        /\ held = {} /\ output = <<>> /\ answer = <<>>
        /\ lasting = {}

-----------------------------------------------------------------------------
(* A call begins: it is refused, or the remote end is asked.               *)

Begin(t) == /\ pc = "idle"
            /\ tool' = t /\ lasting' = Known
            /\ UNCHANGED <<vault, readable, events, output>>

\* An error of the server's own, with nothing in it that was read.
Refuse == pc' = "answered" /\ answer' = <<>> /\ UNCHANGED <<sent, held>>

Ask(what) == pc' = "remote" /\ sent' = what /\ UNCHANGED <<held, answer>>

RunCommand(c, prefixes) ==
  /\ Begin("run_command")
  /\ \/ ValidateCommand(c, prefixes) /\ Ask([command |-> c])
     \/ ~ ValidateCommand(c, prefixes) /\ Refuse

\* A path with ".env" in it is refused.
ReadRemoteFile(isEnv) ==
  /\ Begin("read_remote_file")
  /\ \/ isEnv /\ Refuse
     \/ ~ isEnv /\ Ask([file |-> isEnv])

\* The statements that psql is given: the text stands between double quotes in a
\* command, where the shell of the server puts other text for a dollar, a backtick or
\* a backslash in it (expands).
Given(sql) == IF sql.expands THEN {other.statements : other \in SqlTexts} ELSE {sql.statements}

\* A database has the flag readonly or not; without a database, or a server, the
\* call is refused.
QueryDatabase(sql, readonly) ==
  /\ Begin("query_database")
  /\ \/ /\ readonly => ValidateReadonlyQuery(sql)
        /\ \E given \in Given(sql) : Ask([sql |-> sql, given |-> given, readonly |-> readonly])
     \/ Refuse

ListDbTables == Begin("list_db_tables") /\ (Ask([tables |-> TRUE]) \/ Refuse)

\* The names of what the vault holds, but not the values.
ListSecretNames ==
  /\ Begin("list_local_secret_names")
  /\ pc' = "answered"
  /\ answer' \in IF readable THEN SetToSeqs({n \in Names : vault[n] # None}) ELSE {<<>>}
  /\ UNCHANGED <<sent, held>>

\* The arguments are checked by GcloudGuard.  The values to scrub are loaded first.
GcloudCommand ==
  /\ Begin("gcloud_command")
  /\ \/ /\ pc' = "remote" /\ sent' = [gcloud |-> TRUE]
        /\ held' = Known
        /\ UNCHANGED answer
     \/ Refuse

\* The call is authorized, and only then is the credential loaded.
CallService(s, c) ==
  LET ok == MethodAllowed(s, c.method) /\ PathAllowed(s, c.path)
  IN /\ Begin("call_service_api")
     /\ \/ /\ ok /\ readable /\ vault[s.secret_name] # None
           /\ held' = {vault[s.secret_name]}
           /\ pc' = "remote" /\ sent' = [service |-> s, request |-> Request(s, c)]
           /\ UNCHANGED answer
        \/ /\ ~ ok \/ ~ readable \/ vault[s.secret_name] = None
           /\ sent' = [service |-> s, refused |-> c]
           /\ pc' = "answered" /\ answer' = <<>> /\ UNCHANGED held

-----------------------------------------------------------------------------
(* The remote end.                                                         *)

\* It answers with any text.
Returns(text) ==
  /\ pc = "remote" /\ tool # "call_service_api"
  /\ pc' = "returned" /\ output' = text /\ sent' = None
  /\ UNCHANGED <<world, tool, held, answer>>

\* An error of SSH names the step that failed, and holds nothing that was read.
ConnectionFails ==
  /\ pc = "remote" /\ tool \in ServerTools
  /\ pc' = "answered" /\ sent' = None
  /\ UNCHANGED <<world, tool, held, output, answer>>

\* A service sends its status; the body follows.
Responds ==
  /\ pc = "remote" /\ tool = "call_service_api"
  /\ pc' = "body" /\ sent' = None
  /\ UNCHANGED <<world, tool, held, output, answer>>

BodyArrives(text) ==
  /\ pc = "body"
  /\ pc' = "returned" /\ output' = text
  /\ UNCHANGED <<world, tool, sent, held, answer>>

\* Sending or reading fails.  The message of the error may hold anything, such as
\* the URL, which has the credential in it.
RequestFails(text) ==
  /\ tool = "call_service_api" /\ pc \in {"remote", "body"}
  /\ pc' = "returned" /\ output' = text /\ sent' = None
  /\ UNCHANGED <<world, tool, held, answer>>

\* Wrong: a client without a timeout.
NeverTimesOut == FALSE /\ UNCHANGED vars

\* The request is not over in 30 seconds, which is an error like others.
TimesOut == \E text \in Outputs : RequestFails(text)

-----------------------------------------------------------------------------
(* The answer.                                                             *)

\* Wrong: the credential is loaded once more, to be removed.
RedactsAgain == ScrubFormats(FoldLeft(Replaced, output, SetToSeq(Known)))

\* redact_secret with the credential that was sent, then the formats.
Redacted == LET secret == CHOOSE v \in held : TRUE
            IN ScrubFormats(Replaced(output, secret))

\* scrub_for_target: the vault is read now.
Scrubbed == IF tool = "gcloud_command" THEN ScrubOutputs(output, held)
                                       ELSE ScrubOutputs(output, Known)

Answer ==
  /\ pc = "returned"
  /\ pc' = "answered"
  /\ \/ tool = "call_service_api" /\ answer' = Redacted /\ UNCHANGED held
     \/ /\ tool # "call_service_api"
        /\ held' = IF tool = "gcloud_command" THEN held ELSE Known
        /\ answer' \in Scrubbed
  /\ UNCHANGED <<world, tool, sent, output>>

-----------------------------------------------------------------------------
(* What happens around the call.                                           *)

Event == /\ events < MaxEvents /\ events' = events + 1
         /\ pc \in {"remote", "body", "returned"}
         /\ lasting' = lasting \cap Known'
         /\ UNCHANGED <<pc, tool, sent, held, output, answer>>

ChangeSecret(n, v) == v # vault[n] /\ vault' = [vault EXCEPT ![n] = v] /\ UNCHANGED readable /\ Event

ToggleReadable == readable' = ~ readable /\ UNCHANGED vault /\ Event

Calls == \/ \E c \in Commands, ps \in PrefixLists : RunCommand(c, ps)
         \/ \E isEnv \in BOOLEAN : ReadRemoteFile(isEnv)
         \/ \E sql \in SqlTexts, readonly \in BOOLEAN : QueryDatabase(sql, readonly)
         \/ ListDbTables \/ ListSecretNames \/ GcloudCommand
         \/ \E s \in Services, c \in ServiceCalls : CallService(s, c)

Next == \/ Calls
        \/ \E text \in Outputs : Returns(text) \/ BodyArrives(text) \/ RequestFails(text)
        \/ ConnectionFails \/ Responds \/ TimesOut
        \/ Answer
        \/ \E n \in Names, v \in Values \cup {None} : ChangeSecret(n, v)
        \/ ToggleReadable

\* The client of the services has a timeout, from the connection to the end of the
\* body, and the server goes on.  Nothing makes a remote end answer.
Spec == Init /\ [][Next]_vars /\ WF_vars(TimesOut) /\ WF_vars(Answer)

-----------------------------------------------------------------------------
(* Properties.                                                             *)

Chars == (UNION {{o[i] : i \in DOMAIN o} : o \in Outputs}) \cup {Mask} \cup Names
Texts == Seq(Chars)

\* Type invariant.
TypeOK == /\ vault \in [Names -> Values \cup {None}] /\ readable \in BOOLEAN
          /\ events \in 0 .. MaxEvents
          /\ pc \in Steps /\ tool \in Tools \cup {None}
          /\ held \subseteq Values /\ lasting \subseteq Values
          /\ output \in Texts /\ answer \in Texts

\* In a command that is run on a server no word shows the environment, if the shell
\* takes it as it is spelled: behind whichever separator, in a substitution, after
\* assignments or after another program (validate_command looks for words, the
\* server runs a shell).  A word that is quoted or expanded is not looked through.
GuardedPrograms ==
  pc = "remote" /\ tool = "run_command" =>
    \A word \in PlainWords(sent.command) : ~ ShowsEnvironment(word)

\* What a read-only database is given does not change its data, though its session
\* is only read-only by default, and holds no INSERT, UPDATE, DELETE or definition
\* wherever it stands (validate_readonly_query and PGOPTIONS of query_database).
\* SELECT ... INTO and functions that write are left to the session, and nothing is
\* said of a text that the shell of the server expands.
ReadOnlyStaysReadOnly ==
  pc = "remote" /\ tool = "query_database" /\ sent.readonly /\ ~ sent.sql.expands =>
    /\ ~ MayChangeData(sent.given, TRUE)
    /\ \A i \in DOMAIN sent.given : ~ PlainWrite[sent.given[i]]

\* A request goes to a place at or below what the config allows, with an allowed verb
\* and a header for the credential that the caller has not given; and a call whose
\* URL the config allows is not refused for its path, but for two dots, or for a
\* prefix that ends in a slash or is empty (validate_path_allowed and build_url each
\* trim slashes in their own way, and the parser of URLs reads dots).  Nothing is
\* said of where a request goes whose path has two dots in another spelling, or
\* backslashes: the guard looks for ".." between slashes and nothing else.
RequestsMatchAllowList ==
  tool = "call_service_api" /\ sent # None =>
    LET s == sent.service
    IN IF pc = "remote"
       THEN /\ SpelledOut(sent.request.url) => Permitted(s, Requested(sent.request.url))
            /\ MethodAllowed(s, sent.request.method)
            /\ [name |-> s.auth_name, from |-> "caller"] \notin sent.request.headers
       ELSE LET url == BuildUrl(s.base_url, sent.refused.path)
            IN \/ PathAllowed(s, sent.refused.path)
               \/ Climbs(sent.refused.path) \/ ~ Permitted(s, url) \/ EndsInSlash(s)

\* A value that the vault holds all through a call, long enough to be looked for, is
\* not in the answer, however the vault changes beside it, in whatever order values
\* are replaced, whether they are loaded before the call or after it.
LastingSecretsStay ==
  pc = "answered" /\ tool # "call_service_api" =>
    \A v \in Literals(lasting) : ~ Occurs(v, answer)

\* Values that do not overlap are masked to the last character, and everything else
\* is in the answer as it was, whatever the order (the loop of scrub_output).
OnlySecretsAreMasked ==
  pc = "answered" /\ tool \in ServerTools \cup {"gcloud_command"} /\ Apart(Literals(held)) =>
    Unmasked(answer) = Public(output, Literals(held))

\* The credential that a request was made with is not in its answer, be it a body or
\* an error, however short it is and whatever the vault holds by then (redact_secret).
CredentialStays ==
  pc = "answered" /\ tool = "call_service_api" =>
    \A v \in held : ~ Occurs(v, answer)

\* A call to a service ends whatever the service does, or leaves undone (the client
\* has a timeout for the whole request, body included).
ServiceCallEnds ==
  (tool = "call_service_api" /\ pc # "answered") ~> (pc = "answered")
=============================================================================
