# Verification of mcp_deploy

`mcp_deploy` is an MCP server: an AI agent sends JSON-RPC requests on its
standard input, and the server runs commands, changes files, queries databases
and calls services on remote machines for it, under the guards of a config file
and with secrets the agent never sees. A command line (`mcp_deploy secret`,
`audit`, `gcloud`, `cli`) shares the files of the server.

This directory holds TLA+ modules translated from the source under `src/`, TLC
configurations that check them, and proofs that TLAPS checks. Every definition
that stands for code names its file and lines in `PROJECT.json` (`map`).

## 1. Inventory

| Component | State it keeps | Operations | Talks to |
|---|---|---|---|
| Write protocol (`mcp.rs`, `diff.rs`, `ssh.rs`) | `PendingStore`: the tokens handed out by previews, in memory | `write_remote_file`, `deploy_secret_to_server`: preview, confirm | config (server lookup), vault, remote files over SFTP |
| Env files (`ssh.rs`, `diff.rs`) | the remote env file | `compute_env_update`, `redact_env_value` | write protocol |
| Audit log (`audit.rs`) | the log file; last hash and next sequence number in memory | `open`, `record`, `read_entries`, `verify_chain` | server loop, `audit verify/show` |
| Server loop and hot reload (`mcp.rs`, `config.rs`) | config in memory behind a lock, the request in hand | `run_server`, `handle_request`, the watcher's closure | all tools, audit log |
| Vault of secrets (`config.rs`) | a JSON file, or an entry of the OS keychain | `load`, `set`, `remove`, migration | write protocol, scrubber, gcloud, database tools |
| gcloud runner (`gcloud.rs`) | a temporary key file, a child process, two pipes and threads | `activate_service_account`, `run_gcloud` | vault, gcloud |
| Config (`config.rs`) | servers, services, GCP settings | `load`, `get_server_by_target` | everybody |
| Guards (`command_guard.rs`, `sql_guard.rs`, `gcloud_guard.rs`) | none: pure functions | validate one command, statement, argument list | `handle_request` |
| HTTP services (`http.rs`) | none | validate, join the path, one request with a timeout | services |
| Scrubber (`scrubber.rs`) | none | replace known secrets and patterns in output | vault, tools |
| Tools that read (`mcp.rs`, `ssh.rs`) | the call in hand | `run_command`, `read_remote_file`, `query_database`, `list_db_tables`, `list_local_secret_names`, `gcloud_command`, `call_service_api` | guards, remote ends, vault, scrubber |
| Command line (`main.rs`) | none of its own | one subcommand per process | vault, log, gcloud |

How they interact. The main thread handles one request at a time with its own
clone of the config; the watcher's thread replaces the config meanwhile. Two
tools change remote files; each asks for a preview first and a token after.
Nearly every tool call ends in an audit record. Other processes (a second
server, the command line, an editor) share the config, the vault and the log with
the server through the file system, with no lock. Remote files belong to
everybody.

What is hard, and what makes each part correct:

* **Write protocol.** Between preview and confirmation, and between the remote
  operations of one call, the file, the config, the vault and the process may
  change; a write may fail half-way. It is correct if nothing is applied that was
  not previewed, nothing twice, nowhere else, and nothing else is lost.
* **Audit log.** Two writes per record, either may fail; the process may die
  between them. It is correct if acknowledged records are there, in order,
  whatever can be read verifies, and tampering does not.
* **Server loop.** Edits race loads, calls hang, records and answers fail. It is
  correct if no edit is lost, every request is answered, and what was done is
  recorded as it was answered.
* **Vault.** Whole-file saves without a lock, crashes in the middle of a save or
  of the migration. It is correct if each operation changes one secret, at once
  or not at all.
* **gcloud runner.** Pipes that fill, a deadline, children of children, failures
  with the key on disk. It is correct if calls end with their whole output, and
  the key goes.
* **Tools that read.** A guard judges a text that something else interprets later: a
  shell, a database, a service. The vault changes between the request and the
  scrubbing of its answer, and secrets overlap. It is correct if nothing is asked
  that the config forbids, and no secret comes back.

## 2. Modules

| Module | What it is |
|---|---|
| `EnvFile` | texts, env-file update, redaction: pure operators |
| `EnvDeploys` | a run of deployments to one env file |
| `PreviewGate` | abstract specification of the preview/confirm protocol |
| `RemoteWrite` | both tools with every SFTP call, and what changes under them; extends `EnvFile`, implements `PreviewGate` |
| `AuditLog` | the log, write by write, and its verification |
| `McpServer` | start, watcher, request loop, recording, answering |
| `AtomicVault` | abstract specification of the vault |
| `Vault` | both backends and the migration, system call by system call; implements `AtomicVault` |
| `GcloudGuard` | which gcloud arguments are accepted, what is added to them, what gcloud makes of them: pure operators |
| `Gcloud` | validation, activation and execution of a gcloud command; extends `GcloudGuard` |
| `CommandGuard`, `SqlGuard`, `HttpService`, `Scrubber` | the three guards with what a shell, a database and a service make of what they accept, and the replacing of secrets: pure operators |
| `ToolCalls` | one call of a tool that reads: guard, remote end, scrubbing, beside a vault that changes; extends the four above |
| `EnvFileProofs`, `EnvDeploysProofs`, `RemoteWriteProofs`, `AuditLogProofs`, `McpServerProofs`, `GcloudProofs`, `VaultProofs`, `ToolCallsProofs` | theorems |
| `MC*` | constants for TLC |

Operators under a comment that begins with "Wrong" are plausible bugs. No
specification uses them; each is put in the place of the definition after it to
see that a property notices.

### EnvFile, EnvDeploys

A text is a sequence of lines and whether a newline ends it, as `str::lines` and
`join("\n")` see it: `Join` says what becomes of a text that ends in a blank
line. A line is an assignment or raw (no `=`). `EnvUpdate` is
`compute_env_update`, `RedactEnvValue` is `redact_env_value`. A secret is a
first line and the lines after it.

The key of a call is any string, for nothing looks at it: `EnvKey` says what of it
stands above the line that assigns, the name that a reader of this line finds, what
follows a `=` in the key, and whether there are blanks around it. The code compares
it with the trimmed name of a line, so that only a key that is exactly a name
(`Exact`) ever matches (`KeyAssignments`); the line that is written assigns the name
all the same. Of a name that is assigned twice some readers take the first line,
others (a shell) the last: `ReadsBack` asks for one assignment, on which they agree.

### RemoteWrite

`req` is the call in hand between two remote operations; its `pc` is `read` (the
server is about to read the file), `reread` (the second read, in
`update_remote_env_file`), `write`, or `consume` (the write returned Ok, the
token is not removed yet). `PreviewWrite`, `ConfirmWrite` and `BeginDeploy` are
the code up to the first remote operation, `ShowWrite`, `ShowDeploy` and
`CheckDeploy` what follows the read, `Reread`, `WriteDone`, `WriteFails` and
`Consume` the rest; `ReadFails` and `RefuseDeploy` are the error returns. `cfg`
is a loaded config: the file, and the server that each name means, because
`get_server_by_target` takes the first match of a hash map that is built anew by
every load (two servers may share an alias). `Torn` is what a failed write may
leave: `sftp.create` truncates first. `Env` says which events of the
environment may happen. A token is the triple that `change_token` hashes; that
two triples may collide in 64 bits is left out.

`shown` (the previews this process made) and `spent` (changes applied since they
were last shown) are history. The agent may present any token it was ever given.

### AuditLog

`lines` are the lines of the file, each with the entry it was meant to hold, `bad`
those whose bytes do not parse, `open` whether the last has no newline yet.
`WriteLine` and `WriteNewline` are the two writes of `writeln!`; `PutBytes` glues
an entry to a line that has no newline, which then no longer parses. `proc` is
each server's `ChainState`, moved on only by a record that returned Ok.

A text is cut up where the separator of the hash (`\x1f`) stands in it. `ComputeHash` is a
function without collisions, not of the record, but of the bytes that `compute_hash`
feeds it: fields of fixed width, then all texts with separators between them, where
nothing tells a separator of the code from one in a text, or how many names there are.
`Plain` says of a record that no text of it has a separator.

### McpServer

`disk` is the version of the config on disk, `mem` the one in memory, `notified`
and `reading` the state of the watcher: an event to handle, what `Config::load`
has read and not yet stored. A request has one of five kinds, by what
`handle_request` does with it (`RequestKinds`). `reached`, `answers` and `lost`
are history: calls that asked a remote system, answers written, calls whose
record failed. `LogBeside`: by default the log is in the directory of the config,
so that each record is an event for the watcher, and the config is loaded again
after each audited call.

### Vault

`proc[p]` is a process in the middle of an operation, `content` what each file
holds, `vault` and `tmp` the files that have the two names. A process that has
the temporary file open keeps writing to that file wherever it has been renamed.
`kept` is history: what was last reported about each name. `backend` is chosen at
the start and the same for all processes.

### GcloudGuard, Gcloud

The caller's steps are those of `main.rs` for a gcloud command:
`validate_gcloud_args`, `activate_service_account`, `run_gcloud`. (The server
activates when it starts, and validates before each `run_gcloud`.) `args` are the
caller's arguments and `BuildArgv(args)` those of the command. A flag's name is a
sequence of pieces, which keeps what matters of it: which name begins with which
other one, and whether it ends in `-file`. `Means` is how gcloud resolves a name:
a full name is this flag, a shorter one every flag that it abbreviates.
After a bare `--`, which the guard lets pass, gcloud takes nothing for a flag (`Given`).
`GcloudFlags`, the flags that the command at hand knows, is a constant. Case is
left out; the value of a flag belongs to it in both its forms.
`child` is the command as the operating system sees it, `orphan` a process it
started that holds its pipes. Output is counted, not spelled. It is taken to be
UTF-8 (the code returns an empty text for output that is not).

### CommandGuard, SqlGuard, HttpService, Scrubber

Each of the three guards stands beside a second definition, of what its text means to
the one that interprets it. The property is that what the first accepts, the second
finds harmless.

* A command is a sequence of pieces (a program, a slash, a blank, a separator, a
  denied word, a quote). `ValidateCommand` is the guard, which compares raw words;
  `PlainWords` are those that the shell of the server takes as they are spelled,
  wherever they stand. A word with a quote, an escape or an expansion in it is not one of
  them: what the shell makes of it is left out. So is case.
* SQL is taken as the parser returns it: statements, and bodies that nest
  (`SetExprReadonly` walks them as `check_set_expr_readonly` does). `MayChangeData`
  is the database, in a session that `PGOPTIONS` makes read-only at first and that a
  statement can make writable again; a select may call a function that writes, and one
  with INTO makes a table. `PlainWrite` is a statement of a kind that writes (INSERT,
  UPDATE, DELETE, definitions). The parser is external.
* A path is a sequence of slashes, backslashes, dots and other parts. `PathAllowed`,
  `BuildUrl` and `Request` are the code, each with its own way to trim slashes.
  `Requested` is the parser of URLs, which gets what `BuildUrl` makes: it ends the path at
  `?` or `#`, reads a backslash as a slash, and takes the steps that dots ask for, also when
  they are escaped. `Permitted` says of the place that is requested what the config
  allows. Bodies and the values of parameters are left out, and so are the tabs and
  newlines that the parser of URLs skips. `%2f` is not decoded by it.
* A text to scrub is a sequence of characters, one of which stands for any token that
  one of the regular expressions matches (`Formatted`), so that a value is never a part of a
  token, nor is a token cut by a replacement. `Replaced` is `str::replace`;
  `ScrubOutputs` is the set of results, one for each order of a hash map.

### ToolCalls

`sent` is what the remote end was asked and has not answered (or, of a refused call to
a service, what was refused). A query stands between double quotes in a command for the
shell of the server, with only double quotes escaped; `Given` is what `psql` then gets: the
text itself, or, if there is something in it that the shell expands, any text. `held` are the values the call has loaded: a gcloud
command and a call to a service load them before, the tools of servers after the remote
end has answered. `lasting`, the values that the vault held all through the call, is
history. The remote end answers with any text; an error of a request may hold
anything, the URL with the credential included. `ChangeSecret` and `ToggleReadable`
are other processes. `cli` and `gcloud` of `main.rs` take the same steps.

## 3. Runs

`CHECK_DEADLOCK FALSE` stands in every configuration because the bounds below stop
the system; there is nothing else that stops it.

| Run | What it checks | Bounds |
|---|---|---|
| `env_deploys` | `OtherLinesKept`, `LastValueReadsBack`, `RedeployKeepsLines`, `PreviewShowsNoSecret` | every file of up to 3 lines over 2 names, 2 values, comment and blank line; 3 deployments; 5 keys (2 names, one with a blank, one with a `=`, one with a newline); secrets of one line and of two |
| `remote_write` | `OnlyPreviewedChanges`, `NoReplay`, `ImplementsPreviewGate`, `OneServerPerCall` | 2 servers, one or both called `prod`, 1 path, 4 calls, 2 events of any kind |
| `remote_write_calm` | `WritesConfirmedText`, `KeepsOtherLines`, `AppliedWherePreviewed` | the same size; nobody edits during a call, stat works, a name keeps its server (which may be taken out of the config) |
| `audit_log` | `ReadableVerifies`, `AckedIsLog`, `TamperingShows` | one server, 4 lines, 4 records, one of them with a separator in a text, every fault |
| `mcp_server` | `QuietMeansCurrent`, `AnswersAreRecorded`, `OneUnrecordedPerProcess`, `EditsAreLoaded`, `EveryRequestAnswered` | 2 requests of any kind, 2 edits, 2 starts, every fault but an edit during the start |
| `vault` | `ReportsAreKept`, `VaultIsWhole`, `ImplementsAtomicVault` | both backends, 2 processes, 2 names, 4 operations, 4 kinds of first file, failures and crashes; one writer at a time |
| `gcloud` | `OutputIsWhole`, `KeyIsGone`, `CallEnds`, `RunsAsPinned`, `RunsWhereAsked` | 28 requests, each with at most one flag in full, cut short or unknown, two with a bare `--`; pipes of 2, 5 units written to each, hanging, orphans, failures, crashes |
| `tool_calls` | `GuardedPrograms`, `ReadOnlyStaysReadOnly`, `RequestsMatchAllowList`, `LastingSecretsStay`, `OnlySecretsAreMasked`, `CredentialStays`, `ServiceCallEnds` | commands of up to 3 pieces out of 6, and longer ones, with 3 lists of prefixes; SQL nested 3 deep and texts of 2 statements, and one text that a shell expands; paths of up to 2 pieces out of 4, and longer ones, with dots in several spellings, with 5 services; outputs of up to 2 characters out of 3, and longer ones; 2 secrets out of 4 values, one within another, one padded, one too short; `MinLength` 2 (6 in the code); 2 events |
| `remote_write_stat` | violated: `KeepsOtherLines` | stat fails on a file that exists |
| `audit_log_crash` | violated: `StaysReadable` | crashes only |
| `mcp_server_refused` | violated: `EveryCallAudited` | one tool call, no faults |
| `vault_torn` | violated: `VaultIsWhole` | two `secret add` at once |

Why the bounds are enough. A replay or a stale confirmation needs a preview, a
confirmation and one more of either: 4 calls leave one to spare; each hazard of
the environment needs one event, and two give their combinations. The
log needs a record before a fault, the fault, a restart and a record after it; 4
lines leave one to spare, and the theorems need no bound. In the server two edits
suffice for a load that races a save, two requests for one behind another that
hangs, two starts for a crash and what follows it. In the vault a half-written
temporary file needs one crashed save, then one more. A pipe of 2 that is to
take 5 fills twice. The guard looks at each argument alone, so one flag per request is
enough. A call of a reading tool leaves nothing for the next, so one call is enough;
two events let the vault be unreadable for a while, or a secret go and come
back. Three pieces make a program behind a separator and a blank; three
levels of SQL put a write in a union within a table of a query.

Fairness. `McpServer`, `Gcloud` and `ToolCalls` state it. In `McpServer` the watcher's
thread and the main thread each go on while they can; a remote call returns
unless its kind is in `Hangs`, and so does the start: the code gives neither a
timeout (`ssh.rs` sets none, `activate_service_account` waits). In `Gcloud` the
caller, its two threads and a command that does not hang go on. Time must pass
only when the command hangs, so `CallEnds` also says that no other command needs
the deadline to end. The activation is taken to end. In `ToolCalls` the server goes
on, and the client of the services gives up 30 seconds after it began, whatever has
come by then; nothing makes a remote end answer, so only calls to services are said to
end.

## 4. Where code and documentation differ

Four runs end in a violation, each of something the documentation says.

* `remote_write_stat`: any error of `stat` is taken for "no such file", and the
  deployment then replaces a whole env file by one line.
* `audit_log_crash`: a crash between the line and its newline makes the next
  record unreadable, and from then on no server can start with this log.
* `mcp_server_refused`: refused commands, and deployments of secrets that are
  missing, are answered without an audit record.
* `vault_torn`: all processes save through one temporary name, so two `secret
  add` at once can leave an empty vault.

Other limits are provisos of properties that hold. The model shows many of them when the
proviso is lifted in a configuration or in the property:

* `PreviewShowsNoSecret` and `RedeployKeepsLines` without `Recognised`: `env_key` is neither
  trimmed nor validated (`mcp.rs:888`). Under a key that is not exactly a name (blanks, `=`,
  a newline) the line that is written is never taken for an assignment of the key
  (`ssh.rs:227`): every repeated deployment adds it once more, and a preview, which always
  redacts by `mcp.rs:502` and `src/README.md:109-112`, shows the value
  (`diff.rs:50`). Of a value of two lines,
  the second is shown in a preview, and is left behind when the value is replaced.
* `LastValueReadsBack` speaks of names that the file assigns at most once and that one key
  of the run writes. Of a name that is assigned twice the first line is replaced, and a shell
  reads the last. A second spelling of a key, or a further line of a value, may be a second
  assignment.
* `WritesConfirmedText` with `"raceEdit"` in `Env`: a file edited between the
  token check and the second read is updated all the same, with a text whose token
  nobody confirmed.
* `AppliedWherePreviewed` with a config that gives the name to another server: the
  token hashes the name, so it is accepted for the new server.
* `write_remote_file` does not read the file when it is confirmed: an edit since the
  preview is overwritten.
* `ReadableVerifies` with two `Instances`: two servers with one log fork the chain.
* `TamperingShows` says nothing of the removal of the last entry: a log cut short
  verifies. Of edits it speaks only where no text of the record, before or after, holds
  the separator `\x1f` (`Plain`): an edit that moves a boundary between texts, such as a
  secret name into the action, leaves the hash as it was, though `audit.rs:9-10` and
  `src/README.md:803` say that any edit is found.
* `EditsAreLoaded` with `"bootEdit"` in `Faults`: an edit after `Config::load` and
  before the directory is watched is not seen until something there changes.
* `ReportsAreKept` with `Serial = FALSE`: whole-map saves undo each other, and a
  migration undoes a `secret add`. A migration that dies before the rename leaves
  the plain file for good.
* `CallEnds` allows for a process left behind that holds the pipes: `run_gcloud`
  joins its threads without a deadline. `KeyIsGone` allows for a process that dies
  during the activation and leaves the key file.
* `EveryRequestAnswered` allows for a server that has ended. A line of the input that is not
  UTF-8 ends the loop (`mcp.rs:172`), and the requests behind it are not read.
* `RunsAsPinned`: the guard lets a bare `--` pass (`gcloud_guard.rs:101-106`), and the
  server appends `--project` and `--zone` behind it, where gcloud takes neither for a flag:
  the command has no project but the one of its configuration, and no default zone
  (`RunsWhereAsked` leaves these commands out). That the guard refuses no flag which gcloud
  would take for another one is not checked.
* `RunsWhereAsked` speaks of a zone or region that the caller has spelled out.
  `has_flag` knows full names only: after `--zon=b` the default zone is added too,
  and it comes last.
* `GuardedPrograms` speaks of words that the shell takes as they are spelled.
  `validate_command` compares raw words (`command_guard.rs:78-80`) and the shell removes
  quotes and escapes, and expands, before it picks a program. So `src/README.md:95`, that
  `env` and `printenv` are blocked, is true of these names spelled out and not of every way to
  write them. An allowed prefix confines the beginning of a command, not what follows a
  separator.
* `ReadOnlyStaysReadOnly` says nothing of a text in which the shell of the server finds
  something to expand or to unescape (`ssh.rs:180-189` escapes double quotes and nothing
  else): what the database gets is then not what the guard has parsed.
  `SELECT ... INTO` is a select to the guard (`sql_guard.rs:62`) and a write to the
  database, and so is a function that writes: only the read-only session is in their way. A
  write in a table of a query that is itself a table of another is not looked at; the
  database refuses it.
* `RequestsMatchAllowList` speaks of URLs in which double dots are spelled as such between
  slashes (`SpelledOut`). The guard looks for nothing else (`http.rs:93`), and the parser of
  URLs reads escaped dots, and dots beside a backslash, a `?` or a `#`, in the same way: with
  such a path the request may leave the prefix, and the base URL,
  contrary to `http.rs:86-89` and `src/README.md:199-202`. A prefix that ends in a slash
  allows nothing below it, and an empty one only the root. With
  the credential in the query, a parameter of the same name that the caller gives is
  sent too.
* `LastingSecretsStay` is silent on a value that is set or removed during the call,
  on one shorter than six characters, and on a vault that cannot be read, for which
  only the formats are masked. A call to a service masks its credential, not the
  other secrets. A secret with the mask in it may be put together by a replacement
  (also in `CredentialStays`), and `list_local_secret_names` is not scrubbed, so a
  secret that is the name of one is shown.
* `OnlySecretsAreMasked` needs values that do not overlap: when the shorter of two is
  replaced first, the rest of the longer one stays. A mask that the remote end has sent
  cannot be told from one of the scrubber's. A token in a known format is one character of the
  model: of a value that stands within a token, and of a token that a replacement has cut
  so that its pattern no longer matches, nothing is said.
* `default_region` is read from the config and injected nowhere, although
  `src/README.md` says that it is.

## 5. Proofs

| Theorem | For every value of the constants |
|---|---|
| `RemoteWriteProofs!TypeCorrect` | `TypeOK` |
| `RemoteWriteProofs!ChangesArePreviewed` | `OnlyPreviewedChanges` |
| `RemoteWriteProofs!PreviewsAreUsedOnce` | `NoReplay` |
| `RemoteWriteProofs!GateRefinement` | `ImplementsPreviewGate` |
| `RemoteWriteProofs!DeploysToCheckedServer` | `OneServerPerCall` |
| `RemoteWriteProofs!ConfirmedTextIsWritten` | `WritesConfirmedText`, if `Calm` |
| `RemoteWriteProofs!OtherLinesSurvive` | `KeepsOtherLines`, if `Calm` |
| `RemoteWriteProofs!PreviewedServerIsWritten` | `AppliedWherePreviewed`, if `NamesKeep` |
| `EnvDeploysProofs!LastValueIsRead` | `LastValueReadsBack` |
| `EnvDeploysProofs!NothingElseIsLost` | `OtherLinesKept` |
| `EnvDeploysProofs!RetriesAddNothing` | `RedeployKeepsLines` |
| `EnvDeploysProofs!PreviewsAreMasked` | `PreviewShowsNoSecret` |
| `AuditLogProofs!TypeCorrect` | `TypeOK`, any number of servers |
| `AuditLogProofs!WhatIsReadVerifies` | `ReadableVerifies`, one server |
| `AuditLogProofs!AcknowledgedIsLogged` | `AckedIsLog`, one server |
| `AuditLogProofs!TamperingIsCaught` | `TamperingShows` |
| `McpServerProofs!NoEditIsLost` | `QuietMeansCurrent`, nobody edits during the start |
| `McpServerProofs!TypeCorrect` | `TypeOK` |
| `McpServerProofs!AnsweredIsRecorded` | `AnswersAreRecorded` |
| `McpServerProofs!FewUnrecorded` | `OneUnrecordedPerProcess` |
| `GcloudProofs!OnlyPinnedCommandsRun` | `RunsAsPinned` |
| `GcloudProofs!PlaceIsAsAsked` | `RunsWhereAsked`, if `FlagsAreKnown` |
| `GcloudProofs!TypeCorrect` | `TypeOK` |
| `GcloudProofs!WholeOutput` | `OutputIsWhole` |
| `GcloudProofs!NoKeyIsLeft` | `KeyIsGone` |
| `VaultProofs!TypeCorrect` | `TypeOK`, one writer at a time |
| `VaultProofs!ReportsLast` | `ReportsAreKept`, one writer at a time |
| `VaultProofs!SavesAreWhole` | `VaultIsWhole`, one writer at a time |
| `VaultProofs!AtomicRefinement` | `ImplementsAtomicVault`, one writer at a time |
| `ToolCallsProofs!TypeCorrect` | `TypeOK` |
| `ToolCallsProofs!NoProgramShowsTheEnvironment` | `GuardedPrograms` |
| `ToolCallsProofs!ReadOnlyQueriesRead` | `ReadOnlyStaysReadOnly` |
| `ToolCallsProofs!RequestsAreAllowed` | `RequestsMatchAllowList` |
| `ToolCallsProofs!CredentialsStay` | `CredentialStays`, if `NoMaskIn(Values)` |
| `ToolCallsProofs!LastingSecretsAreMasked` | `LastingSecretsStay`, if `NoMaskIn(Values)` and `NoNameIn(Values)` |
| `ToolCallsProofs!NothingElseIsTakenAway` | `OnlySecretsAreMasked`, if `NoMaskIn(Values)` and `NoMaskIn(Outputs)` |

Assumptions: those named `...Assumption` in the modules, which only type the
constants, but for two. `GcloudFlagsAssumption`: a command that knows
`--metadata-from-file` knows `--metadata` too, which is why the guard may let
`--metadata` pass. `HttpAssumption`: the base URL and the prefixes of a config are names
between slashes, without dots. Beside them, `Instances = {i}` for two of the theorems about the
log; `"bootEdit" \notin Faults` for `NoEditIsLost`; `Serial` for the vault: without it
`vault_torn` shows what happens. And those that stand in the statements: `Calm`, nobody
edits a file during a call, and `stat` fails on none that exists; `NamesKeep`, no config gives
a name to another server; `FlagsAreKnown`, the command
knows `--zone`, and `--region` if the caller spells it out (an unknown flag is an error of
gcloud); `NoMaskIn`, `NoNameIn`, no secret has the mask, or the name of a secret, in it, and
(for `NothingElseIsTakenAway`) no output has the mask in it. Each
is met by the run of its property, and for each section 4 says what happens without it.

*RemoteWrite.* The inductive invariant is `IInv`: the types; `RequestInv`, what a
call holds at each step; `ConfirmedInv`, a call past the check holds a pending
token that names its own change, and (for a deployment) the server the token was
checked on; `ShownInv`, every pending token was shown by this process; `SpentInv`,
no pending token is spent but the one that is being removed. The properties are
not inductive: that a confirmed change was shown needs `ShownInv`, that it is
not spent needs `SpentInv`, and both need `ConfirmedInv` to tie the token in hand
to `pending`. The refinement maps `pending` without the token that is being
removed to the gate's open previews, so that the write, not the removal, is the
step `Apply`. `EnvFileProofs` shows that the env-file operators yield texts.

Under the provisos two more invariants are needed. `CalmInv`: what a deployment past the
check is about to write is still the update of what the file holds, so that the second
read repeats the first. `PlaceInv`: what the server routes by, and what it routed each preview by, was loaded from
one of the configs; if these agree on a name, so do preview and confirmation.

*EnvFile, EnvDeploys.* The update is compared with the file through what it leaves alone:
`Without(ls, dropped)` are the lines that are not dropped, and `EnvUpdateKeeps` says that
the update changes nothing of them, whatever is dropped, as long as the lines that are taken
for the key and the lines that are written are. That goes by induction along the lines
(below), and holds for keys of any kind. A run of deployments is then one invariant,
`LastDeployment`: the text is the update of the text before. That the last value reads back
needs another, `OnceInv`: a name that was assigned at most once, and that nothing in the run
but deployments under this name writes (`Undisturbed`), is still assigned at most once.

*AuditLog.* `ChainInv` says that the readable prefix is a chain and that a server
about to write a line of its own knows its end; a server that knows it no longer
(after a failure) can only glue to an unfinished line, which spoils this line.
`AckInv` counts: the acknowledged records are as many as the lines that have
their newline. `TamperingIsCaught` needs no induction over steps: each change breaks a
sequence number, a link or a hash. That an edit breaks the hash is `PlainHashes`: of records
without separators in their texts the bytes that are hashed are the texts themselves, one
after the other, and their number tells how many names there are. `TypeInv` adds to the types that the lines are a
sequence and an open last line exists, and holds for any number of servers.

*McpServer.* `WatcherInv` adds what holds while a load is under way: if no event
has come since, what was read is what is on disk. For the records, `OrderInv` says
that requests are handled in the order of their numbers: what is past lies before
the request in hand, and this before the queue. So the request in hand is no earlier
one, and an answer cannot be taken for that of another request. `RecordInv` then ties
the outcome in hand, once recorded, to the log, and `CountInv` counts: the calls without
a record, less the one that is pending, are no more than the processes that have ended.

*Gcloud.* `Validated`: the arguments are accepted from the check on, and never change.
The rest is about names: what passes the guard is no prefix of a denied flag
(`PassedIsNotDenied`), and so the `--project` that is added is the only one, if it is one:
behind a bare `--` it is none (`GivenOneMore`, `ProjectIsPinned`). It says nothing of a flag that reads a file, is not in the
code's list and is cut short, which the guard lets pass, as its comment says.
`PlaceIsAsAsked` follows `build_gcloud_argv`: what it adds comes last, and is a place only
if the caller has spelled none (`PlaceIsKept`).
For the output, `PipeInv`: what was read and what is in the pipe is what was
written; a thread that is done has found the end, and the end stays, for nobody is
left who could write.

*Vault.* `VaultInv` says of each process what it knows at its step (`JobInv`): one that
saves holds the vault as it will be (`Changed`), and it alone has the temporary file,
which is not the vault; one that imports holds what the vault is now; the name that
is being changed is reported to be nothing yet. `Mutex` is what `Serial` gives: of two
processes at work one only loads, and does so from the file. Each system call has a
lemma, with two conclusions: it keeps `VaultInv`, and its `Effect` is that a whole file
stays whole and the map changes at one name or not at all. The four theorems follow.

*ToolCalls.* `Asked` says what a request has passed when it is sent, and of a refused call
what was refused; the guards do the rest. `CommandGuard` splits a command into words by
one set of separators, the shell by another: `WordsAreTokens` shows that every word which
the shell takes as it is spelled, whatever stands around it, is one of the words that the
guard has looked at; the words of either are maximal stretches, found by a least and a
greatest index. In SQL, `PassedIsNoPlainWrite` follows the two walks over a tree. For
services, `PathsMatchUrls` compares the path that the code looks at, slashes trimmed one
way, with the URL that it builds, slashes trimmed another way: both have the same parts
below the base. `StaysUnder` then follows the parser of URLs: with no double dots but those
that the guard has looked for, what has been read of a URL is at every piece like the
beginning of the base or already below it (`LikeBeginning`, `OneMorePiece`).

For the answers, `CallInv`: until it ends a call has answered nothing; a call to a service
holds its credential; the vault still has whatever it had all the time, and the gcloud
runner has loaded that. What replacing does is in `Rewrites`: a text is rewritten from left
to right, a character or an occurrence at a time. A stretch of the result without a mask is
a stretch of the text (`RewrittenStart`, `RewrittenRest`) where the value does not begin, so a
replacement adds nothing to find and takes its value away (`ReplacedHides`); and so
along a whole order of values, of which every one has its turn (`FoldHides`).

That nothing else is taken away compares the text after all replacements with the text
before any. In between, `Shows` ties the two together: each character of the half-masked
text stands at a place of the output, for itself, or as a mask for places that the values
replaced so far cover, and leaves no place out. For values that are apart this survives one
more replacement (`MaskedOneMore`): where the next value is in the output, no other one
covers a character (`NotCovered`), so it is still there to be found (`StillThere`), and
where it is found it was in the output (`ReallyThere`). `FoldShows` goes along the order,
and `UnmaskedIs` reads off what the masks leave.

Recursion. A function that is defined by recursion is a CHOOSE for TLAPS, so a lemma first
shows that there is such a function: along the positions of a text or the subsets that a fold
takes (`PiecesExist`, `FoldsExist`), or, where statements nest, as the greatest set of
parts that the walk can accept by accepting parts of the set (`SetExprReadonlyIs`, `PlainWriteIs`). Induction is then on a
set of numbers that holds 0 and each successor (`Counting`, `Downwards`), which needs no
theorem with an operator as parameter.

Only model-checked. Liveness (`EditsAreLoaded`, `EveryRequestAnswered`, `CallEnds`,
`ServiceCallEnds`), which the prover does not reach. Every invariant and every action
property of a passing run is stated by a theorem.

## 6. Not modelled

* The regular expressions of the scrubber and the SQL parser: a token matches or does
  not, a text parses to these statements or to none.
* The text of diffs, of answers and of logs; the commands built for SSH and for
  databases, but for what a shell may do to a query in one (`Given`).
* What a shell makes of a word that is quoted, escaped or expanded, and what psql then
  makes of an expanded query: the properties say nothing of either (section 4).
* Activation of GCP after a reload: a new project is used with the old account
  until the restart, as `src/README.md` says.
* Hash collisions, and output that is not UTF-8.

## 7. Plan

Extend: the account that GCP was activated with in `McpServer`; `McpServer` over
`AuditLog`, in place of its abstract log.
