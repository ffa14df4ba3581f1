-------------------------------- MODULE Vault --------------------------------
(***************************************************************************)
(* The vault of secrets (SecretStore in src/src/config.rs) with its two     *)
(* backends, a JSON file and an entry of the OS keychain, to which a legacy *)
(* JSON file is migrated on the first load.  Nothing is locked: every       *)
(* process, `mcp_deploy secret ...' or the server, loads the whole map,     *)
(* changes it in memory and saves the whole map.                            *)
(*                                                                         *)
(* The JSON file is replaced by renaming a temporary file whose name is the *)
(* same for all processes.  A process that has it open keeps writing to the *)
(* file it opened, wherever that file has been renamed to meanwhile.        *)
(***************************************************************************)
EXTENDS Naturals

CONSTANTS Procs, Names, Values,
          Backends,    \* what secret_backend may be: "json", "keychain"
          None,        \* no file, no entry, no secret
          Empty, Torn, \* a file of no bytes; one that does not parse
          Legacy,      \* what the JSON file may hold at first
          Operations,  \* what the processes may be asked to do
          Serial,      \* is there only one process at a time that may write?
          Faults,      \* "crash": a process dies; "fail": a system call fails
          Files,       \* the files there can be at once
          MaxOps       \* bound on operations

VaultMap == [Names -> Values \cup {None}]
Operation == [kind : {"set"}, name : Names, value : Values]
               \cup [kind : {"remove"}, name : Names]
               \cup [kind : {"load"}]
Content == VaultMap \cup {Empty, Torn}

ASSUME VaultAssumption ==
  /\ Backends \subseteq {"json", "keychain"}
  /\ None \notin Values \cup Files \cup VaultMap
  /\ Empty \notin VaultMap \cup {None, Torn} /\ Torn \notin VaultMap \cup {None}
  /\ Legacy \subseteq Content \cup {None} /\ Legacy # {}
  /\ Operations \subseteq Operation
  /\ Serial \in BOOLEAN
  /\ Faults \subseteq {"crash", "fail"}
  /\ MaxOps \in Nat

VARIABLES backend,  \* secret_backend, in the config of every process
          content,  \* what each file holds
          vault,    \* the file at secrets_path, or None
          tmp,      \* the file at secrets_path with extension json.tmp, or None
          entry,    \* the keychain entry: a map, or None
          proc,     \* each process: its step, operation, map and open file
          kept,     \* history: what each name was last reported to be, or Torn
          ops       \* counter, for the bound

vars == <<backend, content, vault, tmp, entry, proc, kept, ops>>
place == <<backend, vault, tmp>>
disk == <<place, content>>

NoSecrets == [n \in Names |-> None]
Idle == [pc |-> "idle"]

At(p, pc) == proc[p].pc = pc
Go(p, pc, data, file) ==
  proc' = [proc EXCEPT ![p] = [pc |-> pc, op |-> @.op, data |-> data, file |-> file]]
Ended(p) == proc' = [proc EXCEPT ![p] = Idle]

\* The process reports success of its operation.
Reports(p) ==
  kept' = CASE proc[p].op.kind = "set" -> [kept EXCEPT ![proc[p].op.name] = proc[p].op.value]
            [] proc[p].op.kind = "remove" -> [kept EXCEPT ![proc[p].op.name] = None]
            [] proc[p].op.kind = "load" -> kept
Succeeds(p) == Ended(p) /\ Reports(p)
Fails(p) == Ended(p) /\ UNCHANGED kept

Init == /\ \E first \in Legacy :
             /\ content = [f \in Files |-> IF first = None THEN Empty ELSE first]
             /\ vault \in IF first = None THEN {None} ELSE Files
        /\ backend \in Backends
        /\ tmp = None /\ entry = None
        /\ proc = [p \in Procs |-> Idle]
        /\ kept = [n \in Names |-> Torn]
        /\ ops = 0

-----------------------------------------------------------------------------
(* Loading.                                                                *)

Load(op1, op2) == "load" \in {op1.kind, op2.kind}

\* May the operations of two processes overlap?  Nobody changes one name from
\* two processes: which of them comes last would be anybody's guess.
MayOverlap(op1, op2) ==
  /\ ~ Load(op1, op2) => op1.name # op2.name
  /\ Serial => backend = "json" /\ Load(op1, op2)

\* An operation starts.
Begin(p, op) ==
  /\ At(p, "idle")
  /\ \A q \in Procs : ~ At(q, "idle") => MayOverlap(op, proc[q].op)
  /\ ops < MaxOps /\ ops' = ops + 1
  /\ proc' = [proc EXCEPT ![p] = [pc |-> "load", op |-> op, data |-> NoSecrets, file |-> None]]
  /\ kept' = IF op.kind = "load" THEN kept ELSE [kept EXCEPT ![op.name] = Torn]
  /\ UNCHANGED <<disk, entry>>

\* Wrong: a removal that is not saved.
ForgetsRemoval(p, data) ==
  LET op == proc[p].op
  IN  \/ op.kind = "set" /\ Go(p, "save", [data EXCEPT ![op.name] = op.value], None) /\ UNCHANGED kept
      \/ op.kind # "set" /\ Succeeds(p)

\* load has returned data; set and remove change it and save it, unless the
\* name to be removed is not there.
Loaded(p, data) ==
  LET op == proc[p].op
  IN  \/ /\ op.kind = "set"
         /\ Go(p, "save", [data EXCEPT ![op.name] = op.value], None)
         /\ UNCHANGED kept
      \/ /\ op.kind = "remove" /\ data[op.name] # None
         /\ Go(p, "save", [data EXCEPT ![op.name] = None], None)
         /\ UNCHANGED kept
      \/ /\ op.kind = "load" \/ (op.kind = "remove" /\ data[op.name] = None)
         /\ Succeeds(p)

\* Wrong: a file that does not parse is saved again as it is.
SavesAnything(p) ==
  /\ At(p, "load") /\ backend = "json"
  /\ \/ vault = None /\ Loaded(p, NoSecrets)
     \/ /\ vault # None
        /\ \/ content[vault] = Empty /\ Loaded(p, NoSecrets)
           \/ content[vault] = Torn /\ Go(p, "save", Torn, None) /\ UNCHANGED kept
           \/ content[vault] \in VaultMap /\ Loaded(p, content[vault])
  /\ UNCHANGED <<disk, entry, ops>>

\* read_json_file: no file, or an empty one, is an empty vault.
ReadJson(p) ==
  /\ At(p, "load") /\ backend = "json"
  /\ \/ vault = None /\ Loaded(p, NoSecrets)
     \/ /\ vault # None
        /\ \/ content[vault] = Empty /\ Loaded(p, NoSecrets)
           \/ content[vault] = Torn /\ Fails(p)
           \/ content[vault] \in VaultMap /\ Loaded(p, content[vault])
  /\ UNCHANGED <<disk, entry, ops>>

\* load_keychain; without an entry, migrate_or_empty looks for a legacy file.
ReadKeychain(p) ==
  /\ At(p, "load") /\ backend = "keychain"
  /\ \/ entry # None /\ Loaded(p, entry)
     \/ entry = None /\ vault = None /\ Loaded(p, NoSecrets)
     \/ entry = None /\ vault # None /\ Go(p, "legacy", NoSecrets, None) /\ UNCHANGED kept
  /\ UNCHANGED <<disk, entry, ops>>

\* Wrong: the legacy file is moved aside at once.
MovesFirst(p) ==
  /\ At(p, "legacy")
  /\ IF vault # None /\ content[vault] \in VaultMap
     THEN vault' = None /\ Go(p, "import", content[vault], None) /\ UNCHANGED kept
     ELSE Fails(p) /\ UNCHANGED vault
  /\ UNCHANGED <<backend, content, tmp, entry, ops>>

\* The file is read; it may have gone since it was found, and an empty one does
\* not parse.
ReadLegacy(p) ==
  /\ At(p, "legacy")
  /\ IF vault # None /\ content[vault] \in VaultMap
     THEN Go(p, "import", content[vault], None) /\ UNCHANGED kept
     ELSE Fails(p)
  /\ UNCHANGED <<disk, entry, ops>>

Import(p) == /\ At(p, "import")
             /\ entry' = proc[p].data
             /\ Go(p, "aside", proc[p].data, None)
             /\ UNCHANGED <<disk, kept, ops>>

\* The file is renamed to *.json.migrated.  An error is only logged.
MoveAside(p) ==
  /\ At(p, "aside")
  /\ \/ vault' = None
     \/ "fail" \in Faults /\ UNCHANGED vault
  /\ Loaded(p, proc[p].data)
  /\ UNCHANGED <<backend, content, tmp, entry, ops>>

-----------------------------------------------------------------------------
(* Saving.                                                                 *)

\* save_keychain: one call sets the whole entry.
SaveKeychain(p) ==
  /\ At(p, "save") /\ backend = "keychain"
  /\ entry' = proc[p].data
  /\ Succeeds(p)
  /\ UNCHANGED <<disk, ops>>

\* Wrong: the vault itself is opened.
OpensInPlace(p) ==
  /\ At(p, "save") /\ backend = "json"
  /\ \E f \in Files : /\ IF vault # None THEN f = vault ELSE TRUE
                      /\ content' = [content EXCEPT ![f] = Empty]
                      /\ vault' = f /\ tmp' = f
                      /\ Go(p, "write", proc[p].data, f)
  /\ UNCHANGED <<backend, entry, kept, ops>>

\* save_json_file: the temporary file is opened, created if need be, and
\* truncated.
Free == Files \ ({vault, tmp} \cup {proc[q].file : q \in {r \in Procs : ~ At(r, "idle")}})
OpenTmp(p) ==
  /\ At(p, "save") /\ backend = "json"
  /\ \E f \in Files : /\ IF tmp # None THEN f = tmp ELSE f \in Free
                      /\ content' = [content EXCEPT ![f] = Empty]
                      /\ tmp' = f
                      /\ Go(p, "write", proc[p].data, f)
  /\ UNCHANGED <<backend, vault, entry, kept, ops>>

\* The map is written to the open file.  When another process has written there
\* since it was opened, the longer of the two texts shows behind the other.
Write(p) ==
  /\ At(p, "write")
  /\ \E written \in {proc[p].data}
                      \cup (IF content[proc[p].file] = Empty THEN {} ELSE {Torn}) :
       content' = [content EXCEPT ![proc[p].file] = written]
  /\ Go(p, "chmod", proc[p].data, proc[p].file)
  /\ UNCHANGED <<place, entry, kept, ops>>

\* set_permissions takes the name: it fails when the file has been renamed.
Chmod(p) ==
  /\ At(p, "chmod")
  /\ IF tmp # None THEN Go(p, "rename", proc[p].data, proc[p].file) /\ UNCHANGED kept
                   ELSE Fails(p)
  /\ UNCHANGED <<disk, entry, ops>>

\* rename, also by name: whatever has the temporary name is the vault now.
Rename(p) ==
  /\ At(p, "rename")
  /\ IF tmp # None THEN vault' = tmp /\ tmp' = None /\ Succeeds(p)
                   ELSE UNCHANGED <<vault, tmp>> /\ Fails(p)
  /\ UNCHANGED <<backend, content, entry, ops>>

-----------------------------------------------------------------------------
(* Faults.                                                                 *)

\* A write that stops half-way leaves what does not parse.
HalfWritten(p) ==
  \/ UNCHANGED content
  \/ At(p, "write") /\ content' = [content EXCEPT ![proc[p].file] = Torn]

\* The operation returns Err.
IOError(p) == /\ "fail" \in Faults
              /\ ~ At(p, "idle") /\ ~ At(p, "aside")
              /\ HalfWritten(p)
              /\ Fails(p)
              /\ UNCHANGED <<place, entry, ops>>

\* The process dies, at any step.
Crash(p) == /\ "crash" \in Faults
            /\ ~ At(p, "idle")
            /\ HalfWritten(p)
            /\ Fails(p)
            /\ UNCHANGED <<place, entry, ops>>

Next == \E p \in Procs :
          \/ \E op \in Operations : Begin(p, op)
          \/ ReadJson(p) \/ ReadKeychain(p) \/ ReadLegacy(p) \/ Import(p) \/ MoveAside(p)
          \/ SaveKeychain(p) \/ OpenTmp(p) \/ Write(p) \/ Chmod(p) \/ Rename(p)
          \/ IOError(p) \/ Crash(p)

Spec == Init /\ [][Next]_vars

-----------------------------------------------------------------------------
(* Properties.                                                             *)

\* A process in the middle of an operation.
Steps == {"load", "legacy", "import", "aside", "save", "write", "chmod", "rename"}
Running == [pc : Steps, op : Operation, data : VaultMap, file : Files \cup {None}]

\* Type invariant.
TypeOK ==
  /\ backend \in Backends
  /\ content \in [Files -> Content]
  /\ vault \in Files \cup {None} /\ tmp \in Files \cup {None}
  /\ entry \in VaultMap \cup {None}
  /\ proc \in [Procs -> {Idle} \cup Running]
  /\ kept \in [Names -> Values \cup {None, Torn}]
  /\ ops \in 0 .. MaxOps

\* The JSON file, once it holds a whole map or is not there, is never seen
\* truncated or half-written (save_json_file).  One process at a time may
\* write, others may load.
Whole == vault # None => content[vault] \in VaultMap
VaultIsWhole == [][Whole => Whole']_vars

\* With one writer at a time, whatever fails or dies, the vault changes by one
\* secret, at once or not at all; the migration to the keychain changes nothing.
OnDisk == IF vault # None /\ content[vault] \in VaultMap THEN content[vault] ELSE NoSecrets
AV == INSTANCE AtomicVault WITH secrets <- IF entry # None THEN entry ELSE OnDisk
ImplementsAtomicVault == AV!Spec

\* What `secret add' or `secret remove' reported is what the vault holds, until
\* the name is changed again: nobody else's save undoes it.  One writer at
\* a time; with the keychain a process that loads is one, for it may migrate.
ReportsAreKept ==
  \A n \in Names :
    kept[n] # Torn => kept[n] = (IF entry # None THEN entry ELSE OnDisk)[n]
=============================================================================
