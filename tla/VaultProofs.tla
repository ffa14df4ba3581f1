----------------------------- MODULE VaultProofs -----------------------------
(***************************************************************************)
(* With one writer at a time the vault is a map that changes by one secret  *)
(* at once, whatever fails or dies, on either backend, for any number of    *)
(* processes, secrets, files and operations.                                *)
(***************************************************************************)
EXTENDS Vault, TLAPS

\* What the vault holds, on the backend in use.
Current == IF entry # None THEN entry ELSE OnDisk

Active(p) == ~ At(p, "idle")
Op(p) == proc[p].op

\* What op makes of the vault.
Changed(op) == [Current EXCEPT ![op.name] = IF op.kind = "set" THEN op.value ELSE None]

\* Of two processes at work, one only loads, and the backend is the file.
Mutex == \A p, q \in Procs :
           p # q /\ Active(p) /\ Active(q) =>
             backend = "json" /\ (Op(p).kind = "load" \/ Op(q).kind = "load")

\* What a process at work knows, by its step.
JobInv(p) ==
  /\ proc[p].pc \in {"legacy", "import", "aside"} => backend = "keychain"
  /\ proc[p].pc \in {"legacy", "import"} => entry = None
  /\ At(p, "import") => proc[p].data = Current
  /\ At(p, "aside") => entry # None /\ proc[p].data = entry
  /\ proc[p].pc \in {"save", "write", "chmod", "rename"} =>
       Op(p).kind # "load" /\ proc[p].data = Changed(Op(p))
  /\ proc[p].pc \in {"write", "chmod", "rename"} =>
       backend = "json" /\ tmp # None /\ proc[p].file = tmp
  /\ At(p, "write") => content[tmp] = Empty
  /\ proc[p].pc \in {"chmod", "rename"} => content[tmp] = proc[p].data
  /\ Active(p) /\ Op(p).kind # "load" => kept[Op(p).name] = Torn

\* The temporary file is not the vault, and the file backend has no entry.
PlaceInv == /\ backend = "json" => entry = None
            /\ vault # None => vault # tmp

KeptInv == \A n \in Names : kept[n] # Torn => kept[n] = Current[n]

VaultInv == /\ TypeOK
            /\ Mutex
            /\ \A p \in Procs : JobInv(p)
            /\ PlaceInv
            /\ KeptInv

-----------------------------------------------------------------------------
(* Types.                                                                  *)

LEMMA OperationType ==
  ASSUME NEW op \in Operation
  PROVE  /\ op.kind \in {"set", "remove", "load"}
         /\ op.kind # "load" => op.name \in Names
         /\ op.kind = "set" => op.value \in Values
BY DEF Operation

LEMMA RunningType ==
  ASSUME TypeOK, NEW p \in Procs
  PROVE  /\ Active(p) <=> proc[p] \in Running
         /\ ~ Active(p) <=> proc[p] = Idle
         /\ Active(p) => /\ proc[p].pc \in Steps /\ Op(p) \in Operation
                         /\ proc[p].data \in VaultMap /\ proc[p].file \in Files \cup {None}
<1>1. proc[p] \in {Idle} \cup Running
  BY DEF TypeOK
<1>2. Idle.pc = "idle" /\ \A j \in Running : /\ j.pc \in Steps /\ j.op \in Operation
                                              /\ j.data \in VaultMap /\ j.file \in Files \cup {None}
  BY DEF Idle, Running
<1>3. "idle" \notin Steps
  BY DEF Steps
<1> QED
  BY <1>1, <1>2, <1>3 DEF Active, At, Op

LEMMA EmptyIsMap == NoSecrets \in VaultMap
BY DEF NoSecrets, VaultMap

LEMMA CurrentType == ASSUME TypeOK PROVE Current \in VaultMap /\ OnDisk \in VaultMap
BY EmptyIsMap DEF TypeOK, Current, OnDisk

LEMMA ChangedType ==
  ASSUME NEW m \in VaultMap, NEW op \in Operation, op.kind # "load"
  PROVE  /\ [m EXCEPT ![op.name] = IF op.kind = "set" THEN op.value ELSE None] \in VaultMap
         /\ op.kind = "set" => [m EXCEPT ![op.name] = op.value] \in VaultMap
         /\ [m EXCEPT ![op.name] = None] \in VaultMap
<1>1. op.name \in Names /\ (op.kind = "set" => op.value \in Values)
  BY OperationType
<1> QED
  BY <1>1 DEF VaultMap

-----------------------------------------------------------------------------
(* What a step of one process leaves alone.                                *)

\* The job of p after a step: what it was asked to do, or nothing.
Continues(p, j) == /\ proc' = [proc EXCEPT ![p] = j]
                   /\ j = Idle \/ (j \in Running /\ j.op = Op(p))

\* The other processes, when one that only loads changes nothing.
LEMMA Others ==
  ASSUME VaultInv, NEW p \in Procs, Active(p), NEW j, Continues(p, j), backend' = backend,
         backend = "json" /\ Op(p).kind = "load" => UNCHANGED <<disk, entry, kept>>
  PROVE  /\ \A q \in Procs : q # p => JobInv(q)'
         /\ Mutex'
         /\ proc' \in [Procs -> {Idle} \cup Running]
         /\ proc'[p] = j
<1>1. proc \in [Procs -> {Idle} \cup Running]
  BY DEF VaultInv, TypeOK
<1>2. /\ proc' \in [Procs -> {Idle} \cup Running] /\ proc'[p] = j
      /\ \A q \in Procs : q # p => proc'[q] = proc[q]
  BY <1>1 DEF Continues
<1>3. \A q \in Procs : Active(q)' => Active(q) /\ Op(q)' = Op(q)
  BY <1>2 DEF Continues, Active, Op, At, Idle
<1>4. Mutex'
  BY <1>3 DEF VaultInv, Mutex
<1>5. ASSUME NEW q \in Procs, q # p PROVE JobInv(q)'
  <2>1. proc'[q] = proc[q] /\ JobInv(q)
    BY <1>2, <1>5 DEF VaultInv
  <2>2. CASE ~ Active(q)
    BY <2>1, <2>2 DEF JobInv, Active, At, Op
  <2>3. CASE Active(q) /\ Op(q).kind = "load"
    <3>1. backend = "json"
      BY <1>5, <2>3 DEF VaultInv, Mutex
    <3>2. proc[q].pc \in Steps
      BY <2>3, RunningType DEF VaultInv
    <3>3. proc[q].pc = "load"
      BY <2>1, <2>3, <3>1, <3>2 DEF JobInv, Steps
    <3> QED
      BY <2>1, <2>3, <3>3 DEF JobInv, Active, At, Op
  <2>4. CASE Active(q) /\ Op(q).kind # "load"
    <3>1. UNCHANGED <<disk, entry, kept>>
      BY <1>5, <2>4 DEF VaultInv, Mutex
    <3> QED
      BY <2>1, <3>1 DEF JobInv, Active, At, Op, Current, OnDisk, Changed, disk, place
  <2> QED
    BY <2>2, <2>3, <2>4
<1> QED
  BY <1>2, <1>4, <1>5

-----------------------------------------------------------------------------
(* What one step does to the vault, and to the process that takes it.      *)

\* The vault stays whole, and changes by one secret at most.
Effect == /\ Whole => Whole'
          /\ \/ Current' = Current
             \/ \E n \in Names, v \in Values \cup {None} : Current' = [Current EXCEPT ![n] = v]

LEMMA Goes ==
  ASSUME TypeOK, NEW p \in Procs, Active(p), NEW pc \in Steps, NEW data \in VaultMap,
         NEW file \in Files \cup {None}, Go(p, pc, data, file)
  PROVE  /\ Continues(p, [pc |-> pc, op |-> Op(p), data |-> data, file |-> file])
         /\ proc'[p] = [pc |-> pc, op |-> Op(p), data |-> data, file |-> file]
<1>1. Op(p) \in Operation
  BY RunningType
<1>2. [pc |-> pc, op |-> Op(p), data |-> data, file |-> file] \in Running
  BY <1>1 DEF Running
<1>3. proc' = [proc EXCEPT ![p] = [pc |-> pc, op |-> Op(p), data |-> data, file |-> file]]
  BY DEF Go, Op
<1>4. proc'[p] = [pc |-> pc, op |-> Op(p), data |-> data, file |-> file]
  BY <1>3 DEF TypeOK
<1> QED
  BY <1>2, <1>3, <1>4 DEF Continues

LEMMA Ends ==
  ASSUME TypeOK, NEW p \in Procs, Ended(p)
  PROVE  Continues(p, Idle) /\ JobInv(p)'
<1>1. proc'[p] = Idle
  BY DEF Ended, TypeOK
<1>2. proc'[p].pc = "idle"
  BY <1>1 DEF Idle
<1> QED
  BY <1>2 DEF Ended, Continues, JobInv, At, Active

LEMMA Stepped ==
  ASSUME VaultInv, NEW p \in Procs, Active(p), NEW j, Continues(p, j),
         UNCHANGED <<backend, ops>>,
         backend = "json" /\ Op(p).kind = "load" => UNCHANGED <<disk, entry, kept>>,
         content' \in [Files -> Content],
         vault' \in Files \cup {None}, tmp' \in Files \cup {None},
         entry' \in VaultMap \cup {None}, kept' \in [Names -> Values \cup {None, Torn}],
         JobInv(p)', PlaceInv', KeptInv'
  PROVE  VaultInv'
<1>1. /\ \A q \in Procs : q # p => JobInv(q)'
      /\ Mutex'
      /\ proc' \in [Procs -> {Idle} \cup Running]
  BY Others
<1>2. TypeOK'
  BY <1>1 DEF VaultInv, TypeOK
<1>3. \A q \in Procs : JobInv(q)'
  BY <1>1
<1> QED
  BY <1>1, <1>2, <1>3 DEF VaultInv

\* A step that changes only what the process knows.
LEMMA Silent ==
  ASSUME VaultInv, NEW p \in Procs, Active(p), NEW j, Continues(p, j),
         UNCHANGED <<disk, entry, kept, ops>>, JobInv(p)'
  PROVE  VaultInv' /\ Effect
<1>1. PlaceInv' /\ KeptInv' /\ Effect
  BY DEF VaultInv, PlaceInv, KeptInv, Effect, Current, OnDisk, Whole, disk, place
<1>2. VaultInv'
  BY <1>1, Stepped DEF VaultInv, TypeOK, disk, place
<1> QED
  BY <1>1, <1>2

\* A process reports what the vault holds now.
LEMMA Reported ==
  ASSUME VaultInv, NEW p \in Procs, Active(p), Succeeds(p),
         Current' = IF Op(p).kind = "load" THEN Current ELSE Changed(Op(p))
  PROVE  /\ Continues(p, Idle) /\ JobInv(p)'
         /\ kept' \in [Names -> Values \cup {None, Torn}]
         /\ KeptInv'
         /\ Op(p).kind = "load" => kept' = kept
         /\ \/ Current' = Current
            \/ \E n \in Names, v \in Values \cup {None} : Current' = [Current EXCEPT ![n] = v]
<1>1. Continues(p, Idle) /\ JobInv(p)'
  BY Ends DEF Succeeds, VaultInv
<1>2. Op(p) \in Operation /\ kept \in [Names -> Values \cup {None, Torn}] /\ Current \in VaultMap
  BY RunningType, CurrentType DEF VaultInv, TypeOK
<1>3. CASE Op(p).kind = "load"
  <2>1. kept' = kept
    BY <1>3 DEF Succeeds, Reports, Op
  <2> QED
    BY <1>1, <1>2, <1>3, <2>1 DEF VaultInv, KeptInv
<1>4. CASE Op(p).kind # "load"
  <2> DEFINE v == IF Op(p).kind = "set" THEN Op(p).value ELSE None
  <2>1. Op(p).name \in Names /\ v \in Values \cup {None} /\ Op(p).kind \in {"set", "remove"}
    BY <1>2, <1>4, OperationType
  <2>2. kept' = [kept EXCEPT ![Op(p).name] = v]
    BY <2>1 DEF Succeeds, Reports, Op
  <2>3. Current' = [Current EXCEPT ![Op(p).name] = v]
    BY <1>4 DEF Changed
  <2> HIDE DEF v
  <2>4. KeptInv'
    BY <1>2, <2>1, <2>2, <2>3 DEF VaultInv, KeptInv, VaultMap
  <2> QED
    BY <1>1, <1>2, <1>4, <2>1, <2>2, <2>3, <2>4
<1> QED
  BY <1>3, <1>4

\* The end of load, for each of the three operations.
LEMMA LoadedWhole ==
  ASSUME VaultInv, NEW p \in Procs, Active(p), Loaded(p, Current), Current' = Current,
         UNCHANGED <<backend, entry>>
  PROVE  \E j : /\ Continues(p, j) /\ JobInv(p)'
                /\ kept' \in [Names -> Values \cup {None, Torn}]
                /\ KeptInv'
                /\ Op(p).kind = "load" => kept' = kept
<1>1. /\ TypeOK /\ Op(p) \in Operation /\ Current \in VaultMap
      /\ kept \in [Names -> Values \cup {None, Torn}]
  BY RunningType, CurrentType DEF VaultInv, TypeOK
<1>2. ASSUME Op(p).kind # "load", Go(p, "save", Changed(Op(p)), None), UNCHANGED kept
      PROVE  \E j : /\ Continues(p, j) /\ JobInv(p)'
                    /\ kept' \in [Names -> Values \cup {None, Torn}]
                    /\ KeptInv'
                    /\ Op(p).kind = "load" => kept' = kept
  <2> DEFINE j == [pc |-> "save", op |-> Op(p), data |-> Changed(Op(p)), file |-> None]
  <2>1. Changed(Op(p)) \in VaultMap /\ "save" \in Steps
    BY <1>1, <1>2, ChangedType DEF Changed, Steps
  <2>2. Continues(p, j) /\ proc'[p] = j
    BY <1>1, <1>2, <2>1, Goes
  <2>3. Changed(Op(p))' = Changed(Op(p)) /\ kept'[Op(p).name] = Torn
    BY <1>2, <2>2 DEF Changed, Op, VaultInv, JobInv
  <2>4. JobInv(p)'
    BY <1>2, <2>2, <2>3 DEF JobInv, At, Active, Op
  <2>5. KeptInv'
    BY <1>2 DEF VaultInv, KeptInv
  <2> QED
    BY <1>1, <1>2, <2>2, <2>4, <2>5
<1>3. CASE Op(p).kind = "set"
  <2>1. Go(p, "save", Changed(Op(p)), None) /\ UNCHANGED kept
    BY <1>3 DEF Loaded, Changed, Op
  <2> QED
    BY <1>2, <1>3, <2>1
<1>4. CASE Op(p).kind = "remove" /\ Current[Op(p).name] # None
  <2>1. Go(p, "save", Changed(Op(p)), None) /\ UNCHANGED kept
    BY <1>4 DEF Loaded, Changed, Op
  <2> QED
    BY <1>2, <1>4, <2>1
<1>5. CASE Op(p).kind = "load" \/ (Op(p).kind = "remove" /\ Current[Op(p).name] = None)
  <2>1. Succeeds(p)
    BY <1>5 DEF Loaded, Op
  <2>2. Current' = IF Op(p).kind = "load" THEN Current ELSE Changed(Op(p))
    BY <1>1, <1>5 DEF Changed, VaultMap
  <2> QED
    BY <2>1, <2>2, Reported
<1> QED
  BY <1>1, <1>3, <1>4, <1>5, OperationType

-----------------------------------------------------------------------------
(* Every step of an operation.                                             *)

\* Loading, when nothing on disk changes.
LEMMA LoadedStep ==
  ASSUME VaultInv, NEW p \in Procs, Active(p), Loaded(p, Current),
         UNCHANGED <<disk, entry, ops>>
  PROVE  VaultInv' /\ Effect
<1>1. UNCHANGED <<backend, content, vault, tmp, entry, ops>> /\ Current' = Current
  BY DEF disk, place, Current, OnDisk
<1>2. PICK j : /\ Continues(p, j) /\ JobInv(p)'
               /\ kept' \in [Names -> Values \cup {None, Torn}]
               /\ KeptInv'
               /\ Op(p).kind = "load" => kept' = kept
  BY <1>1, LoadedWhole
<1>3. PlaceInv'
  BY <1>1 DEF VaultInv, PlaceInv
<1>4. VaultInv'
  BY <1>1, <1>2, <1>3, Stepped DEF VaultInv, TypeOK
<1> QED
  BY <1>1, <1>4 DEF Effect, Whole

LEMMA EndStep ==
  ASSUME VaultInv, NEW p \in Procs, Active(p), Fails(p), UNCHANGED <<disk, entry, ops>>
  PROVE  VaultInv' /\ Effect
BY Ends, Silent DEF Fails, VaultInv

LEMMA ReadJsonStep ==
  ASSUME VaultInv, NEW p \in Procs, ReadJson(p)
  PROVE  VaultInv' /\ Effect
<1>1. Active(p) /\ entry = None /\ UNCHANGED <<disk, entry, ops>>
  BY DEF ReadJson, Active, At, VaultInv, PlaceInv
<1>2. Empty \notin VaultMap /\ Torn \notin VaultMap
  BY VaultAssumption
<1>3. Loaded(p, Current) \/ Fails(p)
  BY <1>1, <1>2 DEF ReadJson, Current, OnDisk
<1> QED
  BY <1>1, <1>3, LoadedStep, EndStep

LEMMA ReadKeychainStep ==
  ASSUME VaultInv, NEW p \in Procs, ReadKeychain(p)
  PROVE  VaultInv' /\ Effect
<1>1. Active(p) /\ UNCHANGED <<disk, entry, ops>>
  BY DEF ReadKeychain, Active, At
<1>2. CASE Loaded(p, Current)
  BY <1>1, <1>2, LoadedStep
<1>3. CASE entry = None /\ Go(p, "legacy", NoSecrets, None) /\ UNCHANGED kept
  <2> DEFINE j == [pc |-> "legacy", op |-> Op(p), data |-> NoSecrets, file |-> None]
  <2>1. Continues(p, j) /\ proc'[p] = j
    BY <1>1, <1>3, Goes, EmptyIsMap DEF Steps, VaultInv
  <2>2. JobInv(p)'
    BY <1>1, <1>3, <2>1 DEF JobInv, At, Active, Op, VaultInv, ReadKeychain, disk, place
  <2> QED
    BY <1>1, <1>3, <2>1, <2>2, Silent
<1> QED
  BY <1>2, <1>3 DEF ReadKeychain, Current, OnDisk

LEMMA ReadLegacyStep ==
  ASSUME VaultInv, NEW p \in Procs, ReadLegacy(p)
  PROVE  VaultInv' /\ Effect
<1>1. Active(p) /\ UNCHANGED <<disk, entry, ops>>
  BY DEF ReadLegacy, Active, At
<1>2. CASE vault # None /\ content[vault] \in VaultMap
  <2> DEFINE j == [pc |-> "import", op |-> Op(p), data |-> content[vault], file |-> None]
  <2>1. Go(p, "import", content[vault], None) /\ UNCHANGED kept
    BY <1>2 DEF ReadLegacy
  <2>2. Continues(p, j) /\ proc'[p] = j
    BY <1>1, <1>2, <2>1, Goes DEF Steps, VaultInv
  <2>3. JobInv(p) /\ entry = None /\ backend = "keychain"
    BY DEF VaultInv, JobInv, ReadLegacy, At
  <2>4. Current' = content[vault]
    BY <1>1, <1>2, <2>3 DEF Current, OnDisk, disk, place
  <2>5. JobInv(p)'
    BY <1>1, <2>1, <2>2, <2>3, <2>4 DEF JobInv, At, Active, Op, disk, place
  <2> QED
    BY <1>1, <2>1, <2>2, <2>5, Silent
<1>3. CASE ~ (vault # None /\ content[vault] \in VaultMap)
  BY <1>1, <1>3, EndStep DEF ReadLegacy
<1> QED
  BY <1>2, <1>3

LEMMA ImportStep ==
  ASSUME VaultInv, NEW p \in Procs, Import(p)
  PROVE  VaultInv' /\ Effect
<1>1. /\ Active(p) /\ UNCHANGED <<backend, content, vault, tmp, kept, ops>>
      /\ backend = "keychain" /\ entry' = Current /\ proc[p].data = Current
  BY DEF Import, Active, At, VaultInv, JobInv, disk, place
<1>2. Current \in VaultMap /\ Current # None
  BY CurrentType, VaultAssumption DEF VaultInv
<1>3. Current' = Current
  BY <1>1, <1>2 DEF Current
<1> DEFINE j == [pc |-> "aside", op |-> Op(p), data |-> Current, file |-> None]
<1>4. Continues(p, j) /\ proc'[p] = j
  BY <1>1, <1>2, Goes DEF Import, Steps, VaultInv
<1>5. JobInv(p)'
  BY <1>1, <1>2, <1>3, <1>4 DEF JobInv, At, Active, Op, VaultInv
<1>6. PlaceInv' /\ KeptInv'
  BY <1>1, <1>3 DEF VaultInv, PlaceInv, KeptInv
<1>7. VaultInv'
  BY <1>1, <1>2, <1>4, <1>5, <1>6, Stepped DEF VaultInv, TypeOK
<1> QED
  BY <1>1, <1>3, <1>7 DEF Effect, Whole

LEMMA MoveAsideStep ==
  ASSUME VaultInv, NEW p \in Procs, MoveAside(p)
  PROVE  VaultInv' /\ Effect
<1>1. /\ Active(p) /\ UNCHANGED <<backend, content, tmp, entry, ops>>
      /\ backend = "keychain" /\ entry # None /\ proc[p].data = entry
      /\ vault' \in {vault, None}
  BY DEF MoveAside, Active, At, VaultInv, JobInv
<1>2. Current = entry /\ Current' = Current
  BY <1>1 DEF Current
<1>3. Loaded(p, Current)
  BY <1>1, <1>2 DEF MoveAside
<1>4. PICK j : /\ Continues(p, j) /\ JobInv(p)'
               /\ kept' \in [Names -> Values \cup {None, Torn}]
               /\ KeptInv'
  BY <1>1, <1>2, <1>3, LoadedWhole
<1>5. PlaceInv'
  BY <1>1 DEF VaultInv, PlaceInv
<1>6. VaultInv'
  BY <1>1, <1>4, <1>5, Stepped DEF VaultInv, TypeOK
<1> QED
  BY <1>1, <1>2, <1>6 DEF Effect, Whole

LEMMA SaveKeychainStep ==
  ASSUME VaultInv, NEW p \in Procs, SaveKeychain(p)
  PROVE  VaultInv' /\ Effect
<1>1. /\ Active(p) /\ UNCHANGED <<backend, content, vault, tmp, ops>>
      /\ backend = "keychain" /\ entry' = Changed(Op(p)) /\ Op(p).kind # "load"
      /\ Succeeds(p)
  BY DEF SaveKeychain, Active, At, VaultInv, JobInv, disk, place
<1>2. Changed(Op(p)) \in VaultMap /\ Changed(Op(p)) # None
  <2>1. Op(p) \in Operation /\ Current \in VaultMap
    BY <1>1, RunningType, CurrentType DEF VaultInv
  <2>2. Changed(Op(p)) \in VaultMap
    BY <1>1, <2>1, ChangedType DEF Changed
  <2> QED
    BY <2>2, VaultAssumption
<1>3. Current' = Changed(Op(p))
  BY <1>1, <1>2 DEF Current
<1>4. /\ Continues(p, Idle) /\ JobInv(p)' /\ KeptInv'
      /\ kept' \in [Names -> Values \cup {None, Torn}]
      /\ \/ Current' = Current
         \/ \E n \in Names, v \in Values \cup {None} : Current' = [Current EXCEPT ![n] = v]
  BY <1>1, <1>3, Reported
<1>5. PlaceInv'
  BY <1>1 DEF VaultInv, PlaceInv
<1>6. VaultInv'
  BY <1>1, <1>2, <1>4, <1>5, Stepped DEF VaultInv, TypeOK
<1> QED
  BY <1>1, <1>4, <1>6 DEF Effect, Whole

\* What the steps that save to the file have in common.
LEMMA Saving ==
  ASSUME VaultInv, NEW p \in Procs, backend = "json",
         proc[p].pc \in {"save", "write", "chmod", "rename"}
  PROVE  /\ Active(p) /\ Op(p).kind # "load" /\ entry = None
         /\ proc[p].data = Changed(Op(p)) /\ proc[p].data \in VaultMap
         /\ proc[p].pc # "save" => tmp \in Files /\ tmp # None /\ proc[p].file = tmp /\ vault # tmp
<1>1. Active(p) /\ JobInv(p) /\ TypeOK /\ PlaceInv
  BY DEF Active, At, VaultInv
<1>2. proc[p].pc # "save" => tmp \in Files /\ tmp # None /\ proc[p].file = tmp
  BY <1>1 DEF JobInv, TypeOK
<1> QED
  BY <1>1, <1>2, RunningType DEF JobInv, PlaceInv

\* A file that is not the vault is written.
LEMMA WrittenBeside ==
  ASSUME VaultInv, NEW p \in Procs, Active(p), NEW j, Continues(p, j),
         Op(p).kind # "load",
         NEW f \in Files, f # vault, NEW c \in Content, content' = [content EXCEPT ![f] = c],
         tmp' \in Files \cup {None}, vault # None => vault # tmp',
         UNCHANGED <<backend, vault, entry, kept, ops>>,
         Current' = Current => JobInv(p)'
  PROVE  VaultInv' /\ Effect
<1>1. content \in [Files -> Content] /\ vault \in Files \cup {None}
  BY DEF VaultInv, TypeOK
<1>2. vault # None => content'[vault'] = content[vault]
  BY <1>1
<1>3. Current' = Current /\ (Whole => Whole')
  BY <1>2 DEF Current, OnDisk, Whole
<1>4. PlaceInv' /\ KeptInv' /\ JobInv(p)'
  BY <1>3 DEF VaultInv, PlaceInv, KeptInv
<1>5. VaultInv'
  BY <1>1, <1>4, Stepped DEF VaultInv, TypeOK
<1> QED
  BY <1>3, <1>5 DEF Effect

LEMMA OpenTmpStep ==
  ASSUME VaultInv, NEW p \in Procs, OpenTmp(p)
  PROVE  VaultInv' /\ Effect
<1>1. /\ Active(p) /\ Op(p).kind # "load" /\ backend = "json"
      /\ proc[p].data = Changed(Op(p)) /\ proc[p].data \in VaultMap
  BY Saving DEF OpenTmp, At
<1>2. PICK f \in Files : /\ IF tmp # None THEN f = tmp ELSE f \in Free
                         /\ content' = [content EXCEPT ![f] = Empty]
                         /\ tmp' = f
                         /\ Go(p, "write", proc[p].data, f)
  BY DEF OpenTmp
<1>3. f # vault /\ f # None
  BY <1>2, VaultAssumption DEF Free, VaultInv, PlaceInv
<1>4. UNCHANGED <<backend, vault, entry, kept, ops>>
  BY DEF OpenTmp
<1> DEFINE j == [pc |-> "write", op |-> Op(p), data |-> proc[p].data, file |-> f]
<1>5. Continues(p, j) /\ proc'[p] = j
  BY <1>1, <1>2, Goes DEF Steps, VaultInv
<1>6. content'[tmp'] = Empty
  BY <1>2 DEF VaultInv, TypeOK
<1>7. ASSUME Current' = Current PROVE JobInv(p)'
  <2>1. Changed(Op(p))' = Changed(Op(p))
    BY <1>5, <1>7 DEF Changed, Op
  <2>2. kept[Op(p).name] = Torn
    BY <1>1 DEF VaultInv, JobInv
  <2> QED
    BY <1>1, <1>2, <1>3, <1>4, <1>5, <1>6, <2>1, <2>2 DEF JobInv, At, Active, Op
<1> QED
  BY <1>1, <1>2, <1>3, <1>4, <1>5, <1>7, WrittenBeside DEF Content

LEMMA WriteStep ==
  ASSUME VaultInv, NEW p \in Procs, Write(p)
  PROVE  VaultInv' /\ Effect
<1>1. backend = "json" /\ content[tmp] = Empty /\ UNCHANGED <<backend, vault, tmp, entry, kept, ops>>
  BY DEF Write, At, VaultInv, JobInv, place
<1>2. /\ Active(p) /\ Op(p).kind # "load"
      /\ proc[p].data = Changed(Op(p)) /\ proc[p].data \in VaultMap
      /\ tmp \in Files /\ tmp # None /\ proc[p].file = tmp /\ vault # tmp
  BY <1>1, Saving DEF Write, At
<1>3. content' = [content EXCEPT ![tmp] = proc[p].data] /\ Go(p, "chmod", proc[p].data, tmp)
  BY <1>1, <1>2 DEF Write
<1> DEFINE j == [pc |-> "chmod", op |-> Op(p), data |-> proc[p].data, file |-> tmp]
<1>4. Continues(p, j) /\ proc'[p] = j
  BY <1>2, <1>3, Goes DEF Steps, VaultInv
<1>5. content'[tmp'] = proc[p].data
  BY <1>1, <1>2, <1>3 DEF VaultInv, TypeOK
<1>6. ASSUME Current' = Current PROVE JobInv(p)'
  <2>1. Changed(Op(p))' = Changed(Op(p))
    BY <1>4, <1>6 DEF Changed, Op
  <2>2. kept[Op(p).name] = Torn
    BY <1>2 DEF VaultInv, JobInv
  <2> QED
    BY <1>1, <1>2, <1>4, <1>5, <2>1, <2>2 DEF JobInv, At, Active, Op
<1> QED
  BY <1>1, <1>2, <1>3, <1>4, <1>6, WrittenBeside DEF Content

LEMMA ChmodStep ==
  ASSUME VaultInv, NEW p \in Procs, Chmod(p)
  PROVE  VaultInv' /\ Effect
<1>1. /\ backend = "json" /\ UNCHANGED <<disk, entry, ops>> /\ content[tmp] = proc[p].data
  BY DEF Chmod, At, VaultInv, JobInv
<1>2. /\ Active(p) /\ Op(p).kind # "load"
      /\ proc[p].data = Changed(Op(p)) /\ proc[p].data \in VaultMap
      /\ tmp \in Files /\ tmp # None /\ proc[p].file = tmp
  BY <1>1, Saving DEF Chmod, At
<1>3. Go(p, "rename", proc[p].data, tmp) /\ UNCHANGED kept
  BY <1>2 DEF Chmod
<1> DEFINE j == [pc |-> "rename", op |-> Op(p), data |-> proc[p].data, file |-> tmp]
<1>4. Continues(p, j) /\ proc'[p] = j
  BY <1>2, <1>3, Goes DEF Steps, VaultInv
<1>5. JobInv(p)'
  <2>1. Changed(Op(p))' = Changed(Op(p))
    BY <1>1, <1>4 DEF Changed, Op, Current, OnDisk, disk, place
  <2>2. kept[Op(p).name] = Torn
    BY <1>2 DEF VaultInv, JobInv
  <2> QED
    BY <1>1, <1>2, <1>3, <1>4, <2>1, <2>2 DEF JobInv, At, Active, Op, disk, place
<1> QED
  BY <1>1, <1>2, <1>3, <1>4, <1>5, Silent

LEMMA RenameStep ==
  ASSUME VaultInv, NEW p \in Procs, Rename(p)
  PROVE  VaultInv' /\ Effect
<1>1. backend = "json" /\ content[tmp] = proc[p].data /\ UNCHANGED <<backend, content, entry, ops>>
  BY DEF Rename, At, VaultInv, JobInv
<1>2. /\ Active(p) /\ Op(p).kind # "load" /\ entry = None
      /\ proc[p].data = Changed(Op(p)) /\ proc[p].data \in VaultMap
      /\ tmp \in Files /\ tmp # None
  BY <1>1, Saving DEF Rename, At
<1>3. vault' = tmp /\ tmp' = None /\ Succeeds(p)
  BY <1>2 DEF Rename
<1>4. Current' = Changed(Op(p)) /\ Whole'
  BY <1>1, <1>2, <1>3 DEF Current, OnDisk, Whole
<1>5. /\ Continues(p, Idle) /\ JobInv(p)' /\ KeptInv'
      /\ kept' \in [Names -> Values \cup {None, Torn}]
      /\ \/ Current' = Current
         \/ \E n \in Names, v \in Values \cup {None} : Current' = [Current EXCEPT ![n] = v]
  BY <1>2, <1>3, <1>4, Reported
<1>6. PlaceInv'
  BY <1>1, <1>2, <1>3 DEF PlaceInv
<1>7. VaultInv'
  BY <1>1, <1>2, <1>3, <1>5, <1>6, Stepped DEF VaultInv, TypeOK
<1> QED
  BY <1>4, <1>5, <1>7 DEF Effect

\* A write that stops half-way touches the temporary file only.
LEMMA FaultStep ==
  ASSUME VaultInv, NEW p \in Procs, IOError(p) \/ Crash(p)
  PROVE  VaultInv' /\ Effect
<1>1. Active(p) /\ HalfWritten(p) /\ Fails(p) /\ UNCHANGED <<backend, vault, tmp, entry, ops, kept>>
  BY DEF IOError, Crash, Active, Fails, place
<1>2. CASE UNCHANGED content
  BY <1>1, <1>2, EndStep DEF disk, place
<1>3. CASE At(p, "write") /\ content' = [content EXCEPT ![proc[p].file] = Torn]
  <2>1. backend = "json"
    BY <1>3 DEF At, VaultInv, JobInv
  <2>2. /\ Op(p).kind # "load" /\ tmp \in Files /\ tmp # None
        /\ proc[p].file = tmp /\ vault # tmp
    BY <1>3, <2>1, Saving DEF At
  <2>3. Continues(p, Idle) /\ JobInv(p)'
    BY <1>1, Ends DEF Fails, VaultInv
  <2> QED
    BY <1>1, <1>3, <2>2, <2>3, WrittenBeside DEF Content
<1> QED
  BY <1>1, <1>2, <1>3 DEF HalfWritten

-----------------------------------------------------------------------------
(* The inductive invariant.                                                *)

LEMMA InitVaultInv == Init => VaultInv
<1> SUFFICES ASSUME Init PROVE VaultInv
  OBVIOUS
<1>1. \A p \in Procs : proc[p] = Idle /\ proc[p].pc = "idle"
  BY DEF Init, Idle
<1>2. TypeOK
  <2>1. PICK first \in Legacy :
           /\ content = [f \in Files |-> IF first = None THEN Empty ELSE first]
           /\ vault \in IF first = None THEN {None} ELSE Files
    BY DEF Init
  <2>2. first = None \/ first \in Content
    BY <2>1, VaultAssumption
  <2>3. content \in [Files -> Content] /\ vault \in Files \cup {None}
    BY <2>1, <2>2 DEF Content
  <2> QED
    BY <2>3, VaultAssumption DEF Init, TypeOK
<1>3. Mutex /\ \A p \in Procs : JobInv(p)
  BY <1>1 DEF Mutex, JobInv, Active, At
<1>4. PlaceInv /\ KeptInv
  BY DEF Init, PlaceInv, KeptInv
<1> QED
  BY <1>2, <1>3, <1>4 DEF VaultInv

\* An operation that starts changes nothing on disk, and meets nobody at work
\* but on the file, one of the two only loading.
LEMMA BeginStep ==
  ASSUME VaultInv, Serial, NEW p \in Procs, NEW op \in Operations, Begin(p, op)
  PROVE  VaultInv' /\ Effect
<1> DEFINE j == [pc |-> "load", op |-> op, data |-> NoSecrets, file |-> None]
<1>1. /\ op \in Operation /\ TypeOK
      /\ UNCHANGED <<backend, content, vault, tmp, entry>>
  BY VaultAssumption DEF Begin, VaultInv, disk, place
<1>2. j \in Running /\ op.kind \in {"set", "remove", "load"} /\ (op.kind # "load" => op.name \in Names)
  BY <1>1, EmptyIsMap, OperationType DEF Running, Steps
<1>3. /\ proc' \in [Procs -> {Idle} \cup Running] /\ proc'[p] = j
      /\ \A q \in Procs : q # p => proc'[q] = proc[q]
  BY <1>1, <1>2 DEF Begin, TypeOK
<1>4. \A q \in Procs : q # p /\ Active(q) =>
        backend = "json" /\ (op.kind = "load" \/ Op(q).kind = "load")
  BY DEF Begin, MayOverlap, Load, Active, Op
<1>5. Mutex'
  BY <1>1, <1>3, <1>4 DEF VaultInv, Mutex, Active, At, Op
<1>6. /\ kept' \in [Names -> Values \cup {None, Torn}]
      /\ op.kind = "load" => kept' = kept
      /\ op.kind # "load" => kept'[op.name] = Torn
      /\ \A n \in Names : kept'[n] # Torn => kept'[n] = kept[n]
  BY <1>1, <1>2 DEF Begin, TypeOK
<1>7. Current' = Current /\ Whole' = Whole
  BY <1>1 DEF Current, OnDisk, Whole
<1>8. ASSUME NEW q \in Procs PROVE JobInv(q)'
  <2>1. CASE q = p
    BY <1>3, <1>6, <2>1 DEF JobInv, Active, At, Op
  <2>2. CASE q # p
    <3>1. proc'[q] = proc[q] /\ JobInv(q)
      BY <1>3, <2>2 DEF VaultInv
    <3>2. Active(q) /\ Op(q).kind # "load" => kept' = kept
      BY <1>4, <1>6, <2>2
    <3> QED
      BY <1>1, <1>7, <3>1, <3>2 DEF JobInv, Active, At, Op, Changed
  <2> QED
    BY <2>1, <2>2
<1>9. PlaceInv' /\ KeptInv'
  BY <1>1, <1>6, <1>7 DEF VaultInv, PlaceInv, KeptInv
<1>10. ops' \in 0 .. MaxOps
  BY <1>1, VaultAssumption DEF Begin, TypeOK
<1>11. TypeOK'
  BY <1>1, <1>3, <1>6, <1>10 DEF TypeOK
<1>12. VaultInv'
  BY <1>5, <1>8, <1>9, <1>11 DEF VaultInv
<1> QED
  BY <1>7, <1>12 DEF Effect

LEMMA EveryStep ==
  ASSUME VaultInv, Serial, [Next]_vars
  PROVE  VaultInv' /\ Effect
<1>1. CASE UNCHANGED vars
  BY <1>1 DEF vars, VaultInv, TypeOK, Mutex, JobInv, PlaceInv, KeptInv, Effect, Current, OnDisk,
              Whole, Changed, Active, At, Op
<1>2. CASE Next
  BY <1>2, BeginStep, ReadJsonStep, ReadKeychainStep, ReadLegacyStep, ImportStep, MoveAsideStep,
     SaveKeychainStep, OpenTmpStep, WriteStep, ChmodStep, RenameStep, FaultStep DEF Next
<1> QED
  BY <1>1, <1>2

\* The inductive invariant holds in every reachable state.
THEOREM Invariance == ASSUME Serial PROVE Spec => []VaultInv
<1>1. Init => VaultInv
  BY InitVaultInv
<1>2. VaultInv /\ [Next]_vars => VaultInv'
  BY EveryStep
<1> QED
  BY <1>1, <1>2, PTL DEF Spec

-----------------------------------------------------------------------------
(* The theorems.                                                           *)

\* No interleaving of loads with one writer, and no fault, brings a file, the
\* entry or a process where load and save have no case for it.
THEOREM TypeCorrect == ASSUME Serial PROVE Spec => []TypeOK
<1>1. VaultInv => TypeOK
  BY DEF VaultInv
<1> QED
  BY <1>1, Invariance, PTL

\* What the last successful `secret add' or `secret remove' of a name reported
\* is what the vault holds, whatever fails or dies afterwards.
THEOREM ReportsLast == ASSUME Serial PROVE Spec => []ReportsAreKept
<1>1. VaultInv => ReportsAreKept
  BY DEF VaultInv, KeptInv, ReportsAreKept, Current
<1> QED
  BY <1>1, Invariance, PTL

\* A vault file that holds a whole map is replaced by one that does: a save
\* that fails or dies never leaves it truncated.
THEOREM SavesAreWhole == ASSUME Serial PROVE Spec => VaultIsWhole
<1>1. VaultInv /\ [Next]_vars => [Whole => Whole']_vars
  BY EveryStep DEF Effect
<1> QED
  BY <1>1, Invariance, PTL DEF Spec, VaultIsWhole

\* The file with its temporary sibling, and the entry with its migration,
\* behave as one map that changes by one secret at once.
THEOREM AtomicRefinement == ASSUME Serial PROVE Spec => ImplementsAtomicVault
<1>1. VaultInv => AV!Init
  BY CurrentType DEF VaultInv, AV!Init, AV!VaultMap, VaultMap, Current
<1>2. VaultInv /\ [Next]_vars => [AV!Next]_(IF entry # None THEN entry ELSE OnDisk)
  BY EveryStep DEF Effect, Current, AV!Next, AV!Put
<1> QED
  BY <1>1, <1>2, Invariance, PTL DEF Spec, ImplementsAtomicVault, AV!Spec
=============================================================================
