------------------------------ MODULE GcloudProofs ------------------------------
(***************************************************************************)
(* Whatever flags gcloud knows and whatever the callers ask, commands run on *)
(* the project of the config; whatever a pipe holds and a command writes,   *)
(* its output is whole; whichever steps fail, the key goes.                 *)
(***************************************************************************)
EXTENDS Gcloud, TLAPS

\* Elements of a sequence, and of one with an element appended.
LEMMA Element == ASSUME NEW S, NEW s \in Seq(S), NEW i \in DOMAIN s PROVE s[i] \in S
  OBVIOUS

LEMMA Appended ==
  ASSUME NEW S, NEW s \in Seq(S), NEW e
  PROVE  /\ Append(s, e) \in Seq(S \cup {e})
         /\ Len(s) + 1 \in DOMAIN Append(s, e) /\ Append(s, e)[Len(s) + 1] = e
         /\ \A i \in DOMAIN s : i \in DOMAIN Append(s, e) /\ Append(s, e)[i] = s[i]
         /\ \A i \in DOMAIN Append(s, e) : i # Len(s) + 1 => i \in DOMAIN s
  OBVIOUS

\* The elements of a sequence come before the place of the next one.
LEMMA BeforeTheNext ==
  ASSUME NEW S, NEW s \in Seq(S)
  PROVE  /\ Len(s) + 1 \notin DOMAIN s /\ ~ (Len(s) + 1 < Len(s) + 1)
         /\ \A i \in DOMAIN s : i < Len(s) + 1 /\ ~ (Len(s) + 1 < i)
<1>1. Len(s) \in Nat /\ DOMAIN s = 1 .. Len(s)
  OBVIOUS
<1> QED
  BY <1>1

\* What has been validated stays so while the command is prepared and runs.
Validated ==
  /\ args \in Requests
  /\ (pc \notin {"check", "error", "dead"} \/ child # "none") => Accepted(args)

\* gcloud takes no flag that passes the guard for one that is denied
\* (matches_or_abbreviates and is_local_file_flag, which see only the name).
LEMMA PassedIsNotDenied ==
  ASSUME NEW a \in Arguments,
         a.flag, ~ Denied(a)
  PROVE  Means(a.name) \cap (DenyFlags \cup KnownLocalFileFlags) = {}
<1> SUFFICES ASSUME NEW f \in Means(a.name), f \in DenyFlags \cup KnownLocalFileFlags
             PROVE  FALSE
  OBVIOUS
<1>1. a.name # <<>> /\ a.name \in Seq(STRING)
  BY DEF Arguments
<1>2. IsPrefix(a.name, a.name)
  BY <1>1 DEF IsPrefix
<1>3. f \in GcloudFlags /\ IsPrefix(a.name, f)
  <2>1. CASE a.name \in GcloudFlags
    BY <2>1, <1>2 DEF Means
  <2>2. CASE a.name \notin GcloudFlags
    BY <2>2 DEF Means
  <2> QED
    BY <2>1, <2>2
<1>4. f \notin DenyFlags
  BY <1>1, <1>3 DEF Denied, MatchesOrAbbreviates
<1>5. f \in KnownLocalFileFlags
  BY <1>4
<1>6. MatchesOrAbbreviates(a.name, KnownLocalFileFlags)
  BY <1>1, <1>3, <1>5 DEF MatchesOrAbbreviates
<1>7. a.name \in KnownSafeExactFlags
  BY <1>6 DEF Denied, IsLocalFileFlag
<1>8. a.name \in GcloudFlags
  BY <1>3, <1>5, <1>7, GcloudFlagsAssumption
<1>9. f = a.name
  BY <1>8 DEF Means
<1>10. Len(<<"meta", "data">>) = 2 /\ \A g \in KnownLocalFileFlags : g # <<"meta", "data">>
  BY DEF KnownLocalFileFlags
<1> QED
  BY <1>5, <1>7, <1>9, <1>10 DEF KnownSafeExactFlags

\* gcloud takes --zone, with which build_gcloud_argv may end, for no --project.
LEMMA ZoneIsNoProject == Means(ZoneFlag) # {ProjectFlag}
<1>1. ZoneFlag # ProjectFlag
  BY DEF ZoneFlag, ProjectFlag
<1>2. ~ IsPrefix(ZoneFlag, ProjectFlag)
  <2>1. /\ Len(ZoneFlag) = 2 /\ SubSeq(ZoneFlag, 1, 2)[1] = "zo"
        /\ SubSeq(ProjectFlag, 1, 2)[1] = "proj"
    BY DEF ZoneFlag, ProjectFlag
  <2> QED
    BY <2>1 DEF IsPrefix
<1> QED
  BY <1>1, <1>2 DEF Means

\* What a further argument gives, and which flag it spells.
LEMMA GivenOneMore ==
  ASSUME NEW S, NEW as \in Seq(S), NEW e, NEW f, e # EndOfFlags
  PROVE  /\ Given(Append(as, e), f) =
              Given(as, f) \cup (IF ~ EndsFlags(as) /\ e.flag /\ Means(e.name) = {f}
                               THEN {e.value} ELSE {})
         /\ HasFlag(Append(as, e), f) <=> HasFlag(as, f) \/ (e.flag /\ e.name = f)
         /\ EndsFlags(Append(as, e)) <=> EndsFlags(as)
<1> DEFINE all == Append(as, e)
<1> DEFINE n == Len(as) + 1
<1>1. /\ n \in DOMAIN all /\ all[n] = e
      /\ \A i \in DOMAIN as : i \in DOMAIN all /\ all[i] = as[i]
      /\ \A i \in DOMAIN all : i # n => i \in DOMAIN as
  <2>1. /\ Append(as, e) \in Seq(S \cup {e})
        /\ Len(as) + 1 \in DOMAIN Append(as, e) /\ Append(as, e)[Len(as) + 1] = e
        /\ \A i \in DOMAIN as : i \in DOMAIN Append(as, e) /\ Append(as, e)[i] = as[i]
        /\ \A i \in DOMAIN Append(as, e) : i # Len(as) + 1 => i \in DOMAIN as
    BY Appended, Zenon
  <2> QED
    BY ONLY <2>1 DEF all, n
<1>2. /\ n \notin DOMAIN as /\ ~ (n < n)
      /\ \A i \in DOMAIN as : i < n /\ ~ (n < i)
  BY BeforeTheNext, Zenon DEF n
<1> HIDE DEF all, n
<1> DEFINE First(s, j) == \A k \in DOMAIN s : k < j => s[k] # EndOfFlags
<1>4. \A j \in DOMAIN as : First(all, j) <=> First(as, j)
  BY <1>1, <1>2
<1>5. First(all, n) <=> ~ EndsFlags(as)
  <2>1. \A k \in DOMAIN all : k < n <=> k \in DOMAIN as
    BY <1>1, <1>2
  <2> QED
    BY <1>1, <2>1 DEF EndsFlags
<1> DEFINE Gives(s, j) == s[j].flag /\ Means(s[j].name) = {f} /\ First(s, j)
<1>7. /\ Given(all, f) = {all[i].value : i \in {j \in DOMAIN all : Gives(all, j)}}
      /\ Given(as, f) = {as[i].value : i \in {j \in DOMAIN as : Gives(as, j)}}
  BY DEF Given
<1>8. /\ \A j \in DOMAIN as : Gives(all, j) <=> Gives(as, j)
      /\ Gives(all, n) <=> ~ EndsFlags(as) /\ e.flag /\ Means(e.name) = {f}
  BY <1>1, <1>4, <1>5
<1> HIDE DEF Gives
<1>9. Given(all, f) = Given(as, f) \cup (IF ~ EndsFlags(as) /\ e.flag /\ Means(e.name) = {f}
                                        THEN {e.value} ELSE {})
  <2>1. {j \in DOMAIN all : Gives(all, j)} =
          {j \in DOMAIN as : Gives(as, j)}
            \cup (IF ~ EndsFlags(as) /\ e.flag /\ Means(e.name) = {f} THEN {n} ELSE {})
    BY ONLY <1>1, <1>2, <1>8
  <2> QED
    BY ONLY <1>1, <1>7, <2>1
<1>10. HasFlag(all, f) <=> HasFlag(as, f) \/ (e.flag /\ e.name = f)
  BY <1>1 DEF HasFlag
<1>11. EndsFlags(all) <=> EndsFlags(as)
  BY <1>1 DEF EndsFlags
<1> QED
  BY <1>9, <1>10, <1>11 DEF all

\* A flag does not end the flags.
LEMMA FlagEndsNothing == \A name, v : Flag(name, v) # EndOfFlags
<1> SUFFICES ASSUME NEW name, NEW v PROVE Flag(name, v) # EndOfFlags
  OBVIOUS
<1>1. Flag(name, v).flag /\ ~ EndOfFlags.flag
  BY DEF Flag, EndOfFlags, Word
<1> QED
  BY <1>1

\* The server's project is the only one that gcloud is given, unless the flags end
\* before it.
LEMMA ProjectIsPinned ==
  ASSUME NEW as \in Seq(Arguments),
         \A i \in DOMAIN as : ~ Denied(as[i])
  PROVE  Given(BuildArgv(as), ProjectFlag) = IF EndsFlags(as) THEN {} ELSE {Project}
<1> DEFINE p == Flag(ProjectFlag, Project)
<1> DEFINE z == Flag(ZoneFlag, DefaultZone)
<1> DEFINE argv == Append(as, p)
<1> DEFINE all == Append(argv, z)
<1>1. ASSUME NEW i \in DOMAIN as, as[i].flag PROVE Means(as[i].name) # {ProjectFlag}
  <2>1. as[i] \in Arguments /\ ~ Denied(as[i])
    BY Element
  <2>2. Means(as[i].name) \cap (DenyFlags \cup KnownLocalFileFlags) = {}
    BY <1>1, <2>1, PassedIsNotDenied
  <2>3. ProjectFlag \in DenyFlags
    BY DEF DenyFlags
  <2> QED
    BY <2>2, <2>3
<1>2. Means(ProjectFlag) = {ProjectFlag}
  BY GcloudFlagsAssumption DEF Means
<1>3. BuildArgv(as) = IF NeedsZone(argv) THEN all ELSE argv
  BY <1>1, <1>2 DEF BuildArgv, WithProject, HasFlag
<1>4. p.flag /\ p.name = ProjectFlag /\ p.value = Project /\ z.name = ZoneFlag
  BY DEF Flag
<1>5. p # EndOfFlags /\ z # EndOfFlags
  BY FlagEndsNothing
<1>6. Given(as, ProjectFlag) = {}
  BY <1>1 DEF Given
<1> HIDE DEF p, z
<1>7. Given(argv, ProjectFlag) = IF EndsFlags(as) THEN {} ELSE {Project}
  <2>1. Given(Append(as, p), ProjectFlag) =
           Given(as, ProjectFlag) \cup (IF ~ EndsFlags(as) /\ p.flag /\ Means(p.name) = {ProjectFlag}
                                        THEN {p.value} ELSE {})
    BY <1>5, GivenOneMore, Zenon
  <2> QED
    BY ONLY <2>1, <1>2, <1>4, <1>6 DEF argv
<1>8. argv \in Seq(Arguments \cup {p})
  BY Appended, Zenon DEF argv
<1> HIDE DEF argv
<1>9. Given(all, ProjectFlag) = Given(argv, ProjectFlag)
  <2>1. Given(Append(argv, z), ProjectFlag) =
           Given(argv, ProjectFlag) \cup (IF ~ EndsFlags(argv) /\ z.flag /\ Means(z.name) = {ProjectFlag}
                                          THEN {z.value} ELSE {})
    BY <1>5, <1>8, GivenOneMore, Zenon
  <2> QED
    BY ONLY <2>1, <1>4, ZoneIsNoProject DEF all
<1> HIDE DEF all
<1> QED
  BY <1>3, <1>7, <1>9

\* No command starts before its arguments have been validated, and they stay the
\* same: the inductive invariant.
LEMMA ValidatedBeforeRun == Spec => []Validated
<1>1. Init => Validated
  BY DEF Init, Validated
<1>2. Validated /\ [Next]_vars => Validated'
  <2> SUFFICES ASSUME Validated, [Next]_vars PROVE Validated'
    OBVIOUS
  <2> USE DEF Validated, Go, command
  <2>1. CASE Validates
    BY <2>1 DEF Validates
  <2>2. CASE WriteKey \/ Authenticate \/ DropKey \/ GivesUp
    BY <2>2 DEF WriteKey, Authenticate, DropKey, GivesUp
  <2>3. CASE Spawn
    BY <2>3 DEF Spawn
  <2>4. CASE Reaps \/ Expires \/ Kills \/ Joins \/ JoinsLate
    BY <2>4 DEF Reaps, Expires, Kills, Joins, JoinsLate, Alive
  <2>5. CASE Command \/ Forks \/ Hangs
    BY <2>5 DEF Command, Writes, Exits, Forks, Hangs
  <2>6. CASE TimePasses \/ Crash \/ \E q \in Pipes : Drains(q)
    BY <2>6 DEF TimePasses, Crash, Drains
  <2>7. CASE UNCHANGED vars
    BY <2>7 DEF vars
  <2> QED
    BY <2>1, <2>2, <2>3, <2>4, <2>5, <2>6, <2>7 DEF Next, Caller
<1> QED
  BY <1>1, <1>2, PTL DEF Spec

\* What validate_gcloud_args lets pass pivots off neither account nor project, for
\* every set of flags that gcloud may know.
THEOREM OnlyPinnedCommandsRun == Spec => []RunsAsPinned
<1>1. Validated => RunsAsPinned
  <2> SUFFICES ASSUME Validated, child # "none" PROVE RunsAsPinned
    BY DEF RunsAsPinned
  <2>1. args \in Seq(Arguments)
    BY GcloudAssumption DEF Validated
  <2>2. \A i \in DOMAIN args : ~ Denied(args[i])
    BY DEF Validated, Accepted
  <2>3. Given(BuildArgv(args), ProjectFlag) = IF EndsFlags(args) THEN {} ELSE {Project}
    BY <2>1, <2>2, ProjectIsPinned
  <2>4. ASSUME NEW i \in DOMAIN args, args[i].flag
        PROVE  Means(args[i].name) \cap (DenyFlags \cup KnownLocalFileFlags) = {}
    BY <2>1, <2>2, <2>4, PassedIsNotDenied
  <2> QED
    BY <2>3, <2>4 DEF RunsAsPinned
<1> QED
  BY <1>1, ValidatedBeforeRun, PTL

-----------------------------------------------------------------------------
(* The zone.                                                               *)

\* gcloud knows a zone or region flag that a request spells out, and --zone in any
\* case, which the server may add: it does nothing with a flag that it does not know.
FlagsAreKnown == /\ ZoneFlag \in GcloudFlags
                 /\ \A r \in Requests : HasFlag(r, RegionFlag) => RegionFlag \in GcloudFlags

\* The two flags of a place and the one of a project are three, and gcloud takes
\* none of them for another.
LEMMA ThreeFlags ==
  ASSUME ZoneFlag \in GcloudFlags
  PROVE  /\ Means(ProjectFlag) = {ProjectFlag} /\ Means(ZoneFlag) = {ZoneFlag}
         /\ ProjectFlag # ZoneFlag /\ ProjectFlag # RegionFlag /\ ZoneFlag # RegionFlag
<1>1. ProjectFlag # ZoneFlag /\ ProjectFlag # RegionFlag /\ ZoneFlag # RegionFlag
  BY DEF ProjectFlag, ZoneFlag, RegionFlag
<1> QED
  BY <1>1, GcloudFlagsAssumption DEF Means

\* The project is added to arguments that have passed.
LEMMA ProjectIsAdded ==
  ASSUME NEW as \in Seq(Arguments), \A i \in DOMAIN as : ~ Denied(as[i])
  PROVE  WithProject(as) = Append(as, Flag(ProjectFlag, Project))
<1> SUFFICES ASSUME NEW i \in DOMAIN as, as[i].flag, as[i].name = ProjectFlag PROVE FALSE
  BY DEF WithProject, HasFlag
<1>1. as[i] \in Arguments /\ ~ Denied(as[i])
  BY Element
<1>2. Means(ProjectFlag) = {ProjectFlag} /\ ProjectFlag \in DenyFlags
  BY GcloudFlagsAssumption DEF Means, DenyFlags
<1>3. Means(as[i].name) \cap (DenyFlags \cup KnownLocalFileFlags) = {}
  BY <1>1, PassedIsNotDenied
<1> QED
  BY <1>2, <1>3

\* A flag that is spelled out, and that gcloud knows, is given.
LEMMA SpelledIsGiven ==
  ASSUME NEW as, NEW f \in GcloudFlags, HasFlag(as, f), ~ EndsFlags(as)
  PROVE  Given(as, f) # {}
<1>1. Means(f) = {f}
  BY DEF Means
<1> QED
  BY <1>1 DEF HasFlag, Given, EndsFlags

\* Three arguments have a first and a second.
LEMMA FirstTwo ==
  ASSUME NEW S, NEW s \in Seq(S), Len(s) >= 3
  PROVE  1 \in DOMAIN s /\ 2 \in DOMAIN s
OBVIOUS

\* gcloud is given the zone or the region of the caller, or the default zone.
LEMMA PlaceIsKept ==
  ASSUME FlagsAreKnown, NEW as \in Requests, Accepted(as), ~ EndsFlags(as),
         Place(as) # {} => HasFlag(as, ZoneFlag) \/ HasFlag(as, RegionFlag)
  PROVE  Place(BuildArgv(as)) =
           IF Place(as) # {} THEN Place(as)
           ELSE IF IsZonal(as) /\ DefaultZone # Unset THEN {DefaultZone} ELSE {}
<1> DEFINE p == Flag(ProjectFlag, Project)
<1> DEFINE z == Flag(ZoneFlag, DefaultZone)
<1> DEFINE argv == Append(as, p)
<1> DEFINE all == Append(argv, z)
<1>1. as \in Seq(Arguments) /\ Len(as) >= 3 /\ \A i \in DOMAIN as : ~ Denied(as[i])
  BY GcloudAssumption DEF Accepted
<1>2. BuildArgv(as) = IF NeedsZone(argv) THEN all ELSE argv
  BY <1>1, ProjectIsAdded DEF BuildArgv
<1>3. p.flag /\ p.name = ProjectFlag
  BY DEF Flag
<1>4. z.flag /\ z.name = ZoneFlag /\ z.value = DefaultZone
  BY DEF Flag
<1>5. argv \in Seq(Arguments \cup {p}) /\ argv[1] = as[1] /\ argv[2] = as[2]
  <2>1. /\ argv \in Seq(Arguments \cup {p})
        /\ \A i \in DOMAIN as : argv[i] = as[i]
    <3>1. as \in Seq(Arguments)
      BY <1>1
    <3>2. /\ Append(as, p) \in Seq(Arguments \cup {p})
          /\ Len(as) + 1 \in DOMAIN Append(as, p) /\ Append(as, p)[Len(as) + 1] = p
          /\ \A i \in DOMAIN as : i \in DOMAIN Append(as, p) /\ Append(as, p)[i] = as[i]
          /\ \A i \in DOMAIN Append(as, p) : i # Len(as) + 1 => i \in DOMAIN as
      BY <3>1, Appended, Zenon
    <3> QED
      BY ONLY <3>2 DEF argv
  <2>2. 1 \in DOMAIN as /\ 2 \in DOMAIN as
    BY <1>1, FirstTwo
  <2> HIDE DEF argv
  <2> QED
    BY <2>1, <2>2
<1>6. /\ Means(ProjectFlag) = {ProjectFlag} /\ Means(ZoneFlag) = {ZoneFlag}
      /\ ProjectFlag # ZoneFlag /\ ProjectFlag # RegionFlag /\ ZoneFlag # RegionFlag
  BY ThreeFlags DEF FlagsAreKnown
<1>0. p # EndOfFlags /\ z # EndOfFlags
  BY FlagEndsNothing
<1> HIDE DEF p, z
<1>7. /\ Given(argv, ZoneFlag) = Given(as, ZoneFlag)
      /\ Given(argv, RegionFlag) = Given(as, RegionFlag)
      /\ HasFlag(argv, ZoneFlag) <=> HasFlag(as, ZoneFlag)
      /\ HasFlag(argv, RegionFlag) <=> HasFlag(as, RegionFlag)
      /\ ~ EndsFlags(argv)
  <2>1. ASSUME NEW f
        PROVE  /\ Given(argv, f) =
                    Given(as, f) \cup (IF p.flag /\ Means(p.name) = {f} THEN {p.value} ELSE {})
               /\ HasFlag(argv, f) <=> HasFlag(as, f) \/ (p.flag /\ p.name = f)
               /\ ~ EndsFlags(argv)
    <3>1. as \in Seq(Arguments)
      BY <1>1
    <3>2. /\ Given(argv, f) =
               Given(as, f) \cup (IF ~ EndsFlags(as) /\ p.flag /\ Means(p.name) = {f}
                                THEN {p.value} ELSE {})
          /\ HasFlag(argv, f) <=> HasFlag(as, f) \/ (p.flag /\ p.name = f)
          /\ EndsFlags(argv) <=> EndsFlags(as)
      BY ONLY <1>0, <3>1, GivenOneMore, Zenon DEF argv
    <3> HIDE DEF argv
    <3> QED
      BY <3>2
  <2> HIDE DEF argv
  <2> QED
    BY ONLY <2>1, <1>3, <1>6
<1> HIDE DEF argv
<1>8. /\ Given(all, ZoneFlag) = Given(argv, ZoneFlag) \cup {DefaultZone}
      /\ Given(all, RegionFlag) = Given(argv, RegionFlag)
  <2>1. ASSUME NEW f
        PROVE  Given(all, f) =
                 Given(argv, f) \cup (IF z.flag /\ Means(z.name) = {f} THEN {z.value} ELSE {})
    <3>1. Given(all, f) =
            Given(argv, f) \cup (IF ~ EndsFlags(argv) /\ z.flag /\ Means(z.name) = {f}
                               THEN {z.value} ELSE {})
      BY ONLY <1>0, <1>5, GivenOneMore, Zenon DEF all
    <3> HIDE DEF all
    <3> QED
      BY <1>7, <3>1
  <2> HIDE DEF all
  <2> QED
    BY ONLY <2>1, <1>4, <1>6
<1> HIDE DEF all
<1>9. /\ Place(argv) = Place(as) /\ Place(all) = Place(as) \cup {DefaultZone}
      /\ IsZonal(argv) <=> IsZonal(as)
  BY <1>5, <1>7, <1>8 DEF Place, IsZonal
<1>10. NeedsZone(argv) <=> /\ IsZonal(as) /\ DefaultZone # Unset
                           /\ ~ HasFlag(as, ZoneFlag) /\ ~ HasFlag(as, RegionFlag)
  BY <1>7, <1>9 DEF NeedsZone
<1>11. Place(as) # {} <=> HasFlag(as, ZoneFlag) \/ HasFlag(as, RegionFlag)
  BY SpelledIsGiven DEF Place, FlagsAreKnown
<1> QED
  BY <1>2, <1>9, <1>10, <1>11

\* build_gcloud_argv keeps a zone or region that the caller has spelled out the only
\* one, and adds the default zone to a command on zonal resources that has neither,
\* whatever else is asked.
THEOREM PlaceIsAsAsked == ASSUME FlagsAreKnown PROVE Spec => []RunsWhereAsked
<1>1. Validated => RunsWhereAsked
  <2> SUFFICES ASSUME Validated, child # "none", ~ EndsFlags(args),
                      Place(args) # {} => Spells(ZoneFlag) \/ Spells(RegionFlag)
               PROVE  Place(BuildArgv(args)) =
                        IF Place(args) # {} THEN Place(args)
                        ELSE IF IsZonal(args) /\ DefaultZone # Unset THEN {DefaultZone} ELSE {}
    BY DEF RunsWhereAsked
  <2>1. args \in Requests /\ Accepted(args)
    BY DEF Validated
  <2>2. Place(args) # {} => HasFlag(args, ZoneFlag) \/ HasFlag(args, RegionFlag)
    BY DEF Spells
  <2> QED
    BY <2>1, <2>2, PlaceIsKept
<1> QED
  BY <1>1, ValidatedBeforeRun, PTL

-----------------------------------------------------------------------------
(* The pipes and the key.                                                  *)

\* No command before run_gcloud; what is read and what is in the pipe is what was
\* written; a thread that is done has found the end, which stays the end.
PipeInv == /\ TypeOK
           /\ pc \in {"check", "start", "key", "activate", "spawn"} => child = "none"
           /\ \A p \in Pipes :
                /\ drained[p].read + pipe[p] = written[p]
                /\ drained[p].done => /\ pipe[p] = 0 /\ ~ orphan
                                      /\ child \in {"ended", "killed"}
           /\ pc = "ok" => Drained

\* Every step keeps PipeInv, and KeyIsGone with it.
LEMMA PipesAndKey == Spec => [](PipeInv /\ KeyIsGone)
<1>1. Init => PipeInv /\ KeyIsGone
  <2> SUFFICES ASSUME Init PROVE PipeInv /\ KeyIsGone
    OBVIOUS
  <2>1. written \in [Pipes -> 0 .. MaxOutput] /\ pipe \in [Pipes -> 0 .. Capacity]
    BY GcloudAssumption DEF Init
  <2>2. drained \in [Pipes -> [read : 0 .. MaxOutput, done : BOOLEAN]]
    <3>1. 0 \in 0 .. MaxOutput
      BY GcloudAssumption
    <3>2. drained = [p \in Pipes |-> [read |-> 0, done |-> FALSE]]
      BY DEF Init
    <3> QED
      BY <3>1, <3>2
  <2>3. TypeOK
    BY <2>1, <2>2 DEF Init, TypeOK, Steps, Commands
  <2>4. \A p \in Pipes : written[p] = 0 /\ pipe[p] = 0 /\ drained[p].read = 0 /\ ~ drained[p].done
    BY DEF Init
  <2> QED
    BY <2>3, <2>4 DEF Init, PipeInv, KeyIsGone
<1>2. PipeInv /\ KeyIsGone /\ [Next]_vars => (PipeInv /\ KeyIsGone)'
  <2> SUFFICES ASSUME PipeInv, KeyIsGone, [Next]_vars PROVE PipeInv' /\ KeyIsGone'
    OBVIOUS
  <2> USE DEF PipeInv, KeyIsGone, TypeOK, Go, command, Steps, Commands, Drained
  <2>1. CASE Validates
    BY <2>1 DEF Validates
  <2>2. CASE WriteKey \/ Authenticate \/ DropKey
    BY <2>2 DEF WriteKey, Authenticate, DropKey
  <2>3. CASE GivesUp
    BY <2>3 DEF GivesUp
  <2>4. CASE Spawn
    BY <2>4 DEF Spawn
  <2>5. CASE Reaps \/ Expires
    BY <2>5 DEF Reaps, Expires
  <2>6. CASE Kills
    BY <2>6 DEF Kills, Alive
  <2>7. CASE Joins \/ JoinsLate
    BY <2>7 DEF Joins, JoinsLate
  <2>8. ASSUME NEW q \in Pipes, Writes(q) PROVE PipeInv' /\ KeyIsGone'
    BY <2>8, GcloudAssumption DEF Writes
  <2>9. CASE Exits
    BY <2>9 DEF Exits
  <2>10. CASE Forks
    BY <2>10 DEF Forks
  <2>11. CASE Hangs
    BY <2>11 DEF Hangs
  <2>12. CASE TimePasses
    <3>1. late' \in BOOLEAN
      BY <2>12 DEF TimePasses
    <3>2. pc = "poll" /\ UNCHANGED <<args, pc, key, child, orphan, written, pipe, drained>>
      BY <2>12 DEF TimePasses
    <3> QED
      BY <3>1, <3>2
  <2>15. CASE Crash
    BY <2>15 DEF Crash
  <2>13. ASSUME NEW q \in Pipes, Drains(q) PROVE PipeInv' /\ KeyIsGone'
    <3>1. child # "none" /\ ~ drained[q].done /\ UNCHANGED <<args, pc, key, child, orphan, late, written>>
      BY <2>13 DEF Drains
    <3>2. CASE /\ pipe[q] > 0
               /\ drained' = [drained EXCEPT ![q].read = @ + pipe[q]]
               /\ pipe' = [pipe EXCEPT ![q] = 0]
      <4>1. drained[q].read + pipe[q] \in 0 .. MaxOutput
        OBVIOUS
      <4>2. /\ drained' \in [Pipes -> [read : 0 .. MaxOutput, done : BOOLEAN]]
            /\ \A p \in Pipes : /\ drained'[p].done = drained[p].done
                                /\ p # q => drained'[p].read = drained[p].read
            /\ drained'[q].read = drained[q].read + pipe[q]
        BY <3>2, <4>1
      <4>3. pipe' \in [Pipes -> 0 .. Capacity]
        BY <3>2, GcloudAssumption
      <4> QED
        BY <3>1, <3>2, <4>2, <4>3
    <3>3. CASE /\ pipe[q] = 0 /\ ~ Alive /\ ~ orphan
               /\ drained' = [drained EXCEPT ![q].done = TRUE]
               /\ pipe' = pipe
      <4>1. /\ drained' \in [Pipes -> [read : 0 .. MaxOutput, done : BOOLEAN]]
            /\ \A p \in Pipes : /\ drained'[p].read = drained[p].read
                                /\ drained'[p].done => (drained[p].done \/ p = q)
                                /\ drained[p].done => drained'[p].done
        BY <3>3
      <4>2. child \in {"ended", "killed"}
        BY <3>1, <3>3 DEF Alive
      <4> QED
        BY <3>1, <3>3, <4>1, <4>2
    <3> QED
      BY <2>13, <3>2, <3>3 DEF Drains
  <2>14. CASE UNCHANGED vars
    BY <2>14 DEF vars
  <2> QED
    BY <2>1, <2>2, <2>3, <2>4, <2>5, <2>6, <2>7, <2>8, <2>9, <2>10, <2>11, <2>12,
       <2>13, <2>14, <2>15 DEF Next, Caller, Command
<1> QED
  BY <1>1, <1>2, PTL DEF Spec

\* The type invariant of the activation and of run_gcloud, whatever a pipe holds
\* and the command writes.
THEOREM TypeCorrect == Spec => []TypeOK
<1>1. PipeInv => TypeOK
  BY DEF PipeInv
<1> QED
  BY <1>1, PipesAndKey, PTL

\* run_gcloud returns all that the command wrote, whatever a pipe holds and the
\* command writes: the threads return only when they have found the end, and after
\* the end nothing is written.
THEOREM WholeOutput == Spec => []OutputIsWhole
<1>1. PipeInv => OutputIsWhole
  BY DEF PipeInv, OutputIsWhole, TypeOK, Drained
<1> QED
  BY <1>1, PipesAndKey, PTL

\* After the activation the key file is gone, whichever step of
\* activate_service_account fails.
THEOREM NoKeyIsLeft == Spec => []KeyIsGone
BY PipesAndKey, PTL
=============================================================================
