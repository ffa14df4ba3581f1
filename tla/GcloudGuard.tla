------------------------------ MODULE GcloudGuard ------------------------------
(***************************************************************************)
(* Which gcloud commands are run, and with which arguments: the check of    *)
(* src/src/gcloud_guard.rs, the arguments that build_gcloud_argv adds, and  *)
(* what gcloud makes of them.                                               *)
(*                                                                         *)
(* An argument is a flag or a word.  A name is a sequence of pieces, cut so *)
(* that one name begins with another iff its pieces do; the value of a flag,*)
(* after "=" or in the next argument, belongs to it.  Case is left out.     *)
(***************************************************************************)
EXTENDS Integers, SequencesExt

CONSTANTS GcloudFlags,  \* the flags that the command of gcloud knows
          Project,      \* project_id of the config
          DefaultZone,  \* default_zone of the config, or Unset
          Unset

Arguments == [flag : BOOLEAN, name : Seq(STRING) \ {<<>>}, value : STRING]

Word(w) == [flag |-> FALSE, name |-> <<w>>, value |-> Unset]
Flag(name, v) == [flag |-> TRUE, name |-> name, value |-> v]

\* The argument after which gcloud takes nothing for a flag.
EndOfFlags == Word("--")

ProjectFlag == <<"proj", "ect">>
ZoneFlag == <<"zo", "ne">>
RegionFlag == <<"reg", "ion">>

DenyFirstTokens == {"auth", "iam", "billing", "projects", "kms", "secrets",
                    "resource-manager", "organizations", "config"}

DenyFlags == {<<"acc", "ount">>, <<"config", "uration">>,
              <<"impersonate", "-service", "-account">>, <<"key", "-file">>,
              <<"credential", "-file", "-override">>, ProjectFlag,
              <<"dest", "ination">>, <<"service", "-acc", "ount">>, <<"scope", "s">>}

KnownLocalFileFlags ==
  {<<"meta", "data", "-from", "-file">>, <<"flags", "-file">>,
   <<"source", "-instance", "-template", "-file">>, <<"config", "-from", "-file">>,
   <<"certificate", "-file">>, <<"private", "-key", "-file">>,
   <<"csek", "-key", "-file">>}

KnownSafeExactFlags == {<<"meta", "data">>}

\* Group and verbs, within "compute".
AllowedVerbs ==
  {<<"instances", {"list", "describe", "start", "stop", "reset", "delete", "create",
                   "set-machine-type"}>>,
   <<"disks", {"list", "describe", "create", "delete", "resize"}>>,
   <<"snapshots", {"list", "describe", "create", "delete"}>>,
   <<"firewall-rules", {"list", "describe"}>>,
   <<"images", {"list", "describe"}>>,
   <<"networks", {"list", "describe"}>>}

\* A command with a known file flag that begins like a safe one has the safe one
\* too; --project is known to every command.
ASSUME GcloudFlagsAssumption ==
  /\ ProjectFlag \in GcloudFlags
  /\ \A f \in GcloudFlags \cap KnownLocalFileFlags, s \in KnownSafeExactFlags :
       IsPrefix(s, f) => s \in GcloudFlags

-----------------------------------------------------------------------------
(* validate_gcloud_args.                                                   *)

\* Wrong: a flag is denied by its full name only.
IsOneOf(name, full) == name \in full

MatchesOrAbbreviates(name, full) == name # <<>> /\ \E f \in full : IsPrefix(name, f)

IsLocalFileFlag(name) ==
  /\ name \notin KnownSafeExactFlags
  /\ \/ IsSuffix(<<"-file">>, name)
     \/ \E i \in 1 .. Len(name) - 1 : name[i] = "-from" /\ name[i + 1] = "-file"
     \/ MatchesOrAbbreviates(name, KnownLocalFileFlags)

Denied(a) == a.flag /\ (MatchesOrAbbreviates(a.name, DenyFlags) \/ IsLocalFileFlag(a.name))

\* Group and verb are the first three arguments; a flag among them is refused.
Accepted(args) ==
  /\ \A i \in DOMAIN args : ~ Denied(args[i])
  /\ Len(args) >= 3
  /\ \A w \in DenyFirstTokens : args[1] # Word(w)
  /\ args[1] = Word("compute")
  /\ \E g \in AllowedVerbs :
       args[2] = Word(g[1]) /\ \E v \in g[2] : args[3] = Word(v)

-----------------------------------------------------------------------------
(* build_gcloud_argv.                                                      *)

HasFlag(argv, name) == \E i \in DOMAIN argv : argv[i].flag /\ argv[i].name = name

WithProject(args) ==
  IF HasFlag(args, ProjectFlag) THEN args ELSE Append(args, Flag(ProjectFlag, Project))

IsZonal(argv) == argv[1] = Word("compute") /\ argv[2] \in {Word("instances"), Word("disks")}

\* Wrong: only a zone of the caller keeps the default zone away.
ForgetsRegion(argv) == IsZonal(argv) /\ ~ HasFlag(argv, ZoneFlag) /\ DefaultZone # Unset

NeedsZone(argv) ==
  /\ IsZonal(argv) /\ DefaultZone # Unset
  /\ ~ HasFlag(argv, ZoneFlag) /\ ~ HasFlag(argv, RegionFlag)

BuildArgv(args) ==
  LET argv == WithProject(args)
  IN IF NeedsZone(argv) THEN Append(argv, Flag(ZoneFlag, DefaultZone)) ELSE argv

-----------------------------------------------------------------------------
(* gcloud.                                                                 *)

\* A flag's full name means this flag; otherwise a name means each flag that it
\* abbreviates.  gcloud does nothing when these are several, or none.
Means(name) == IF name \in GcloudFlags THEN {name}
               ELSE {f \in GcloudFlags : IsPrefix(name, f)}

EndsFlags(argv) == \E i \in DOMAIN argv : argv[i] = EndOfFlags

\* The values given for a flag.
Given(argv, f) ==
  {argv[i].value : i \in {j \in DOMAIN argv :
                           /\ argv[j].flag /\ Means(argv[j].name) = {f}
                           /\ \A k \in DOMAIN argv : k < j => argv[k] # EndOfFlags}}
=============================================================================
