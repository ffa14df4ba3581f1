----------------------------- MODULE EnvDeploys -----------------------------
(***************************************************************************)
(* A run of secret deployments to one env file, with nothing else touching  *)
(* it: what compute_env_update does to the file over many deployments, and  *)
(* what the redacted preview of each one shows.                             *)
(***************************************************************************)
EXTENDS EnvFile

CONSTANTS Files,       \* the texts the file may have at first
          EnvKeys,     \* the keys the calls may give
          Secrets,     \* the values the vault may hold
          MaxDeploys   \* bound on the length of a run

ASSUME EnvDeploysAssumption ==
  /\ Files \subseteq Text
  /\ EnvKeys \subseteq EnvKey
  /\ Secrets \subseteq SecretValue
  /\ MaxDeploys \in Nat

VARIABLES text,      \* the file
          original,  \* the file before the first deployment
          old,       \* the file before the last deployment
          deployed   \* the deployments so far, latest last

vars == <<text, original, old, deployed>>

Deployment == [key : EnvKeys, value : Secrets]

Init == /\ text \in Files
        /\ original = text /\ old = text
        /\ deployed = <<>>

Deploy(k, v) == /\ Len(deployed) < MaxDeploys
                /\ old' = text
                /\ text' = EnvUpdate(text, k, v)
                /\ deployed' = Append(deployed, [key |-> k, value |-> v])
                /\ UNCHANGED original

Next == \E k \in EnvKeys, v \in Secrets : Deploy(k, v)

Spec == Init /\ [][Next]_vars

-----------------------------------------------------------------------------
Last == deployed[Len(deployed)]

\* Nothing else in the run writes the name that deployment i sets: no line of
\* another key, no further line of a value.
OnlyWriter(i) ==
  \A j \in DOMAIN deployed :
    LET k == deployed[j].key
        v == deployed[j].value
    IN  ~ Assigns(IF k = deployed[i].key THEN v.rest ELSE NewLines(k, v),
                  deployed[i].key.name)

\* Type invariant of the env-file run.
TypeOK == /\ text \in Text /\ original \in Text /\ old \in Text
          /\ deployed \in Seq(Deployment)

\* A deployment leaves every assignment and comment of the file that is not
\* taken for its key as it was, in its place relative to the others, whatever
\* the key (compute_env_update).
OtherLinesKept ==
  deployed # <<>> =>
    WithoutKey(text.lines, Last.key, Last.value) = WithoutKey(old.lines, Last.key, Last.value)

\* Where the file assigned a name once or not at all, and nothing else in the
\* run writes it (a second spelling of the same key would), the file assigns it
\* once, and to the value it was last given, however many deployments of other
\* keys came after: a reader that takes the first assignment and one that takes
\* the last agree (compute_env_update replaces an assignment it finds and
\* appends one it does not).
LastValueReadsBack ==
  \A i \in DOMAIN deployed :
    /\ Exact(deployed[i].key) /\ OnlyWriter(i)
    /\ Len(AssignmentsOf(original.lines, deployed[i].key.name)) <= 1
    /\ \A j \in i + 1 .. Len(deployed) : deployed[j].key # deployed[i].key
    => ReadsBack(text, deployed[i].key.name, deployed[i].value)

\* A deployment that compute_env_update and redact_env_value can recognise
\* afterwards: one line, under a key that is exactly a name.
Recognised(d) == Exact(d.key) /\ d.value.rest = <<>>

\* Deploying such a secret again changes no line but blank ones: the file does
\* not grow with retries (compute_env_update finds the line it wrote).
RedeployKeepsLines ==
  deployed # <<>> /\ Recognised(Last) =>
    NonBlank(EnvUpdate(text, Last.key, Last.value).lines) = NonBlank(text.lines)

\* A redacted preview of the last deployment, before and after, shows only the
\* mask and lines the file already had for something else: no line of the new
\* value, and no line of any value the key had.
LastPreviewIsSafe ==
  LET k == Last.key
      Safe(label) == {Mask(k, label), Blank}
                       \cup {old.lines[i] : i \in {j \in DOMAIN old.lines :
                                                    old.lines[j] \notin Assigning(k.name)}}
      Shown(t, label) == LET r == RedactEnvValue(t, k, label).lines
                         IN  {r[i] : i \in DOMAIN r}
  IN  /\ Shown(old, "current") \subseteq Safe("current")
      /\ Shown(text, "new secret value") \subseteq Safe("new secret value")

\* The preview of a value of one line under a key that is exactly a name shows
\* no value (redact_env_value).  Under another key it is not masked at all.
PreviewShowsNoSecret == deployed # <<>> /\ Recognised(Last) => LastPreviewIsSafe
=============================================================================
