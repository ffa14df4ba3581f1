-------------------------------- MODULE Gcloud --------------------------------
(***************************************************************************)
(* A gcloud command (src/src/gcloud.rs): its arguments are validated,       *)
(* activate_service_account passes the key to gcloud in a temporary file,   *)
(* run_gcloud starts the command, drains its two pipes on two threads, polls*)
(* it, kills it at the deadline, and joins the threads.  The command line   *)
(* does one after the other; the server activates once, when it starts, and *)
(* validates before each run_gcloud.                                        *)
(*                                                                         *)
(* A pipe is at its end when nobody can write to it any more: neither the   *)
(* command nor a process that the command has started.                      *)
(***************************************************************************)
EXTENDS GcloudGuard, Naturals

CONSTANTS Requests,   \* the arguments that callers give
          MaxOutput,  \* the most the command writes to one pipe
          Capacity,   \* what a pipe holds
          Child,      \* what the command may do: "hang", "orphan"
          Faults      \* "fail": a step fails; "crash": the process dies

Pipes == {"stdout", "stderr"}

ASSUME GcloudAssumption ==
  /\ Requests \subseteq Seq(Arguments)
  /\ MaxOutput \in Nat /\ Capacity \in Nat \ {0}
  /\ Child \subseteq {"hang", "orphan"}
  /\ Faults \subseteq {"fail", "crash"}

VARIABLES args,     \* the arguments that the caller gives
          pc,       \* the caller: see Steps
          key,      \* is there a temporary key file?
          child,    \* the command: see Commands
          orphan,   \* does a process started by it hold its pipes?
          late,     \* has the deadline passed?
          written,  \* what the command wrote to each pipe
          pipe,     \* what is in each pipe
          drained   \* each thread: what it has read, and whether it is done

vars == <<args, pc, key, child, orphan, late, written, pipe, drained>>
command == <<child, orphan, written, pipe>>

Steps == {"check",                          \* validate_gcloud_args
          "start", "key", "activate",       \* activate_service_account
          "spawn", "poll", "kill", "reap", "join",  \* run_gcloud
          "ok", "timeout", "error", "dead"}
Commands == {"none", "running", "hung", "ended", "killed"}  \* ended by itself
Over == pc \in {"ok", "timeout", "error", "dead"}

Init == /\ args \in Requests
        /\ pc = "check" /\ key = FALSE
        /\ child = "none" /\ orphan = FALSE /\ late = FALSE
        /\ written = [p \in Pipes |-> 0] /\ pipe = [p \in Pipes |-> 0]
        /\ drained = [p \in Pipes |-> [read |-> 0, done |-> FALSE]]

Go(from, to) == pc = from /\ pc' = to /\ UNCHANGED <<args, late>>

-----------------------------------------------------------------------------
(* Validation and activation.                                              *)

Validates == /\ \/ Accepted(args) /\ Go("check", "start")
                \/ ~ Accepted(args) /\ Go("check", "error")
             /\ UNCHANGED <<key, command, drained>>

\* The key is in the vault; it is written to a temporary file.
WriteKey == Go("start", "key") /\ key' = TRUE /\ UNCHANGED <<command, drained>>

\* gcloud auth activate-service-account is started, and waited for.
Authenticate == Go("key", "activate") /\ UNCHANGED <<key, command, drained>>

\* Wrong: the key file goes only when all went well.
KeepsKeyOnError == \/ /\ Go("activate", "spawn") /\ key' = FALSE
                      /\ UNCHANGED <<command, drained>>
                   \/ /\ "fail" \in Faults /\ Go("activate", "error")
                      /\ UNCHANGED <<key, command, drained>>

\* The temporary file is dropped before the status is looked at.
DropKey == /\ Go("activate", "spawn") \/ ("fail" \in Faults /\ Go("activate", "error"))
           /\ key' = FALSE
           /\ UNCHANGED <<command, drained>>

\* No vault, no secret, no directory, no gcloud, an error of try_wait.  The file
\* is dropped on the way.
GivesUp == /\ "fail" \in Faults
           /\ \E from \in {"start", "key", "spawn", "poll"} : Go(from, "error")
           /\ key' = FALSE
           /\ UNCHANGED <<command, drained>>

-----------------------------------------------------------------------------
(* The command and its pipes.                                              *)

Spawn == /\ Go("spawn", "poll")
         /\ child' = "running"
         /\ UNCHANGED <<key, orphan, written, pipe, drained>>

\* The command writes; it waits while the pipe is full.
Writes(p) == /\ child = "running"
             /\ written[p] < MaxOutput /\ pipe[p] < Capacity
             /\ written' = [written EXCEPT ![p] = @ + 1]
             /\ pipe' = [pipe EXCEPT ![p] = @ + 1]
             /\ UNCHANGED <<args, pc, key, child, orphan, late, drained>>

\* It starts a process that has its pipes too, and ends some day, or never.
Forks == /\ "orphan" \in Child
         /\ \/ child = "running" /\ orphan' = TRUE
            \/ orphan /\ orphan' = FALSE
         /\ UNCHANGED <<args, pc, key, child, late, written, pipe, drained>>

Hangs == /\ "hang" \in Child /\ child = "running"
         /\ child' = "hung"
         /\ UNCHANGED <<args, pc, key, orphan, late, written, pipe, drained>>

Alive == child \in {"running", "hung"}

\* It ends when it has written all it had to.
Exits == /\ child = "running" /\ \A p \in Pipes : written[p] = MaxOutput
         /\ child' = "ended"
         /\ UNCHANGED <<args, pc, key, orphan, late, written, pipe, drained>>

\* Wrong: what is read stays in the pipe.
ReadsTwice(p) == /\ child # "none" /\ ~ drained[p].done /\ pipe[p] > 0
                 /\ drained' = [drained EXCEPT ![p].read = @ + pipe[p]]
                 /\ UNCHANGED <<args, pc, key, child, orphan, late, written, pipe>>

\* A thread reads what there is, or finds the end.
Drains(p) ==
  /\ child # "none" /\ ~ drained[p].done
  /\ \/ /\ pipe[p] > 0
        /\ drained' = [drained EXCEPT ![p].read = @ + pipe[p]]
        /\ pipe' = [pipe EXCEPT ![p] = 0]
     \/ /\ pipe[p] = 0 /\ ~ Alive /\ ~ orphan
        /\ drained' = [drained EXCEPT ![p].done = TRUE]
        /\ UNCHANGED pipe
  /\ UNCHANGED <<args, pc, key, child, orphan, late, written>>

-----------------------------------------------------------------------------
(* Waiting.                                                                *)

\* GCLOUD_TIMEOUT is over.
TimePasses == /\ pc = "poll" /\ ~ late
              /\ late' = TRUE
              /\ UNCHANGED <<args, pc, key, command, drained>>

\* try_wait sees that the command has ended.
Reaps == child = "ended" /\ Go("poll", "join") /\ UNCHANGED <<key, command, drained>>

\* It sees that the command has not, and that it is late.
Expires == /\ late /\ Alive /\ Go("poll", "kill")
           /\ UNCHANGED <<key, command, drained>>

\* Wrong: the threads are joined with the command still running.
JoinsOnly == Go("kill", "reap") /\ UNCHANGED <<key, command, drained>>

\* kill and wait, which find a command that has ended meanwhile as it is.
Kills == /\ Go("kill", "reap")
         /\ child' = IF Alive THEN "killed" ELSE child
         /\ UNCHANGED <<key, orphan, written, pipe, drained>>

Drained == \A p \in Pipes : drained[p].done

\* Wrong: the output is taken from the threads as it is.
TakesWhatThereIs == Go("join", "ok") /\ UNCHANGED <<key, command, drained>>

\* Both threads are joined, then run_gcloud returns.
Joins == Go("join", "ok") /\ Drained /\ UNCHANGED <<key, command, drained>>
JoinsLate == Go("reap", "timeout") /\ Drained /\ UNCHANGED <<key, command, drained>>

Crash == /\ "crash" \in Faults /\ ~ Over
         /\ pc' = "dead"
         /\ UNCHANGED <<args, key, command, late, drained>>

Caller == \/ Validates \/ WriteKey \/ Authenticate \/ DropKey \/ Spawn
          \/ Reaps \/ Expires \/ Kills \/ Joins \/ JoinsLate
Command == (\E p \in Pipes : Writes(p)) \/ Exits

Next == \/ Caller \/ GivesUp \/ Command \/ Forks \/ Hangs \/ TimePasses \/ Crash
        \/ \E p \in Pipes : Drains(p)

\* The caller and its threads go on, and so does a command that does not hang.
\* For one that does, the deadline comes; for another it may or may not.  The
\* activation is taken to end: nothing bounds it.
Spec == /\ Init /\ [][Next]_vars
        /\ WF_vars(Caller) /\ WF_vars(child = "hung" /\ TimePasses)
        /\ \A p \in Pipes : WF_vars(Drains(p))
        /\ WF_vars(Command)

-----------------------------------------------------------------------------
(* Properties.                                                             *)

\* Type invariant.
TypeOK == /\ args \in Requests
          /\ pc \in Steps /\ key \in BOOLEAN
          /\ child \in Commands
          /\ orphan \in BOOLEAN /\ late \in BOOLEAN
          /\ written \in [Pipes -> 0 .. MaxOutput]
          /\ pipe \in [Pipes -> 0 .. Capacity]
          /\ drained \in [Pipes -> [read : 0 .. MaxOutput, done : BOOLEAN]]

\* A call ends: a command that writes more than a pipe holds ends by itself,
\* with no help from the deadline, and one that hangs is killed.  A process left
\* behind must not hold the pipes for ever: the threads are joined all the same.
CallEnds == <>Over \/ <>[]orphan

\* What run_gcloud returns is all that the command wrote, also when it ends at
\* the deadline or leaves a process behind.  The output is taken to be UTF-8.
OutputIsWhole == pc = "ok" => \A p \in Pipes : drained[p].read = written[p]

\* The key is on disk during the activation only, whichever step fails, but for
\* a process that dies during the activation.
KeyIsGone == key => pc \in {"key", "activate", "dead"}

\* Nothing that gcloud may take for a flag that pivots off the pinned account and
\* project, or for a known flag that reads a local file, is in the arguments of
\* a command, but for the one --project that the server has added; however
\* short the caller's flags are.  Behind a bare "--" of the caller the server's own
\* flag is none, and then gcloud is given no project at all.
RunsAsPinned ==
  child # "none" =>
    /\ Given(BuildArgv(args), ProjectFlag) = IF EndsFlags(args) THEN {} ELSE {Project}
    /\ \A i \in DOMAIN args : args[i].flag =>
         Means(args[i].name) \cap (DenyFlags \cup KnownLocalFileFlags) = {}

Spells(f) == HasFlag(args, f)
Place(argv) == Given(argv, ZoneFlag) \cup Given(argv, RegionFlag)

\* A zone or region that the caller has spelled out is the only one that gcloud
\* is given; with neither, it is given the default zone for a zonal resource,
\* and none for a global one.  This is said of arguments without a bare "--".
RunsWhereAsked ==
  /\ child # "none" /\ ~ EndsFlags(args)
  /\ Place(args) # {} => Spells(ZoneFlag) \/ Spells(RegionFlag)
  =>
    Place(BuildArgv(args)) =
      IF Place(args) # {} THEN Place(args)
      ELSE IF IsZonal(args) /\ DefaultZone # Unset THEN {DefaultZone} ELSE {}
=============================================================================
