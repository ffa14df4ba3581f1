------------------------------ MODULE MCGcloud ------------------------------
(* Gcloud with pipes that the command fills twice over, and commands with   *)
(* each kind of flag: spelled out, cut short, denied, and known to gcloud or*)
(* not; and with a bare "--".                                               *)
EXTENDS Gcloud

Twice == 2 * Capacity + 1

Known == {ZoneFlag, RegionFlag, ProjectFlag, <<"meta", "data">>,
          <<"meta", "data", "-from", "-file">>, <<"scope", "s">>,
          <<"service", "-acc", "ount">>, <<"flags", "-file">>}

\* One flag, in full and cut short; and one that gcloud does not know.
Names == Known \cup {SubSeq(f, 1, n) : f \in Known, n \in 1 .. 2} \cup {<<"x">>}

On(group, verb) == <<Word("compute"), Word(group), Word(verb)>>
Commands3 == {On("instances", "create"), On("images", "list")}

Some == Commands3
     \cup {Append(On("instances", "create"), Flag(f, "given")) : f \in Names}
     \cup {Append(On("disks", "create"), EndOfFlags),
           On("images", "list") \o <<EndOfFlags, Flag(ZoneFlag, "given")>>}
     \cup {On("networks", "delete"), On("routers", "list"), <<Word("compute")>>, <<>>,
           <<Word("auth"), Word("print"), Word("token")>>,
           <<Flag(ZoneFlag, "given")>> \o On("instances", "list"),
           Append(On("disks", "list"), [Word("backup") EXCEPT !.name = <<"data", "-file">>])}
=============================================================================
