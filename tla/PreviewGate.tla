----------------------------- MODULE PreviewGate -----------------------------
(***************************************************************************)
(* What the preview/confirm protocol of the write tools promises, without   *)
(* its steps: a change is applied only while a preview of it is open, and   *)
(* applying it closes the preview.  A restart of the server closes all.     *)
(***************************************************************************)
VARIABLES open,    \* the changes whose preview awaits confirmation
          spent    \* the changes applied and not previewed since

vars == <<open, spent>>

Init == open = {} /\ spent = {}

\* Previewing a change opens it, also one that was applied before.
Preview == \E c \in open' : /\ open' = open \cup {c}
                            /\ spent' = spent \ {c}

\* Applying a change needs its preview and uses it up.
Apply == \E c \in open : /\ open' = open \ {c}
                         /\ spent' = spent \cup {c}

\* The server process restarts: its previews are gone.
Reset == open' = {} /\ spent' = spent

Next == Preview \/ Apply \/ Reset

Spec == Init /\ [][Next]_vars

\* No change is open and spent at once.
NotBoth == open \cap spent = {}
=============================================================================
