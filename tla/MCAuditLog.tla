----------------------------- MODULE MCAuditLog -----------------------------
(* AuditLog with one server and four records: one that names a secret, one    *)
(* that names none, one that failed, and one whose action has a separator in  *)
(* it, and then the name and what follows of the first.                       *)
EXTENDS AuditLog

CONSTANTS i1, user, tool, server, read, key, done, failed

Says(action, names, outcome) ==
  [timestamp_ms |-> 0, actor |-> <<user>>, tool |-> <<tool>>, target |-> <<server>>,
   action |-> action, secret_names |-> names, outcome |-> outcome]

Four == {Says(<<read>>, << <<key>> >>, <<done>>), Says(<<read>>, <<>>, <<done>>),
         Says(<<read>>, << <<key>> >>, <<failed>>), Says(<<read, key>>, <<>>, <<done>>)}
=============================================================================
