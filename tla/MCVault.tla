------------------------------ MODULE MCVault ------------------------------
(* Vault with two secrets and two processes.                               *)
EXTENDS Vault

CONSTANTS db, api, v1, v2, cli, server

Both == [n \in Names |-> v1]
OneFile == {Both}
LegacyFiles == {None, Empty, Torn, Both}

SetDb     == [kind |-> "set", name |-> db, value |-> v2]
SetApi    == [kind |-> "set", name |-> api, value |-> v2]
RemoveDb  == [kind |-> "remove", name |-> db]
LoadOp    == [kind |-> "load"]

AllOps == {SetDb, SetApi, RemoveDb, LoadOp}
TwoSets == {SetDb, SetApi}
=============================================================================
