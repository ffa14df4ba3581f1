----------------------------- MODULE AtomicVault -----------------------------
(***************************************************************************)
(* What the vault of secrets promises: at rest it is a map, and it changes  *)
(* by one secret being set or removed, at once or not at all.               *)
(***************************************************************************)
CONSTANTS Names, Values, None

VARIABLE secrets

VaultMap == [Names -> Values \cup {None}]

Init == secrets \in VaultMap

\* v = None: the secret is removed.
Put(n, v) == secrets' = [secrets EXCEPT ![n] = v]

Next == \E n \in Names, v \in Values \cup {None} : Put(n, v)

Spec == Init /\ [][Next]_secrets
=============================================================================
