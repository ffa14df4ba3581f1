---------------------------- MODULE MCRemoteWrite ----------------------------
(* RemoteWrite with two servers, one alias, one path, two keys.            *)
EXTENDS RemoteWrite, TLC

CONSTANTS s1, s2, prod, dev, p, A, B, w1, w2, db

AtoW1 == [lines |-> <<[key |-> A, word |-> w1]>>, nl |-> FALSE]
BtoW1 == [lines |-> <<[key |-> B, word |-> w1]>>, nl |-> FALSE]
Both  == [lines |-> <<[key |-> B, word |-> w1], [key |-> A, word |-> w1]>>, nl |-> TRUE]

\* Each server in the config is called prod.
Conf(names) == [servers |-> names, alias |-> [s \in {s1, s2} |-> prod],
                envPath |-> [s \in {s1, s2} |-> p]]

OneConfig  == {Conf({s1})}

\* prod means the first server, or the first or the second.
SharedAlias == {Conf({s1}), Conf({s1, s2})}

\* Each server has a name of its own, and may be taken out of the config.
OwnNames == {[Conf(names) EXCEPT !.alias = (s1 :> prod @@ s2 :> dev)] : names \in {{s1}, {s2}, {s1, s2}}}

MCValues == {[head |-> w1, rest |-> <<>>], [head |-> w2, rest |-> <<>>]}

WriteA == {[tool |-> "write", target |-> prod, path |-> p, text |-> AtoW1]}

\* A deployment of A, and one whose key has a blank after it.
KeyA == [above |-> <<>>, name |-> A, tail |-> NoTail, padded |-> FALSE]
DeployOf(k) == [tool |-> "deploy", target |-> prod, path |-> None, key |-> k, secret |-> db]
DeployA     == {DeployOf(KeyA)}
DeployOdd   == {DeployOf([KeyA EXCEPT !.padded = TRUE])}
DeployEither == DeployA \cup DeployOdd
NoCalls == {}
MCEdits == {AtoW1, BtoW1}
=============================================================================
