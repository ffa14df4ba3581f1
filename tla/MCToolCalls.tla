----------------------------- MODULE MCToolCalls -----------------------------
(* ToolCalls with values that contain each other, are padded or too short,   *)
(* every short output, command and path, and SQL with writes in every place. *)
EXTENDS ToolCalls

SeqsTo(S, n) == UNION {[1 .. m -> S] : m \in 0 .. n}

SomeValues == {<<"a", "b">>, <<"a", "b", "c">>, <<"c">>, <<Blank, "c", "c">>}
SomeVaults == {[one |-> <<"a", "b">>, two |-> <<"a", "b", "c">>],
               [one |-> <<"c">>, two |-> <<"a", "b">>],
               [one |-> <<Blank, "c", "c">>, two |-> <<"a", "b">>],
               [one |-> None, two |-> <<"c">>]}
SomeOutputs == SeqsTo({"a", "b", "c"}, 2)
          \cup {<<"a", "b", "c", "a", "b">>, <<"c", "c", "c", "c">>, <<"a", Blank, "c", "c">>,
                <<"a", "F", "b">>, <<"a", "a", "b", "b">>, <<"F", "a", "b", "c">>}

SomeCommands == SeqsTo({"ls", "env", "/", " ", ";", "'"}, 3) \cup {<<"ls", " ", ".env">>}
           \cup {<<"ls", " ", "|", "/", "printenv">>, <<"ls", "&", " ", "\n", "env">>,
                 <<" ", "ls", " ", "env", "x", "\t">>, <<"x", "env", "(", "ls", ")">>,
                 <<"ls", " ", "dquote", "$", "(", "env", ")", "dquote">>,
                 <<"ls", " ", "'", "x", " ", "/", "env", " ", "x", "'">>}
SomePrefixes == {{}, {<<"ls", " ">>}, {<<"/">>, <<" ">>}}

Pieces == {Slash, Dots, "mail", "x"}
Paths == SeqsTo(Pieces, 2)
    \cup {<<"mail", Slash>> \o p : p \in [1 .. 2 -> Pieces]}
    \cup {<<Slash, Slash, "mail", Slash>> \o p : p \in [1 .. 2 -> Pieces]}
    \cup {<<"mail", Slash, p>> \o q :
             p \in {Dot, Dots, OtherDots, Backslash, "?"},
             q \in {<<>>, <<Slash>>, <<Slash, "x">>, <<"?">>, <<Backslash, Dots>>}}

Capitals == [get |-> "GET", GET |-> "GET", Post |-> "POST", POST |-> "POST", TRACE |-> "TRACE"]

Call(m, p, hs, qs) == [method |-> m, path |-> p, headers |-> hs, params |-> qs]
SomeCalls == {Call("get", p, {}, {}) : p \in Paths}
        \cup {Call(m, <<"mail">>, hs, {"key"}) :
                m \in {"get", "GET", "Post", "TRACE"}, hs \in SUBSET {"authorization", "idempotency-key"}}

Service(auth, name, methods, prefixes) ==
  [base_url |-> <<"host", Slash, "v1", Slash>>, auth |-> auth, auth_name |-> name,
   secret_name |-> "one", extra |-> {"accept"},
   allowed_methods |-> methods, allowed_path_prefixes |-> prefixes]
SomeServices == {Service("header", "authorization", {"GET"}, {<<"mail">>}),
                 Service("query", "key", {}, {}), Service("query", "key", {}, {<<>>}),
                 Service("header", "authorization", {"Post", "get"}, {<<Slash, "mail", Slash>>}),
                 Service("header", "authorization", {}, {<<Slash, "mail", Slash, "x">>, <<"x">>})}

Kind(k) == [kind |-> k]
With(ctes, body) == [kind |-> "query", with |-> ctes, body |-> body]
Simple == {Kind(k) : k \in {"select", "into", "values", "table", "write"}}
Plain == {With({}, e) : e \in Simple}
Union(l, r) == [kind |-> "union", left |-> l, right |-> r]
Bodies == Simple \cup Plain \cup {Union(Kind("select"), e) : e \in Simple \cup Plain}
SomeQueries == {With({}, e) : e \in Bodies}
          \cup {With({c}, Kind("select")) : c \in {With({}, e) : e \in Bodies}}
          \cup {With({With({c}, Kind("values"))}, e) : c \in Plain, e \in {Kind("select"), Kind("write")}}
          \cup {With({}, With({c}, Kind("select"))) : c \in Plain}
          \cup {With(Plain \ {With({}, Kind("write"))}, Kind("select"))}
SomeSetExprs == Bodies \cup SomeQueries
           \cup {With({c}, e) : c \in Plain, e \in {Kind("select"), Kind("values")}}

Few == {[kind |-> "query", query |-> With({}, e)] : e \in Simple} \cup {Kind("set"), Kind("write")}
Queries == {[kind |-> "query", query |-> q] : q \in SomeQueries}
Explains == {[kind |-> "explain", analyze |-> a, statement |-> s] :
               a \in BOOLEAN, s \in Few}
SomeStatements == Queries \cup Explains \cup {Kind("set"), Kind("write")}

Sql(parses, expands, s) == [parses |-> parses, expands |-> expands, statements |-> s]
SomeSql == {Sql(TRUE, FALSE, s) : s \in {<<t>> : t \in SomeStatements} \cup SeqsTo(Few, 2)}
      \cup {Sql(FALSE, FALSE, <<Kind("write")>>),
            Sql(TRUE, TRUE, <<[kind |-> "query", query |-> With({}, Kind("select"))]>>)}
=============================================================================
