----------------------------- MODULE HttpService -----------------------------
(***************************************************************************)
(* What a call to an HTTP service may ask for, and the request that is made *)
(* of it (src/src/http.rs): pure operators.                                 *)
(*                                                                         *)
(* A path is a sequence of pieces: the slash, the backslash, a dot, two     *)
(* dots, what begins a query or a fragment, and others.  Two dots may be    *)
(* spelled in other ways that the parser of URLs reads alike, such as with  *)
(* an escape in it (OtherDots).  Names of headers are compared without case.*)
(***************************************************************************)
EXTENDS Integers, SequencesExt

CONSTANTS Services,       \* the services that a config may have
          ServiceCalls,   \* what callers ask of one
          UpperCase       \* each verb that callers spell in some way, in capitals

Slash == "/"
Backslash == "\\"
Dot == "."
Dots == ".."
OtherDots == "%2e%2e"
Marks == {"?", "#"}

\* Is what this spells no more than the names of places?
NamesOnly(p) == \A i \in DOMAIN p : p[i] \notin {Backslash, Dot, Dots, OtherDots} \cup Marks

Verbs == {"GET", "POST", "PUT", "PATCH", "DELETE"}
AllowedCallerHeaders == {"x-idempotency-key", "idempotency-key"}

\* A service: base URL, how the credential is given, allowed verbs and prefixes
\* (none: any), URL and prefixes without dots.  A call: verb, path, names of headers
\* and query parameters.
ASSUME HttpAssumption ==
  /\ \A m \in DOMAIN UpperCase : /\ UpperCase[m] \in DOMAIN UpperCase
                                 /\ UpperCase[UpperCase[m]] = UpperCase[m]
  /\ \A s \in Services : /\ s.auth \in {"header", "query"}
                         /\ s.auth_name \notin AllowedCallerHeaders
                         /\ s.allowed_methods \subseteq DOMAIN UpperCase
                         /\ s.base_url \in Seq(STRING) /\ NamesOnly(s.base_url)
                         /\ s.allowed_path_prefixes \subseteq Seq(STRING)
                         /\ \A p \in s.allowed_path_prefixes : NamesOnly(p)
  /\ \A c \in ServiceCalls : c.method \in DOMAIN UpperCase /\ c.path \in Seq(STRING)

\* trim_start_matches('/').
NoLeadingSlash(p) ==
  LET n == CHOOSE n \in 0 .. Len(p) : /\ \A i \in 1 .. n : p[i] = Slash
                                      /\ n < Len(p) => p[n + 1] # Slash
  IN SubSeq(p, n + 1, Len(p))

NormalizeLeadingSlash(p) == <<Slash>> \o NoLeadingSlash(p)

NoTrailingSlash(p) == Reverse(NoLeadingSlash(Reverse(p)))

BuildUrl(base, path) ==
  LET rest == NoLeadingSlash(path)
  IN NoTrailingSlash(base) \o (IF rest = <<>> THEN <<>> ELSE <<Slash>> \o rest)

\* Is one of the parts between slashes a double dot?
Climbs(path) ==
  \E i \in DOMAIN path : /\ path[i] = Dots
                         /\ i = 1 \/ path[i - 1] = Slash
                         /\ i = Len(path) \/ path[i + 1] = Slash

MethodAllowed(service, method) ==
  /\ UpperCase[method] \in Verbs
  /\ service.allowed_methods # {} =>
       UpperCase[method] \in {UpperCase[m] : m \in service.allowed_methods}

\* Wrong: a prefix may end within a part of the path.
BeginsWith(path, prefix) == IsPrefix(prefix, path)

WithinPrefix(path, prefix) == path = prefix \/ IsPrefix(prefix \o <<Slash>>, path)

PathAllowed(service, path) ==
  /\ ~ Climbs(path)
  /\ service.allowed_path_prefixes # {} =>
       \E p \in service.allowed_path_prefixes :
         WithinPrefix(NormalizeLeadingSlash(path), NormalizeLeadingSlash(p))

\* The request of an allowed call: its headers and parameters with who gives them.
Request(service, c) ==
  LET given == {h \in c.headers : h \in AllowedCallerHeaders}
      own == {[name |-> service.auth_name, from |-> "server"]}
      By(who, names) == {[name |-> n, from |-> who] : n \in names}
  IN [method |-> UpperCase[c.method],
      url |-> BuildUrl(service.base_url, c.path),
      headers |-> By("config", service.extra) \cup By("caller", given)
                    \cup (IF service.auth = "header" THEN own ELSE {}),
      params |-> By("caller", c.params) \cup (IF service.auth = "query" THEN own ELSE {})]

-----------------------------------------------------------------------------
(* The parser of URLs, which gets what BuildUrl makes.                     *)

\* Everything before the query or the fragment.
Place(url) ==
  LET n == CHOOSE n \in 0 .. Len(url) : /\ \A i \in 1 .. n : url[i] \notin Marks
                                        /\ n < Len(url) => url[n + 1] \in Marks
  IN SubSeq(url, 1, n)

\* Is the i-th piece a part of its own, of dots?
Dotted(p, i) == /\ p[i] \in {Dot, Dots, OtherDots}
                /\ i = 1 \/ p[i - 1] \in {Slash, Backslash}
                /\ i = Len(p) \/ p[i + 1] \in {Slash, Backslash}

\* Without the last part; the first one is the host.
Parent(p) == LET slashes == {i \in 1 .. Len(p) - 1 : p[i] = Slash}
             IN  IF slashes = {} THEN p ELSE SubSeq(p, 1, Max(slashes))

\* One more piece is read: a backslash as a slash, and dots as a step in the path,
\* together with the slash after them.
ReadPiece(p, i, read) ==
  IF Dotted(p, i) THEN (IF p[i] = Dot THEN read ELSE Parent(read))
  ELSE IF p[i] \notin {Slash, Backslash} THEN read \o <<p[i]>>
  ELSE IF i > 1 /\ Dotted(p, i - 1) THEN read
  ELSE read \o <<Slash>>

\* The place that a request for the URL goes to.
Requested(url) ==
  LET p == Place(url)
      read[i \in 0 .. Len(p)] == IF i = 0 THEN <<>> ELSE ReadPiece(p, i, read[i - 1])
  IN read[Len(p)]

\* Is every part of two dots spelled so, and set off by slashes?
SpelledOut(url) ==
  \A i \in DOMAIN url : /\ url[i] \notin {Backslash, OtherDots}
                        /\ url[i] = Dots => i = Len(url) \/ url[i + 1] \notin Marks

-----------------------------------------------------------------------------
(* What a config allows, said of a URL.                                    *)

\* Is the URL this one, or below it?
Under(url, top) == url = top \/ IsPrefix(top \o <<Slash>>, url)

\* A prefix with a slash at its end means what it does without.
Permitted(service, url) ==
  LET top == NoTrailingSlash(service.base_url)
  IN /\ Under(url, top)
     /\ service.allowed_path_prefixes # {} =>
          \E p \in service.allowed_path_prefixes :
            Under(url, NoTrailingSlash(BuildUrl(service.base_url, p)))

\* A prefix that is compared with a slash at its end: an empty one too.
EndsInSlash(service) ==
  \E p \in service.allowed_path_prefixes : Last(NormalizeLeadingSlash(p)) = Slash
=============================================================================
