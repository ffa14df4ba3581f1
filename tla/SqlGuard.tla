------------------------------- MODULE SqlGuard -------------------------------
(***************************************************************************)
(* Which SQL reaches a read-only database (src/src/sql_guard.rs), and what  *)
(* the database does with it.                                               *)
(*                                                                         *)
(* A parsed text is a sequence of statements.  A body (SetExpr of the       *)
(* parser) is a select, one that makes a table (SELECT ... INTO), a list of *)
(* values, a table, a write, a union, or a query: a body with the tables    *)
(* before it (WITH), which are queries too.                                 *)
(***************************************************************************)
EXTENDS Integers, SequencesExt

CONSTANTS SetExprs,   \* the bodies, with every body in them
          Statements  \* the statements, with every statement in them

\* Fields of a body, by its kind: union has left and right, query has with and
\* body.  Of a statement: query has query, explain has analyze and statement;
\* "set" makes the session writable, "write" is any other one.
ASSUME SqlAssumption ==
  /\ \A e \in SetExprs :
       /\ e.kind \in {"select", "into", "values", "table", "write", "union", "query"}
       /\ e.kind = "union" => {e.left, e.right} \subseteq SetExprs
       /\ e.kind = "query" => /\ e.body \in SetExprs
                              /\ \A c \in e.with : c \in SetExprs /\ c.kind = "query"
  /\ \A s \in Statements :
       /\ s.kind \in {"query", "explain", "set", "write"}
       /\ s.kind = "query" => s.query \in SetExprs /\ s.query.kind = "query"
       /\ s.kind = "explain" => s.analyze \in BOOLEAN /\ s.statement \in Statements

\* check_set_expr_readonly.  The parser has SELECT ... INTO as a select.
SetExprReadonly[e \in SetExprs] ==
  \/ e.kind \in {"select", "into", "values"}
  \/ e.kind = "union" /\ SetExprReadonly[e.left] /\ SetExprReadonly[e.right]
  \/ /\ e.kind = "query"
     /\ \A c \in e.with : SetExprReadonly[c.body]
     /\ SetExprReadonly[e.body]

\* check_statement_readonly.
StatementReadonly[s \in Statements] ==
  \/ s.kind = "query" /\ SetExprReadonly[s.query]
  \/ s.kind = "explain" /\ ~ s.analyze /\ StatementReadonly[s.statement]

\* Wrong: only the first statement is looked at.
FirstIsReadonly(sql) ==
  sql.parses /\ sql.statements # <<>> /\ StatementReadonly[sql.statements[1]]

\* validate_readonly_query.
ValidateReadonlyQuery(sql) ==
  /\ sql.parses
  /\ Len(sql.statements) = 1
  /\ StatementReadonly[sql.statements[1]]

-----------------------------------------------------------------------------
(* The database.                                                           *)

\* A statement of a kind that writes (INSERT, UPDATE, DELETE, the definitions of
\* tables), which PostgreSQL has as statements and as tables before the outermost
\* body.  SELECT ... INTO is not one of them, though it writes.
PlainWrite[s \in Statements] ==
  \/ s.kind = "write"
  \/ s.kind = "query" /\ \E q \in {s.query} \cup s.query.with : q.body.kind = "write"
  \/ s.kind = "explain" /\ s.analyze /\ PlainWrite[s.statement]

\* A statement that may change data: a select too, for it may call a function
\* that writes.  EXPLAIN runs its statement only with ANALYZE.
MayWrite[s \in Statements] ==
  \/ s.kind \in {"write", "query"}
  \/ s.kind = "explain" /\ s.analyze /\ MayWrite[s.statement]

\* May the statements change data in a session that is read-only at first?
MayChangeData(statements, readonly) ==
  \E i \in DOMAIN statements :
    /\ MayWrite[statements[i]]
    /\ readonly => \E j \in 1 .. i - 1 : statements[j].kind = "set"
=============================================================================
