------------------------------ MODULE MCCheck ------------------------------
(* An instance of Check for TLC: numbers spelled in more than one way, one  *)
(* below the chain, one out of range, and lines over two tables with every  *)
(* way to write one that the scan reads otherwise than it is meant.        *)
EXTENDS Check

Named(digits, up) == [digits |-> digits, up |-> up]
File(name) == [name |-> name, seq |-> Sequence(name), bytes |-> name, sql |-> name, notx |-> FALSE, stmts |-> 1]

MCNames == {Named(<<0>>, TRUE), Named(<<0, 0>>, TRUE), Named(<<1>>, TRUE), Named(<<0, 1>>, TRUE),
            Named(<<2>>, TRUE), Named(<<1, 2>>, TRUE), Named(<<2, 1>>, TRUE),
            Named(<<3, NotADigit>>, TRUE), Named(<<>>, TRUE), Named(<<2>>, FALSE)}
MCMigrations == {File(name) : name \in MCNames}

Line(kind, schema, table) ==
  [kind |-> kind, schema |-> schema, table |-> table, quoted |-> "", guard |-> "", plain |-> TRUE, notvalid |-> ""]
Over(schema, table) == {Line(kind, schema, table) : kind \in {"create", "add", "repair"}}
Quoted(kind, table) == [Line(kind, "app", table) EXCEPT !.quoted = "table"]
Guarded(kind, guard, table) == [Line(kind, "", table) EXCEPT !.quoted = "all", !.guard = guard]
Add == Line("add", "app", "users")

MCLines ==
  Over("app", "users") \cup Over("", "users")
  \cup {Line("create", "app", "orders"), Line("repair", "app", "orders"), Line("waiver", "", ""),
        Line("index", "app", "users"), Quoted("index", "users"),
        [Add EXCEPT !.plain = FALSE], [Add EXCEPT !.notvalid = "own"], [Add EXCEPT !.notvalid = "other"],
        Quoted("add", "users"), Quoted("create", "orders"), Quoted("repair", "orders"),
        Guarded("alter", "", "users"), [Line("alter", "", "users") EXCEPT !.notvalid = "other"],
        Guarded("alter", "if", "users"), Guarded("create", "if", "orders"),
        Guarded("add", "only", "users"), Guarded("repair", "only", "orders")}
=============================================================================
