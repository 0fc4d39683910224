---------------------------- MODULE MCClickHouse ----------------------------
(* An instance of ClickHouse for TLC: releases that disagree about one file *)
(* of two statements, the first of which creates a replicated table.        *)
EXTENDS ClickHouse

CONSTANTS P1, P2

File(name, seq, bytes, sql, stmts) ==
  [name |-> name, seq |-> seq, bytes |-> bytes, sql |-> sql, notx |-> TRUE, stmts |-> stmts]

events     == File("1_events", 1, "events", "events", 1)
eventsNote == File("1_events", 1, "events+comment", "events", 1)   \* a comment added later
views      == File("2_views", 2, "views", "views", 2)
viewsFixed == File("2_views", 2, "views, fixed", "views, fixed", 2) \* edited after it failed
clicks     == File("2_clicks", 2, "clicks", "clicks", 1)            \* another lane claimed 2

MCMigrations == {events, eventsNote, views, viewsFixed, clicks}
MCTrees == {<<events, views>>, <<eventsNote, viewsFixed>>, <<clicks>>, <<views, events>>}
MCHistories == {{}, {events}}
MCReplicated == {<<views, 1>>}
MCProcs == {P1, P2}
=============================================================================
