----------------------------- MODULE MCMigrator -----------------------------
(* Instances of Migrator for TLC: names, contents and trees of a service    *)
(* whose releases disagree.                                                 *)
EXTENDS Migrator, TLC

CONSTANTS P1, P2, S1, S2

File(name, seq, bytes, sql, notx, stmts) ==
  [name |-> name, seq |-> seq, bytes |-> bytes, sql |-> sql, notx |-> notx, stmts |-> stmts]

users     == File("1_users", 1, "users", "users", FALSE, 1)
usersNote == File("1_users", 1, "users+comment", "users", FALSE, 1)   \* only a comment changed
index     == File("2_index", 2, "index", "index", TRUE, 2)            \* CREATE INDEX CONCURRENTLY, twice
orders    == File("2_orders", 2, "orders", "orders", FALSE, 1)        \* another lane claimed 2
carts     == File("3_carts", 3, "carts", "carts", FALSE, 1)
misnamed  == File("x_users", NoSequence, "users", "users", FALSE, 1)

MCMigrations == {users, usersNote, index, orders, carts, misnamed}
MCTrees == {<<users, index, carts>>,       \* everything
            <<usersNote, carts>>,          \* a lane cut before 2 was merged
            <<users, orders>>,             \* a lane that numbered another file 2
            <<carts, users>>,              \* not in order
            <<misnamed>>}
MCHistories == {{}, {users}}
MCExemptions == {{}, {2}}
NoExemptions == {{}}
MCProcs == {P1, P2}
OneScope == {S1}
TwoScopes == {S1, S2}
MCSymmetry == Permutations(MCProcs)
=============================================================================
