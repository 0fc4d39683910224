----------------------------- MODULE MCRepairs -----------------------------
(* Instances of Repairs for TLC: the files of MCMigrator, fewer trees.      *)
EXTENDS Repairs, MCMigrator

usersEdited == File("1_users", 1, "users+column", "users+column", FALSE, 1)   \* edited after it shipped

RepairMigrations == {users, usersEdited, index, orders, carts}
RepairTrees == {<<users, index, carts>>,   \* everything
                <<usersEdited, carts>>}    \* a lane cut before 2 was merged
RepairHistory == {{users}}
=============================================================================
