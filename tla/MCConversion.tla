---------------------------- MODULE MCConversion ----------------------------
(* Instances of Conversion for TLC: a service that rebaselined its chain,   *)
(* and a lane that later reworded the new baseline.                         *)
EXTENDS Conversion, MCMigrator

base      == File("1_schema", 1, "base", "base", FALSE, 1)
more      == File("2_more", 2, "more", "more", FALSE, 1)
fresh     == File("1_schema", 1, "fresh", "fresh", FALSE, 1)       \* the new baseline keeps the name
reworded  == File("1_schema", 1, "reworded", "reworded", FALSE, 1) \* an index renamed: same behaviour
posts     == File("2_posts", 2, "posts", "posts", TRUE, 1)

ConversionMigrations == {base, more, fresh, reworded, posts}
ConversionShape ==
  [m \in ConversionMigrations |->
     CASE m = base -> <<{"accounts"}>>
       [] m = more -> <<{"erasures"}>>
       [] m \in {fresh, reworded} -> <<{"accounts", "touch"}>>
       [] m = posts -> <<{"posts"}>>]
ConversionObjects == {"accounts", "erasures", "touch", "posts"}

From(retired, replaces, drops, adds) ==
  [retired |-> retired, replaces |-> replaces, drops |-> drops, adds |-> adds]

OldTree == <<base, more>>
NewTree == <<fresh, posts>>
LaneTree == <<reworded, posts>>
ConversionTrees == {OldTree, NewTree, LaneTree}
ConversionDeclared ==
  [t \in ConversionTrees |->
     CASE t = OldTree -> <<>>
       [] t = NewTree -> <<From(<<base>>, 1, {}, {"touch"}),
                           From(<<base, more>>, 1, {"erasures"}, {"touch"})>>
       [] t = LaneTree -> <<From(<<base, more>>, 1, {}, {"touch"})>>]   \* forgets to drop erasures
ConversionHistories == {{}, {base}, {base, more}}
ConversionStrays == {{}, {"accounts", "erasures"}, {"posts"}}
OnlyLane == {LaneTree}
OnlyLaneDeclared == [t \in OnlyLane |-> <<From(<<base>>, 1, {}, {"touch"})>>]
OnlyBase == {{base}}
NoStrays == {{}}
=============================================================================
