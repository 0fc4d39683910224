----------------------------- MODULE MCScanner -----------------------------
(* Instances of Scanner for TLC: pieces of SQL with every way to hide a     *)
(* semicolon, pieces of templates, and pieces of dollar-quoted bodies.      *)
EXTENDS Scanner

Blank == <<" ">>
Newline == <<"\n">>
Comment == <<"/", "*", ";", "'", "*", "/", " ">>    \* followed by a blank

SqlPieces == {<<"a">>, <<"A">>, Blank, Newline, <<";">>, <<"'">>, <<"\"">>, <<"\\">>,
              <<"-", "-">>, <<"-", "a">>, <<"=", "a">>, Comment}
TemplatePieces == {<<"$">>, <<"{">>, <<"}">>, <<"a">>, <<"$", "{", "a", "}">>,
                   <<"{", "{", "a", "}", "}">>, <<"$", "{", "A", "}">>}
BodyPieces == {<<"$">>, <<"a">>, <<";">>}

MCCharacters == {"a", "A", " ", "\n", ";", "'", "\"", "\\", "-", "=", "/", "*", "$", "{", "}"}
MCAlphabets == {SqlPieces, TemplatePieces}
OnlyBodies == {BodyPieces}
MCEnvironment == [name \in {<<"a">>} |-> <<"$", "{", "a", "}", "$">>]
=============================================================================
