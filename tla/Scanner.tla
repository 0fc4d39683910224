------------------------------ MODULE Scanner ------------------------------
(***************************************************************************)
(* The text conversions a migration goes through before a server sees it:  *)
(* SubstituteTemplates fills in environment variables, SplitStatements     *)
(* cuts what must run statement by statement, sqlTokens is what the        *)
(* semantic digest hashes, and rtStripComments is what the lint reads.     *)
(* Each of the last three has its own idea of quotes and comments; the     *)
(* ledger believes sqlTokens of what SplitStatements sent to the server.   *)
(*                                                                         *)
(* A text is a sequence of characters, of which a few stand for their      *)
(* class: "a" and "A" for what words are made of, "=" for the operators    *)
(* that open no comment. Line ends are already "\n".                       *)
(***************************************************************************)
EXTENDS Integers, Sequences, FiniteSets

CONSTANTS Characters,    \* what texts are written with
          Alphabets,     \* sets of the character sequences texts are put together from
          MaxLexemes,    \* no text has more of them
          Environment    \* what the environment variables hold

Mark == "mark"          \* stands for a value that is yet to be filled in
Refused == <<"refused">>
TextsAssumption ==
  /\ Mark \notin Characters /\ Refused \notin Seq(Characters)
  /\ \A a \in Alphabets : \A lexeme \in a : lexeme \in Seq(Characters)
  /\ \A name \in DOMAIN Environment : Environment[name] \in Seq(Characters)
ASSUME TextsAssumption

VARIABLES alphabet, lexemes, text
scannerVars == <<alphabet, lexemes, text>>

Has(t, i, s) == i + Len(s) - 1 <= Len(t) /\ SubSeq(t, i, i + Len(s) - 1) = s
Least(positions, otherwise) ==
  IF positions = {} THEN otherwise ELSE CHOOSE i \in positions : \A j \in positions : i <= j

(* The first place from i on where s stands, or otherwise.                  *)
Find(t, i, s, otherwise) == Least({j \in i..Len(t) : Has(t, j, s)}, otherwise)

Backtick == "backtick"
IsSpace(c) == c \in {" ", "\n"}
IsWord(c) == c \in {"a", "A"}
IsOperator(c) == c \in {"=", "-", "/", "*", Backtick}
IsQuote(c) == c \in {"'", "\""}
Lower(c) == IF c = "A" THEN "a" ELSE c

-----------------------------------------------------------------------------
(* What both scanners agree on *)

DashDash == <<"-", "-">>
OpenComment == <<"/", "*">>
CloseComment == <<"*", "/">>

LineEnd(t, i) == Find(t, i, <<"\n">>, Len(t) + 1)

-----------------------------------------------------------------------------
(* SplitStatements: comments do not nest, dollar quotes mean nothing.       *)

(* Mutant: a backslash escapes nothing.                                     *)
QuoteEndUnescaped(t, i) ==
  LET End[j \in 1..(Len(t) + 1)] ==
        IF j > Len(t) THEN j
        ELSE IF t[j] # t[i] THEN End[j + 1]
        ELSE IF Has(t, j + 1, <<t[i]>>) THEN End[j + 2]
        ELSE j + 1
  IN End[i + 1]

(* Where the text goes on after the quote that opens at i: a backslash in a *)
(* string, and a doubled quote, keep it open.                               *)
QuoteEnd(t, i) ==
  LET End[j \in 1..(Len(t) + 1)] ==
        IF j > Len(t) THEN j
        ELSE IF t[j] = "\\" /\ t[i] = "'" /\ j < Len(t) THEN End[j + 2]
        ELSE IF t[j] # t[i] THEN End[j + 1]
        ELSE IF Has(t, j + 1, <<t[i]>>) THEN End[j + 2]
        ELSE j + 1
  IN End[i + 1]

CommentEnd(t, i) == LET close == Find(t, i + 2, CloseComment, Len(t) + 1)
                    IN IF close > Len(t) THEN close ELSE close + 2

TrimSpace(t) ==
  LET solid == {i \in DOMAIN t : ~IsSpace(t[i])} IN
  IF solid = {} THEN <<>>
  ELSE SubSeq(t, Least(solid, 1), CHOOSE i \in solid : \A j \in solid : j <= i)

Onto(part, pieces) == <<part \o Head(pieces)>> \o Tail(pieces)

(* flush drops what is empty. A function, unlike SelectSeq, can be reasoned *)
(* about.                                                                  *)
NonEmpty(parts) ==
  LET Kept[k \in 1..(Len(parts) + 1)] ==
        IF k > Len(parts) THEN <<>>
        ELSE IF parts[k] = <<>> THEN Kept[k + 1]
        ELSE <<parts[k]>> \o Kept[k + 1]
  IN Kept[1]

SplitStatements(t) ==
  LET Cut[i \in 1..(Len(t) + 1)] ==
        IF i > Len(t) THEN << <<>> >>
        ELSE IF IsQuote(t[i]) \/ t[i] = Backtick THEN Onto(SubSeq(t, i, QuoteEnd(t, i) - 1), Cut[QuoteEnd(t, i)])
        ELSE IF Has(t, i, DashDash) THEN Cut[LineEnd(t, i)]
        ELSE IF Has(t, i, OpenComment) THEN Cut[CommentEnd(t, i)]
        ELSE IF t[i] = ";" THEN << <<>> >> \o Cut[i + 1]
        ELSE Onto(<<t[i]>>, Cut[i + 1])
      pieces == Cut[1]
  IN NonEmpty([k \in DOMAIN pieces |-> TrimSpace(pieces[k])])

-----------------------------------------------------------------------------
(* sqlTokens: comments nest, a dollar-quoted body is one token.             *)

SkipQuoted(t, start) ==
  LET End[i \in 1..(Len(t) + 1)] ==
        IF i > Len(t) THEN i
        ELSE IF t[start] = "'" /\ t[i] = "\\" /\ i < Len(t) THEN End[i + 2]
        ELSE IF t[i] = t[start]
          THEN IF i < Len(t) /\ t[i + 1] = t[start] THEN End[i + 2] ELSE i + 1
        ELSE End[i + 1]
  IN End[start + 1]

NestedCommentEnd(t, start) ==
  LET End[at \in (1..(Len(t) + 1)) \X Int] ==      \* a position, and how many comments are open there
        LET i == at[1]
            depth == at[2]
        IN IF i > Len(t) THEN i
           ELSE IF Has(t, i, OpenComment) THEN End[<<i + 2, depth + 1>>]
           ELSE IF Has(t, i, CloseComment) THEN IF depth = 1 THEN i + 2 ELSE End[<<i + 2, depth - 1>>]
           ELSE End[<<i + 1, depth>>]
  IN End[<<start + 2, 1>>]

(* The end of the maximal run of characters of a class.                     *)
RunEnd(t, i, In(_)) == Least({j \in i..Len(t) : ~In(t[j])}, Len(t) + 1)

(* The closing $ of the tag that opens at i, or 0.                          *)
TagEnd(t, i) ==
  LET end == RunEnd(t, i + 1, IsWord) IN IF end <= Len(t) /\ t[end] = "$" THEN end ELSE 0

(* The last character of the dollar-quoted body that opens at i, or 0.      *)
BodyEnd(t, i) ==
  LET tag == SubSeq(t, i, TagEnd(t, i))
      close == Find(t, TagEnd(t, i) + 1, tag, 0)
  IN IF TagEnd(t, i) = 0 \/ close = 0 THEN 0 ELSE close + Len(tag) - 1

SqlTokens(t) ==
  LET Lex[i \in 1..(Len(t) + 1)] ==
        LET Token(end) == <<SubSeq(t, i, end - 1)>> \o Lex[end] IN
        IF i > Len(t) THEN <<>>
        ELSE IF IsSpace(t[i]) THEN Lex[i + 1]
        ELSE IF Has(t, i, DashDash) THEN Lex[LineEnd(t, i)]
        ELSE IF Has(t, i, OpenComment) THEN Lex[NestedCommentEnd(t, i)]
        ELSE IF IsQuote(t[i]) THEN Token(SkipQuoted(t, i))
        ELSE IF t[i] = "$" /\ BodyEnd(t, i) # 0 THEN Token(BodyEnd(t, i) + 1)
        ELSE IF IsWord(t[i])
          THEN LET end == RunEnd(t, i, IsWord)
               IN <<[k \in 1..(end - i) |-> Lower(t[i + k - 1])]>> \o Lex[end]
        ELSE IF IsOperator(t[i]) THEN Token(RunEnd(t, i, IsOperator))
        ELSE Token(i + 1)
  IN Lex[1]

-----------------------------------------------------------------------------
(* rtStripComments, which the repair-totality lint reads a file through:    *)
(* comments and $$ bodies become blanks in place, strings stay. A comment   *)
(* may close on the star that opened it.                                   *)

DollarDollar == <<"$", "$">>

(* Mutant: strings are read like code.                                      *)
NoLiteral(t, i) == i + 1

LiteralEnd(t, i) == Find(t, i + 1, <<"'">>, Len(t)) + 1
BlockEnd(t, i) == Find(t, i, CloseComment, Len(t) - 1) + 2
DollarEnd(t, i) == Find(t, i + 2, DollarDollar, Len(t) - 1) + 2

StripComments(t) ==
  LET Strip[i \in 1..(Len(t) + 1)] ==
        LET Blanked(end) ==
              [k \in 1..(end - i) |-> IF t[i + k - 1] = "\n" THEN "\n" ELSE " "] \o Strip[end]
        IN IF i > Len(t) THEN <<>>
           ELSE IF Has(t, i, DashDash) THEN Blanked(LineEnd(t, i))
           ELSE IF Has(t, i, OpenComment) THEN Blanked(BlockEnd(t, i))
           ELSE IF Has(t, i, DollarDollar) THEN Blanked(DollarEnd(t, i))
           ELSE IF t[i] = "'" THEN SubSeq(t, i, LiteralEnd(t, i) - 1) \o Strip[LiteralEnd(t, i)]
           ELSE <<t[i]>> \o Strip[i + 1]
  IN Strip[1]

-----------------------------------------------------------------------------
(* SubstituteTemplates: ${VAR} and {{VAR}}, left to right. An empty name    *)
(* and ON_CLUSTER (here "A") stay as they are; a name that is not set is    *)
(* refused.                                                                *)

Templates == {[open |-> <<"$", "{">>, close |-> <<"}">>], [open |-> <<"{", "{">>, close |-> <<"}", "}">>]}
OnCluster == <<"A">>

(* The template that opens first at or after i, if it closes.               *)
FirstOpening(t, i) == Least({j \in i..Len(t) : \E u \in Templates : Has(t, j, u.open)}, 0)

(* Mutant: the scan goes on where the template ended in the text before,    *)
(* which is further on when the value is shorter.                          *)
FillInAtClose(done, value, t, at, after, Fill) ==
  LET shorter == IF Len(value) < after - at THEN after - at - Len(value) ELSE 0
      next == IF after + shorter > Len(t) THEN Len(t) + 1 ELSE after + shorter
  IN IF Fill[next] = Refused THEN Refused ELSE done \o value \o SubSeq(t, after, next - 1) \o Fill[next]

(* The scan goes on behind the value.                                       *)
FillIn(done, value, t, at, after, Fill) ==
  LET rest == Fill[after] IN IF rest = Refused THEN Refused ELSE done \o value \o rest

SubstituteTemplates(t, env) ==
  LET Fill[i \in 1..(Len(t) + 1)] ==
        LET at == FirstOpening(t, i)
            u == CHOOSE v \in Templates : Has(t, at, v.open)
            close == Find(t, at + 2, u.close, 0)
            after == close + Len(u.close)
            name == SubSeq(t, at + 2, close - 1)
            GoesOn(value) == FillIn(SubSeq(t, i, at - 1), value, t, at, after, Fill)
        IN IF at = 0 \/ close = 0 THEN SubSeq(t, i, Len(t))
           ELSE IF name \in {<<>>, OnCluster} THEN GoesOn(SubSeq(t, at, after - 1))
           ELSE IF name \in DOMAIN env THEN GoesOn(env[name])
           ELSE Refused
  IN Fill[1]

(* What a no-transaction file is refused for: an untagged dollar quote.     *)
HasDollarQuote(t) == Find(t, 1, DollarDollar, 0) # 0

-----------------------------------------------------------------------------
(* Texts are written one piece at a time. *)

Init == alphabet \in Alphabets /\ lexemes = 0 /\ text = <<>>

Write ==
  /\ lexemes < MaxLexemes
  /\ \E lexeme \in alphabet : text' = text \o lexeme
  /\ lexemes' = lexemes + 1
  /\ UNCHANGED alphabet

Spec == Init /\ [][Write]_scannerVars

-----------------------------------------------------------------------------
(* Properties *)

(* The statements a sequence of tokens makes. *)
StatementsOf(tokens) ==
  LET From[i \in 1..(Len(tokens) + 1)] ==
        IF i > Len(tokens) THEN << <<>> >>
        ELSE IF tokens[i] = <<";">> THEN << <<>> >> \o From[i + 1]
        ELSE Onto(<<tokens[i]>>, From[i + 1])
  IN NonEmpty(From[1])

(* No quote is left open: a blank at the end changes nothing.               *)
Complete(t) == SqlTokens(t \o <<" ">>) = SqlTokens(t)

(* The semantic digest of a file (digest.go:14-72) accounts for what its    *)
(* statements are when they are sent one by one (splitsql.go:18-82): cut at *)
(* its semicolons, the token sequence that is hashed is that of the pieces. *)
(* Two files of one digest then make the same statements, and an edit of    *)
(* comments alone may be settled as no edit. Not so where a comment touches *)
(* an operator or stands alone between two words, nests, or where there are *)
(* backticks: no alphabet of the run writes those.                         *)
SplitKeepsTokens ==
  Complete(text) =>
    LET pieces == SplitStatements(text) IN
    StatementsOf(SqlTokens(text)) = [k \in DOMAIN pieces |-> SqlTokens(pieces[k])]

(* What the lint calls a comment is one, and nothing else is (repair-       *)
(* totality.go:85-131): over the stripped text it finds the very tokens of  *)
(* the file, on the same lines, so that no constraint is hidden and no      *)
(* commented DELETE is a repair. Shown where there are no quoted names, no  *)
(* backslashes and no dollar signs, and a comment is closed by another star *)
(* than it was opened with.                                                *)
Plain(t) == \A i \in DOMAIN t : t[i] \notin {"\"", "\\", "$"}
StripKeepsCode ==
  Plain(text) =>
    LET stripped == StripComments(text) IN
    /\ SqlTokens(stripped) = SqlTokens(text)
    /\ Len(stripped) = Len(text)
    /\ \A i \in DOMAIN text : stripped[i] = "\n" <=> text[i] = "\n"

(* What an environment variable holds is data (coremigrate.go:94-162):      *)
(* neither its characters nor what they make together with the text around  *)
(* them is taken for another template, and a text is refused for what it    *)
(* says, never for what a variable holds. Shown by filling in a mark and    *)
(* replacing the mark last.                                                *)
Expand(t, value) ==
  LET upto[i \in 0..Len(t)] ==
        IF i = 0 THEN <<>> ELSE upto[i - 1] \o (IF t[i] = Mark THEN value ELSE <<t[i]>>)
  IN  upto[Len(t)]
Holding(name, value) == [n \in {name} |-> value]
ValuesAreInert ==
  \A name \in DOMAIN Environment :
    LET marked == SubstituteTemplates(text, Holding(name, <<Mark>>))
        filled == SubstituteTemplates(text, Holding(name, Environment[name]))
    IN filled = IF marked = Refused THEN Refused ELSE Expand(marked, Environment[name])

(* splitsql.go:14-15 says of dollar quotes: callers that can meet one must  *)
(* reject it rather than mis-split it. The no-transaction path looks for $$ *)
(* and lets a tagged body through.                                         *)
BodiesStayWhole ==
  ~HasDollarQuote(text) =>
    \A i \in DOMAIN SqlTokens(text) :
      LET token == SqlTokens(text)[i]
          pieces == SplitStatements(text)
      IN token[1] = "$" /\ Len(token) > 1 =>
           \E k \in DOMAIN pieces : \E j \in DOMAIN SqlTokens(pieces[k]) : SqlTokens(pieces[k])[j] = token
=============================================================================
