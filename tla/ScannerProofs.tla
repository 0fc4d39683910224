--------------------------- MODULE ScannerProofs ---------------------------
(* Machine-checked theorems about the conversions of Scanner, for texts of  *)
(* any length over any characters.                                         *)
EXTENDS Scanner, TLAPS, WellFoundedInduction, SequenceTheorems

-----------------------------------------------------------------------------
(* Recursion over the positions of a text *)

Less == {pair \in Nat \X Nat : pair[1] < pair[2]}

(* A set of numbers has a least one.                                        *)
LEMMA LeastNumber ==
  ASSUME NEW S \in SUBSET Nat, S # {} PROVE \E n \in S : \A k \in S : n <= k
<1>1. IsWellFoundedOn(Less, Nat)
  BY NatLessThanWellFounded DEF OpToRel, Less
<1>2. PICK n \in S : \A k \in S : <<k, n>> \notin Less
  BY <1>1, WFMin, Zenon
<1>3. ASSUME NEW k \in S PROVE n <= k
  <2>1. <<k, n>> \in Less <=> k < n
    BY DEF Less
  <2> QED BY <1>2, <2>1
<1> QED BY <1>3

(* What holds of a position when it holds of all later ones holds of all.   *)
LEMMA FromTheEnd ==
  ASSUME NEW n \in Nat, NEW Holds \in SUBSET (1..n),
         \A i \in 1..n : (\A j \in (i + 1)..n : j \in Holds) => i \in Holds
  PROVE  Holds = 1..n
<1> DEFINE Left == {d \in 0..n : n - d \in 1..n /\ n - d \notin Holds}
<1>1. ASSUME Left # {} PROVE FALSE
  <2>1. PICK d \in Left : \A e \in Left : d <= e
    <3>1. Left \in SUBSET Nat
      OBVIOUS
    <3> HIDE DEF Left
    <3> QED BY <1>1, <3>1, LeastNumber
  <2>2. d \in 0..n /\ n - d \in 1..n /\ n - d \notin Holds
    BY <2>1
  <2>3. ASSUME NEW j \in (n - d + 1)..n PROVE j \in Holds
    <3>1. n - j \in 0..n /\ n - (n - j) = j /\ ~(d <= n - j) /\ j \in 1..n
      BY <2>2
    <3>2. n - j \notin Left
      <4> HIDE DEF Left
      <4> QED BY <2>1, <3>1
    <3> QED BY <3>1, <3>2
  <2> QED BY <2>2, <2>3
<1>2. ASSUME NEW i \in 1..n PROVE i \in Holds
  <2>1. n - i \in 0..n /\ n - (n - i) = i
    OBVIOUS
  <2>2. n - i \notin Left
    <3> HIDE DEF Left
    <3> QED BY <1>1
  <2> QED BY <2>1, <2>2
<1> QED BY <1>2

(* What holds at the start, and of a position when of the one before, does. *)
LEMMA FromTheStart ==
  ASSUME NEW n \in Nat, NEW Holds \in SUBSET (0..n), 0 \in Holds,
         \A i \in 1..n : i - 1 \in Holds => i \in Holds
  PROVE  Holds = 0..n
<1> DEFINE Left == (0..n) \ Holds
<1>1. ASSUME Left # {} PROVE FALSE
  <2>1. PICK i \in Left : \A j \in Left : i <= j
    <3>1. Left \in SUBSET Nat
      OBVIOUS
    <3> HIDE DEF Left
    <3> QED BY <1>1, <3>1, LeastNumber
  <2>2. i \in 1..n /\ i - 1 \in 0..n /\ ~(i <= i - 1) /\ i \notin Holds
    BY <2>1
  <2>3. i - 1 \notin Left
    <3> HIDE DEF Left
    <3> QED BY <2>1, <2>2
  <2> QED BY <2>2, <2>3
<1> QED BY <1>1

(* A function that takes its value at a position from a later one exists.   *)
StepsBackward(n, S, stops, base, jump, step) ==
  \A i \in 1..n :
    IF i \in stops THEN base[i] \in S
    ELSE jump[i] \in (i + 1)..n /\ \A rest \in S : step[<<i, rest>>] \in S
Backward(n, S, stops, base, jump, step, f) ==
  /\ f \in [1..n -> S]
  /\ \A i \in 1..n : f[i] = IF i \in stops THEN base[i] ELSE step[<<i, f[jump[i]]>>]

LEMMA BackwardRecursion ==
  ASSUME NEW n \in Nat, NEW S, NEW stops, NEW base, NEW jump, NEW step, StepsBackward(n, S, stops, base, jump, step)
  PROVE  \E f : Backward(n, S, stops, base, jump, step, f)
<1> USE DEF StepsBackward, Backward
<1> DEFINE Until(f, k) == /\ f \in [k..n -> S]
                          /\ \A i \in k..n : f[i] = IF i \in stops THEN base[i] ELSE step[<<i, f[jump[i]]>>]
           Bad == {d \in 0..n : ~\E f : Until(f, n - d + 1)}
<1>1. ASSUME Bad # {} PROVE FALSE
  <2>1. PICK d \in Bad : \A e \in Bad : d <= e
    <3>1. Bad \in SUBSET Nat
      OBVIOUS
    <3> HIDE DEF Bad
    <3> QED BY <1>1, <3>1, LeastNumber
  <2>2. d \in 0..n /\ ~\E f : Until(f, n - d + 1)
    BY <2>1
  <2>3. d # 0
    <3>1. ASSUME d = 0 PROVE FALSE
      <4> DEFINE none == [i \in (n - d + 1)..n |-> base[i]]
      <4>1. (n - d + 1)..n = {}
        BY <3>1
      <4>2. Until(none, n - d + 1)
        BY <4>1
      <4> HIDE DEF Until, none
      <4> QED BY <2>2, <4>2
    <3> QED BY <3>1
  <2> DEFINE k == n - d + 1
  <2>4. k \in 1..n /\ d - 1 \in 0..n /\ n - (d - 1) + 1 = k + 1 /\ ~(d <= d - 1)
    BY <2>2, <2>3
  <2>5. d - 1 \notin Bad
    <3> HIDE DEF Bad
    <3> QED BY <2>1, <2>4
  <2>6. PICK f : Until(f, k + 1)
    BY <2>4, <2>5
  <2>7. ~\E g : Until(g, k)
    BY <2>2
  <2> HIDE DEF k, Bad
  <2> DEFINE last == IF k \in stops THEN base[k] ELSE step[<<k, f[jump[k]]>>]
             g == [i \in k..n |-> IF i = k THEN last ELSE f[i]]
  <2>8. f \in [(k + 1)..n -> S]
    BY <2>6
  <2>9. last \in S
    BY <2>4, <2>8
  <2> HIDE DEF last
  <2>10. \A i \in k..n : i # k => i \in (k + 1)..n /\ g[i] = f[i]
    BY <2>4
  <2>11. g[k] = last
    BY <2>4
  <2>12. g \in [k..n -> S]
    BY <2>8, <2>9, <2>10
  <2>13. ASSUME NEW i \in k..n, i \notin stops
         PROVE  jump[i] \in (i + 1)..n /\ jump[i] \in k..n /\ jump[i] # k /\ g[jump[i]] = f[jump[i]]
    <3>1. i \in 1..n
      BY <2>4
    <3>2. jump[i] \in (i + 1)..n
      BY <2>13, <3>1
    <3>3. jump[i] \in k..n /\ jump[i] # k
      BY <2>4, <3>1, <3>2
    <3> QED BY <2>10, <3>2, <3>3
  <2>14. ASSUME NEW i \in k..n PROVE g[i] = IF i \in stops THEN base[i] ELSE step[<<i, g[jump[i]]>>]
    <3>1. CASE i = k
      <4> HIDE DEF g
      <4> QED BY <2>11, <2>13, <3>1 DEF last
    <3>2. CASE i # k
      <4>1. g[i] = f[i] /\ i \in (k + 1)..n
        BY <2>10, <3>2
      <4>2. f[i] = IF i \in stops THEN base[i] ELSE step[<<i, f[jump[i]]>>]
        BY <2>6, <4>1
      <4> HIDE DEF g
      <4> QED BY <2>13, <4>1, <4>2
    <3> QED BY <3>1, <3>2
  <2> HIDE DEF g
  <2>15. Until(g, k)
    BY <2>12, <2>14
  <2> HIDE DEF Until
  <2> QED BY <2>7, <2>15
<1>2. \E f : Until(f, 1)
  <2>1. n \in 0..n /\ n - n + 1 = 1
    OBVIOUS
  <2>2. n \notin Bad
    <3> HIDE DEF Bad
    <3> QED BY <1>1
  <2>3. \E f : Until(f, n - n + 1)
    <3> HIDE DEF Until
    <3> QED BY <2>1, <2>2
  <2> QED BY <2>1, <2>3
<1> QED BY <1>2

(* One that takes its value from the position before exists as well.        *)
StepsForward(n, S, step) == \A i \in 1..n : \A rest \in S : step[<<i, rest>>] \in S
Forward(n, S, first, step, f) ==
  f \in [0..n -> S] /\ f[0] = first /\ \A i \in 1..n : f[i] = step[<<i, f[i - 1]>>]

LEMMA ForwardRecursion ==
  ASSUME NEW n \in Nat, NEW S, NEW first \in S, NEW step, StepsForward(n, S, step)
  PROVE  \E f : Forward(n, S, first, step, f)
<1> USE DEF StepsForward, Forward
<1> DEFINE Until(f, k) == f \in [0..k -> S] /\ f[0] = first /\ \A i \in 1..k : f[i] = step[<<i, f[i - 1]>>]
           Bad == {k \in 0..n : ~\E f : Until(f, k)}
<1>1. ASSUME Bad # {} PROVE FALSE
  <2>1. PICK k \in Bad : \A e \in Bad : k <= e
    <3>1. Bad \in SUBSET Nat
      OBVIOUS
    <3> HIDE DEF Bad
    <3> QED BY <1>1, <3>1, LeastNumber
  <2>2. k \in 0..n /\ ~\E f : Until(f, k)
    BY <2>1
  <2>3. k # 0
    <3>1. ASSUME k = 0 PROVE FALSE
      <4> DEFINE start == [i \in 0..0 |-> first]
      <4>1. Until(start, 0)
        OBVIOUS
      <4> HIDE DEF Until, start
      <4> QED BY <2>2, <3>1, <4>1
    <3> QED BY <3>1
  <2>4. k \in 1..n /\ k - 1 \in 0..n /\ ~(k <= k - 1)
    BY <2>2, <2>3
  <2>5. k - 1 \notin Bad
    <3> HIDE DEF Bad
    <3> QED BY <2>1, <2>4
  <2>6. PICK f : Until(f, k - 1)
    BY <2>4, <2>5
  <2> HIDE DEF Bad
  <2> DEFINE last == step[<<k, f[k - 1]>>]
             g == [i \in 0..k |-> IF i = k THEN last ELSE f[i]]
  <2>7. f \in [0..(k - 1) -> S] /\ f[0] = first
    BY <2>6
  <2>8. k - 1 \in 0..(k - 1) /\ f[k - 1] \in S
    BY <2>4, <2>7
  <2>9. last \in S
    BY <2>4, <2>8
  <2> HIDE DEF last
  <2>10. \A i \in 0..k : i # k => i \in 0..(k - 1) /\ g[i] = f[i]
    BY <2>4
  <2>11. g[k] = last
    BY <2>4
  <2>12. g \in [0..k -> S]
    BY <2>7, <2>9, <2>10
  <2>13. g[0] = first
    BY <2>4, <2>7, <2>10
  <2>14. ASSUME NEW i \in 1..k PROVE g[i] = step[<<i, g[i - 1]>>]
    <3>1. i - 1 \in 0..k /\ i - 1 # k
      BY <2>4
    <3>2. g[i - 1] = f[i - 1]
      BY <2>10, <3>1
    <3>3. CASE i = k
      <4> HIDE DEF g
      <4> QED BY <2>11, <3>2, <3>3 DEF last
    <3>4. CASE i # k
      <4>1. g[i] = f[i] /\ i \in 1..(k - 1)
        BY <2>4, <2>10, <3>4
      <4>2. f[i] = step[<<i, f[i - 1]>>]
        BY <2>6, <4>1
      <4> HIDE DEF g
      <4> QED BY <3>2, <4>1, <4>2
    <3> QED BY <3>3, <3>4
  <2> HIDE DEF g
  <2>15. Until(g, k)
    BY <2>12, <2>13, <2>14
  <2> HIDE DEF Until
  <2> QED BY <2>2, <2>15
<1>2. n \in 0..n /\ n \notin Bad
  BY <1>1
<1>3. \E f : Until(f, n)
  BY <1>2
<1> QED BY <1>3

-----------------------------------------------------------------------------
(* Replacing marks *)

Marked == Seq(Characters \cup {Mark})
Piece(c, value) == IF c = Mark THEN value ELSE <<c>>

(* What the first i characters of t become.                                 *)
Expansion(u, t, value) ==
  /\ u \in [0..Len(t) -> Seq(Characters)]
  /\ u[0] = <<>>
  /\ \A i \in 1..Len(t) : u[i] = u[i - 1] \o Piece(t[i], value)

LEMMA PieceType ==
  ASSUME NEW value \in Seq(Characters), NEW c \in Characters \cup {Mark} PROVE Piece(c, value) \in Seq(Characters)
BY DEF Piece

LEMMA ExpandUnfolds ==
  ASSUME NEW t \in Marked, NEW value \in Seq(Characters)
  PROVE  \E u : Expansion(u, t, value) /\ Expand(t, value) = u[Len(t)]
<1> DEFINE n == Len(t)
           step == [p \in (1..n) \X Seq(Characters) |-> p[2] \o Piece(t[p[1]], value)]
           Fixed(f) == f = [i \in 0..n |-> IF i = 0 THEN <<>>
                                           ELSE f[i - 1] \o (IF t[i] = Mark THEN value ELSE <<t[i]>>)]
<1>1. n \in Nat /\ <<>> \in Seq(Characters) /\ \A i \in 1..n : t[i] \in Characters \cup {Mark}
  BY DEF Marked
<1>2. ASSUME NEW i \in 1..n, NEW rest \in Seq(Characters)
      PROVE  step[<<i, rest>>] = rest \o Piece(t[i], value) /\ step[<<i, rest>>] \in Seq(Characters)
  <2>1. Piece(t[i], value) \in Seq(Characters)
    BY <1>1, PieceType
  <2>2. <<i, rest>> \in (1..n) \X Seq(Characters) /\ <<i, rest>>[1] = i /\ <<i, rest>>[2] = rest
    OBVIOUS
  <2>3. step[<<i, rest>>] = rest \o Piece(t[i], value)
    BY <2>2
  <2>4. rest \o Piece(t[i], value) \in Seq(Characters)
    BY <2>1
  <2> HIDE DEF step
  <2> QED BY <2>3, <2>4
<1> HIDE DEF step, n
<1>3. PICK f : Forward(n, Seq(Characters), <<>>, step, f)
  <2>1. StepsForward(n, Seq(Characters), step)
    BY <1>2 DEF StepsForward
  <2> QED BY <1>1, <2>1, ForwardRecursion
<1>4. \A i \in 1..n : f[i] = f[i - 1] \o Piece(t[i], value)
  <2> TAKE i \in 1..n
  <2>1. i - 1 \in 0..n
    BY <1>1
  <2>2. f[i - 1] \in Seq(Characters)
    BY <1>3, <2>1 DEF Forward
  <2>3. step[<<i, f[i - 1]>>] = f[i - 1] \o Piece(t[i], value)
    BY <1>2, <2>2, Zenon
  <2> QED BY <1>3, <2>3, Zenon DEF Forward
<1>5. Fixed(f)
  <2>1. \A i \in 0..n : f[i] = IF i = 0 THEN <<>> ELSE f[i - 1] \o (IF t[i] = Mark THEN value ELSE <<t[i]>>)
    <3> TAKE i \in 0..n
    <3>1. CASE i = 0
      BY <1>3, <3>1 DEF Forward
    <3>2. CASE i # 0
      <4>1. i \in 1..n
        BY <1>1, <3>2
      <4> QED BY <1>4, <3>2, <4>1, Zenon DEF Piece
    <3> QED BY <3>1, <3>2
  <2> QED BY <1>3, <2>1 DEF Forward
<1> DEFINE u == CHOOSE upto : upto = [i \in 0..Len(t) |-> IF i = 0 THEN <<>>
                                           ELSE upto[i - 1] \o (IF t[i] = Mark THEN value ELSE <<t[i]>>)]
<1>6. Expand(t, value) = u[n]
  <2>1. Expand(t, value) = u[Len(t)]
    BY DEF Expand
  <2> QED BY <2>1 DEF n
<1>7. Fixed(u)
  <2>1. u = CHOOSE g : Fixed(g)
    BY DEF n
  <2> HIDE DEF Fixed, u
  <2> QED BY <1>5, <2>1
<1> HIDE DEF u
<1>8. u[0] = <<>> /\ \A i \in 1..n : u[i] = u[i - 1] \o Piece(t[i], value)
  <2>1. \A i \in 0..n : u[i] = IF i = 0 THEN <<>> ELSE u[i - 1] \o (IF t[i] = Mark THEN value ELSE <<t[i]>>)
    <3> DEFINE body(i) == IF i = 0 THEN <<>> ELSE u[i - 1] \o (IF t[i] = Mark THEN value ELSE <<t[i]>>)
    <3>1. u = [i \in 0..n |-> body(i)]
      BY <1>7
    <3> HIDE DEF body
    <3>2. \A i \in 0..n : u[i] = body(i)
      BY <3>1
    <3> QED BY <3>2 DEF body
  <2>2. u[0] = <<>>
    <3>1. 0 \in 0..n
      BY <1>1
    <3> QED BY <2>1, <3>1, Zenon
  <2>3. ASSUME NEW i \in 1..n PROVE u[i] = u[i - 1] \o Piece(t[i], value)
    <3>1. i \in 0..n /\ i # 0
      BY <1>1
    <3> QED BY <2>1, <3>1, Zenon DEF Piece
  <2> QED BY <2>2, <2>3
<1>9. \A i \in 0..n : u[i] = f[i]
  <2> DEFINE Same == {i \in 0..n : u[i] = f[i]}
  <2>1. 0 \in Same
    BY <1>1, <1>3, <1>8 DEF Forward
  <2>2. ASSUME NEW i \in 1..n, i - 1 \in Same PROVE i \in Same
    <3>1. i \in 0..n /\ u[i - 1] = f[i - 1]
      BY <1>1, <2>2
    <3> QED BY <1>4, <1>8, <3>1
  <2>3. Same \in SUBSET (0..n)
    OBVIOUS
  <2>4. Same = 0..n
    <3> HIDE DEF Same
    <3> QED BY <1>1, <2>1, <2>2, <2>3, FromTheStart
  <2> QED BY <2>4
<1>10. u \in [0..n -> Seq(Characters)]
  BY <1>3, <1>7, <1>9 DEF Forward
<1>11. Expansion(u, t, value)
  BY <1>8, <1>10 DEF Expansion, n
<1> QED BY <1>6, <1>11 DEF n

(* A text without marks stays as it is.                                     *)
LEMMA ExpandPlain ==
  ASSUME NEW t \in Seq(Characters), NEW value \in Seq(Characters) PROVE Expand(t, value) = t
<1> DEFINE n == Len(t)
<1>1. t \in Marked /\ n \in Nat /\ \A i \in 1..n : Piece(t[i], value) = <<t[i]>>
  <2>1. \A i \in 1..n : t[i] # Mark
    BY TextsAssumption DEF TextsAssumption
  <2> QED BY <2>1 DEF Marked, Piece
<1>2. PICK u : Expansion(u, t, value) /\ Expand(t, value) = u[n]
  BY <1>1, ExpandUnfolds
<1> DEFINE Same == {i \in 0..n : u[i] = SubSeq(t, 1, i)}
<1>3. 0 \in Same
  <2>1. SubSeq(t, 1, 0) = <<>>
    BY SubSeqEmpty
  <2> QED BY <1>1, <1>2, <2>1 DEF Expansion
<1>4. ASSUME NEW i \in 1..n, i - 1 \in Same PROVE i \in Same
  <2>1. SubSeq(t, 1, i) = SubSeq(t, 1, i - 1) \o <<t[i]>>
    BY <1>1, SubSeqRecursiveSecond
  <2>2. u[i] = u[i - 1] \o <<t[i]>>
    BY <1>1, <1>2 DEF Expansion
  <2> QED BY <1>4, <2>1, <2>2
<1>5. Same = 0..n
  <2>1. Same \in SUBSET (0..n)
    OBVIOUS
  <2> HIDE DEF Same
  <2> QED BY <1>1, <1>3, <1>4, <2>1, FromTheStart
<1>6. n \in Same
  BY <1>1, <1>5
<1>7. SubSeq(t, 1, n) = t
  BY SubSeqFull
<1> QED BY <1>2, <1>6, <1>7

LEMMA ExpandMark ==
  ASSUME NEW value \in Seq(Characters) PROVE Expand(<<Mark>>, value) = value
<1>1. <<Mark>> \in Marked /\ Len(<<Mark>>) = 1 /\ <<Mark>>[1] = Mark
  BY DEF Marked
<1>2. PICK u : Expansion(u, <<Mark>>, value) /\ Expand(<<Mark>>, value) = u[1]
  BY <1>1, ExpandUnfolds
<1>3. 1 \in 1..1 /\ 1 - 1 = 0
  OBVIOUS
<1>4. u[1] = u[0] \o Piece(Mark, value) /\ u[0] = <<>>
  BY <1>1, <1>2, <1>3 DEF Expansion
<1>5. <<>> \o value = value
  BY ConcatEmptySeq
<1> QED BY <1>2, <1>4, <1>5 DEF Piece

(* Marks are replaced one by one, wherever a text is cut.                   *)
LEMMA ExpandConcat ==
  ASSUME NEW s \in Marked, NEW t \in Marked, NEW value \in Seq(Characters)
  PROVE  Expand(s \o t, value) = Expand(s, value) \o Expand(t, value)
<1> DEFINE m == Len(s)
           n == Len(t)
<1>1. /\ m \in Nat /\ n \in Nat /\ s \o t \in Marked /\ Len(s \o t) = m + n
      /\ \A i \in 1..m : (s \o t)[i] = s[i]
      /\ \A i \in 1..n : (s \o t)[m + i] = t[i]
      /\ \A i \in 1..n : t[i] \in Characters \cup {Mark}
  BY DEF Marked
<1>2. PICK u : Expansion(u, s \o t, value) /\ Expand(s \o t, value) = u[m + n]
  BY <1>1, ExpandUnfolds
<1>3. PICK v : Expansion(v, s, value) /\ Expand(s, value) = v[m]
  BY ExpandUnfolds
<1>4. PICK w : Expansion(w, t, value) /\ Expand(t, value) = w[n]
  BY ExpandUnfolds
<1> HIDE DEF m, n
<1>5. u[m] = v[m]
  <2> DEFINE Same == {i \in 0..m : u[i] = v[i]}
  <2>1. 0 \in Same
    BY <1>1, <1>2, <1>3 DEF Expansion
  <2>2. ASSUME NEW i \in 1..m, i - 1 \in Same PROVE i \in Same
    <3>1. i \in 1..(m + n) /\ i \in 1..Len(s) /\ i \in 0..m
      BY <1>1 DEF m
    <3>2. u[i] = u[i - 1] \o Piece(s[i], value) /\ v[i] = v[i - 1] \o Piece(s[i], value)
      BY <1>1, <1>2, <1>3, <3>1 DEF Expansion
    <3> QED BY <2>2, <3>1, <3>2
  <2>3. Same = 0..m
    <3>1. Same \in SUBSET (0..m)
      OBVIOUS
    <3> HIDE DEF Same
    <3> QED BY <1>1, <2>1, <2>2, <3>1, FromTheStart
  <2>4. m \in Same
    BY <1>1, <2>3
  <2> QED BY <2>4
<1>6. u[m + n] = v[m] \o w[n]
  <2>1. v[m] \in Seq(Characters) /\ \A i \in 0..n : w[i] \in Seq(Characters)
    BY <1>1, <1>3, <1>4 DEF Expansion, m, n
  <2> DEFINE Same == {i \in 0..n : u[m + i] = v[m] \o w[i]}
  <2>2. 0 \in Same
    <3>1. w[0] = <<>> /\ v[m] \o <<>> = v[m] /\ m + 0 = m /\ 0 \in 0..n
      BY <1>1, <1>4, <2>1, ConcatEmptySeq DEF Expansion
    <3> QED BY <1>5, <3>1
  <2>3. ASSUME NEW i \in 1..n, i - 1 \in Same PROVE i \in Same
    <3>1. m + i \in 1..(m + n) /\ (m + i) - 1 = m + (i - 1) /\ i \in 1..Len(t) /\ i \in 0..n /\ i - 1 \in 0..n
      BY <1>1 DEF n
    <3>2. u[m + i] = u[(m + i) - 1] \o Piece(t[i], value) /\ w[i] = w[i - 1] \o Piece(t[i], value)
      BY <1>1, <1>2, <1>4, <3>1 DEF Expansion
    <3>3. u[m + i] = (v[m] \o w[i - 1]) \o Piece(t[i], value)
      BY <2>3, <3>1, <3>2
    <3>4. Piece(t[i], value) \in Seq(Characters)
      BY <1>1, PieceType
    <3>5. (v[m] \o w[i - 1]) \o Piece(t[i], value) = v[m] \o (w[i - 1] \o Piece(t[i], value))
      <4>1. w[i - 1] \in Seq(Characters) /\ v[m] \in Seq(Characters)
        BY <2>1, <3>1
      <4>2. \A a, b, c \in Seq(Characters) : (a \o b) \o c = a \o (b \o c)
        BY ConcatAssociative
      <4> QED BY <3>4, <4>1, <4>2, Zenon
    <3> QED BY <3>1, <3>2, <3>3, <3>5
  <2>4. Same = 0..n
    <3>1. Same \in SUBSET (0..n)
      OBVIOUS
    <3> HIDE DEF Same
    <3> QED BY <1>1, <2>2, <2>3, <3>1, FromTheStart
  <2>5. n \in Same
    <3>1. n \in 0..n
      BY <1>1
    <3> HIDE DEF Same
    <3> QED BY <2>4, <3>1
  <2> QED BY <2>5
<1> QED BY <1>2, <1>3, <1>4, <1>6

-----------------------------------------------------------------------------
(* Where something stands in a text *)

LEMMA LeastPosition ==
  ASSUME NEW positions \in SUBSET Nat, NEW otherwise
  PROVE  /\ positions = {} => Least(positions, otherwise) = otherwise
         /\ positions # {} => /\ Least(positions, otherwise) \in positions
                              /\ \A i \in positions : Least(positions, otherwise) <= i
<1>1. ASSUME positions # {} PROVE \E i \in positions : \A j \in positions : i <= j
  BY <1>1, LeastNumber
<1> QED BY <1>1 DEF Least

LEMMA Found ==
  ASSUME NEW t, Len(t) \in Nat, NEW i \in Nat, NEW s, NEW otherwise
  PROVE  \/ /\ Find(t, i, s, otherwise) \in i..Len(t)
            /\ Has(t, Find(t, i, s, otherwise), s)
            /\ \A j \in i..Len(t) : Has(t, j, s) => Find(t, i, s, otherwise) <= j
         \/ /\ Find(t, i, s, otherwise) = otherwise
            /\ \A j \in i..Len(t) : ~Has(t, j, s)
<1> DEFINE places == {j \in i..Len(t) : Has(t, j, s)}
<1>1. places \in SUBSET Nat
  OBVIOUS
<1>2. Find(t, i, s, otherwise) = Least(places, otherwise)
  BY DEF Find
<1>3. CASE places = {}
  <2>1. Find(t, i, s, otherwise) = otherwise
    BY <1>1, <1>2, <1>3, LeastPosition
  <2> QED BY <1>3, <2>1
<1>4. CASE places # {}
  <2>1. Find(t, i, s, otherwise) \in places /\ \A j \in places : Find(t, i, s, otherwise) <= j
    <3> HIDE DEF places
    <3> QED BY <1>1, <1>2, <1>4, LeastPosition
  <2> QED BY <2>1
<1> QED BY <1>3, <1>4

-----------------------------------------------------------------------------
(* Filling in templates *)

(* The template that opens first at or after i, and what follows it.        *)
At(t, i) == FirstOpening(t, i)
Style(t, i) == CHOOSE v \in Templates : Has(t, At(t, i), v.open)
CloseAt(t, i) == Find(t, At(t, i) + 2, Style(t, i).close, 0)
After(t, i) == CloseAt(t, i) + Len(Style(t, i).close)
NameAt(t, i) == SubSeq(t, At(t, i) + 2, CloseAt(t, i) - 1)
Unclosed(t, i) == At(t, i) = 0 \/ CloseAt(t, i) = 0
Before(t, i) == SubSeq(t, i, At(t, i) - 1)
Template(t, i) == SubSeq(t, At(t, i), After(t, i) - 1)
Skipped(t, i) == NameAt(t, i) \in {<<>>, OnCluster}

LEMMA ClosingLength ==
  ASSUME NEW u \in Templates PROVE Len(u.close) \in {1, 2}
<1>1. u = [open |-> <<"$", "{">>, close |-> <<"}">>] \/ u = [open |-> <<"{", "{">>, close |-> <<"}", "}">>]
  BY DEF Templates
<1>2. u.close = <<"}">> \/ u.close = <<"}", "}">>
  <2>1. \A o, c : u = [open |-> o, close |-> c] => u.close = c
    OBVIOUS
  <2> QED BY <1>1, <2>1, Zenon
<1>3. \A c : Len(<<c>>) = 1 /\ Len(<<c, c>>) = 2
  OBVIOUS
<1>4. Len(<<"}">>) = 1 /\ Len(<<"}", "}">>) = 2
  BY <1>3, Zenon
<1>5. \A c : c = <<"}">> \/ c = <<"}", "}">> => Len(c) \in {1, 2}
  BY <1>4, Zenon
<1> QED BY <1>2, <1>5, Zenon

LEMMA TemplateRange ==
  ASSUME NEW t \in Seq(Characters), NEW i \in 1..(Len(t) + 1), ~Unclosed(t, i)
  PROVE  At(t, i) \in i..Len(t) /\ After(t, i) \in (i + 1)..(Len(t) + 1)
<1> DEFINE places == {j \in i..Len(t) : \E u \in Templates : Has(t, j, u.open)}
           at == At(t, i)
           close == CloseAt(t, i)
           style == Style(t, i)
<1>1. at = Least(places, 0) /\ at # 0 /\ close # 0 /\ Len(t) \in Nat
  BY DEF At, FirstOpening, Unclosed
<1>2. places \in SUBSET Nat
  OBVIOUS
<1>3. at \in places
  <2> HIDE DEF places, at, close
  <2> QED BY <1>1, <1>2, LeastPosition
<1>4. at \in i..Len(t) /\ \E u \in Templates : Has(t, at, u.open)
  BY <1>3
<1>5. style \in Templates
  <2>1. style = CHOOSE v \in Templates : Has(t, at, v.open)
    BY DEF Style
  <2> HIDE DEF style, at
  <2> QED BY <1>4, <2>1
<1>6. Len(style.close) \in {1, 2}
  <2> HIDE DEF style
  <2> QED BY <1>5, ClosingLength
<1>7. close = Find(t, at + 2, style.close, 0) /\ After(t, i) = close + Len(style.close)
  BY DEF CloseAt, After
<1> HIDE DEF places, at, close, style
<1>8. close \in (at + 2)..Len(t) /\ Has(t, close, style.close)
  BY <1>1, <1>4, <1>7, Found
<1>9. close + Len(style.close) - 1 <= Len(t)
  BY <1>8 DEF Has
<1>10. After(t, i) \in (i + 1)..(Len(t) + 1)
  BY <1>1, <1>4, <1>6, <1>7, <1>8, <1>9
<1> QED BY <1>4, <1>10 DEF at

(* What becomes of the text from i on, when f says what becomes of the      *)
(* text behind the first template.                                         *)
Filled(f, t, env, i) ==
  IF Unclosed(t, i) THEN SubSeq(t, i, Len(t))
  ELSE IF Skipped(t, i) THEN FillIn(Before(t, i), Template(t, i), t, At(t, i), After(t, i), f)
  ELSE IF NameAt(t, i) \in DOMAIN env THEN FillIn(Before(t, i), env[NameAt(t, i)], t, At(t, i), After(t, i), f)
  ELSE Refused

AnyText == Seq(Characters \cup {Mark, "refused"})

LEMMA PiecesOfTexts ==
  ASSUME NEW t \in Seq(Characters), NEW i \in 1..(Len(t) + 1)
  PROVE  /\ SubSeq(t, i, Len(t)) \in Seq(Characters)
         /\ ~Unclosed(t, i) => Before(t, i) \in Seq(Characters) /\ Template(t, i) \in Seq(Characters)
<1>1. \A j, k \in Int : j >= 1 /\ k <= Len(t) => SubSeq(t, j, k) \in Seq(Characters)
  <2> TAKE j, k \in Int
  <2> HAVE j >= 1 /\ k <= Len(t)
  <2>1. \A l \in j..k : t[l] \in Characters
    OBVIOUS
  <2> QED BY <2>1, SubSeqProperties
<1>2. SubSeq(t, i, Len(t)) \in Seq(Characters)
  BY <1>1
<1>3. ASSUME ~Unclosed(t, i) PROVE Before(t, i) \in Seq(Characters) /\ Template(t, i) \in Seq(Characters)
  <2>1. At(t, i) \in i..Len(t) /\ After(t, i) \in (i + 1)..(Len(t) + 1)
    BY <1>3, TemplateRange
  <2>2. At(t, i) - 1 \in Int /\ After(t, i) - 1 \in Int /\ At(t, i) - 1 <= Len(t) /\ After(t, i) - 1 <= Len(t)
        /\ i >= 1 /\ At(t, i) >= 1 /\ i \in Int /\ At(t, i) \in Int
    BY <2>1
  <2>3. SubSeq(t, i, At(t, i) - 1) \in Seq(Characters) /\ SubSeq(t, At(t, i), After(t, i) - 1) \in Seq(Characters)
    BY <1>1, <2>2
  <2> QED BY <2>3 DEF Before, Template
<1> QED BY <1>2, <1>3

LEMMA FillUnfolds ==
  ASSUME NEW t \in Seq(Characters), NEW env, \A name \in DOMAIN env : env[name] \in Marked
  PROVE  \E f : /\ SubstituteTemplates(t, env) = f[1]
                /\ \A i \in 1..(Len(t) + 1) : f[i] = Filled(f, t, env, i)
<1> DEFINE n == Len(t) + 1
           Value(i) == IF Skipped(t, i) THEN Template(t, i) ELSE env[NameAt(t, i)]
           stops == {i \in 1..n : Unclosed(t, i) \/ (~Skipped(t, i) /\ NameAt(t, i) \notin DOMAIN env)}
           base == [i \in 1..n |-> IF Unclosed(t, i) THEN SubSeq(t, i, Len(t)) ELSE Refused]
           jump == [i \in 1..n |-> After(t, i)]
           step == [p \in (1..n) \X AnyText |->
                      IF p[2] = Refused THEN Refused ELSE Before(t, p[1]) \o Value(p[1]) \o p[2]]
           Fixed(f) == f = [i \in 1..n |-> Filled(f, t, env, i)]
<1>1. n \in Nat /\ Refused \in AnyText
  BY DEF AnyText, Refused
<1>2. Seq(Characters) \subseteq AnyText /\ Marked \subseteq AnyText
  BY DEF AnyText, Marked
<1>3. \A i \in 1..n : i \in stops => base[i] \in AnyText
  BY <1>1, <1>2, PiecesOfTexts
<1>4. ASSUME NEW i \in 1..n, i \notin stops PROVE jump[i] \in (i + 1)..n
  BY <1>4, TemplateRange
<1>5. ASSUME NEW i \in 1..n, i \notin stops, NEW rest \in AnyText
      PROVE  /\ step[<<i, rest>>] = IF rest = Refused THEN Refused ELSE Before(t, i) \o Value(i) \o rest
             /\ step[<<i, rest>>] \in AnyText
  <2>1. Before(t, i) \in AnyText /\ Value(i) \in AnyText
    BY <1>2, <1>5, PiecesOfTexts
  <2>2. <<i, rest>> \in (1..n) \X AnyText /\ <<i, rest>>[1] = i /\ <<i, rest>>[2] = rest
    OBVIOUS
  <2>3. step[<<i, rest>>] = IF rest = Refused THEN Refused ELSE Before(t, i) \o Value(i) \o rest
    <3> HIDE DEF Value, n
    <3> QED BY <2>2
  <2>4. Before(t, i) \o Value(i) \o rest \in AnyText
    <3> HIDE DEF Value
    <3> QED BY <2>1 DEF AnyText
  <2> HIDE DEF step, Value
  <2> QED BY <1>1, <2>3, <2>4
<1> HIDE DEF n, stops, base, jump, step
<1>6. StepsBackward(n, AnyText, stops, base, jump, step)
  BY <1>3, <1>4, <1>5, Zenon DEF StepsBackward
<1>7. PICK f : Backward(n, AnyText, stops, base, jump, step, f)
  BY <1>1, <1>6, BackwardRecursion
<1>8. ASSUME NEW i \in 1..n PROVE f[i] = Filled(f, t, env, i)
  <2>1. CASE i \in stops
    <3>1. f[i] = base[i]
      BY <1>7, <2>1 DEF Backward
    <3> QED BY <2>1, <3>1 DEF base, stops, Filled
  <2>2. CASE i \notin stops
    <3>1. f[i] = step[<<i, f[jump[i]]>>] /\ jump[i] \in (i + 1)..n /\ jump[i] = After(t, i)
      BY <1>4, <1>7, <2>2 DEF Backward, jump
    <3>2. jump[i] \in 1..n
      BY <1>1, <3>1
    <3>3. f[After(t, i)] \in AnyText
      BY <1>7, <3>1, <3>2 DEF Backward
    <3>4. f[i] = IF f[After(t, i)] = Refused THEN Refused ELSE Before(t, i) \o Value(i) \o f[After(t, i)]
      BY <1>5, <2>2, <3>1, <3>3
    <3>5. ~Unclosed(t, i) /\ (Skipped(t, i) \/ NameAt(t, i) \in DOMAIN env)
      BY <2>2 DEF stops
    <3> QED BY <3>4, <3>5, Zenon DEF Filled, FillIn
  <2> QED BY <2>1, <2>2
<1>9. Fixed(f)
  BY <1>7, <1>8 DEF Backward
<1> DEFINE g == CHOOSE h : Fixed(h)
<1>10. Fixed(g)
  <2> HIDE DEF Fixed
  <2> QED BY <1>9
<1>11. SubstituteTemplates(t, env) = g[1]
  BY DEF SubstituteTemplates, Filled, Unclosed, Skipped, Before, Template, NameAt, After, CloseAt, Style, At, n
<1>12. \A i \in 1..n : g[i] = Filled(g, t, env, i)
  <2> HIDE DEF g
  <2> QED BY <1>10
<1> HIDE DEF g
<1> QED BY <1>11, <1>12 DEF n

-----------------------------------------------------------------------------
(* Values are data *)

(* What has been filled in with marks, and with a value: either both are    *)
(* refused, or the second is the first with the value in the marks' place.  *)
Mirrors(marked, filled, value) ==
  \/ marked = Refused /\ filled = Refused
  \/ /\ marked \in Marked /\ marked # Refused
     /\ filled = Expand(marked, value) /\ filled \in Seq(Characters) /\ filled # Refused

LEMMA NotRefused ==
  /\ Refused \notin Seq(Characters)
  /\ Refused \notin Marked
  /\ Seq(Characters) \subseteq Marked
  /\ <<Mark>> \in Marked
<1>1. Refused \notin Seq(Characters)
  BY TextsAssumption DEF TextsAssumption
<1>2. Refused \notin Marked
  <2>1. ASSUME Refused \in Marked PROVE FALSE
    <3>1. Refused = <<"refused">> /\ Len(Refused) = 1 /\ Refused[1] = "refused"
      BY DEF Refused
    <3>2. "refused" \in Characters \cup {Mark}
      BY <2>1, <3>1 DEF Marked
    <3>3. "refused" \in Characters
      BY <3>2 DEF Mark
    <3> QED BY <1>1, <3>1, <3>3
  <2> QED BY <2>1
<1> QED BY <1>1, <1>2 DEF Marked

LEMMA ExpandType ==
  ASSUME NEW t \in Marked, NEW value \in Seq(Characters) PROVE Expand(t, value) \in Seq(Characters)
<1>1. PICK u : Expansion(u, t, value) /\ Expand(t, value) = u[Len(t)]
  BY ExpandUnfolds
<1>2. Len(t) \in 0..Len(t)
  BY DEF Marked
<1> QED BY <1>1, <1>2 DEF Expansion

(* One template filled in: the text before it, what takes its place, and    *)
(* what has become of the rest.                                             *)
LEMMA MirrorsGoOn ==
  ASSUME NEW value \in Seq(Characters), NEW before \in Seq(Characters),
         NEW a \in Marked, NEW b \in Seq(Characters), b = Expand(a, value),
         NEW m, NEW f, Mirrors(m, f, value)
  PROVE  Mirrors(IF m = Refused THEN Refused ELSE before \o a \o m,
                 IF f = Refused THEN Refused ELSE before \o b \o f, value)
<1>1. CASE m = Refused
  BY <1>1, NotRefused DEF Mirrors
<1>2. CASE m # Refused
  <2>1. m \in Marked /\ f = Expand(m, value) /\ f \in Seq(Characters) /\ f # Refused
    BY <1>2 DEF Mirrors
  <2>2. before \in Marked /\ before \o a \in Marked /\ before \o a \o m \in Marked
    BY <2>1 DEF Marked
  <2>3. Expand(before \o a \o m, value) = Expand(before \o a, value) \o Expand(m, value)
    <3>1. \A x, y \in Marked : Expand(x \o y, value) = Expand(x, value) \o Expand(y, value)
      BY ExpandConcat, Zenon
    <3> QED BY <2>1, <2>2, <3>1, Zenon
  <2>4. Expand(before \o a, value) = Expand(before, value) \o Expand(a, value)
    BY <2>2, ExpandConcat, Zenon
  <2>5. Expand(before, value) = before
    BY ExpandPlain
  <2>6. before \o b \o f \in Seq(Characters)
    BY <2>1
  <2>7. before \o b \o f = Expand(before \o a \o m, value)
    BY <2>1, <2>3, <2>4, <2>5
  <2> HIDE DEF Refused
  <2>8. before \o a \o m # Refused /\ before \o b \o f # Refused
    BY <2>2, <2>6, NotRefused
  <2> QED BY <1>2, <2>1, <2>2, <2>6, <2>7, <2>8 DEF Mirrors
<1> QED BY <1>1, <1>2

LEMMA FillsMirror ==
  ASSUME NEW t \in Seq(Characters), NEW name, NEW value \in Seq(Characters)
  PROVE  Mirrors(SubstituteTemplates(t, Holding(name, <<Mark>>)), SubstituteTemplates(t, Holding(name, value)), value)
<1> DEFINE n == Len(t) + 1
           marking == Holding(name, <<Mark>>)
           filling == Holding(name, value)
<1>1. /\ DOMAIN marking = {name} /\ marking[name] = <<Mark>>
      /\ DOMAIN filling = {name} /\ filling[name] = value
  BY DEF Holding
<1>2. n \in Nat /\ 1 \in 1..n
  OBVIOUS
<1> HIDE DEF marking, filling
<1>3. PICK m : /\ SubstituteTemplates(t, marking) = m[1]
               /\ \A i \in 1..n : m[i] = Filled(m, t, marking, i)
  <2>1. \A x \in DOMAIN marking : marking[x] \in Marked
    BY <1>1, NotRefused
  <2> QED BY <2>1, FillUnfolds
<1>4. PICK f : /\ SubstituteTemplates(t, filling) = f[1]
               /\ \A i \in 1..n : f[i] = Filled(f, t, filling, i)
  <2>1. \A x \in DOMAIN filling : filling[x] \in Marked
    BY <1>1, NotRefused
  <2> QED BY <2>1, FillUnfolds
<1> DEFINE Same == {i \in 1..n : Mirrors(m[i], f[i], value)}
<1>5. ASSUME NEW i \in 1..n, \A j \in (i + 1)..n : j \in Same PROVE i \in Same
  <2>1. m[i] = Filled(m, t, marking, i) /\ f[i] = Filled(f, t, filling, i)
    BY <1>3, <1>4
  <2>2. CASE Unclosed(t, i)
    <3> DEFINE rest == SubSeq(t, i, Len(t))
    <3>1. m[i] = rest /\ f[i] = rest
      BY <2>1, <2>2 DEF Filled
    <3>2. rest \in Seq(Characters)
      BY PiecesOfTexts
    <3> HIDE DEF rest
    <3>3. Expand(rest, value) = rest /\ rest \in Marked /\ rest # Refused
      BY <3>2, ExpandPlain, NotRefused
    <3> QED BY <3>1, <3>2, <3>3 DEF Mirrors
  <2>3. CASE ~Unclosed(t, i)
    <3>1. After(t, i) \in (i + 1)..n /\ Before(t, i) \in Seq(Characters) /\ Template(t, i) \in Seq(Characters)
      BY <2>3, TemplateRange, PiecesOfTexts
    <3>2. Mirrors(m[After(t, i)], f[After(t, i)], value)
      BY <1>5, <3>1
    <3>3. CASE Skipped(t, i)
      <4>1. m[i] = FillIn(Before(t, i), Template(t, i), t, At(t, i), After(t, i), m)
            /\ f[i] = FillIn(Before(t, i), Template(t, i), t, At(t, i), After(t, i), f)
        BY <2>1, <2>3, <3>3, Zenon DEF Filled
      <4>2. Template(t, i) \in Marked /\ Template(t, i) = Expand(Template(t, i), value)
        BY <3>1, ExpandPlain, NotRefused
      <4>3. Mirrors(m[i], f[i], value)
        BY <3>1, <3>2, <4>1, <4>2, MirrorsGoOn, Zenon DEF FillIn
      <4> QED BY <4>3
    <3>4. CASE ~Skipped(t, i) /\ NameAt(t, i) = name
      <4>1. m[i] = FillIn(Before(t, i), <<Mark>>, t, At(t, i), After(t, i), m)
            /\ f[i] = FillIn(Before(t, i), value, t, At(t, i), After(t, i), f)
        BY <1>1, <2>1, <2>3, <3>4, Zenon DEF Filled
      <4>2. <<Mark>> \in Marked /\ value = Expand(<<Mark>>, value)
        BY ExpandMark, NotRefused
      <4>3. Mirrors(m[i], f[i], value)
        BY <3>1, <3>2, <4>1, <4>2, MirrorsGoOn, Zenon DEF FillIn
      <4> QED BY <4>3
    <3>5. CASE ~Skipped(t, i) /\ NameAt(t, i) # name
      <4>1. m[i] = Refused /\ f[i] = Refused
        BY <1>1, <2>1, <2>3, <3>5, Zenon DEF Filled
      <4> QED BY <4>1 DEF Mirrors
    <3> QED BY <3>3, <3>4, <3>5
  <2> QED BY <2>2, <2>3
<1>6. Same = 1..n
  <2>1. Same \in SUBSET (1..n)
    OBVIOUS
  <2> HIDE DEF Same, n
  <2> QED BY <1>2, <1>5, <2>1, FromTheEnd
<1>7. Mirrors(m[1], f[1], value)
  BY <1>2, <1>6
<1> QED BY <1>3, <1>4, <1>7 DEF marking, filling

(* Every text is one that can be written.                                   *)
TextInv == text \in Seq(Characters) /\ alphabet \in Alphabets

LEMMA TextsAreTexts == Spec => []TextInv
<1>1. Init => TextInv
  BY DEF Init, TextInv
<1>2. TextInv /\ [Write]_scannerVars => TextInv'
  <2> SUFFICES ASSUME TextInv, [Write]_scannerVars PROVE TextInv'
    OBVIOUS
  <2>1. CASE Write
    <3>1. PICK lexeme \in alphabet : text' = text \o lexeme
      BY <2>1 DEF Write
    <3>2. lexeme \in Seq(Characters)
      BY <3>1, TextsAssumption DEF TextsAssumption, TextInv
    <3> QED BY <2>1, <3>1, <3>2 DEF Write, TextInv
  <2>2. CASE UNCHANGED scannerVars
    BY <2>2 DEF scannerVars, TextInv
  <2> QED BY <2>1, <2>2
<1> QED BY <1>1, <1>2, PTL DEF Spec

(* Whatever environment variables hold and whatever a migration says, a     *)
(* value is never read as a template, nor does it make one with the text    *)
(* around it, nor is a text refused for it (coremigrate.go:94-162).         *)
THEOREM ValuesAreInertAlways == Spec => []ValuesAreInert
<1>1. TextInv => ValuesAreInert
  <2> SUFFICES ASSUME TextInv, NEW name \in DOMAIN Environment
               PROVE  SubstituteTemplates(text, Holding(name, Environment[name]))
                        = IF SubstituteTemplates(text, Holding(name, <<Mark>>)) = Refused THEN Refused
                          ELSE Expand(SubstituteTemplates(text, Holding(name, <<Mark>>)), Environment[name])
    BY Zenon DEF ValuesAreInert
  <2>1. Environment[name] \in Seq(Characters)
    BY TextsAssumption DEF TextsAssumption
  <2>2. Mirrors(SubstituteTemplates(text, Holding(name, <<Mark>>)),
                SubstituteTemplates(text, Holding(name, Environment[name])), Environment[name])
    BY <2>1, FillsMirror DEF TextInv
  <2> QED BY <2>2 DEF Mirrors
<1> QED BY <1>1, TextsAreTexts, PTL

-----------------------------------------------------------------------------
(* What stands at a position *)

LEMMA HasOne ==
  ASSUME NEW t, Len(t) \in Nat, NEW i \in Nat \ {0}, NEW a
  PROVE  Has(t, i, <<a>>) <=> i <= Len(t) /\ t[i] = a
<1>1. Len(<<a>>) = 1 /\ i + 1 - 1 = i
  OBVIOUS
<1>2. ASSUME i <= Len(t) PROVE SubSeq(t, i, i) = <<t[i]>>
  <2> DEFINE S == {t[i]}
             part == SubSeq(t, i, i)
  <2>1. part \in Seq(S) /\ Len(part) = 1 /\ part[1] = t[i]
    <3>1. i \in Int /\ i <= i /\ i - i + 1 = 1 /\ i + 1 - 1 = i /\ 1 \in 1..1 /\ \A l \in i..i : t[l] \in S
      OBVIOUS
    <3> HIDE DEF S
    <3> QED BY <3>1, SubSeqProperties
  <2>2. <<t[i]>> \in Seq(S) /\ Len(<<t[i]>>) = 1 /\ <<t[i]>>[1] = t[i]
    OBVIOUS
  <2> HIDE DEF S, part
  <2>3. \A l \in 1..1 : part[l] = <<t[i]>>[l]
    BY <2>1, <2>2
  <2>4. part = <<t[i]>>
    BY <2>1, <2>2, <2>3, SeqEqual
  <2> QED BY <2>4 DEF part
<1>3. Has(t, i, <<a>>) <=> i <= Len(t) /\ SubSeq(t, i, i) = <<a>>
  BY <1>1 DEF Has
<1> QED BY <1>2, <1>3

LEMMA HasTwo ==
  ASSUME NEW t, Len(t) \in Nat, NEW i \in Nat \ {0}, NEW a, NEW b
  PROVE  Has(t, i, <<a, b>>) <=> i + 1 <= Len(t) /\ t[i] = a /\ t[i + 1] = b
<1>1. Len(<<a, b>>) = 2 /\ i + 2 - 1 = i + 1
  OBVIOUS
<1>2. ASSUME i + 1 <= Len(t) PROVE SubSeq(t, i, i + 1) = <<t[i], t[i + 1]>>
  <2> DEFINE S == {t[i], t[i + 1]}
             part == SubSeq(t, i, i + 1)
             pair == <<t[i], t[i + 1]>>
  <2>1. part \in Seq(S) /\ Len(part) = 2 /\ part[1] = t[i] /\ part[2] = t[i + 1]
    <3>1. /\ i \in Int /\ i + 1 \in Int /\ i <= i + 1 /\ (i + 1) - i + 1 = 2 /\ i + 1 - 1 = i /\ i + 2 - 1 = i + 1
          /\ 1 \in 1..2 /\ 2 \in 1..2 /\ \A l \in i..(i + 1) : t[l] \in S
      OBVIOUS
    <3> HIDE DEF S
    <3> QED BY <3>1, SubSeqProperties
  <2>2. pair \in Seq(S) /\ Len(pair) = 2 /\ pair[1] = t[i] /\ pair[2] = t[i + 1]
    OBVIOUS
  <2> HIDE DEF S, part, pair
  <2>3. \A l \in 1..2 : part[l] = pair[l]
    BY <2>1, <2>2
  <2>4. part = pair
    BY <2>1, <2>2, <2>3, SeqEqual
  <2> QED BY <2>4 DEF part, pair
<1>3. Has(t, i, <<a, b>>) <=> i + 1 <= Len(t) /\ SubSeq(t, i, i + 1) = <<a, b>>
  BY <1>1 DEF Has
<1> QED BY <1>2, <1>3

-----------------------------------------------------------------------------
(* rtStripComments *)

Written == Characters \cup {" ", "\n"}

(* What is made blank at i, where the scan goes on, and what it leaves.     *)
Blanked(t, i) == Has(t, i, DashDash) \/ Has(t, i, OpenComment) \/ Has(t, i, DollarDollar)
Hop(t, i) ==
  IF Has(t, i, DashDash) THEN LineEnd(t, i)
  ELSE IF Has(t, i, OpenComment) THEN BlockEnd(t, i)
  ELSE IF Has(t, i, DollarDollar) THEN DollarEnd(t, i)
  ELSE IF t[i] = "'" THEN LiteralEnd(t, i)
  ELSE i + 1
Shown(c) == IF c = "\n" THEN "\n" ELSE " "
Left(t, i) ==
  IF Blanked(t, i) THEN [k \in 1..(Hop(t, i) - i) |-> Shown(t[i + k - 1])]
  ELSE IF t[i] = "'" THEN SubSeq(t, i, LiteralEnd(t, i) - 1)
  ELSE <<t[i]>>

LEMMA ShownType == \A c : Shown(c) \in Written
BY DEF Shown, Written

LEMMA HopRange ==
  ASSUME NEW t, Len(t) \in Nat, NEW i \in 1..Len(t) PROVE Hop(t, i) \in (i + 1)..(Len(t) + 1)
<1> DEFINE n == Len(t)
<1>1. CASE Has(t, i, DashDash)
  <2>1. t[i] = "-"
    BY <1>1, HasTwo DEF DashDash
  <2>2. \/ LineEnd(t, i) \in i..n /\ Has(t, LineEnd(t, i), <<"\n">>)
        \/ LineEnd(t, i) = n + 1
    BY Found DEF LineEnd
  <2>3. LineEnd(t, i) \in i..n /\ Has(t, LineEnd(t, i), <<"\n">>) => t[LineEnd(t, i)] = "\n"
    BY HasOne
  <2>4. LineEnd(t, i) # i \/ LineEnd(t, i) = n + 1
    BY <2>1, <2>2, <2>3
  <2>5. Hop(t, i) = LineEnd(t, i)
    BY <1>1 DEF Hop
  <2> QED BY <2>2, <2>4, <2>5
<1>2. CASE ~Has(t, i, DashDash) /\ Has(t, i, OpenComment)
  <2> DEFINE close == Find(t, i, CloseComment, n - 1)
  <2>1. \/ close \in i..n /\ Has(t, close, CloseComment)
        \/ close = n - 1
    BY Found
  <2>2. i + 1 <= n
    BY <1>2, HasTwo DEF OpenComment
  <2>3. close \in i..n /\ Has(t, close, CloseComment) => close + 1 <= n
    BY HasTwo DEF CloseComment
  <2>4. Hop(t, i) = close + 2
    BY <1>2 DEF Hop, BlockEnd
  <2> HIDE DEF close
  <2> QED BY <2>1, <2>2, <2>3, <2>4
<1>3. CASE ~Has(t, i, DashDash) /\ ~Has(t, i, OpenComment) /\ Has(t, i, DollarDollar)
  <2> DEFINE close == Find(t, i + 2, DollarDollar, n - 1)
  <2>1. \/ close \in (i + 2)..n /\ Has(t, close, DollarDollar)
        \/ close = n - 1
    BY Found
  <2>2. i + 1 <= n
    BY <1>3, HasTwo DEF DollarDollar
  <2>3. close \in (i + 2)..n /\ Has(t, close, DollarDollar) => close + 1 <= n
    BY HasTwo DEF DollarDollar
  <2>4. Hop(t, i) = close + 2
    BY <1>3 DEF Hop, DollarEnd
  <2> HIDE DEF close
  <2> QED BY <2>1, <2>2, <2>3, <2>4
<1>4. CASE ~Blanked(t, i) /\ t[i] = "'"
  <2> DEFINE close == Find(t, i + 1, <<"'">>, n)
  <2>1. close \in (i + 1)..n \/ close = n
    BY Found
  <2>2. Hop(t, i) = close + 1
    BY <1>4 DEF Hop, Blanked, LiteralEnd
  <2> HIDE DEF close
  <2> QED BY <2>1, <2>2
<1>5. CASE ~Blanked(t, i) /\ t[i] # "'"
  BY <1>5 DEF Hop, Blanked
<1> QED BY <1>1, <1>2, <1>3, <1>4, <1>5 DEF Blanked

(* A piece that is left is as long as what it stands for, its characters    *)
(* are those of the text or blanks in their place, and lines stay lines.    *)
LEMMA LeftKeeps ==
  ASSUME NEW t \in Seq(Written), NEW i \in 1..Len(t)
  PROVE  /\ Left(t, i) \in Seq(Written) /\ Len(Left(t, i)) = Hop(t, i) - i
         /\ \A k \in 1..(Hop(t, i) - i) :
              Left(t, i)[k] = IF Blanked(t, i) THEN Shown(t[i + k - 1]) ELSE t[i + k - 1]
<1> DEFINE hop == Hop(t, i)
<1>1. hop \in (i + 1)..(Len(t) + 1) /\ Len(t) \in Nat
  BY HopRange
<1>2. \A k \in 1..(hop - i) : i + k - 1 \in 1..Len(t) /\ t[i + k - 1] \in Written
  BY <1>1
<1>3. CASE Blanked(t, i)
  <2>1. Left(t, i) = [k \in 1..(hop - i) |-> Shown(t[i + k - 1])]
    BY <1>3 DEF Left
  <2> HIDE DEF hop
  <2>2. hop - i \in Nat /\ \A k \in 1..(hop - i) : Shown(t[i + k - 1]) \in Written
    BY <1>1, ShownType
  <2>3. Left(t, i) \in Seq(Written) /\ Len(Left(t, i)) = hop - i
    BY <2>1, <2>2
  <2>4. \A k \in 1..(hop - i) : Left(t, i)[k] = Shown(t[i + k - 1])
    BY <2>1
  <2> QED BY <1>3, <2>3, <2>4 DEF hop
<1>4. CASE ~Blanked(t, i) /\ t[i] = "'"
  <2>1. Left(t, i) = SubSeq(t, i, hop - 1)
    BY <1>4 DEF Left, Hop, Blanked
  <2> HIDE DEF hop
  <2>2. Left(t, i) \in Seq(Written) /\ Len(Left(t, i)) = hop - i /\ \A k \in 1..(hop - i) : Left(t, i)[k] = t[i + k - 1]
    <3>1. i \in Int /\ hop - 1 \in Int /\ \A l \in i..(hop - 1) : t[l] \in Written
      BY <1>1
    <3>2. i <= hop - 1 + 1 /\ hop - 1 - i + 1 = hop - i
      BY <1>1
    <3> QED BY <2>1, <3>1, <3>2, SubSeqProperties
  <2> QED BY <1>4, <2>2 DEF hop
<1>5. CASE ~Blanked(t, i) /\ t[i] # "'"
  <2>1. Left(t, i) = <<t[i]>> /\ hop = i + 1
    BY <1>5 DEF Left, Hop, Blanked
  <2>2. t[i] \in Written
    OBVIOUS
  <2> HIDE DEF hop
  <2>3. \A k \in 1..(hop - i) : k = 1 /\ i + k - 1 = i
    BY <1>1, <2>1
  <2>4. hop - i = 1
    BY <1>1, <2>1
  <2>5. Left(t, i) \in Seq(Written) /\ Len(Left(t, i)) = 1 /\ Left(t, i)[1] = t[i]
    BY <2>1, <2>2
  <2> QED BY <1>5, <2>3, <2>4, <2>5 DEF hop
<1> QED BY <1>3, <1>4, <1>5

(* The text from i on, when f says what becomes of what is behind the piece *)
(* at i.                                                                   *)
Blanks(t, i, end) == [k \in 1..(end - i) |-> IF t[i + k - 1] = "\n" THEN "\n" ELSE " "]
Stripped(f, t, i) ==
  IF i > Len(t) THEN <<>>
  ELSE IF Has(t, i, DashDash) THEN Blanks(t, i, LineEnd(t, i)) \o f[LineEnd(t, i)]
  ELSE IF Has(t, i, OpenComment) THEN Blanks(t, i, BlockEnd(t, i)) \o f[BlockEnd(t, i)]
  ELSE IF Has(t, i, DollarDollar) THEN Blanks(t, i, DollarEnd(t, i)) \o f[DollarEnd(t, i)]
  ELSE IF t[i] = "'" THEN SubSeq(t, i, LiteralEnd(t, i) - 1) \o f[LiteralEnd(t, i)]
  ELSE <<t[i]>> \o f[i + 1]

LEMMA StrippedIsLeft ==
  ASSUME NEW f, NEW t, NEW i, ~(i > Len(t)) PROVE Stripped(f, t, i) = Left(t, i) \o f[Hop(t, i)]
BY Zenon DEF Stripped, Left, Hop, Blanked, Blanks, Shown

Strips(f, t) ==
  /\ f \in [1..(Len(t) + 1) -> Seq(Written)]
  /\ f[Len(t) + 1] = <<>>
  /\ \A i \in 1..Len(t) : f[i] = Left(t, i) \o f[Hop(t, i)]

LEMMA StripUnfolds ==
  ASSUME NEW t \in Seq(Written)
  PROVE  \E f : Strips(f, t) /\ StripComments(t) = f[1]
<1> DEFINE n == Len(t) + 1
           base == [i \in 1..n |-> <<>>]
           jump == [i \in 1..n |-> Hop(t, i)]
           step == [p \in (1..Len(t)) \X Seq(Written) |-> Left(t, p[1]) \o p[2]]
           Fixed(f) == f = [i \in 1..n |-> Stripped(f, t, i)]
<1>1. n \in Nat /\ Len(t) \in Nat /\ n \in 1..n /\ 1 \in 1..n /\ n > Len(t) /\ <<>> \in Seq(Written)
  OBVIOUS
<1>2. \A i \in 1..n : i \notin {n} => i \in 1..Len(t) /\ ~(i > Len(t))
  BY <1>1
<1>3. ASSUME NEW i \in 1..Len(t), NEW rest \in Seq(Written)
      PROVE  step[<<i, rest>>] = Left(t, i) \o rest /\ step[<<i, rest>>] \in Seq(Written)
  <2>1. <<i, rest>> \in (1..Len(t)) \X Seq(Written) /\ <<i, rest>>[1] = i /\ <<i, rest>>[2] = rest
    OBVIOUS
  <2>2. step[<<i, rest>>] = Left(t, i) \o rest
    BY <2>1
  <2>3. Left(t, i) \in Seq(Written)
    BY LeftKeeps
  <2> HIDE DEF step
  <2> QED BY <2>2, <2>3
<1>4. \A i \in 1..Len(t) : i \in 1..n /\ jump[i] = Hop(t, i) /\ jump[i] \in (i + 1)..n
  BY <1>1, HopRange
<1>5. \A i \in 1..n : base[i] \in Seq(Written) /\ base[i] = <<>>
  BY <1>1
<1> HIDE DEF n, base, jump, step
<1>6. StepsBackward(n, Seq(Written), {n}, base, jump, step)
  BY <1>2, <1>3, <1>4, <1>5, Zenon DEF StepsBackward
<1>7. PICK f : Backward(n, Seq(Written), {n}, base, jump, step, f)
  BY <1>1, <1>6, BackwardRecursion
<1>8. f \in [1..n -> Seq(Written)] /\ f[n] = <<>>
  BY <1>1, <1>5, <1>7 DEF Backward
<1>9. ASSUME NEW i \in 1..n PROVE f[i] = Stripped(f, t, i)
  <2>1. CASE i = n
    BY <1>1, <1>8, <2>1 DEF Stripped
  <2>2. CASE i # n
    <3>1. i \in 1..Len(t) /\ ~(i > Len(t)) /\ f[i] = step[<<i, f[jump[i]]>>]
      BY <1>2, <1>7, <2>2 DEF Backward
    <3>2. jump[i] = Hop(t, i) /\ jump[i] \in 1..n
      BY <1>1, <1>4, <3>1
    <3>3. f[jump[i]] \in Seq(Written)
      BY <1>8, <3>2
    <3>4. f[i] = Left(t, i) \o f[Hop(t, i)]
      BY <1>3, <3>1, <3>2, <3>3
    <3> QED BY <3>1, <3>4, StrippedIsLeft
  <2> QED BY <2>1, <2>2
<1>10. Fixed(f)
  BY <1>8, <1>9
<1> DEFINE g == CHOOSE h : Fixed(h)
<1>11. Fixed(g)
  <2> HIDE DEF Fixed
  <2> QED BY <1>10
<1>12. StripComments(t) = g[1]
  BY DEF StripComments, Stripped, Blanks, n
<1>13. \A i \in 1..n : g[i] = Stripped(g, t, i)
  <2> HIDE DEF g
  <2> QED BY <1>11
<1> HIDE DEF g
<1>14. DOMAIN g = 1..n
  BY <1>11
<1>15. g[n] = <<>> /\ \A i \in 1..Len(t) : g[i] = Left(t, i) \o g[Hop(t, i)]
  <2>1. g[n] = <<>>
    BY <1>1, <1>13 DEF Stripped
  <2>2. ASSUME NEW i \in 1..Len(t) PROVE g[i] = Left(t, i) \o g[Hop(t, i)]
    <3>1. i \in 1..n /\ ~(i > Len(t))
      BY <1>1 DEF n
    <3> QED BY <1>13, <3>1, StrippedIsLeft
  <2> QED BY <2>1, <2>2
<1> DEFINE Typed == {i \in 1..n : g[i] \in Seq(Written)}
<1>16. Typed = 1..n
  <2>1. ASSUME NEW i \in 1..n, \A j \in (i + 1)..n : j \in Typed PROVE i \in Typed
    <3>1. CASE i = n
      BY <1>1, <1>15, <3>1
    <3>2. CASE i # n
      <4>1. i \in 1..Len(t) /\ Hop(t, i) \in (i + 1)..n
        BY <1>2, <1>4, <3>2
      <4>2. g[Hop(t, i)] \in Seq(Written) /\ Left(t, i) \in Seq(Written)
        BY <2>1, <4>1, LeftKeeps
      <4>3. g[i] = Left(t, i) \o g[Hop(t, i)]
        BY <1>15, <4>1
      <4>4. g[i] \in Seq(Written)
        BY <4>2, <4>3
      <4> QED BY <4>4
    <3> QED BY <3>1, <3>2
  <2>2. Typed \in SUBSET (1..n)
    OBVIOUS
  <2> HIDE DEF Typed
  <2> QED BY <1>1, <2>1, <2>2, FromTheEnd
<1>17. g \in [1..n -> Seq(Written)]
  <2>1. g = [i \in 1..n |-> Stripped(g, t, i)]
    BY <1>11
  <2>2. \A i \in 1..n : Stripped(g, t, i) \in Seq(Written)
    BY <1>13, <1>16
  <2> QED BY <2>1, <2>2, Zenon
<1>18. Strips(g, t)
  BY <1>15, <1>17 DEF Strips, n
<1> QED BY <1>12, <1>18

LEMMA PasteAt ==
  ASSUME NEW a \in Seq(Written), NEW b \in Seq(Written), NEW m \in Nat, NEW l \in Nat,
         Len(a) = m, Len(b) = l, NEW k \in 1..(m + l)
  PROVE  (a \o b)[k] = IF k <= m THEN a[k] ELSE b[k - m]
<1>1. k \in 1..(Len(a) + Len(b))
  OBVIOUS
<1>2. \A i \in 1..(Len(a) + Len(b)) : (a \o b)[i] = IF i <= Len(a) THEN a[i] ELSE b[i - Len(a)]
  BY ConcatProperties
<1> QED BY <1>1, <1>2

(* Each text the stripper returns is as long as what it was made from, has  *)
(* its line ends, and otherwise its characters or blanks.                   *)
Keeps(c, d) == (c = "\n" <=> d = "\n") /\ c \in {d, " ", "\n"}

LEMMA StripsInPlace ==
  ASSUME NEW t \in Seq(Written), NEW f, Strips(f, t), NEW i \in 1..(Len(t) + 1)
  PROVE  /\ Len(f[i]) = Len(t) + 1 - i
         /\ \A k \in 1..(Len(t) + 1 - i) : Keeps(f[i][k], t[i + k - 1])
<1> DEFINE n == Len(t) + 1
           Fits(j) == Len(f[j]) = n - j /\ \A k \in 1..(n - j) : Keeps(f[j][k], t[j + k - 1])
           Held == {j \in 1..n : Fits(j)}
<1>1. n \in Nat /\ Len(t) \in Nat
  OBVIOUS
<1>2. ASSUME NEW j \in 1..n, \A l \in (j + 1)..n : l \in Held PROVE j \in Held
  <2>1. CASE j = n
    <3>1. f[j] = <<>> /\ n - j = 0 /\ 1..(n - j) = {} /\ Len(<<>>) = 0
      BY <1>1, <2>1 DEF Strips
    <3> QED BY <3>1
  <2>2. CASE j # n
    <3> DEFINE h == Hop(t, j)
    <3>1. j \in 1..Len(t) /\ h \in (j + 1)..n /\ h \in 1..n
      <4>1. j \in 1..Len(t)
        BY <1>1, <2>2
      <4>2. h \in (j + 1)..n
        BY <4>1, HopRange
      <4> QED BY <4>1, <4>2
    <3>2. f[j] = Left(t, j) \o f[h] /\ f[h] \in Seq(Written)
      BY <3>1 DEF Strips
    <3>3. /\ Left(t, j) \in Seq(Written) /\ Len(Left(t, j)) = h - j
          /\ \A k \in 1..(h - j) : Keeps(Left(t, j)[k], t[j + k - 1])
      <4>1. \A c : Keeps(Shown(c), c) /\ Keeps(c, c)
        BY DEF Shown, Keeps
      <4>2. /\ Left(t, j) \in Seq(Written) /\ Len(Left(t, j)) = Hop(t, j) - j
            /\ \A k \in 1..(Hop(t, j) - j) :
                 Left(t, j)[k] = IF Blanked(t, j) THEN Shown(t[j + k - 1]) ELSE t[j + k - 1]
        BY <3>1, LeftKeeps
      <4> HIDE DEF n
      <4> QED BY <4>1, <4>2
    <3>4. Fits(h)
      BY <1>2, <3>1
    <3> HIDE DEF n, h
    <3>5. Len(f[j]) = n - j
      <4>1. Len(f[j]) = Len(Left(t, j)) + Len(f[h])
        BY <3>2, <3>3, ConcatProperties
      <4> QED BY <1>1, <3>1, <3>3, <3>4, <4>1
    <3>6. ASSUME NEW k \in 1..(n - j) PROVE Keeps(f[j][k], t[j + k - 1])
      <4>1. f[j][k] = IF k <= h - j THEN Left(t, j)[k] ELSE f[h][k - (h - j)]
        <5>1. h - j \in Nat /\ n - h \in Nat /\ k \in 1..((h - j) + (n - h))
          BY <1>1, <3>1
        <5>2. Len(f[h]) = n - h
          BY <3>4
        <5> HIDE DEF Fits
        <5> QED BY <3>2, <3>3, <5>1, <5>2, PasteAt
      <4>2. CASE k <= h - j
        <5>1. k \in 1..(h - j)
          BY <1>1, <3>1, <4>2
        <5> QED BY <3>3, <4>1, <4>2, <5>1
      <4>3. CASE ~(k <= h - j)
        <5>1. k - (h - j) \in 1..(n - h) /\ h + (k - (h - j)) - 1 = j + k - 1
          BY <1>1, <3>1, <4>3
        <5>2. Keeps(f[h][k - (h - j)], t[h + (k - (h - j)) - 1])
          BY <3>4, <5>1
        <5> QED BY <4>1, <4>3, <5>1, <5>2
      <4> QED BY <4>2, <4>3
    <3>7. Fits(j)
      BY <3>5, <3>6
    <3> HIDE DEF Fits
    <3> QED BY <3>7
  <2> QED BY <2>1, <2>2
<1>3. Held \in SUBSET (1..n)
  OBVIOUS
<1> HIDE DEF Held
<1>4. Held = 1..n
  BY <1>1, <1>2, <1>3, FromTheEnd
<1>5. Fits(i)
  <2> HIDE DEF Fits
  <2>1. i \in Held
    BY <1>4
  <2> QED BY <2>1 DEF Held
<1> QED BY <1>5 DEF n

LEMMA StripKeeps ==
  ASSUME NEW t \in Seq(Written)
  PROVE  /\ StripComments(t) \in Seq(Written) /\ Len(StripComments(t)) = Len(t)
         /\ \A i \in 1..Len(t) : Keeps(StripComments(t)[i], t[i])
<1>1. PICK f : Strips(f, t) /\ StripComments(t) = f[1]
  BY StripUnfolds
<1>2. 1 \in 1..(Len(t) + 1) /\ Len(t) + 1 - 1 = Len(t) /\ Len(t) \in Nat
  OBVIOUS
<1>3. Len(f[1]) = Len(t) /\ \A k \in 1..Len(t) : Keeps(f[1][k], t[1 + k - 1])
  BY <1>1, <1>2, StripsInPlace
<1>4. f[1] \in Seq(Written)
  BY <1>1, <1>2 DEF Strips
<1>5. \A k \in 1..Len(t) : 1 + k - 1 = k
  BY <1>2
<1> QED BY <1>1, <1>3, <1>4, <1>5

(* What the lint reports lines of is as long as the file, and has its lines,*)
(* whatever opens or closes in it (repairtotality.go:85-131).               *)
THEOREM StripKeepsLines ==
  ASSUME NEW t \in Seq(Written)
  PROVE  /\ Len(StripComments(t)) = Len(t)
         /\ \A i \in DOMAIN t : StripComments(t)[i] = "\n" <=> t[i] = "\n"
<1>1. DOMAIN t = 1..Len(t)
  OBVIOUS
<1>2. Len(StripComments(t)) = Len(t) /\ \A i \in 1..Len(t) : Keeps(StripComments(t)[i], t[i])
  BY StripKeeps
<1> QED BY <1>1, <1>2 DEF Keeps

(* The positions the stripper stops at: the least set that has the first    *)
(* one and, of each, where the scan goes on.                                *)
Hops(t, positions) == 1 \in positions /\ \A i \in positions : i <= Len(t) => Hop(t, i) \in positions
Code(t) == {i \in 1..(Len(t) + 1) : \A positions \in SUBSET (1..(Len(t) + 1)) : Hops(t, positions) => i \in positions}

LEMMA CodeHops ==
  ASSUME NEW t, Len(t) \in Nat
  PROVE  /\ Hops(t, Code(t))
         /\ \A positions \in SUBSET (1..(Len(t) + 1)) : Hops(t, positions) => Code(t) \subseteq positions
<1>1. 1 \in Code(t)
  BY DEF Code, Hops
<1>2. ASSUME NEW i \in Code(t), i <= Len(t) PROVE Hop(t, i) \in Code(t)
  <2>1. i \in 1..Len(t)
    BY <1>2 DEF Code
  <2>2. Hop(t, i) \in 1..(Len(t) + 1)
    BY <2>1, HopRange
  <2>3. ASSUME NEW positions \in SUBSET (1..(Len(t) + 1)), Hops(t, positions) PROVE Hop(t, i) \in positions
    <3>1. i \in positions
      BY <2>3 DEF Code
    <3> QED BY <1>2, <2>3, <3>1 DEF Hops
  <2> QED BY <2>2, <2>3 DEF Code
<1>3. \A positions \in SUBSET (1..(Len(t) + 1)) : Hops(t, positions) => Code(t) \subseteq positions
  BY Zenon DEF Code
<1> QED BY <1>1, <1>2, <1>3 DEF Hops

(* What stands in the stripped text from a position it stopped at on.       *)
LEMMA CodeIsShown ==
  ASSUME NEW t \in Seq(Written), NEW i \in Code(t), i <= Len(t), NEW j \in i..(Hop(t, i) - 1)
  PROVE  StripComments(t)[j] = IF Blanked(t, i) THEN Shown(t[j]) ELSE t[j]
<1> DEFINE n == Len(t) + 1
<1>1. PICK f : Strips(f, t) /\ StripComments(t) = f[1]
  BY StripUnfolds
<1>2. n \in Nat /\ Len(t) \in Nat /\ 1 \in 1..n /\ i \in 1..Len(t)
  BY DEF Code
<1>3. \A l \in 1..Len(t) : /\ Hop(t, l) \in (l + 1)..n /\ l \in 1..n
                           /\ Left(t, l) \in Seq(Written) /\ Len(Left(t, l)) = Hop(t, l) - l
                           /\ f[l] = Left(t, l) \o f[Hop(t, l)]
  BY <1>1, <1>2, HopRange, LeftKeeps DEF Strips
<1>4. ASSUME NEW l \in 1..n PROVE f[l] \in Seq(Written) /\ Len(f[l]) = n - l
  <2>1. f[l] \in Seq(Written)
    BY <1>1 DEF Strips
  <2>2. Len(f[l]) = n - l
    BY <1>1, StripsInPlace
  <2> QED BY <2>1, <2>2
<1> DEFINE positions == {l \in 1..n : \A k \in l..Len(t) : f[1][k] = f[l][k - l + 1]}
<1>5. 1 \in positions
  <2>1. \A k \in 1..Len(t) : k - 1 + 1 = k
    BY <1>2
  <2> QED BY <1>2, <2>1
<1>6. ASSUME NEW l \in positions, l <= Len(t) PROVE Hop(t, l) \in positions
  <2> DEFINE h == Hop(t, l)
  <2>1. l \in 1..Len(t) /\ \A k \in l..Len(t) : f[1][k] = f[l][k - l + 1]
    BY <1>2, <1>6
  <2>2. h \in (l + 1)..n /\ h \in 1..n
    <3>1. h \in (l + 1)..n
      BY <1>3, <2>1
    <3> QED BY <1>2, <2>1, <3>1
  <2>3. f[l] = Left(t, l) \o f[h] /\ Left(t, l) \in Seq(Written) /\ Len(Left(t, l)) = h - l
        /\ f[h] \in Seq(Written) /\ Len(f[h]) = n - h
    BY <1>3, <1>4, <2>1, <2>2
  <2>4. ASSUME NEW k \in h..Len(t) PROVE f[1][k] = f[h][k - h + 1]
    <3> HIDE DEF h
    <3>1. k \in l..Len(t) /\ k - l + 1 \in 1..(n - l) /\ ~(k - l + 1 <= h - l) /\ (k - l + 1) - (h - l) = k - h + 1
          /\ n - l = (h - l) + (n - h)
      BY <1>2, <2>1, <2>2
    <3>2. f[1][k] = f[l][k - l + 1]
      BY <2>1, <3>1
    <3>3. (Left(t, l) \o f[h])[k - l + 1] = f[h][(k - l + 1) - (h - l)]
      <4>1. h - l \in Nat /\ n - h \in Nat /\ k - l + 1 \in 1..((h - l) + (n - h))
        BY <1>2, <2>1, <2>2, <3>1
      <4> HIDE DEF n
      <4> QED BY <2>3, <3>1, <4>1, PasteAt
    <3> QED BY <2>3, <3>1, <3>2, <3>3
  <2> QED BY <2>2, <2>4
<1>7. i \in positions
  <2>1. positions \in SUBSET (1..n)
    OBVIOUS
  <2> HIDE DEF positions
  <2>2. Hops(t, positions)
    BY <1>5, <1>6 DEF Hops
  <2> QED BY <1>2, <2>1, <2>2, CodeHops
<1>8. j \in i..Len(t) /\ j - i + 1 \in 1..(Hop(t, i) - i) /\ i + (j - i + 1) - 1 = j
  <2>1. Hop(t, i) \in (i + 1)..n
    BY <1>2, <1>3
  <2> QED BY <1>2, <2>1
<1>9. f[1][j] = f[i][j - i + 1]
  BY <1>7, <1>8
<1>10. f[i][j - i + 1] = Left(t, i)[j - i + 1]
  <2>1. /\ f[i] = Left(t, i) \o f[Hop(t, i)] /\ Left(t, i) \in Seq(Written) /\ Len(Left(t, i)) = Hop(t, i) - i
        /\ Hop(t, i) \in (i + 1)..n /\ Hop(t, i) \in 1..n
    BY <1>2, <1>3
  <2>2. f[Hop(t, i)] \in Seq(Written) /\ Len(f[Hop(t, i)]) = n - Hop(t, i)
    BY <1>4, <2>1
  <2>3. j - i + 1 \in 1..(Len(Left(t, i)) + Len(f[Hop(t, i)])) /\ j - i + 1 <= Len(Left(t, i))
    BY <1>2, <1>8, <2>1, <2>2
  <2> HIDE DEF n
  <2> QED BY <2>1, <2>2, <2>3, ConcatProperties
<1>11. Left(t, i)[j - i + 1] = IF Blanked(t, i) THEN Shown(t[i + (j - i + 1) - 1]) ELSE t[i + (j - i + 1) - 1]
  BY <1>2, <1>8, LeftKeeps
<1> QED BY <1>1, <1>8, <1>9, <1>10, <1>11

-----------------------------------------------------------------------------
(* Where sqlTokens goes on *)

(* skipBlockComment, from a position with some comments open. *)
NestedStep(f, t, i, depth) ==
  IF i > Len(t) THEN i
  ELSE IF Has(t, i, OpenComment) THEN f[<<i + 2, depth + 1>>]
  ELSE IF Has(t, i, CloseComment) THEN IF depth = 1 THEN i + 2 ELSE f[<<i + 2, depth - 1>>]
  ELSE f[<<i + 1, depth>>]
Nested(f, t) ==
  \A i \in 1..(Len(t) + 1), depth \in Int :
    f[<<i, depth>>] = NestedStep(f, t, i, depth) /\ f[<<i, depth>>] \in i..(Len(t) + 1)

LEMMA NestedUnfolds ==
  ASSUME NEW t, Len(t) \in Nat, NEW start
  PROVE  \E f : Nested(f, t) /\ NestedCommentEnd(t, start) = f[<<start + 2, 1>>]
<1> DEFINE n == Len(t) + 1
           S == [Int -> 1..n]
           Two(i) == Has(t, i, OpenComment) \/ Has(t, i, CloseComment)
           From(i, rest, depth) ==
             IF Has(t, i, OpenComment) THEN rest[depth + 1]
             ELSE IF Has(t, i, CloseComment) THEN IF depth = 1 THEN i + 2 ELSE rest[depth - 1]
             ELSE rest[depth]
           base == [i \in 1..n |-> [depth \in Int |-> n]]
           jump == [i \in 1..n |-> IF Two(i) THEN i + 2 ELSE i + 1]
           step == [p \in (1..n) \X S |-> [depth \in Int |-> From(p[1], p[2], depth)]]
           Fixed(f) == f = [at \in (1..n) \X Int |-> NestedStep(f, t, at[1], at[2])]
<1>1. n \in Nat /\ Len(t) \in Nat /\ n \in 1..n /\ n > Len(t)
  OBVIOUS
<1>2. ASSUME NEW i \in 1..n, i \notin {n}
      PROVE  /\ i \in 1..Len(t) /\ ~(i > Len(t)) /\ (Two(i) => i + 2 \in (i + 1)..n) /\ i + 1 \in (i + 1)..n
  <2>1. Two(i) => i + 1 <= Len(t)
    BY HasTwo DEF OpenComment, CloseComment
  <2> QED BY <1>1, <1>2, <2>1
<1>3. ASSUME NEW i \in 1..n, i \notin {n}, NEW rest \in S
      PROVE  step[<<i, rest>>] = [depth \in Int |-> From(i, rest, depth)] /\ step[<<i, rest>>] \in S
  <2>1. <<i, rest>> \in (1..n) \X S /\ <<i, rest>>[1] = i /\ <<i, rest>>[2] = rest
    OBVIOUS
  <2>2. step[<<i, rest>>] = [depth \in Int |-> From(i, rest, depth)]
    <3> HIDE DEF From, S, n
    <3> QED BY <2>1
  <2>3. ASSUME NEW depth \in Int PROVE From(i, rest, depth) \in 1..n
    <3>1. rest[depth] \in 1..n /\ rest[depth + 1] \in 1..n /\ rest[depth - 1] \in 1..n
      <4>1. rest \in [Int -> 1..n]
        BY Zenon
      <4>2. depth + 1 \in Int /\ depth - 1 \in Int
        OBVIOUS
      <4> HIDE DEF n, S, From, step
      <4> QED BY <4>1, <4>2
    <3>2. Has(t, i, CloseComment) => i + 2 \in 1..n
      BY <1>1, <1>2, <1>3
    <3> QED BY <3>1, <3>2
  <2> HIDE DEF step, From
  <2> QED BY <2>2, <2>3
<1>4. \A i \in 1..n : i \notin {n} => jump[i] \in (i + 1)..n /\ jump[i] = IF Two(i) THEN i + 2 ELSE i + 1
  <2> HIDE DEF Two, n
  <2> QED BY <1>2
<1>5. \A i \in 1..n : base[i] \in S /\ base[i] = [depth \in Int |-> n]
  BY <1>1
<1> HIDE DEF n, base, jump, step
<1>6. StepsBackward(n, S, {n}, base, jump, step)
  <2> HIDE DEF S
  <2> QED BY <1>3, <1>4, <1>5, Zenon DEF StepsBackward
<1>7. PICK h : Backward(n, S, {n}, base, jump, step, h)
  <2> HIDE DEF S
  <2> QED BY <1>1, <1>6, BackwardRecursion
<1> DEFINE f == [at \in (1..n) \X Int |-> h[at[1]][at[2]]]
<1>8. ASSUME NEW i \in 1..n, NEW depth \in Int PROVE f[<<i, depth>>] = h[i][depth]
  OBVIOUS
<1>9. ASSUME NEW i \in 1..n, NEW depth \in Int PROVE h[i][depth] = NestedStep(f, t, i, depth)
  <2> HIDE DEF f
  <2>1. CASE i = n
    <3>1. h[i] = [d \in Int |-> n]
      BY <1>1, <1>5, <1>7, <2>1 DEF Backward
    <3> QED BY <1>1, <2>1, <3>1 DEF NestedStep
  <2>2. CASE i # n
    <3>1. h[i] = step[<<i, h[jump[i]]>>] /\ jump[i] \in 1..n /\ h[jump[i]] \in S
      <4>1. jump[i] \in (i + 1)..n
        BY <1>4, <2>2
      <4>2. jump[i] \in 1..n
        BY <1>1, <4>1
      <4> QED BY <1>7, <2>2, <4>2 DEF Backward
    <3>2. h[i] = [d \in Int |-> From(i, h[jump[i]], d)]
      <4> HIDE DEF From, S
      <4> QED BY <1>3, <2>2, <3>1
    <3>3. h[i][depth] = From(i, h[jump[i]], depth)
      <4> HIDE DEF From
      <4> QED BY <3>2
    <3>4. ~(i > Len(t)) /\ jump[i] = IF Two(i) THEN i + 2 ELSE i + 1
      <4> HIDE DEF Two
      <4> QED BY <1>2, <1>4, <2>2
    <3>5. CASE Has(t, i, OpenComment)
      <4>1. jump[i] = i + 2 /\ h[i][depth] = h[jump[i]][depth + 1] /\ depth + 1 \in Int
        BY <3>3, <3>4, <3>5
      <4>2. f[<<i + 2, depth + 1>>] = h[i + 2][depth + 1]
        BY <1>8, <3>1, <4>1
      <4> QED BY <3>4, <3>5, <4>1, <4>2 DEF NestedStep
    <3>6. CASE ~Has(t, i, OpenComment) /\ Has(t, i, CloseComment)
      <4>1. CASE depth = 1
        BY <3>3, <3>4, <3>6, <4>1 DEF NestedStep
      <4>2. CASE depth # 1
        <5>1. jump[i] = i + 2 /\ h[i][depth] = h[jump[i]][depth - 1] /\ depth - 1 \in Int
          BY <3>3, <3>4, <3>6, <4>2
        <5>2. f[<<i + 2, depth - 1>>] = h[i + 2][depth - 1]
          BY <1>8, <3>1, <5>1
        <5> QED BY <3>4, <3>6, <4>2, <5>1, <5>2 DEF NestedStep
      <4> QED BY <4>1, <4>2
    <3>7. CASE ~Two(i)
      <4>1. jump[i] = i + 1 /\ h[i][depth] = h[jump[i]][depth]
        BY <3>3, <3>4, <3>7
      <4>2. f[<<i + 1, depth>>] = h[i + 1][depth]
        BY <1>8, <3>1, <4>1
      <4> QED BY <3>4, <3>7, <4>1, <4>2 DEF NestedStep
    <3> QED BY <3>5, <3>6, <3>7
  <2> QED BY <2>1, <2>2
<1>10. Fixed(f)
  <2>1. \A at \in (1..n) \X Int : h[at[1]][at[2]] = NestedStep(f, t, at[1], at[2])
    <3> HIDE DEF f
    <3> QED BY <1>9
  <2> DEFINE F == f
  <2>2. F = [at \in (1..n) \X Int |-> h[at[1]][at[2]]]
    OBVIOUS
  <2>3. \A at \in (1..n) \X Int : h[at[1]][at[2]] = NestedStep(F, t, at[1], at[2])
    BY <2>1
  <2> HIDE DEF F
  <2>4. Fixed(F)
    BY <2>2, <2>3
  <2> QED BY <2>4 DEF F
<1> HIDE DEF f
<1> DEFINE g == CHOOSE k : Fixed(k)
<1>11. Fixed(g)
  <2> HIDE DEF Fixed
  <2> QED BY <1>10
<1>12. NestedCommentEnd(t, start) = g[<<start + 2, 1>>]
  BY DEF NestedCommentEnd, NestedStep, n
<1>13. ASSUME NEW i \in 1..n, NEW depth \in Int PROVE g[<<i, depth>>] = NestedStep(g, t, i, depth)
  <2>1. <<i, depth>> \in (1..n) \X Int /\ <<i, depth>>[1] = i /\ <<i, depth>>[2] = depth
    OBVIOUS
  <2> HIDE DEF g
  <2> QED BY <1>11, <2>1
<1> HIDE DEF g
<1> DEFINE Typed == {i \in 1..n : \A depth \in Int : g[<<i, depth>>] \in i..n}
<1>14. ASSUME NEW i \in 1..n, \A j \in (i + 1)..n : j \in Typed PROVE i \in Typed
  <2>1. \A j \in (i + 1)..n : \A depth \in Int : g[<<j, depth>>] \in i..n
    <3>1. \A j \in (i + 1)..n : \A depth \in Int : g[<<j, depth>>] \in j..n
      BY <1>14
    <3>2. \A j \in (i + 1)..n : \A m : m \in j..n => m \in i..n
      BY <1>1
    <3> HIDE DEF n
    <3> QED BY <3>1, <3>2, Zenon
  <2>2. ASSUME NEW depth \in Int PROVE g[<<i, depth>>] \in i..n
    <3>1. CASE i = n
      <4>1. g[<<i, depth>>] = i
        BY <1>1, <1>13, <3>1 DEF NestedStep
      <4> QED BY <1>1, <3>1, <4>1
    <3>2. CASE i # n
      <4>1. /\ ~(i > Len(t)) /\ (Has(t, i, OpenComment) \/ Has(t, i, CloseComment) => i + 2 \in (i + 1)..n)
            /\ i + 1 \in (i + 1)..n
        BY <1>2, <3>2
      <4>2. depth + 1 \in Int /\ depth - 1 \in Int
        OBVIOUS
      <4>3. /\ Has(t, i, OpenComment) => g[<<i + 2, depth + 1>>] \in i..n
            /\ Has(t, i, CloseComment) => g[<<i + 2, depth - 1>>] \in i..n /\ i + 2 \in i..n
            /\ g[<<i + 1, depth>>] \in i..n
        BY <1>1, <2>1, <4>1, <4>2
      <4>4. NestedStep(g, t, i, depth) \in i..n
        <5> HIDE DEF n
        <5> QED BY <4>1, <4>3, Zenon DEF NestedStep
      <4> QED BY <1>13, <4>4
    <3> QED BY <3>1, <3>2
  <2> QED BY <2>2
<1>15. Typed \in SUBSET (1..n)
  OBVIOUS
<1>16. Typed = 1..n
  <2> HIDE DEF Typed
  <2> QED BY <1>1, <1>14, <1>15, FromTheEnd
<1>17. \A i \in 1..n, depth \in Int : g[<<i, depth>>] \in i..n
  BY <1>16
<1>18. Nested(g, t)
  BY <1>13, <1>17 DEF Nested, n
<1> QED BY <1>12, <1>18

LEMMA NestedRange ==
  ASSUME NEW t, Len(t) \in Nat, NEW i \in 1..Len(t), Has(t, i, OpenComment)
  PROVE  NestedCommentEnd(t, i) \in (i + 1)..(Len(t) + 1)
<1>1. PICK f : Nested(f, t) /\ NestedCommentEnd(t, i) = f[<<i + 2, 1>>]
  BY NestedUnfolds
<1>2. i + 2 \in 1..(Len(t) + 1)
  BY HasTwo DEF OpenComment
<1>3. f[<<i + 2, 1>>] \in (i + 2)..(Len(t) + 1)
  BY <1>1, <1>2 DEF Nested
<1> QED BY <1>1, <1>3

(* A comment that does not nest ends for sqlTokens where it ends for        *)
(* SplitStatements.                                                         *)
Unnested(t, i, end) == \A j \in (i + 2)..(end - 2) : ~Has(t, j, OpenComment)

LEMMA UnnestedComment ==
  ASSUME NEW t, Len(t) \in Nat, NEW i \in 1..Len(t), Has(t, i, OpenComment), Unnested(t, i, CommentEnd(t, i))
  PROVE  NestedCommentEnd(t, i) = CommentEnd(t, i) /\ CommentEnd(t, i) \in (i + 2)..(Len(t) + 1)
<1> DEFINE n == Len(t) + 1
           close == Find(t, i + 2, CloseComment, Len(t) + 1)
<1>1. PICK f : Nested(f, t) /\ NestedCommentEnd(t, i) = f[<<i + 2, 1>>]
  BY NestedUnfolds
<1>2. CommentEnd(t, i) = IF close > Len(t) THEN close ELSE close + 2
  BY DEF CommentEnd
<1>3. i + 1 <= Len(t) /\ i + 2 \in 1..n
  BY HasTwo DEF OpenComment
<1>4. \/ close \in (i + 2)..Len(t) /\ Has(t, close, CloseComment)
         /\ \A j \in (i + 2)..Len(t) : Has(t, j, CloseComment) => close <= j
      \/ close = Len(t) + 1 /\ \A j \in (i + 2)..Len(t) : ~Has(t, j, CloseComment)
  <2>1. i + 2 \in Nat
    OBVIOUS
  <2> QED BY <2>1, Found
<1> HIDE DEF close
<1>5. \A j \in 1..n : f[<<j, 1>>] = NestedStep(f, t, j, 1)
  BY <1>1 DEF Nested
<1>6. CASE close \in (i + 2)..Len(t) /\ Has(t, close, CloseComment)
           /\ \A j \in (i + 2)..Len(t) : Has(t, j, CloseComment) => close <= j
  <2>1. close \in 1..Len(t) /\ t[close] = "*" /\ close + 1 <= Len(t) /\ ~Has(t, close, OpenComment)
    <3>1. close \in 1..Len(t)
      BY <1>6
    <3>2. t[close] = "*" /\ close + 1 <= Len(t)
      BY <1>6, <3>1, HasTwo DEF CloseComment
    <3> QED BY <3>1, <3>2, HasTwo DEF OpenComment
  <2>2. CommentEnd(t, i) = close + 2 /\ CommentEnd(t, i) \in (i + 2)..n
    <3>1. CommentEnd(t, i) = close + 2
      BY <1>2, <2>1
    <3> QED BY <1>6, <2>1, <3>1
  <2>3. \A j \in (i + 2)..close : ~Has(t, j, OpenComment)
    <3>1. \A j \in (i + 2)..close : j \in (i + 2)..((close + 2) - 2)
      BY <2>1
    <3> QED BY <2>2, <3>1 DEF Unnested
  <2> DEFINE Ends == {j \in 1..n : j \in (i + 2)..close => f[<<j, 1>>] = close + 2}
  <2>4. ASSUME NEW j \in 1..n, \A k \in (j + 1)..n : k \in Ends, j \in (i + 2)..close PROVE f[<<j, 1>>] = close + 2
    <3>1. ~(j > Len(t)) /\ ~Has(t, j, OpenComment) /\ f[<<j, 1>>] = NestedStep(f, t, j, 1)
      BY <1>5, <2>1, <2>3, <2>4
    <3>2. CASE j = close
      BY <1>6, <3>1, <3>2 DEF NestedStep
    <3>3. CASE j # close
      <4>1. ~Has(t, j, CloseComment)
        BY <1>6, <2>4, <3>3
      <4>2. j + 1 \in (j + 1)..n /\ j + 1 \in (i + 2)..close
        BY <2>1, <2>4, <3>3
      <4>3. f[<<j + 1, 1>>] = close + 2
        BY <2>4, <4>2
      <4> QED BY <3>1, <4>1, <4>3 DEF NestedStep
    <3> QED BY <3>2, <3>3
  <2>5. Ends = 1..n
    <3>1. Ends \in SUBSET (1..n) /\ n \in Nat
      OBVIOUS
    <3>2. ASSUME NEW j \in 1..n, \A k \in (j + 1)..n : k \in Ends PROVE j \in Ends
      BY <2>4, <3>2
    <3> HIDE DEF Ends, n
    <3> QED BY <3>1, <3>2, FromTheEnd
  <2>6. i + 2 \in (i + 2)..close
    BY <1>6
  <2>7. f[<<i + 2, 1>>] = close + 2
    BY <1>3, <2>5, <2>6
  <2> QED BY <1>1, <2>2, <2>7
<1>7. CASE close = Len(t) + 1 /\ \A j \in (i + 2)..Len(t) : ~Has(t, j, CloseComment)
  <2>1. CommentEnd(t, i) = n
    BY <1>2, <1>7
  <2> DEFINE Ends == {j \in 1..n : j >= i + 2 => f[<<j, 1>>] = n}
  <2>2. ASSUME NEW j \in 1..n, \A k \in (j + 1)..n : k \in Ends, j >= i + 2 PROVE f[<<j, 1>>] = n
    <3>1. CASE j = n
      <4>1. f[<<j, 1>>] = NestedStep(f, t, j, 1) /\ j > Len(t)
        BY <1>5, <3>1
      <4>2. NestedStep(f, t, j, 1) = j
        BY <4>1, Zenon DEF NestedStep
      <4> QED BY <3>1, <4>1, <4>2
    <3>2. CASE j # n
      <4>1. j \in 1..Len(t) /\ ~(j > Len(t)) /\ j \in (i + 2)..Len(t)
        BY <2>2, <3>2
      <4>2. ~Has(t, j, OpenComment)
        <5>1. CASE j = Len(t)
          BY <4>1, <5>1, HasTwo DEF OpenComment
        <5>2. CASE j # Len(t)
          <6>1. j \in (i + 2)..(n - 2)
            BY <4>1, <5>2
          <6> QED BY <2>1, <6>1 DEF Unnested
        <5> QED BY <5>1, <5>2
      <4>3. j + 1 \in (j + 1)..n /\ j + 1 >= i + 2
        BY <2>2, <4>1
      <4>4. f[<<j + 1, 1>>] = n
        BY <2>2, <4>3
      <4>5. ~Has(t, j, CloseComment)
        BY <1>7, <4>1
      <4> QED BY <1>5, <4>1, <4>2, <4>4, <4>5 DEF NestedStep
    <3> QED BY <3>1, <3>2
  <2>3. Ends = 1..n
    <3>1. Ends \in SUBSET (1..n) /\ n \in Nat
      OBVIOUS
    <3>2. ASSUME NEW j \in 1..n, \A k \in (j + 1)..n : k \in Ends PROVE j \in Ends
      BY <2>2, <3>2
    <3> HIDE DEF Ends, n
    <3> QED BY <3>1, <3>2, FromTheEnd
  <2>4. i + 2 >= i + 2 /\ n \in (i + 2)..n
    BY <1>3
  <2>5. f[<<i + 2, 1>>] = n
    BY <1>3, <2>3, <2>4
  <2> QED BY <1>1, <2>1, <2>4, <2>5
<1> QED BY <1>4, <1>6, <1>7

(* When it does not close on the star that opened it either, it ends there  *)
(* for the stripper.                                                        *)
Flat(t, i) == ~Has(t, i + 1, CloseComment) /\ Unnested(t, i, BlockEnd(t, i))

LEMMA FlatComment ==
  ASSUME NEW t, Len(t) \in Nat, NEW i \in 1..Len(t), Has(t, i, OpenComment), Flat(t, i)
  PROVE  NestedCommentEnd(t, i) = BlockEnd(t, i)
<1> DEFINE close == Find(t, i, CloseComment, Len(t) - 1)
           later == Find(t, i + 2, CloseComment, Len(t) + 1)
<1>1. t[i] = "/" /\ ~Has(t, i, CloseComment) /\ ~Has(t, i + 1, CloseComment)
  BY HasTwo DEF OpenComment, CloseComment, Flat
<1>2. BlockEnd(t, i) = close + 2 /\ CommentEnd(t, i) = IF later > Len(t) THEN later ELSE later + 2
  BY DEF BlockEnd, CommentEnd
<1>3. \/ close \in i..Len(t) /\ Has(t, close, CloseComment) /\ \A j \in i..Len(t) : Has(t, j, CloseComment) => close <= j
      \/ close = Len(t) - 1 /\ \A j \in i..Len(t) : ~Has(t, j, CloseComment)
  BY Found
<1>4. \/ later \in (i + 2)..Len(t) /\ Has(t, later, CloseComment)
         /\ \A j \in (i + 2)..Len(t) : Has(t, j, CloseComment) => later <= j
      \/ later = Len(t) + 1 /\ \A j \in (i + 2)..Len(t) : ~Has(t, j, CloseComment)
  <2>1. i + 2 \in Nat
    OBVIOUS
  <2> QED BY <2>1, Found
<1> HIDE DEF close, later
<1>5. \A j \in i..Len(t) : Has(t, j, CloseComment) => j \in (i + 2)..Len(t)
  <2>1. \A j \in i..Len(t) : j = i \/ j = i + 1 \/ j \in (i + 2)..Len(t)
    OBVIOUS
  <2> QED BY <1>1, <2>1
<1>6. \A j \in (i + 2)..Len(t) : j \in i..Len(t)
  OBVIOUS
<1>7. BlockEnd(t, i) = CommentEnd(t, i)
  <2>1. CASE \A j \in i..Len(t) : ~Has(t, j, CloseComment)
    <3>1. close = Len(t) - 1 /\ later = Len(t) + 1
      BY <1>3, <1>4, <1>6, <2>1
    <3> QED BY <1>2, <3>1
  <2>2. CASE ~\A j \in i..Len(t) : ~Has(t, j, CloseComment)
    <3>1. /\ close \in (i + 2)..Len(t) /\ later \in (i + 2)..Len(t) /\ close <= later /\ later <= close
      BY <1>3, <1>4, <1>5, <1>6, <2>2
    <3>2. close = later /\ ~(later > Len(t))
      BY <3>1
    <3> QED BY <1>2, <3>2
  <2> QED BY <2>1, <2>2
<1>8. Unnested(t, i, CommentEnd(t, i))
  BY <1>7 DEF Flat
<1> QED BY <1>7, <1>8, UnnestedComment

(* skipQuoted, from a position in the literal that opens at start.          *)
QuotedStep(f, t, start, i) ==
  IF i > Len(t) THEN i
  ELSE IF t[start] = "'" /\ t[i] = "\\" /\ i < Len(t) THEN f[i + 2]
  ELSE IF t[i] = t[start]
    THEN IF i < Len(t) /\ t[i + 1] = t[start] THEN f[i + 2] ELSE i + 1
  ELSE f[i + 1]
Quoted(f, t, start) ==
  \A i \in 1..(Len(t) + 1) : f[i] = QuotedStep(f, t, start, i) /\ f[i] \in i..(Len(t) + 1)

LEMMA QuotedUnfolds ==
  ASSUME NEW t, Len(t) \in Nat, NEW start \in 1..Len(t)
  PROVE  \E f : Quoted(f, t, start) /\ SkipQuoted(t, start) = f[start + 1]
<1> DEFINE n == Len(t) + 1
           Escapes(i) == t[start] = "'" /\ t[i] = "\\" /\ i < Len(t)
           Doubles(i) == i < Len(t) /\ t[i + 1] = t[start]
           stops == {i \in 1..n : i > Len(t) \/ (~Escapes(i) /\ t[i] = t[start] /\ ~Doubles(i))}
           base == [i \in 1..n |-> IF i > Len(t) THEN i ELSE i + 1]
           jump == [i \in 1..n |-> IF Escapes(i) \/ t[i] = t[start] THEN i + 2 ELSE i + 1]
           step == [p \in (1..n) \X (1..n) |-> p[2]]
           Fixed(f) == f = [i \in 1..n |-> QuotedStep(f, t, start, i)]
<1>1. n \in Nat /\ Len(t) \in Nat /\ n > Len(t)
  OBVIOUS
<1>2. \A i \in 1..n : i \in stops => base[i] \in 1..n
  OBVIOUS
<1>3. \A i \in 1..n : i \notin stops => /\ ~(i > Len(t)) /\ (t[i] = t[start] => Escapes(i) \/ Doubles(i))
                                        /\ jump[i] = IF Escapes(i) \/ t[i] = t[start] THEN i + 2 ELSE i + 1
  <2> HIDE DEF Escapes, Doubles
  <2> QED OBVIOUS
<1>4. ASSUME NEW i \in 1..n, i \notin stops PROVE jump[i] \in (i + 1)..n
  <2>1. i \in 1..Len(t) /\ (Escapes(i) \/ Doubles(i) => i + 2 \in (i + 1)..n) /\ i + 1 \in (i + 1)..n
    BY <1>1, <1>3, <1>4
  <2> HIDE DEF Escapes, Doubles, stops, jump, n
  <2> QED BY <1>3, <1>4, <2>1
<1>5. \A i \in 1..n, rest \in 1..n : step[<<i, rest>>] = rest
  OBVIOUS
<1> HIDE DEF n, stops, base, jump, step
<1>6. StepsBackward(n, 1..n, stops, base, jump, step)
  BY <1>2, <1>4, <1>5, Zenon DEF StepsBackward
<1>7. PICK f : Backward(n, 1..n, stops, base, jump, step, f)
  BY <1>1, <1>6, BackwardRecursion
<1>8. ASSUME NEW i \in 1..n PROVE f[i] = QuotedStep(f, t, start, i)
  <2>1. CASE i \in stops
    <3>1. f[i] = base[i]
      BY <1>7, <2>1 DEF Backward
    <3>2. base[i] = IF i > Len(t) THEN i ELSE i + 1
      BY DEF base
    <3> QED BY <2>1, <3>1, <3>2 DEF stops, QuotedStep
  <2>2. CASE i \notin stops
    <3>1. f[i] = step[<<i, f[jump[i]]>>] /\ jump[i] \in 1..n
      <4>1. jump[i] \in 1..n
        BY <1>1, <1>4, <2>2
      <4> QED BY <1>7, <2>2, <4>1 DEF Backward
    <3>2. f[i] = f[jump[i]]
      BY <1>5, <1>7, <3>1 DEF Backward
    <3> QED BY <1>3, <2>2, <3>2 DEF QuotedStep
  <2> QED BY <2>1, <2>2
<1>9. Fixed(f)
  BY <1>7, <1>8 DEF Backward
<1> DEFINE g == CHOOSE h : Fixed(h)
<1>10. Fixed(g)
  <2> HIDE DEF Fixed
  <2> QED BY <1>9
<1>11. SkipQuoted(t, start) = g[start + 1]
  BY DEF SkipQuoted, QuotedStep, n
<1>12. \A i \in 1..n : g[i] = QuotedStep(g, t, start, i)
  <2> HIDE DEF g
  <2> QED BY <1>10
<1> HIDE DEF g
<1> DEFINE Typed == {i \in 1..n : g[i] \in i..n}
<1>13. ASSUME NEW i \in 1..n, \A j \in (i + 1)..n : j \in Typed PROVE i \in Typed
  <2>1. \A j \in (i + 1)..n : g[j] \in i..n
    <3>1. \A j \in (i + 1)..n : g[j] \in j..n
      BY <1>13
    <3>2. \A j \in (i + 1)..n : \A m : m \in j..n => m \in i..n
      BY <1>1
    <3> QED BY <3>1, <3>2, Zenon
  <2>2. /\ ~(i > Len(t)) => i + 1 \in (i + 1)..n /\ i + 1 \in i..n /\ (i < Len(t) => i + 2 \in (i + 1)..n)
        /\ i \in i..n
    BY <1>1 DEF n
  <2>3. QuotedStep(g, t, start, i) \in i..n
    <3>1. CASE i \in stops
      BY <2>2, <3>1 DEF stops, QuotedStep
    <3>2. CASE i \notin stops
      <4>1. ~(i > Len(t)) /\ QuotedStep(g, t, start, i) = g[jump[i]]
        BY <1>3, <3>2 DEF QuotedStep
      <4> QED BY <1>4, <2>1, <3>2, <4>1
    <3> QED BY <3>1, <3>2
  <2>4. g[i] \in i..n
    BY <1>12, <2>3
  <2> QED BY <2>4
<1>14. Typed = 1..n
  <2>1. Typed \in SUBSET (1..n)
    OBVIOUS
  <2> HIDE DEF Typed
  <2> QED BY <1>1, <1>13, <2>1, FromTheEnd
<1>15. Quoted(g, t, start)
  <2>1. \A i \in 1..n : g[i] \in i..n
    BY <1>14
  <2> QED BY <1>12, <2>1 DEF Quoted, n
<1> QED BY <1>11, <1>15

LEMMA QuotedRange ==
  ASSUME NEW t, Len(t) \in Nat, NEW i \in 1..Len(t) PROVE SkipQuoted(t, i) \in (i + 1)..(Len(t) + 1)
<1>1. PICK f : Quoted(f, t, i) /\ SkipQuoted(t, i) = f[i + 1]
  BY QuotedUnfolds
<1> QED BY <1>1 DEF Quoted

(* Maximal runs of words and of operators.                                  *)
LEMMA RunOf ==
  ASSUME NEW n \in Nat, NEW i \in 1..n, NEW outs \in SUBSET (i..n)
  PROVE  /\ Least(outs, n + 1) \in i..(n + 1)
         /\ \A j \in i..(Least(outs, n + 1) - 1) : j \notin outs
         /\ Least(outs, n + 1) <= n => Least(outs, n + 1) \in outs
<1> DEFINE end == Least(outs, n + 1)
<1>1. outs \in SUBSET Nat
  OBVIOUS
<1>2. /\ outs = {} => end = n + 1
      /\ outs # {} => end \in outs /\ \A j \in outs : end <= j
  BY <1>1, LeastPosition
<1> HIDE DEF end
<1>3. CASE outs = {}
  <2>1. end = n + 1 /\ \A j : j \notin outs
    BY <1>2, <1>3
  <2>2. end \in i..(n + 1) /\ ~(end <= n)
    BY <2>1
  <2> QED BY <2>1, <2>2 DEF end
<1>4. CASE outs # {}
  <2>1. end \in outs /\ \A j \in outs : end <= j
    BY <1>2, <1>4
  <2>2. end \in i..n
    BY <2>1
  <2>3. end \in i..(n + 1)
    BY <2>2
  <2>4. ASSUME NEW j \in i..(end - 1) PROVE j \notin outs
    <3>1. ~(end <= j)
      BY <2>2
    <3> QED BY <2>1, <3>1
  <2> QED BY <2>1, <2>3, <2>4 DEF end
<1> QED BY <1>3, <1>4 DEF end

WordEnd(t, i) == RunEnd(t, i, IsWord)
OperatorEnd(t, i) == RunEnd(t, i, IsOperator)

LEMMA WordRun ==
  ASSUME NEW t, Len(t) \in Nat, NEW i \in 1..Len(t), IsWord(t[i])
  PROVE  /\ WordEnd(t, i) \in (i + 1)..(Len(t) + 1)
         /\ \A j \in i..(WordEnd(t, i) - 1) : IsWord(t[j])
         /\ WordEnd(t, i) <= Len(t) => ~IsWord(t[WordEnd(t, i)])
<1> DEFINE outs == {j \in i..Len(t) : ~IsWord(t[j])}
           end == Least(outs, Len(t) + 1)
<1>1. WordEnd(t, i) = end
  BY DEF WordEnd, RunEnd
<1>2. outs \in SUBSET (i..Len(t)) /\ i \notin outs
  OBVIOUS
<1>3. \A j \in i..Len(t) : j \in outs <=> ~IsWord(t[j])
  OBVIOUS
<1> HIDE DEF outs
<1>4. end \in i..(Len(t) + 1) /\ (\A j \in i..(end - 1) : j \notin outs) /\ (end <= Len(t) => end \in outs)
  BY <1>2, RunOf
<1> HIDE DEF end
<1>5. end # i /\ \A j \in i..(end - 1) : j \in i..Len(t)
  BY <1>2, <1>4
<1> QED BY <1>1, <1>3, <1>4, <1>5

LEMMA OperatorRun ==
  ASSUME NEW t, Len(t) \in Nat, NEW i \in 1..Len(t), IsOperator(t[i])
  PROVE  /\ OperatorEnd(t, i) \in (i + 1)..(Len(t) + 1)
         /\ \A j \in i..(OperatorEnd(t, i) - 1) : IsOperator(t[j])
         /\ OperatorEnd(t, i) <= Len(t) => ~IsOperator(t[OperatorEnd(t, i)])
<1> DEFINE outs == {j \in i..Len(t) : ~IsOperator(t[j])}
           end == Least(outs, Len(t) + 1)
<1>1. OperatorEnd(t, i) = end
  BY DEF OperatorEnd, RunEnd
<1>2. outs \in SUBSET (i..Len(t)) /\ i \notin outs
  OBVIOUS
<1>3. \A j \in i..Len(t) : j \in outs <=> ~IsOperator(t[j])
  OBVIOUS
<1> HIDE DEF outs
<1>4. end \in i..(Len(t) + 1) /\ (\A j \in i..(end - 1) : j \notin outs) /\ (end <= Len(t) => end \in outs)
  BY <1>2, RunOf
<1> HIDE DEF end
<1>5. end # i /\ \A j \in i..(end - 1) : j \in i..Len(t)
  BY <1>2, <1>4
<1> QED BY <1>1, <1>3, <1>4, <1>5

(* sqlTokens of a plain text: what it passes over, where it goes on, and    *)
(* the token in between.                                                    *)
Passes(t, i) == IsSpace(t[i]) \/ Has(t, i, DashDash) \/ Has(t, i, OpenComment)
Beyond(t, i) ==
  IF IsSpace(t[i]) THEN i + 1
  ELSE IF Has(t, i, DashDash) THEN LineEnd(t, i)
  ELSE IF Has(t, i, OpenComment) THEN NestedCommentEnd(t, i)
  ELSE IF IsQuote(t[i]) THEN SkipQuoted(t, i)
  ELSE IF IsWord(t[i]) THEN WordEnd(t, i)
  ELSE IF IsOperator(t[i]) THEN OperatorEnd(t, i)
  ELSE i + 1
Token(t, i) ==
  IF ~IsQuote(t[i]) /\ IsWord(t[i]) THEN [k \in 1..(Beyond(t, i) - i) |-> Lower(t[i + k - 1])]
  ELSE SubSeq(t, i, Beyond(t, i) - 1)

LEMMA BeyondRange ==
  ASSUME NEW t, Len(t) \in Nat, NEW i \in 1..Len(t) PROVE Beyond(t, i) \in (i + 1)..(Len(t) + 1)
<1>1. i + 1 \in (i + 1)..(Len(t) + 1)
  OBVIOUS
<1>2. ~IsSpace(t[i]) /\ Has(t, i, DashDash) => LineEnd(t, i) \in (i + 1)..(Len(t) + 1)
  <2>1. Has(t, i, DashDash) => Hop(t, i) = LineEnd(t, i)
    BY DEF Hop
  <2> QED BY <2>1, HopRange
<1>3. Has(t, i, OpenComment) => NestedCommentEnd(t, i) \in (i + 1)..(Len(t) + 1)
  BY NestedRange
<1>4. SkipQuoted(t, i) \in (i + 1)..(Len(t) + 1)
  BY QuotedRange
<1>5. IsWord(t[i]) => WordEnd(t, i) \in (i + 1)..(Len(t) + 1)
  BY WordRun
<1>6. IsOperator(t[i]) => OperatorEnd(t, i) \in (i + 1)..(Len(t) + 1)
  BY OperatorRun
<1> QED BY <1>1, <1>2, <1>3, <1>4, <1>5, <1>6, Zenon DEF Beyond

(* The tokens from i on, when f says what those behind the one at i are.    *)
Lexed(f, t, i) ==
  LET Keep(end) == <<SubSeq(t, i, end - 1)>> \o f[end] IN
  IF i > Len(t) THEN <<>>
  ELSE IF IsSpace(t[i]) THEN f[i + 1]
  ELSE IF Has(t, i, DashDash) THEN f[LineEnd(t, i)]
  ELSE IF Has(t, i, OpenComment) THEN f[NestedCommentEnd(t, i)]
  ELSE IF IsQuote(t[i]) THEN Keep(SkipQuoted(t, i))
  ELSE IF t[i] = "$" /\ BodyEnd(t, i) # 0 THEN Keep(BodyEnd(t, i) + 1)
  ELSE IF IsWord(t[i])
    THEN LET end == RunEnd(t, i, IsWord)
         IN <<[k \in 1..(end - i) |-> Lower(t[i + k - 1])]>> \o f[end]
  ELSE IF IsOperator(t[i]) THEN Keep(RunEnd(t, i, IsOperator))
  ELSE Keep(i + 1)

LEMMA LexedIsToken ==
  ASSUME NEW f, NEW t, NEW i, ~(i > Len(t)), t[i] # "$"
  PROVE  Lexed(f, t, i) = IF Passes(t, i) THEN f[Beyond(t, i)] ELSE <<Token(t, i)>> \o f[Beyond(t, i)]
<1>1. CASE Passes(t, i)
  BY <1>1, Zenon DEF Passes, Lexed, Beyond
<1>2. CASE ~Passes(t, i) /\ IsQuote(t[i])
  BY <1>2, Zenon DEF Passes, Lexed, Beyond, Token
<1>3. CASE ~Passes(t, i) /\ ~IsQuote(t[i]) /\ IsWord(t[i])
  BY <1>3, Zenon DEF Passes, Lexed, Beyond, Token, WordEnd
<1>4. CASE ~Passes(t, i) /\ ~IsQuote(t[i]) /\ ~IsWord(t[i])
  BY <1>4, Zenon DEF Passes, Lexed, Beyond, Token, OperatorEnd
<1> QED BY <1>1, <1>2, <1>3, <1>4

Lexes(f, t) ==
  /\ f[Len(t) + 1] = <<>>
  /\ \A i \in 1..Len(t) : f[i] = IF Passes(t, i) THEN f[Beyond(t, i)] ELSE <<Token(t, i)>> \o f[Beyond(t, i)]

LEMMA LexUnfolds ==
  ASSUME NEW t, Len(t) \in Nat, \A i \in 1..Len(t) : t[i] # "$"
  PROVE  \E f : Lexes(f, t) /\ SqlTokens(t) = f[1]
<1> DEFINE n == Len(t) + 1
           S == Seq({Token(t, i) : i \in 1..Len(t)})
           base == [i \in 1..n |-> <<>>]
           jump == [i \in 1..n |-> Beyond(t, i)]
           step == [p \in (1..Len(t)) \X S |-> IF Passes(t, p[1]) THEN p[2] ELSE <<Token(t, p[1])>> \o p[2]]
           Fixed(f) == f = [i \in 1..n |-> Lexed(f, t, i)]
<1>1. n \in Nat /\ Len(t) \in Nat /\ n \in 1..n /\ 1 \in 1..n /\ n > Len(t) /\ <<>> \in S
  OBVIOUS
<1>2. \A i \in 1..n : i \notin {n} => i \in 1..Len(t) /\ ~(i > Len(t))
  BY <1>1
<1>3. \A i \in 1..Len(t) : t[i] # "$"
  OBVIOUS
<1>4. ASSUME NEW i \in 1..Len(t), NEW rest \in S
      PROVE  /\ step[<<i, rest>>] = IF Passes(t, i) THEN rest ELSE <<Token(t, i)>> \o rest
             /\ step[<<i, rest>>] \in S
  <2>1. <<i, rest>> \in (1..Len(t)) \X S /\ <<i, rest>>[1] = i /\ <<i, rest>>[2] = rest
    OBVIOUS
  <2>2. step[<<i, rest>>] = IF Passes(t, i) THEN rest ELSE <<Token(t, i)>> \o rest
    <3> HIDE DEF S
    <3> QED BY <2>1
  <2>3. <<Token(t, i)>> \o rest \in S
    <3>1. Token(t, i) \in {Token(t, j) : j \in 1..Len(t)}
      OBVIOUS
    <3> QED BY <3>1
  <2> HIDE DEF step, S
  <2> QED BY <2>2, <2>3
<1>5. \A i \in 1..Len(t) : i \in 1..n /\ jump[i] = Beyond(t, i) /\ jump[i] \in (i + 1)..n
  BY <1>1, BeyondRange
<1>6. \A i \in 1..n : base[i] \in S /\ base[i] = <<>>
  BY <1>1
<1> HIDE DEF n, S, base, jump, step
<1>7. StepsBackward(n, S, {n}, base, jump, step)
  BY <1>2, <1>4, <1>5, <1>6, Zenon DEF StepsBackward
<1>8. PICK f : Backward(n, S, {n}, base, jump, step, f)
  BY <1>1, <1>7, BackwardRecursion
<1>9. f \in [1..n -> S] /\ f[n] = <<>>
  BY <1>1, <1>6, <1>8 DEF Backward
<1>10. ASSUME NEW i \in 1..n PROVE f[i] = Lexed(f, t, i)
  <2>1. CASE i = n
    <3>1. Lexed(f, t, n) = <<>>
      BY <1>1, Zenon DEF Lexed
    <3> QED BY <1>9, <2>1, <3>1
  <2>2. CASE i # n
    <3>1. i \in 1..Len(t) /\ ~(i > Len(t)) /\ f[i] = step[<<i, f[jump[i]]>>]
      BY <1>2, <1>8, <2>2 DEF Backward
    <3>2. jump[i] = Beyond(t, i) /\ jump[i] \in 1..n
      BY <1>1, <1>5, <3>1
    <3>3. f[jump[i]] \in S
      BY <1>9, <3>2
    <3>4. f[i] = IF Passes(t, i) THEN f[Beyond(t, i)] ELSE <<Token(t, i)>> \o f[Beyond(t, i)]
      BY <1>4, <3>1, <3>2, <3>3
    <3> QED BY <1>3, <3>1, <3>4, LexedIsToken
  <2> QED BY <2>1, <2>2
<1>11. Fixed(f)
  BY <1>9, <1>10
<1> DEFINE g == CHOOSE h : Fixed(h)
<1>12. Fixed(g)
  <2> HIDE DEF Fixed
  <2> QED BY <1>11
<1>13. SqlTokens(t) = g[1]
  BY DEF SqlTokens, Lexed, n
<1>14. \A i \in 1..n : g[i] = Lexed(g, t, i)
  <2> HIDE DEF g
  <2> QED BY <1>12
<1> HIDE DEF g
<1>15. g[n] = <<>>
  <2>1. Lexed(g, t, n) = <<>>
    BY <1>1, Zenon DEF Lexed
  <2> QED BY <1>1, <1>14, <2>1
<1>16. ASSUME NEW i \in 1..Len(t)
       PROVE  g[i] = IF Passes(t, i) THEN g[Beyond(t, i)] ELSE <<Token(t, i)>> \o g[Beyond(t, i)]
  <2>1. i \in 1..n /\ ~(i > Len(t))
    BY <1>1 DEF n
  <2> QED BY <1>3, <1>14, <2>1, LexedIsToken
<1> QED BY <1>13, <1>15, <1>16 DEF Lexes, n

-----------------------------------------------------------------------------
(* The stripped text has the tokens of the text *)

(* Where the stripper reads code, comments neither nest nor close on the    *)
(* star that opened them, and none touches an operator before it.           *)
Tidy(t) ==
  \A i \in Code(t) : i <= Len(t) =>
    /\ Has(t, i, OpenComment) => Flat(t, i)
    /\ ~Blanked(t, i) /\ IsOperator(t[i]) => ~Blanked(t, i + 1)

Clean(t) == t \in Seq(Written) /\ Plain(t) /\ Tidy(t)

LEMMA Classes ==
  /\ \A c : IsWord(c) => ~IsSpace(c) /\ ~IsOperator(c) /\ ~IsQuote(c)
  /\ \A c : IsOperator(c) => ~IsSpace(c) /\ ~IsQuote(c)
  /\ \A c : IsSpace(c) => ~IsQuote(c)
  /\ \A c \in {"-", "/", "*"} : IsOperator(c)
  /\ IsQuote("'") /\ IsSpace(" ") /\ IsSpace("\n") /\ \A c : IsSpace(Shown(c))
BY DEF IsWord, IsSpace, IsOperator, IsQuote, Backtick, Shown

(* A comment starts with an operator, and so does nothing else that is made *)
(* blank in a plain text.                                                   *)
LEMMA OpensWithOperator ==
  ASSUME NEW t, Len(t) \in Nat, NEW i \in 1..Len(t)
  PROVE  /\ Has(t, i, DashDash) => t[i] = "-" /\ ~Has(t, i, OpenComment)
         /\ Has(t, i, OpenComment) => t[i] = "/"
         /\ Has(t, i, DashDash) \/ Has(t, i, OpenComment) => IsOperator(t[i])
         /\ Blanked(t, i) /\ t[i] # "$" => Has(t, i, DashDash) \/ Has(t, i, OpenComment)
<1>1. Has(t, i, DashDash) => t[i] = "-"
  BY HasTwo DEF DashDash
<1>2. Has(t, i, OpenComment) => t[i] = "/"
  BY HasTwo DEF OpenComment
<1>3. Has(t, i, DollarDollar) => t[i] = "$"
  BY HasTwo DEF DollarDollar
<1>4. "-" # "/"
  OBVIOUS
<1> QED BY <1>1, <1>2, <1>3, <1>4, Classes, Zenon DEF Blanked

(* What a plain text and what is left of it have in common.                 *)
LEMMA CleanText ==
  ASSUME NEW t, Clean(t)
  PROVE  /\ Len(t) \in Nat /\ DOMAIN t = 1..Len(t) /\ \A i \in 1..Len(t) : t[i] \notin {"\"", "\\", "$"}
         /\ StripComments(t) \in Seq(Written) /\ Len(StripComments(t)) = Len(t)
         /\ DOMAIN StripComments(t) = 1..Len(t) /\ Plain(StripComments(t))
         /\ \A i \in 1..Len(t) : StripComments(t)[i] \in {t[i], " ", "\n"}
<1>1. Len(t) \in Nat /\ DOMAIN t = 1..Len(t) /\ \A i \in 1..Len(t) : t[i] \notin {"\"", "\\", "$"}
  <2>1. Len(t) \in Nat /\ DOMAIN t = 1..Len(t)
    BY DEF Clean
  <2>2. \A i \in DOMAIN t : t[i] \notin {"\"", "\\", "$"}
    BY Zenon DEF Clean, Plain
  <2> QED BY <2>1, <2>2, Zenon
<1>2. /\ StripComments(t) \in Seq(Written) /\ Len(StripComments(t)) = Len(t)
      /\ \A i \in 1..Len(t) : Keeps(StripComments(t)[i], t[i])
  BY StripKeeps DEF Clean
<1>3. DOMAIN StripComments(t) = 1..Len(t)
  BY <1>2
<1>4. \A i \in 1..Len(t) : StripComments(t)[i] \in {t[i], " ", "\n"}
  BY <1>2 DEF Keeps
<1>5. Plain(StripComments(t))
  BY <1>1, <1>3, <1>4 DEF Plain
<1> QED BY <1>1, <1>2, <1>3, <1>4, <1>5

LEMMA CleanCode ==
  ASSUME NEW t, Clean(t), NEW i \in Code(t), i <= Len(t)
  PROVE  /\ i \in 1..Len(t) /\ Hop(t, i) \in Code(t) /\ Hop(t, i) \in (i + 1)..(Len(t) + 1)
         /\ \A j \in i..(Hop(t, i) - 1) :
              StripComments(t)[j] = IF Blanked(t, i) THEN Shown(t[j]) ELSE t[j]
         /\ ~Blanked(t, i) => StripComments(t)[i] = t[i]
         /\ ~Blanked(t, i) /\ t[i] # "'" => Hop(t, i) = i + 1
         /\ ~IsOperator(t[i]) => ~Blanked(t, i)
         /\ t[i] = "'" => ~Blanked(t, i) /\ Hop(t, i) = LiteralEnd(t, i)
<1>1. Len(t) \in Nat /\ t \in Seq(Written) /\ i \in 1..Len(t) /\ t[i] # "$"
  <2>1. Len(t) \in Nat /\ \A j \in 1..Len(t) : t[j] \notin {"\"", "\\", "$"}
    BY CleanText
  <2>2. t \in Seq(Written)
    BY DEF Clean
  <2>3. i \in 1..(Len(t) + 1)
    BY Zenon DEF Code
  <2>4. i \in 1..Len(t)
    <3>1. Len(t) \in Nat
      BY <2>1
    <3> QED BY <2>3, <3>1
  <2> QED BY <2>1, <2>2, <2>4
<1>2. Hop(t, i) \in Code(t) /\ Hop(t, i) \in (i + 1)..(Len(t) + 1)
  BY <1>1, CodeHops, HopRange DEF Hops
<1>3. \A j \in i..(Hop(t, i) - 1) : StripComments(t)[j] = IF Blanked(t, i) THEN Shown(t[j]) ELSE t[j]
  BY <1>1, CodeIsShown
<1>4. i \in i..(Hop(t, i) - 1)
  BY <1>1, <1>2
<1>5. ~Blanked(t, i) => StripComments(t)[i] = t[i]
  BY <1>3, <1>4
<1>6. ~Blanked(t, i) /\ t[i] # "'" => Hop(t, i) = i + 1
  BY DEF Blanked, Hop
<1>7. ~IsOperator(t[i]) => ~Blanked(t, i)
  BY <1>1, OpensWithOperator
<1>8. t[i] = "'" => ~Blanked(t, i)
  BY <1>7, Classes
<1>9. t[i] = "'" => Hop(t, i) = LiteralEnd(t, i)
  BY <1>8 DEF Blanked, Hop
<1> QED BY <1>1, <1>2, <1>3, <1>5, <1>6, <1>7, <1>8, <1>9

(* Words stand as they are, and the stripper stops at each character.       *)
LEMMA WordsStand ==
  ASSUME NEW t, Clean(t), NEW i \in Code(t), i <= Len(t), IsWord(t[i])
  PROVE  /\ WordEnd(t, i) \in Code(t)
         /\ WordEnd(StripComments(t), i) = WordEnd(t, i)
         /\ \A j \in i..(WordEnd(t, i) - 1) : StripComments(t)[j] = t[j]
<1> DEFINE s == StripComments(t)
           end == WordEnd(t, i)
           stands == {d \in 0..(end - i) : i + d \in Code(t)}
<1>1. i \in 1..Len(t) /\ Len(t) \in Nat /\ Len(s) = Len(t)
  BY CleanText, CleanCode
<1>2. /\ end \in (i + 1)..(Len(t) + 1)
      /\ \A j \in i..(end - 1) : IsWord(t[j])
      /\ end <= Len(t) => ~IsWord(t[end])
  BY <1>1, WordRun
<1> HIDE DEF end
<1>3. ASSUME NEW j \in Code(t), j \in i..(end - 1) PROVE j + 1 \in Code(t) /\ s[j] = t[j]
  <2>1. j <= Len(t) /\ IsWord(t[j]) /\ t[j] # "'" /\ ~IsOperator(t[j])
    <3>1. j <= Len(t)
      BY <1>1, <1>2, <1>3
    <3>2. IsWord(t[j])
      BY <1>2, <1>3
    <3> QED BY <3>1, <3>2, Classes
  <2> QED BY <2>1, CleanCode
<1>4. stands = 0..(end - i)
  <2>1. 0 \in stands
    <3>1. i + 0 = i /\ 0 \in 0..(end - i)
      BY <1>1, <1>2
    <3> QED BY <3>1
  <2>2. ASSUME NEW d \in 1..(end - i), d - 1 \in stands PROVE d \in stands
    <3>1. i + (d - 1) \in Code(t)
      BY <2>2
    <3>2. i + (d - 1) \in i..(end - 1) /\ (i + (d - 1)) + 1 = i + d /\ d \in 0..(end - i)
      BY <1>1, <1>2
    <3>3. i + d \in Code(t)
      BY <1>3, <3>1, <3>2
    <3> QED BY <3>2, <3>3
  <2>3. stands \in SUBSET (0..(end - i)) /\ end - i \in Nat
    BY <1>1, <1>2
  <2> HIDE DEF stands
  <2> QED BY <2>1, <2>2, <2>3, FromTheStart
<1>5. ASSUME NEW j \in i..end PROVE j \in Code(t)
  <2>1. j - i \in 0..(end - i) /\ i + (j - i) = j
    BY <1>1, <1>2
  <2>2. i + (j - i) \in Code(t)
    BY <1>4, <2>1
  <2> QED BY <2>1, <2>2
<1>6. end \in Code(t)
  <2>1. end \in i..end
    BY <1>1, <1>2
  <2> QED BY <1>5, <2>1
<1>7. ASSUME NEW j \in i..(end - 1) PROVE s[j] = t[j]
  <2>1. j \in i..end
    BY <1>1, <1>2
  <2> QED BY <1>3, <1>5, <2>1
<1>8. WordEnd(s, i) = end
  <2> DEFINE other == WordEnd(s, i)
  <2>1. IsWord(s[i])
    <3>1. i \in i..(end - 1)
      BY <1>1, <1>2
    <3> QED BY <1>7, <3>1
  <2>2. /\ other \in (i + 1)..(Len(t) + 1)
        /\ \A j \in i..(other - 1) : IsWord(s[j])
        /\ other <= Len(t) => ~IsWord(s[other])
    BY <1>1, <2>1, WordRun
  <2>3. \A j \in i..(end - 1) : IsWord(s[j])
    BY <1>2, <1>7
  <2>4. end <= Len(t) => ~IsWord(s[end])
    <3>1. end <= Len(t) => s[end] \in {t[end], " ", "\n"}
      <4>1. end <= Len(t) => end \in 1..Len(t)
        BY <1>1, <1>2
      <4> QED BY <4>1, CleanText
    <3>2. ~IsWord(" ") /\ ~IsWord("\n")
      BY DEF IsWord
    <3> QED BY <1>2, <3>1, <3>2
  <2> HIDE DEF other
  <2>5. ASSUME other < end PROVE FALSE
    <3>1. other \in i..(end - 1) /\ other <= Len(t)
      BY <1>1, <1>2, <2>2, <2>5
    <3> QED BY <2>2, <2>3, <3>1
  <2>6. ASSUME end < other PROVE FALSE
    <3>1. end \in i..(other - 1) /\ end <= Len(t)
      BY <1>1, <1>2, <2>2, <2>6
    <3> QED BY <2>2, <2>4, <3>1
  <2>7. other = end
    BY <1>1, <1>2, <2>2, <2>5, <2>6
  <2> QED BY <2>7 DEF other
<1> QED BY <1>6, <1>7, <1>8 DEF end

(* So do operators.                                                         *)
LEMMA OperatorsStand ==
  ASSUME NEW t, Clean(t), NEW i \in Code(t), i <= Len(t), IsOperator(t[i]), ~Blanked(t, i)
  PROVE  /\ OperatorEnd(t, i) \in Code(t)
         /\ OperatorEnd(StripComments(t), i) = OperatorEnd(t, i)
         /\ \A j \in i..(OperatorEnd(t, i) - 1) : StripComments(t)[j] = t[j]
         /\ i + 1 <= Len(t) => StripComments(t)[i + 1] = t[i + 1]
<1> DEFINE s == StripComments(t)
           end == OperatorEnd(t, i)
           Stands(j) == j \in Code(t) /\ (j <= Len(t) => ~Blanked(t, j))
           stands == {d \in 0..(end - i) : Stands(i + d)}
<1>1. i \in 1..Len(t) /\ Len(t) \in Nat /\ Len(s) = Len(t)
  BY CleanText, CleanCode
<1>2. /\ end \in (i + 1)..(Len(t) + 1)
      /\ \A j \in i..(end - 1) : IsOperator(t[j])
      /\ end <= Len(t) => ~IsOperator(t[end])
  BY <1>1, OperatorRun
<1> HIDE DEF end
<1>3. ASSUME NEW j, Stands(j), j \in i..(end - 1) PROVE Stands(j + 1) /\ s[j] = t[j]
  <2>1. j \in Code(t) /\ j <= Len(t) /\ ~Blanked(t, j) /\ IsOperator(t[j]) /\ t[j] # "'"
    <3>1. j <= Len(t)
      BY <1>1, <1>2, <1>3
    <3>2. IsOperator(t[j])
      BY <1>2, <1>3
    <3> QED BY <1>3, <3>1, <3>2, Classes
  <2>2. j + 1 \in Code(t) /\ s[j] = t[j]
    BY <2>1, CleanCode
  <2>3. ~Blanked(t, j + 1)
    BY <2>1 DEF Clean, Tidy
  <2> QED BY <2>2, <2>3
<1>4. Stands(i)
  OBVIOUS
<1> HIDE DEF Stands
<1>5. stands = 0..(end - i)
  <2>1. 0 \in stands
    <3>1. i + 0 = i /\ 0 \in 0..(end - i)
      BY <1>1, <1>2
    <3> QED BY <1>4, <3>1
  <2>2. ASSUME NEW d \in 1..(end - i), d - 1 \in stands PROVE d \in stands
    <3>1. Stands(i + (d - 1))
      BY <2>2
    <3>2. i + (d - 1) \in i..(end - 1) /\ (i + (d - 1)) + 1 = i + d /\ d \in 0..(end - i)
      BY <1>1, <1>2
    <3>3. Stands(i + d)
      BY <1>3, <3>1, <3>2
    <3> QED BY <3>2, <3>3
  <2>3. stands \in SUBSET (0..(end - i)) /\ end - i \in Nat
    BY <1>1, <1>2
  <2> HIDE DEF stands
  <2> QED BY <2>1, <2>2, <2>3, FromTheStart
<1>6. ASSUME NEW j \in i..end PROVE Stands(j)
  <2>1. j - i \in 0..(end - i) /\ i + (j - i) = j
    BY <1>1, <1>2
  <2>2. Stands(i + (j - i))
    BY <1>5, <2>1
  <2> QED BY <2>1, <2>2
<1>7. end \in i..end /\ i + 1 \in i..end
  BY <1>1, <1>2
<1>8. ASSUME NEW j \in i..(end - 1) PROVE s[j] = t[j]
  <2>1. j \in i..end
    BY <1>1, <1>2
  <2> QED BY <1>3, <1>6, <2>1
<1>9. end <= Len(t) => s[end] = t[end]
  <2>1. Stands(end)
    BY <1>6, <1>7
  <2> QED BY <2>1, CleanCode DEF Stands
<1>10. i + 1 <= Len(t) => s[i + 1] = t[i + 1]
  <2>1. Stands(i + 1)
    BY <1>6, <1>7
  <2> QED BY <2>1, CleanCode DEF Stands
<1>11. OperatorEnd(s, i) = end
  <2> DEFINE other == OperatorEnd(s, i)
  <2>1. IsOperator(s[i])
    <3>1. i \in i..(end - 1)
      BY <1>1, <1>2
    <3> QED BY <1>8, <3>1
  <2>2. /\ other \in (i + 1)..(Len(t) + 1)
        /\ \A j \in i..(other - 1) : IsOperator(s[j])
        /\ other <= Len(t) => ~IsOperator(s[other])
    BY <1>1, <2>1, OperatorRun
  <2>3. \A j \in i..(end - 1) : IsOperator(s[j])
    BY <1>2, <1>8
  <2>4. end <= Len(t) => ~IsOperator(s[end])
    BY <1>2, <1>9
  <2> HIDE DEF other
  <2>5. ASSUME other < end PROVE FALSE
    <3>1. other \in i..(end - 1) /\ other <= Len(t)
      BY <1>1, <1>2, <2>2, <2>5
    <3> QED BY <2>2, <2>3, <3>1
  <2>6. ASSUME end < other PROVE FALSE
    <3>1. end \in i..(other - 1) /\ end <= Len(t)
      BY <1>1, <1>2, <2>2, <2>6
    <3> QED BY <2>2, <2>4, <3>1
  <2>7. other = end
    BY <1>1, <1>2, <2>2, <2>5, <2>6
  <2> QED BY <2>7 DEF other
<1>12. end \in Code(t)
  BY <1>6, <1>7 DEF Stands
<1> QED BY <1>8, <1>10, <1>11, <1>12 DEF end

(* The stripper stops behind every literal that skipQuoted passes, although *)
(* it takes a doubled quote for the end of one and the start of another.    *)
LEMMA LiteralsStand ==
  ASSUME NEW t, Clean(t), NEW start \in Code(t), start <= Len(t), t[start] = "'"
  PROVE  /\ SkipQuoted(t, start) \in Code(t)
         /\ SkipQuoted(StripComments(t), start) = SkipQuoted(t, start)
         /\ \A j \in start..(SkipQuoted(t, start) - 1) : StripComments(t)[j] = t[j]
<1> DEFINE s == StripComments(t)
           n == Len(t) + 1
           Opens(k, j) == /\ k \in Code(t) /\ k < j /\ j <= LiteralEnd(t, k) /\ k <= Len(t) /\ t[k] = "'"
                          /\ \A l \in (k + 1)..(j - 1) : t[l] # "'"
           Inside(j) == \E k : Opens(k, j)
<1>1. start \in 1..Len(t) /\ Len(t) \in Nat /\ Len(s) = Len(t) /\ s[start] = "'" /\ n \in Nat
  <2>1. Len(t) \in Nat /\ Len(s) = Len(t)
    BY CleanText
  <2>2. start \in 1..Len(t) /\ ~Blanked(t, start)
    BY CleanCode
  <2>3. s[start] = t[start]
    BY <2>2, CleanCode
  <2>4. n \in Nat
    BY <2>1
  <2> QED BY <2>1, <2>2, <2>3, <2>4
<1>2. \A i \in 1..Len(t) : t[i] # "\\" /\ s[i] \in {t[i], " ", "\n"} /\ s[i] # "\\"
  BY CleanText
<1>3. PICK f : Quoted(f, t, start) /\ SkipQuoted(t, start) = f[start + 1]
  BY <1>1, QuotedUnfolds
<1>4. PICK g : Quoted(g, s, start) /\ SkipQuoted(s, start) = g[start + 1]
  BY <1>1, QuotedUnfolds
<1> DEFINE Agrees(j) == g[j] = f[j] /\ f[j] \in Code(t) /\ \A l \in j..(f[j] - 1) : s[l] = t[l]
           agree == {j \in 1..n : Inside(j) => Agrees(j)}
<1> HIDE DEF s
<1>5. ASSUME NEW j \in 1..n, f[j] = j, g[j] = j, j \in Code(t) PROVE Agrees(j)
  BY <1>5
<1>6. ASSUME NEW j \in 1..n, NEW k \in Code(t), Opens(k, j)
      PROVE  /\ j \in (k + 1)..Hop(t, k) /\ k \in 1..Len(t) /\ Hop(t, k) \in Code(t) /\ Hop(t, k) \in (k + 1)..n
             /\ \A l \in k..(Hop(t, k) - 1) : s[l] = t[l]
             /\ \/ Hop(t, k) - 1 \in (k + 1)..Len(t) /\ t[Hop(t, k) - 1] = "'"
                   /\ \A l \in (k + 1)..Len(t) : t[l] = "'" => Hop(t, k) - 1 <= l
                \/ Hop(t, k) = n /\ \A l \in (k + 1)..Len(t) : t[l] # "'"
  <2>1. /\ k \in 1..Len(t) /\ Hop(t, k) \in Code(t) /\ Hop(t, k) \in (k + 1)..n
        /\ ~Blanked(t, k) /\ Hop(t, k) = LiteralEnd(t, k)
        /\ \A l \in k..(Hop(t, k) - 1) : s[l] = t[l]
    BY <1>6, CleanCode DEF s
  <2> DEFINE close == Find(t, k + 1, <<"'">>, Len(t))
  <2>2. Hop(t, k) = close + 1
    BY <2>1 DEF LiteralEnd
  <2>3. \/ /\ close \in (k + 1)..Len(t) /\ Has(t, close, <<"'">>)
           /\ \A l \in (k + 1)..Len(t) : Has(t, l, <<"'">>) => close <= l
        \/ close = Len(t) /\ \A l \in (k + 1)..Len(t) : ~Has(t, l, <<"'">>)
    BY <1>1, <2>1, Found
  <2>4. \A l \in (k + 1)..Len(t) : Has(t, l, <<"'">>) <=> t[l] = "'"
    BY <1>1, <2>1, HasOne
  <2> HIDE DEF close
  <2>5. \/ close \in (k + 1)..Len(t) /\ t[close] = "'" /\ \A l \in (k + 1)..Len(t) : t[l] = "'" => close <= l
        \/ close = Len(t) /\ \A l \in (k + 1)..Len(t) : t[l] # "'"
    BY <2>3, <2>4
  <2>6. j \in (k + 1)..Hop(t, k)
    BY <1>6, <2>1
  <2>7. Hop(t, k) - 1 = close
    BY <1>1, <2>2, <2>5
  <2> QED BY <2>1, <2>2, <2>5, <2>6, <2>7
<1>7. \A j \in 1..n : f[j] = QuotedStep(f, t, start, j) /\ g[j] = QuotedStep(g, s, start, j)
  BY <1>1, <1>3, <1>4 DEF Quoted, s
<1> SUFFICES agree = 1..n
  <2>1. Opens(start, start + 1)
    <3>1. LiteralEnd(t, start) \in (start + 1)..n
      BY CleanCode
    <3>2. (start + 1)..((start + 1) - 1) = {}
      BY <1>1
    <3> QED BY <1>1, <3>1, <3>2
  <2>2. start + 1 \in 1..n
    BY <1>1
  <2>3. agree = 1..n => Agrees(start + 1)
    BY <2>1, <2>2
  <2>4. \A l \in start..(f[start + 1] - 1) : l = start \/ l \in (start + 1)..(f[start + 1] - 1)
    BY <1>1
  <2> QED BY <1>1, <1>3, <1>4, <2>3, <2>4 DEF s
<1>8. ASSUME NEW j \in 1..n, \A l \in (j + 1)..n : l \in agree, Inside(j) PROVE Agrees(j)
  <2>1. PICK k \in Code(t) : Opens(k, j)
    BY <1>8
  <2> DEFINE hop == Hop(t, k)
  <2>2. /\ j \in (k + 1)..hop /\ k \in 1..Len(t) /\ hop \in Code(t) /\ hop \in (k + 1)..n
        /\ \A l \in k..(hop - 1) : s[l] = t[l]
        /\ \/ hop - 1 \in (k + 1)..Len(t) /\ t[hop - 1] = "'"
              /\ \A l \in (k + 1)..Len(t) : t[l] = "'" => hop - 1 <= l
           \/ hop = n /\ \A l \in (k + 1)..Len(t) : t[l] # "'"
    BY <1>6, <2>1
  <2>3. \A l \in (k + 1)..(j - 1) : t[l] # "'"
    BY <2>1
  <2>4. LiteralEnd(t, k) = hop
    BY <2>1, CleanCode
  <2> HIDE DEF hop
  <2>5. CASE j = n
    <3>1. hop = n /\ j > Len(t)
      BY <1>1, <2>2, <2>5
    <3>2. f[j] = j /\ g[j] = j
      BY <1>1, <1>7, <2>5, <3>1 DEF QuotedStep, s
    <3> QED BY <1>5, <2>2, <2>5, <3>1, <3>2
  <2>6. CASE j # n
    <3>1. j \in 1..Len(t) /\ j <= hop - 1 /\ ~(j > Len(t))
      <4>1. j \in 1..Len(t)
        BY <1>1, <2>6
      <4>2. j # hop
        <5>1. ASSUME j = hop PROVE FALSE
          <6>1. hop # n
            BY <2>6, <5>1
          <6>2. hop - 1 \in (k + 1)..(j - 1) /\ t[hop - 1] = "'"
            BY <2>2, <5>1, <6>1
          <6> QED BY <2>3, <6>2
        <5> QED BY <5>1
      <4> QED BY <1>1, <2>2, <4>1, <4>2
    <3>2. s[j] = t[j] /\ t[j] # "\\" /\ s[j] # "\\"
      <4>1. j \in k..(hop - 1)
        BY <1>1, <2>2, <3>1
      <4>2. s[j] = t[j]
        BY <2>2, <4>1
      <4> QED BY <1>2, <3>1, <4>2
    <3>3. CASE t[j] = "'"
      <4>1. j = hop - 1 /\ j + 1 = hop /\ j + 1 \in Code(t)
        BY <1>1, <2>2, <3>1, <3>3
      <4>2. CASE j < Len(t) /\ t[j + 1] = "'"
        <5>1. j + 1 <= Len(t) /\ s[j + 1] = t[j + 1] /\ Hop(t, j + 1) = LiteralEnd(t, j + 1)
              /\ Hop(t, j + 1) \in (j + 2)..n
          <6>1. j + 1 <= Len(t)
            BY <1>1, <4>2
          <6>2. /\ ~Blanked(t, j + 1) /\ Hop(t, j + 1) = LiteralEnd(t, j + 1)
                /\ Hop(t, j + 1) \in ((j + 1) + 1)..n /\ s[j + 1] = t[j + 1]
            BY <4>1, <4>2, <6>1, CleanCode DEF s
          <6>3. (j + 1) + 1 = j + 2
            BY <1>1
          <6> QED BY <6>1, <6>2, <6>3
        <5>2. Opens(j + 1, j + 2)
          <6>1. ((j + 1) + 1)..((j + 2) - 1) = {} /\ j + 1 < j + 2 /\ j + 2 <= LiteralEnd(t, j + 1)
            BY <1>1, <5>1
          <6> QED BY <4>1, <4>2, <5>1, <6>1
        <5>3. j + 2 \in (j + 1)..n
          BY <1>1, <5>1
        <5>4. j + 2 \in agree /\ Inside(j + 2)
          <6> HIDE DEF Opens, agree
          <6> QED BY <1>8, <5>2, <5>3
        <5>5. Agrees(j + 2)
          <6> HIDE DEF Inside, Agrees
          <6> QED BY <5>4
        <5>6. f[j] = f[j + 2] /\ g[j] = g[j + 2]
          <6>1. t[start] = "'" /\ s[start] = "'" /\ j < Len(s)
            BY <1>1, <4>2
          <6> HIDE DEF Agrees, agree, Opens, Inside
          <6> QED BY <1>1, <1>7, <3>1, <3>2, <3>3, <4>2, <5>1, <6>1 DEF QuotedStep
        <5>7. \A l \in j..(f[j + 2] - 1) : l = j \/ l = j + 1 \/ l \in (j + 2)..(f[j + 2] - 1)
          BY <1>1
        <5> QED BY <3>2, <5>1, <5>5, <5>6, <5>7
      <4>3. CASE ~(j < Len(t) /\ t[j + 1] = "'")
        <5>1. ~(j < Len(s) /\ s[j + 1] = "'")
          <6>1. j < Len(t) => j + 1 \in 1..Len(t)
            BY <3>1
          <6> QED BY <1>1, <1>2, <4>3, <6>1
        <5>2. f[j] = j + 1 /\ g[j] = j + 1
          <6> HIDE DEF Agrees, agree, Opens, Inside
          <6> QED BY <1>1, <1>7, <3>1, <3>2, <3>3, <4>3, <5>1 DEF QuotedStep
        <5>3. \A l \in j..(f[j] - 1) : l = j
          BY <3>1, <5>2
        <5> QED BY <3>2, <4>1, <5>2, <5>3
      <4> QED BY <4>2, <4>3
    <3>4. CASE t[j] # "'"
      <4>1. Opens(k, j + 1)
        <5>1. \A l \in (k + 1)..((j + 1) - 1) : l \in (k + 1)..(j - 1) \/ l = j
          BY <1>1, <2>2
        <5>2. k < j + 1 /\ j + 1 <= LiteralEnd(t, k)
          BY <1>1, <2>2, <2>4, <3>1
        <5> QED BY <2>1, <2>3, <3>4, <5>1, <5>2
      <4>2. j + 1 \in (j + 1)..n
        BY <1>1, <3>1
      <4>3. j + 1 \in agree /\ Inside(j + 1)
        <5> HIDE DEF Opens, agree
        <5> QED BY <1>8, <4>1, <4>2
      <4>4. Agrees(j + 1)
        <5> HIDE DEF Inside, Agrees
        <5> QED BY <4>3
      <4>5. f[j] = f[j + 1] /\ g[j] = g[j + 1]
        <5> HIDE DEF Agrees, agree, Opens, Inside
        <5> QED BY <1>1, <1>7, <3>1, <3>2, <3>4 DEF QuotedStep
      <4>6. \A l \in j..(f[j + 1] - 1) : l = j \/ l \in (j + 1)..(f[j + 1] - 1)
        BY <1>1
      <4> QED BY <3>2, <4>4, <4>5, <4>6
    <3> QED BY <3>3, <3>4
  <2> QED BY <2>5, <2>6
<1>9. agree \in SUBSET (1..n) /\ \A j \in 1..n : (\A l \in (j + 1)..n : l \in agree) => j \in agree
  <2>1. agree \in SUBSET (1..n)
    OBVIOUS
  <2>2. ASSUME NEW j \in 1..n, \A l \in (j + 1)..n : l \in agree PROVE j \in agree
    <3>1. Inside(j) => Agrees(j)
      <4> HIDE DEF Inside, Agrees, agree
      <4> QED BY <1>8, <2>2
    <3> HIDE DEF Inside, Agrees
    <3> QED BY <3>1
  <2> QED BY <2>1, <2>2
<1> HIDE DEF agree, n
<1> QED BY <1>1, <1>9, FromTheEnd

(* sqlTokens reads over blanks.                                             *)
LEMMA BlankRun ==
  ASSUME NEW t, Len(t) \in Nat, NEW f, Lexes(f, t), NEW i \in 1..(Len(t) + 1), NEW end \in i..(Len(t) + 1),
         \A j \in i..(end - 1) : IsSpace(t[j])
  PROVE  f[i] = f[end]
<1> DEFINE n == Len(t) + 1
           same == {j \in 1..n : j \in i..end => f[j] = f[end]}
<1>1. n \in Nat /\ end \in 1..n /\ i \in 1..n
  OBVIOUS
<1>2. ASSUME NEW j \in 1..n, \A k \in (j + 1)..n : k \in same, j \in i..end PROVE f[j] = f[end]
  <2>1. CASE j = end
    BY <2>1
  <2>2. CASE j # end
    <3>1. j \in i..(end - 1) /\ j \in 1..Len(t) /\ j + 1 \in (j + 1)..n /\ j + 1 \in i..end
      BY <1>1, <1>2, <2>2
    <3>2. Passes(t, j) /\ Beyond(t, j) = j + 1
      BY <3>1, Zenon DEF Passes, Beyond
    <3>3. f[j] = f[j + 1]
      BY <3>1, <3>2 DEF Lexes
    <3>4. f[j + 1] = f[end]
      BY <1>2, <3>1
    <3> QED BY <3>3, <3>4
  <2> QED BY <2>1, <2>2
<1>3. \A j \in 1..n : (\A k \in (j + 1)..n : k \in same) => j \in same
  BY <1>2
<1>4. same \in SUBSET (1..n)
  OBVIOUS
<1>5. same = 1..n
  <2> HIDE DEF same, n
  <2> QED BY <1>1, <1>3, <1>4, FromTheEnd
<1>6. i \in i..end
  OBVIOUS
<1> QED BY <1>1, <1>5, <1>6

(* Texts that agree on a part have the same part.                           *)
LEMMA SameParts ==
  ASSUME NEW s, NEW t, NEW i \in Nat, NEW end \in Nat, i <= end, \A j \in i..end : s[j] = t[j]
  PROVE  SubSeq(s, i, end) = SubSeq(t, i, end)
<1> DEFINE S == {t[j] : j \in i..end}
           a == SubSeq(s, i, end)
           b == SubSeq(t, i, end)
<1>1. \A j \in i..end : s[j] \in S /\ t[j] \in S
  OBVIOUS
<1> HIDE DEF S
<1>2. a \in Seq(S) /\ Len(a) = end - i + 1 /\ \A k \in 1..(end - i + 1) : a[k] = s[i + k - 1]
  BY <1>1, SubSeqProperties
<1>3. b \in Seq(S) /\ Len(b) = end - i + 1 /\ \A k \in 1..(end - i + 1) : b[k] = t[i + k - 1]
  BY <1>1, SubSeqProperties
<1>4. \A k \in 1..(end - i + 1) : i + k - 1 \in i..end
  OBVIOUS
<1> HIDE DEF a, b
<1>5. \A k \in 1..Len(a) : a[k] = b[k]
  BY <1>2, <1>3, <1>4
<1>6. a = b
  BY <1>2, <1>3, <1>5, SeqEqual
<1> QED BY <1>6 DEF a, b

(* What the stripper lets stand opens no comment in the stripped text.      *)
LEMMA NoNewComment ==
  ASSUME NEW t, Clean(t), NEW i \in Code(t), i <= Len(t), ~Blanked(t, i)
  PROVE  ~Has(StripComments(t), i, DashDash) /\ ~Has(StripComments(t), i, OpenComment)
<1> DEFINE s == StripComments(t)
<1>1. i \in 1..Len(t) /\ Len(t) \in Nat /\ Len(s) = Len(t) /\ s[i] = t[i]
  BY CleanText, CleanCode
<1>2. CASE ~IsOperator(t[i])
  <2> HIDE DEF s
  <2>1. Has(s, i, DashDash) \/ Has(s, i, OpenComment) => IsOperator(s[i])
    BY <1>1, OpensWithOperator
  <2> QED BY <1>1, <1>2, <2>1 DEF s
<1>3. CASE IsOperator(t[i])
  <2>1. i + 1 <= Len(t) => s[i + 1] = t[i + 1]
    BY <1>3, OperatorsStand
  <2>2. ~Has(t, i, DashDash) /\ ~Has(t, i, OpenComment)
    BY DEF Blanked
  <2> HIDE DEF s
  <2>3. ~Has(s, i, DashDash) /\ ~Has(s, i, OpenComment)
    BY <1>1, <2>1, <2>2, HasTwo DEF DashDash, OpenComment
  <2> QED BY <2>3 DEF s
<1> QED BY <1>2, <1>3

(* At what stands and is no blank, both texts have the same token.          *)
LEMMA TokensStand ==
  ASSUME NEW t, Clean(t), NEW i \in Code(t), i <= Len(t), ~Blanked(t, i), ~IsSpace(t[i])
  PROVE  /\ ~Passes(t, i) /\ ~Passes(StripComments(t), i)
         /\ Beyond(t, i) \in Code(t)
         /\ Beyond(StripComments(t), i) = Beyond(t, i)
         /\ Token(StripComments(t), i) = Token(t, i)
<1> DEFINE s == StripComments(t)
           end == Beyond(t, i)
<1>1. i \in 1..Len(t) /\ Len(t) \in Nat /\ Len(s) = Len(t) /\ s[i] = t[i] /\ t[i] # "\""
  BY CleanText, CleanCode
<1>2. ~Has(t, i, DashDash) /\ ~Has(t, i, OpenComment) /\ ~Has(s, i, DashDash) /\ ~Has(s, i, OpenComment)
  BY NoNewComment DEF Blanked
<1> HIDE DEF s
<1>3. ~Passes(t, i) /\ ~Passes(s, i)
  BY <1>1, <1>2 DEF Passes
<1>4. end \in Code(t) /\ Beyond(s, i) = end /\ \A j \in i..(end - 1) : s[j] = t[j]
  <2>1. CASE IsQuote(t[i])
    <3>1. t[i] = "'"
      BY <1>1, <2>1 DEF IsQuote
    <3>2. end = SkipQuoted(t, i) /\ Beyond(s, i) = SkipQuoted(s, i)
      BY <1>1, <1>2, <2>1, Zenon DEF Beyond
    <3> HIDE DEF end
    <3> QED BY <3>1, <3>2, LiteralsStand DEF s
  <2>2. CASE ~IsQuote(t[i]) /\ IsWord(t[i])
    <3>1. end = WordEnd(t, i) /\ Beyond(s, i) = WordEnd(s, i)
      BY <1>1, <1>2, <2>2, Zenon DEF Beyond
    <3> HIDE DEF end
    <3> QED BY <2>2, <3>1, WordsStand DEF s
  <2>3. CASE ~IsQuote(t[i]) /\ ~IsWord(t[i]) /\ IsOperator(t[i])
    <3>1. end = OperatorEnd(t, i) /\ Beyond(s, i) = OperatorEnd(s, i)
      BY <1>1, <1>2, <2>3, Zenon DEF Beyond
    <3> HIDE DEF end
    <3> QED BY <2>3, <3>1, OperatorsStand DEF s
  <2>4. CASE ~IsQuote(t[i]) /\ ~IsWord(t[i]) /\ ~IsOperator(t[i])
    <3>1. end = i + 1 /\ Beyond(s, i) = i + 1
      BY <1>1, <1>2, <2>4, Zenon DEF Beyond
    <3>2. t[i] # "'"
      BY <2>4 DEF IsQuote
    <3>3. Hop(t, i) = i + 1 /\ Hop(t, i) \in Code(t)
      BY <3>2, CleanCode
    <3>4. i \in 1..Len(t) /\ Len(t) \in Nat
      BY <1>1
    <3>5. \A j \in i..((i + 1) - 1) : j = i
      BY <3>4
    <3> HIDE DEF end
    <3>6. \A j \in i..(end - 1) : s[j] = t[j]
      BY <1>1, <3>1, <3>5
    <3> QED BY <3>1, <3>3, <3>6
  <2> QED BY <2>1, <2>2, <2>3, <2>4
<1>5. end \in (i + 1)..(Len(t) + 1) /\ i \in 1..Len(t) /\ Len(t) \in Nat
  BY <1>1, BeyondRange
<1> HIDE DEF end
<1>6. Token(s, i) = Token(t, i)
  <2>1. CASE ~IsQuote(t[i]) /\ IsWord(t[i])
    <3>1. \A k \in 1..(end - i) : i + k - 1 \in i..(end - 1)
      BY <1>5
    <3>2. \A k \in 1..(end - i) : Lower(s[i + k - 1]) = Lower(t[i + k - 1])
      BY <1>4, <3>1
    <3>3. Token(s, i) = [k \in 1..(end - i) |-> Lower(s[i + k - 1])]
      BY <1>1, <1>4, <2>1, Zenon DEF Token
    <3>4. Token(t, i) = [k \in 1..(end - i) |-> Lower(t[i + k - 1])]
      BY <2>1, Zenon DEF Token, end
    <3>5. [k \in 1..(end - i) |-> Lower(s[i + k - 1])] = [k \in 1..(end - i) |-> Lower(t[i + k - 1])]
      BY <3>2, Zenon
    <3> QED BY <3>3, <3>4, <3>5
  <2>2. CASE ~(~IsQuote(t[i]) /\ IsWord(t[i]))
    <3>1. Token(s, i) = SubSeq(s, i, end - 1) /\ Token(t, i) = SubSeq(t, i, end - 1)
      BY <1>1, <1>4, <2>2, Zenon DEF Token, end
    <3>2. i \in Nat /\ end - 1 \in Nat /\ i <= end - 1
      BY <1>5
    <3> QED BY <1>4, <3>1, <3>2, SameParts
  <2> QED BY <2>1, <2>2
<1> QED BY <1>3, <1>4, <1>6 DEF s, end

(* What is made blank, and what is blank, is passed over in both.           *)
LEMMA BlanksPass ==
  ASSUME NEW t, Clean(t), NEW i \in Code(t), i <= Len(t), Blanked(t, i) \/ IsSpace(t[i]),
         NEW f, Lexes(f, t), NEW g, Lexes(g, StripComments(t))
  PROVE  f[i] = f[Hop(t, i)] /\ g[i] = g[Hop(t, i)]
<1> DEFINE s == StripComments(t)
           hop == Hop(t, i)
<1>1. /\ i \in 1..Len(t) /\ Len(t) \in Nat /\ Len(s) = Len(t) /\ hop \in (i + 1)..(Len(t) + 1)
      /\ \A j \in i..(hop - 1) : s[j] = IF Blanked(t, i) THEN Shown(t[j]) ELSE t[j]
  BY CleanText, CleanCode
<1>2. t[i] # "$"
  BY <1>1, CleanText
<1>3. Passes(t, i) /\ Beyond(t, i) = hop
  <2>1. CASE Has(t, i, DashDash)
    <3>1. ~IsSpace(t[i])
      BY <1>1, <2>1, OpensWithOperator, Classes
    <3> QED BY <2>1, <3>1, Zenon DEF Passes, Beyond, Hop
  <2>2. CASE Has(t, i, OpenComment)
    <3>1. ~IsSpace(t[i]) /\ ~Has(t, i, DashDash)
      BY <1>1, <2>2, OpensWithOperator, Classes
    <3>2. Flat(t, i)
      BY <2>2, Zenon DEF Clean, Tidy
    <3>3. NestedCommentEnd(t, i) = BlockEnd(t, i)
      BY <1>1, <2>2, <3>2, FlatComment
    <3> QED BY <2>2, <3>1, <3>3, Zenon DEF Passes, Beyond, Hop
  <2>3. CASE ~Blanked(t, i) /\ IsSpace(t[i])
    <3>1. t[i] # "'"
      BY <2>3, Classes
    <3>2. hop = i + 1
      BY <2>3, <3>1, CleanCode
    <3> QED BY <2>3, <3>2, Zenon DEF Passes, Beyond
  <2> QED BY <1>1, <1>2, <2>1, <2>2, <2>3, OpensWithOperator
<1>4. \A j \in i..(hop - 1) : IsSpace(s[j])
  <2>1. CASE Blanked(t, i)
    BY <1>1, <2>1, Classes
  <2>2. CASE ~Blanked(t, i) /\ IsSpace(t[i])
    <3>1. t[i] # "'"
      BY <2>2, Classes
    <3>2. hop = i + 1
      BY <2>2, <3>1, CleanCode
    <3>3. \A j \in i..(hop - 1) : j = i
      BY <1>1, <3>2
    <3> QED BY <1>1, <2>2, <3>3
  <2> QED BY <2>1, <2>2
<1> HIDE DEF hop, s
<1>5. f[i] = f[hop]
  BY <1>1, <1>3 DEF Lexes
<1>6. g[i] = g[hop]
  <2>1. i \in 1..(Len(s) + 1) /\ hop \in i..(Len(s) + 1) /\ Len(s) \in Nat /\ Lexes(g, s)
    BY <1>1 DEF s
  <2> QED BY <1>4, <2>1, BlankRun
<1> QED BY <1>5, <1>6 DEF hop

(* The stripped text has the tokens of the text.                            *)
LEMMA CodeStays ==
  ASSUME NEW t, Clean(t) PROVE SqlTokens(StripComments(t)) = SqlTokens(t)
<1> DEFINE s == StripComments(t)
           n == Len(t) + 1
<1>1. /\ Len(t) \in Nat /\ Len(s) = Len(t)
      /\ \A i \in 1..Len(t) : t[i] # "$"
      /\ \A i \in 1..Len(s) : s[i] # "$"
  BY CleanText DEF Plain
<1>2. PICK f : Lexes(f, t) /\ SqlTokens(t) = f[1]
  BY <1>1, LexUnfolds
<1> HIDE DEF s
<1>3. PICK g : Lexes(g, s) /\ SqlTokens(s) = g[1]
  BY <1>1, LexUnfolds
<1> DEFINE same == {i \in 1..n : i \in Code(t) => g[i] = f[i]}
<1>4. ASSUME NEW i \in 1..n, \A j \in (i + 1)..n : j \in same, i \in Code(t) PROVE g[i] = f[i]
  <2>1. CASE i = n
    BY <1>1, <1>2, <1>3, <2>1 DEF Lexes
  <2>2. CASE i # n
    <3>1. i \in 1..Len(t) /\ i <= Len(t)
      BY <1>1, <2>2
    <3>2. CASE Blanked(t, i) \/ IsSpace(t[i])
      <4>1. f[i] = f[Hop(t, i)] /\ g[i] = g[Hop(t, i)]
        BY <1>2, <1>3, <1>4, <3>1, <3>2, BlanksPass DEF s
      <4>2. Hop(t, i) \in Code(t) /\ Hop(t, i) \in (i + 1)..n
        BY <1>4, <3>1, CleanCode
      <4>3. g[Hop(t, i)] = f[Hop(t, i)]
        BY <1>4, <4>2
      <4> QED BY <4>1, <4>3
    <3>3. CASE ~Blanked(t, i) /\ ~IsSpace(t[i])
      <4>1. /\ ~Passes(t, i) /\ ~Passes(s, i) /\ Beyond(t, i) \in Code(t)
            /\ Beyond(s, i) = Beyond(t, i) /\ Token(s, i) = Token(t, i)
        BY <1>4, <3>1, <3>3, TokensStand DEF s
      <4>2. Beyond(t, i) \in (i + 1)..n
        BY <1>1, <3>1, BeyondRange
      <4>3. g[Beyond(t, i)] = f[Beyond(t, i)]
        BY <1>4, <4>1, <4>2
      <4>4. f[i] = <<Token(t, i)>> \o f[Beyond(t, i)]
        BY <1>2, <3>1, <4>1 DEF Lexes
      <4>5. g[i] = <<Token(t, i)>> \o g[Beyond(t, i)]
        BY <1>1, <1>3, <3>1, <4>1 DEF Lexes
      <4> QED BY <4>3, <4>4, <4>5
    <3> QED BY <3>2, <3>3
  <2> QED BY <2>1, <2>2
<1>5. same = 1..n
  <2>1. \A i \in 1..n : (\A j \in (i + 1)..n : j \in same) => i \in same
    BY <1>4
  <2>2. same \in SUBSET (1..n) /\ n \in Nat
    BY <1>1
  <2> HIDE DEF same, n
  <2> QED BY <2>1, <2>2, FromTheEnd
<1>6. 1 \in 1..n /\ 1 \in Code(t)
  BY <1>1, CodeHops DEF Hops
<1>7. g[1] = f[1]
  BY <1>5, <1>6
<1> QED BY <1>2, <1>3, <1>7 DEF s

(* What the lint calls a comment is one, and nothing else is, in a text of  *)
(* any length (repairtotality.go:85-131): the stripped text has the tokens  *)
(* and the lines of the file, unless one of its comments nests, closes on   *)
(* the star that opened it, or touches an operator before it.               *)
THEOREM StripKeepsCodeAlways == Spec => [](Tidy(text) => StripKeepsCode)
<1>1. TextInv => (Tidy(text) => StripKeepsCode)
  <2> SUFFICES ASSUME TextInv, Tidy(text), Plain(text)
               PROVE  /\ SqlTokens(StripComments(text)) = SqlTokens(text)
                      /\ Len(StripComments(text)) = Len(text)
                      /\ \A i \in DOMAIN text : StripComments(text)[i] = "\n" <=> text[i] = "\n"
    BY Zenon DEF StripKeepsCode
  <2>1. text \in Seq(Written)
    <3>1. text \in Seq(Characters)
      BY DEF TextInv
    <3>2. Characters \subseteq Written
      BY DEF Written
    <3>3. Len(text) \in Nat /\ DOMAIN text = 1..Len(text) /\ \A i \in 1..Len(text) : text[i] \in Written
      BY <3>1, <3>2
    <3>4. text = [i \in 1..Len(text) |-> text[i]]
      BY <3>1
    <3> QED BY <3>3, <3>4
  <2>2. Clean(text)
    BY <2>1 DEF Clean
  <2> QED BY <2>1, <2>2, CodeStays, StripKeepsLines
<1> QED BY <1>1, TextsAreTexts, PTL

-----------------------------------------------------------------------------
(* SplitStatements *)

(* A quote ends for SplitStatements where it ends for sqlTokens.            *)
QuoteStep(f, t, i, j) ==
  IF j > Len(t) THEN j
  ELSE IF t[j] = "\\" /\ t[i] = "'" /\ j < Len(t) THEN f[j + 2]
  ELSE IF t[j] # t[i] THEN f[j + 1]
  ELSE IF Has(t, j + 1, <<t[i]>>) THEN f[j + 2]
  ELSE j + 1

LEMMA QuotesAgree ==
  ASSUME NEW t, Len(t) \in Nat, NEW i \in 1..Len(t) PROVE QuoteEnd(t, i) = SkipQuoted(t, i)
<1> DEFINE n == Len(t) + 1
           Fixed(f) == f = [j \in 1..n |-> QuoteStep(f, t, i, j)]
<1>1. PICK h : Quoted(h, t, i) /\ SkipQuoted(t, i) = h[i + 1]
  BY QuotedUnfolds
<1>2. n \in Nat /\ i + 1 \in 1..n
  OBVIOUS
<1>3. ASSUME NEW f, NEW j \in 1..n PROVE QuoteStep(f, t, i, j) = QuotedStep(f, t, i, j)
  <2>1. Has(t, j + 1, <<t[i]>>) <=> j + 1 <= Len(t) /\ t[j + 1] = t[i]
    <3>1. j + 1 \in Nat \ {0}
      OBVIOUS
    <3> HIDE DEF n
    <3> QED BY <3>1, HasOne
  <2>2. j + 1 <= Len(t) <=> j < Len(t)
    OBVIOUS
  <2> HIDE DEF n
  <2> QED BY <2>1, <2>2, Zenon DEF QuoteStep, QuotedStep
<1> DEFINE f == [j \in 1..n |-> h[j]]
<1>4. \A j \in 1..n : f[j] = h[j] /\ h[j] = QuotedStep(h, t, i, j)
  BY <1>1 DEF Quoted
<1>5. ASSUME NEW j \in 1..n PROVE QuotedStep(f, t, i, j) = QuotedStep(h, t, i, j)
  <2>1. ~(j > Len(t)) => j + 1 \in 1..n
    OBVIOUS
  <2>2. j < Len(t) => j + 2 \in 1..n
    OBVIOUS
  <2> HIDE DEF f, n
  <2> QED BY <1>4, <2>1, <2>2, Zenon DEF QuotedStep
<1>6. Fixed(f)
  <2>1. \A j \in 1..n : h[j] = QuoteStep(f, t, i, j)
    <3> HIDE DEF f, n
    <3> QED BY <1>3, <1>4, <1>5
  <2> DEFINE F == f
  <2>2. F = [j \in 1..n |-> h[j]] /\ \A j \in 1..n : h[j] = QuoteStep(F, t, i, j)
    BY <2>1
  <2> HIDE DEF F
  <2>3. Fixed(F)
    BY <2>2
  <2> QED BY <2>3 DEF F
<1> HIDE DEF f
<1> DEFINE g == CHOOSE k : Fixed(k)
<1>7. Fixed(g)
  <2> HIDE DEF Fixed
  <2> QED BY <1>6
<1>8. QuoteEnd(t, i) = g[i + 1]
  BY DEF QuoteEnd, QuoteStep, n
<1>9. \A j \in 1..n : g[j] = QuoteStep(g, t, i, j)
  <2> HIDE DEF g
  <2> QED BY <1>7
<1> HIDE DEF g
<1> DEFINE same == {j \in 1..n : g[j] = h[j]}
<1>10. ASSUME NEW j \in 1..n, \A k \in (j + 1)..n : k \in same PROVE g[j] = h[j]
  <2>1. ~(j > Len(t)) => j + 1 \in (j + 1)..n
    OBVIOUS
  <2>2. j < Len(t) => j + 2 \in (j + 1)..n
    OBVIOUS
  <2>3. \A k \in (j + 1)..n : g[k] = h[k]
    BY <1>10
  <2> HIDE DEF n
  <2>4. QuotedStep(g, t, i, j) = QuotedStep(h, t, i, j)
    BY <2>1, <2>2, <2>3, Zenon DEF QuotedStep
  <2> QED BY <1>3, <1>4, <1>9, <2>4
<1>11. same = 1..n
  <2>1. \A j \in 1..n : (\A k \in (j + 1)..n : k \in same) => j \in same
    BY <1>10
  <2>2. same \in SUBSET (1..n)
    OBVIOUS
  <2> HIDE DEF same, n
  <2> QED BY <1>2, <2>1, <2>2, FromTheEnd
<1> QED BY <1>1, <1>2, <1>8, <1>11

(* What the first of some parts gets in front of it.                        *)
Prepends(y, part, pieces, S) ==
  /\ y \in Seq(Seq(S)) /\ y # <<>> /\ Len(y) = Len(pieces) /\ Len(pieces) \in Nat \ {0}
  /\ y[1] = part \o pieces[1] /\ pieces[1] \in Seq(S)
  /\ \A k \in 2..Len(pieces) : y[k] = pieces[k]

LEMMA OntoPart ==
  ASSUME NEW S, NEW part \in Seq(S), NEW pieces \in Seq(Seq(S)), pieces # <<>>
  PROVE  Prepends(Onto(part, pieces), part, pieces, S)
<1> DEFINE first == <<part \o pieces[1]>>
           rest == Tail(pieces)
           T == Seq(S)
<1>1. Len(pieces) \in Nat \ {0} /\ pieces[1] \in T /\ Head(pieces) = pieces[1]
  OBVIOUS
<1>2. part \o pieces[1] \in T
  BY <1>1, ConcatProperties
<1>3. first \in Seq(T) /\ Len(first) = 1 /\ first[1] = part \o pieces[1]
  BY <1>2
<1> HIDE DEF T
<1>4. rest \in Seq(T) /\ Len(rest) = Len(pieces) - 1 /\ \A k \in 1..Len(rest) : rest[k] = pieces[k + 1]
  <2>1. pieces \in Seq(T)
    BY DEF T
  <2> QED BY <2>1, HeadTailProperties
<1>5. Onto(part, pieces) = first \o rest
  BY <1>1 DEF Onto
<1> HIDE DEF first, rest
<1>6. /\ first \o rest \in Seq(T) /\ Len(first \o rest) = Len(first) + Len(rest)
      /\ \A k \in 1..(Len(first) + Len(rest)) :
           (first \o rest)[k] = IF k <= Len(first) THEN first[k] ELSE rest[k - Len(first)]
  <2>1. first \in Seq(T) /\ rest \in Seq(T)
    BY <1>3, <1>4
  <2> QED BY <2>1, ConcatProperties, Zenon
<1>7. (first \o rest)[1] = first[1]
  <2>1. 1 \in 1..(Len(first) + Len(rest)) /\ 1 <= Len(first)
    BY <1>1, <1>3, <1>4
  <2> QED BY <1>6, <2>1
<1>8. ASSUME NEW k \in 2..Len(pieces) PROVE (first \o rest)[k] = pieces[k]
  <2>1. k \in 1..(Len(first) + Len(rest)) /\ ~(k <= Len(first)) /\ k - Len(first) \in 1..Len(rest) /\ (k - Len(first)) + 1 = k
    BY <1>1, <1>3, <1>4
  <2> QED BY <1>4, <1>6, <2>1
<1>9. Len(first \o rest) = Len(pieces)
  BY <1>1, <1>3, <1>4, <1>6
<1>10. first \o rest # <<>>
  BY <1>1, <1>9
<1> QED BY <1>1, <1>3, <1>5, <1>6, <1>7, <1>8, <1>9, <1>10 DEF T, Prepends

(* The characters of texts without dollar signs.                            *)
Prose == Written \ {"$"}

(* Where SplitStatements goes on, and what it makes of the pieces of the    *)
(* rest.                                                                    *)
Remark(t, i) == Has(t, i, DashDash) \/ Has(t, i, OpenComment)
Onward(t, i) ==
  IF IsQuote(t[i]) \/ t[i] = Backtick THEN QuoteEnd(t, i)
  ELSE IF Has(t, i, DashDash) THEN LineEnd(t, i)
  ELSE IF Has(t, i, OpenComment) THEN CommentEnd(t, i)
  ELSE i + 1
CutStep(t, i, rest) ==
  IF IsQuote(t[i]) \/ t[i] = Backtick THEN Onto(SubSeq(t, i, QuoteEnd(t, i) - 1), rest)
  ELSE IF Remark(t, i) THEN rest
  ELSE IF t[i] = ";" THEN << <<>> >> \o rest
  ELSE Onto(<<t[i]>>, rest)
CutAt(f, t, i) ==
  IF i > Len(t) THEN << <<>> >>
  ELSE IF IsQuote(t[i]) \/ t[i] = Backtick THEN Onto(SubSeq(t, i, QuoteEnd(t, i) - 1), f[QuoteEnd(t, i)])
  ELSE IF Has(t, i, DashDash) THEN f[LineEnd(t, i)]
  ELSE IF Has(t, i, OpenComment) THEN f[CommentEnd(t, i)]
  ELSE IF t[i] = ";" THEN << <<>> >> \o f[i + 1]
  ELSE Onto(<<t[i]>>, f[i + 1])
Pieces == {pieces \in Seq(Seq(Prose)) : pieces # <<>>}
Cuts(c, t) ==
  /\ c[Len(t) + 1] = << <<>> >>
  /\ \A i \in 1..(Len(t) + 1) : c[i] \in Pieces
  /\ \A i \in 1..Len(t) : c[i] = CutStep(t, i, c[Onward(t, i)])

LEMMA OnwardRange ==
  ASSUME NEW t, Len(t) \in Nat, NEW i \in 1..Len(t) PROVE Onward(t, i) \in (i + 1)..(Len(t) + 1)
<1>1. QuoteEnd(t, i) \in (i + 1)..(Len(t) + 1)
  BY QuotesAgree, QuotedRange
<1>2. Has(t, i, DashDash) => LineEnd(t, i) \in (i + 1)..(Len(t) + 1)
  <2>1. Has(t, i, DashDash) => Hop(t, i) = LineEnd(t, i)
    BY DEF Hop
  <2> QED BY <2>1, HopRange
<1>3. Has(t, i, OpenComment) => CommentEnd(t, i) \in (i + 1)..(Len(t) + 1)
  <2> DEFINE close == Find(t, i + 2, CloseComment, Len(t) + 1)
  <2>1. CommentEnd(t, i) = IF close > Len(t) THEN close ELSE close + 2
    BY DEF CommentEnd
  <2>2. (close \in (i + 2)..Len(t) /\ Has(t, close, CloseComment)) \/ close = Len(t) + 1
    <3>1. i + 2 \in Nat
      OBVIOUS
    <3> QED BY <3>1, Found
  <2> HIDE DEF close
  <2>3. CASE close \in (i + 2)..Len(t) /\ Has(t, close, CloseComment)
    <3>1. close \in Nat \ {0}
      BY <2>3
    <3>2. close + 1 <= Len(t)
      BY <2>3, <3>1, HasTwo DEF CloseComment
    <3>3. CommentEnd(t, i) = close + 2
      BY <2>1, <2>3
    <3> QED BY <2>3, <3>2, <3>3
  <2>4. CASE close = Len(t) + 1
    <3>1. CommentEnd(t, i) = Len(t) + 1
      BY <2>1, <2>4
    <3> QED BY <3>1
  <2> QED BY <2>2, <2>3, <2>4
<1>4. i + 1 \in (i + 1)..(Len(t) + 1)
  OBVIOUS
<1> QED BY <1>1, <1>2, <1>3, <1>4, Zenon DEF Onward

LEMMA CutStepType ==
  ASSUME NEW t \in Seq(Prose), NEW i \in 1..Len(t), NEW rest \in Pieces PROVE CutStep(t, i, rest) \in Pieces
<1> DEFINE quoted == SubSeq(t, i, QuoteEnd(t, i) - 1)
<1>1. rest \in Seq(Seq(Prose)) /\ rest # <<>> /\ Len(t) \in Nat /\ t[i] \in Prose
  BY DEF Pieces
<1>2. quoted \in Seq(Prose)
  <2>1. QuoteEnd(t, i) \in (i + 1)..(Len(t) + 1)
    BY QuotesAgree, QuotedRange
  <2>2. i \in Int /\ QuoteEnd(t, i) - 1 \in Int /\ \A l \in i..(QuoteEnd(t, i) - 1) : t[l] \in Prose
    BY <2>1
  <2> QED BY <2>2, SubSeqProperties
<1>3. <<t[i]>> \in Seq(Prose)
  BY <1>1
<1> HIDE DEF quoted
<1>4. Onto(quoted, rest) \in Pieces /\ Onto(<<t[i]>>, rest) \in Pieces
  BY <1>1, <1>2, <1>3, OntoPart DEF Pieces, Prepends
<1>5. << <<>> >> \o rest \in Pieces
  <2> DEFINE T == Seq(Prose)
             one == << <<>> >>
  <2>1. one \in Seq(T) /\ Len(one) = 1 /\ rest \in Seq(T) /\ Len(rest) \in Nat
    BY <1>1
  <2> HIDE DEF T, one
  <2>2. one \o rest \in Seq(T) /\ Len(one \o rest) = Len(one) + Len(rest)
    BY <2>1, ConcatProperties, Zenon
  <2>3. one \o rest # <<>>
    BY <2>1, <2>2
  <2> QED BY <2>2, <2>3 DEF Pieces, T, one
<1> QED BY <1>1, <1>4, <1>5, Zenon DEF CutStep, quoted

LEMMA CutAtIsStep ==
  ASSUME NEW f, NEW t, NEW i, ~(i > Len(t)) PROVE CutAt(f, t, i) = CutStep(t, i, f[Onward(t, i)])
<1>1. CASE IsQuote(t[i]) \/ t[i] = Backtick
  BY <1>1, Zenon DEF CutAt, CutStep, Onward
<1>2. CASE ~(IsQuote(t[i]) \/ t[i] = Backtick) /\ Remark(t, i)
  BY <1>2, Zenon DEF CutAt, CutStep, Onward, Remark
<1>3. CASE ~(IsQuote(t[i]) \/ t[i] = Backtick) /\ ~Remark(t, i)
  BY <1>3, Zenon DEF CutAt, CutStep, Onward, Remark
<1> QED BY <1>1, <1>2, <1>3

LEMMA SplitUnfolds ==
  ASSUME NEW t \in Seq(Prose)
  PROVE  \E c : Cuts(c, t) /\ SplitStatements(t) = NonEmpty([k \in DOMAIN c[1] |-> TrimSpace(c[1][k])])
<1> DEFINE n == Len(t) + 1
           base == [i \in 1..n |-> << <<>> >>]
           jump == [i \in 1..n |-> Onward(t, i)]
           step == [p \in (1..Len(t)) \X Pieces |-> CutStep(t, p[1], p[2])]
           Fixed(f) == f = [i \in 1..n |-> CutAt(f, t, i)]
<1>1. n \in Nat /\ Len(t) \in Nat /\ n \in 1..n /\ 1 \in 1..n /\ n > Len(t)
  OBVIOUS
<1>2. << <<>> >> \in Pieces
  BY DEF Pieces
<1>3. \A i \in 1..n : i \notin {n} => i \in 1..Len(t) /\ ~(i > Len(t))
  BY <1>1
<1>4. ASSUME NEW i \in 1..Len(t), NEW rest \in Pieces
      PROVE  step[<<i, rest>>] = CutStep(t, i, rest) /\ step[<<i, rest>>] \in Pieces
  <2>1. <<i, rest>> \in (1..Len(t)) \X Pieces /\ <<i, rest>>[1] = i /\ <<i, rest>>[2] = rest
    OBVIOUS
  <2>2. step[<<i, rest>>] = CutStep(t, i, rest)
    BY <2>1
  <2> HIDE DEF step
  <2> QED BY <2>2, CutStepType
<1>5. \A i \in 1..Len(t) : i \in 1..n /\ jump[i] = Onward(t, i) /\ jump[i] \in (i + 1)..n
  BY <1>1, OnwardRange
<1>6. \A i \in 1..n : base[i] \in Pieces /\ base[i] = << <<>> >>
  BY <1>2
<1> HIDE DEF n, base, jump, step
<1>7. StepsBackward(n, Pieces, {n}, base, jump, step)
  BY <1>3, <1>4, <1>5, <1>6, Zenon DEF StepsBackward
<1>8. PICK f : Backward(n, Pieces, {n}, base, jump, step, f)
  BY <1>1, <1>7, BackwardRecursion
<1>9. f \in [1..n -> Pieces] /\ f[n] = << <<>> >>
  BY <1>1, <1>6, <1>8 DEF Backward
<1>10. ASSUME NEW i \in 1..n PROVE f[i] = CutAt(f, t, i)
  <2>1. CASE i = n
    <3>1. CutAt(f, t, n) = << <<>> >>
      BY <1>1, Zenon DEF CutAt
    <3> QED BY <1>9, <2>1, <3>1
  <2>2. CASE i # n
    <3>1. i \in 1..Len(t) /\ ~(i > Len(t)) /\ f[i] = step[<<i, f[jump[i]]>>]
      BY <1>3, <1>8, <2>2 DEF Backward
    <3>2. jump[i] = Onward(t, i) /\ jump[i] \in 1..n
      BY <1>1, <1>5, <3>1
    <3>3. f[jump[i]] \in Pieces
      BY <1>9, <3>2
    <3>4. f[i] = CutStep(t, i, f[Onward(t, i)])
      BY <1>4, <3>1, <3>2, <3>3
    <3> QED BY <3>1, <3>4, CutAtIsStep
  <2> QED BY <2>1, <2>2
<1>11. Fixed(f)
  BY <1>9, <1>10
<1> DEFINE g == CHOOSE h : Fixed(h)
<1>12. Fixed(g)
  <2> HIDE DEF Fixed
  <2> QED BY <1>11
<1>13. SplitStatements(t) = NonEmpty([k \in DOMAIN g[1] |-> TrimSpace(g[1][k])])
  BY DEF SplitStatements, CutAt, n
<1>14. \A i \in 1..n : g[i] = CutAt(g, t, i)
  <2> HIDE DEF g
  <2> QED BY <1>12
<1> HIDE DEF g
<1>15. g[n] = << <<>> >>
  <2>1. CutAt(g, t, n) = << <<>> >>
    BY <1>1, Zenon DEF CutAt
  <2> QED BY <1>1, <1>14, <2>1
<1>16. ASSUME NEW i \in 1..Len(t) PROVE g[i] = CutStep(t, i, g[Onward(t, i)])
  <2>1. i \in 1..n /\ ~(i > Len(t))
    BY <1>1 DEF n
  <2> QED BY <1>14, <2>1, CutAtIsStep
<1> DEFINE typed == {i \in 1..n : g[i] \in Pieces}
<1>17. ASSUME NEW i \in 1..n, \A j \in (i + 1)..n : j \in typed PROVE i \in typed
  <2>1. CASE i = n
    BY <1>2, <1>15, <2>1
  <2>2. CASE i # n
    <3>1. i \in 1..Len(t)
      BY <1>3, <2>2
    <3>2. Onward(t, i) \in (i + 1)..n
      BY <3>1, OnwardRange DEF n
    <3>3. g[Onward(t, i)] \in Pieces
      BY <1>17, <3>2
    <3>4. g[i] \in Pieces
      BY <1>16, <3>1, <3>3, CutStepType
    <3> QED BY <3>4
  <2> QED BY <2>1, <2>2
<1>18. typed = 1..n
  <2>1. typed \in SUBSET (1..n)
    OBVIOUS
  <2> HIDE DEF typed
  <2> QED BY <1>1, <1>17, <2>1, FromTheEnd
<1>19. \A i \in 1..n : g[i] \in Pieces
  BY <1>18
<1> QED BY <1>13, <1>15, <1>16, <1>19 DEF Cuts, n

-----------------------------------------------------------------------------
(* Statements and pieces that are not empty *)

Lists(S) == {parts \in Seq(Seq(S)) : parts # <<>>}

(* An empty part in front of others.                                        *)
LEMMA NewPart ==
  ASSUME NEW S, NEW parts \in Lists(S)
  PROVE  /\ << <<>> >> \o parts \in Lists(S)
         /\ Len(parts) \in Nat \ {0} /\ Len(<< <<>> >> \o parts) = Len(parts) + 1
         /\ (<< <<>> >> \o parts)[1] = <<>>
         /\ \A k \in 2..(Len(parts) + 1) : (<< <<>> >> \o parts)[k] = parts[k - 1]
<1> DEFINE T == Seq(S)
           one == << <<>> >>
<1>1. one \in Seq(T) /\ Len(one) = 1 /\ one[1] = <<>> /\ parts \in Seq(T) /\ Len(parts) \in Nat \ {0}
  BY DEF Lists
<1> HIDE DEF T, one
<1>2. /\ one \o parts \in Seq(T) /\ Len(one \o parts) = Len(one) + Len(parts)
      /\ \A k \in 1..(Len(one) + Len(parts)) : (one \o parts)[k] = IF k <= Len(one) THEN one[k] ELSE parts[k - Len(one)]
  <2>1. one \in Seq(T) /\ parts \in Seq(T)
    BY <1>1
  <2> QED BY <2>1, ConcatProperties, Zenon
<1>3. (one \o parts)[1] = <<>>
  <2>1. 1 \in 1..(Len(one) + Len(parts)) /\ 1 <= Len(one)
    BY <1>1
  <2> QED BY <1>1, <1>2, <2>1
<1>4. ASSUME NEW k \in 2..(Len(parts) + 1) PROVE (one \o parts)[k] = parts[k - 1]
  <2>1. k \in 1..(Len(one) + Len(parts)) /\ ~(k <= Len(one)) /\ k - Len(one) = k - 1
    BY <1>1
  <2> QED BY <1>2, <2>1
<1>5. Len(one \o parts) = Len(parts) + 1 /\ one \o parts # <<>>
  <2>1. Len(one \o parts) = Len(parts) + 1
    BY <1>1, <1>2
  <2>2. Len(parts) + 1 # 0
    BY <1>1
  <2> QED BY <2>1, <2>2
<1> QED BY <1>1, <1>2, <1>3, <1>4, <1>5 DEF Lists, T, one

(* StatementsOf, before it drops what is empty.                             *)
GroupAt(f, tokens, i) ==
  IF i > Len(tokens) THEN << <<>> >>
  ELSE IF tokens[i] = <<";">> THEN << <<>> >> \o f[i + 1]
  ELSE Onto(<<tokens[i]>>, f[i + 1])
Groups(tokens) == LET From[i \in 1..(Len(tokens) + 1)] == GroupAt(From, tokens, i) IN From[1]
GroupStep(token, rest) == IF token = <<";">> THEN << <<>> >> \o rest ELSE Onto(<<token>>, rest)
Grouped(f, tokens, S) ==
  /\ f[Len(tokens) + 1] = << <<>> >>
  /\ \A i \in 1..Len(tokens) : f[i] = GroupStep(tokens[i], f[i + 1])
  /\ \A i \in 1..(Len(tokens) + 1) : f[i] \in Lists(S)

LEMMA StatementsAreGroups == ASSUME NEW tokens PROVE StatementsOf(tokens) = NonEmpty(Groups(tokens))
BY DEF StatementsOf, Groups, GroupAt

LEMMA GroupStepType ==
  ASSUME NEW S, NEW token \in S, NEW rest \in Lists(S) PROVE GroupStep(token, rest) \in Lists(S)
<1>1. << <<>> >> \o rest \in Lists(S)
  BY NewPart
<1>2. Onto(<<token>>, rest) \in Lists(S)
  <2>1. <<token>> \in Seq(S) /\ rest \in Seq(Seq(S)) /\ rest # <<>>
    BY DEF Lists
  <2> QED BY <2>1, OntoPart DEF Lists, Prepends
<1> QED BY <1>1, <1>2 DEF GroupStep

LEMMA GroupsUnfold ==
  ASSUME NEW S, NEW tokens \in Seq(S)
  PROVE  \E f : Grouped(f, tokens, S) /\ Groups(tokens) = f[1]
<1> DEFINE n == Len(tokens) + 1
           base == [i \in 1..n |-> << <<>> >>]
           jump == [i \in 1..n |-> i + 1]
           step == [p \in (1..Len(tokens)) \X Lists(S) |-> GroupStep(tokens[p[1]], p[2])]
           Fixed(f) == f = [i \in 1..n |-> GroupAt(f, tokens, i)]
<1>1. n \in Nat /\ Len(tokens) \in Nat /\ n \in 1..n /\ 1 \in 1..n /\ n > Len(tokens)
  OBVIOUS
<1>2. << <<>> >> \in Lists(S) /\ \A i \in 1..Len(tokens) : tokens[i] \in S
  BY DEF Lists
<1>3. \A i \in 1..n : i \notin {n} => i \in 1..Len(tokens) /\ ~(i > Len(tokens))
  BY <1>1
<1>4. ASSUME NEW i \in 1..Len(tokens), NEW rest \in Lists(S)
      PROVE  step[<<i, rest>>] = GroupStep(tokens[i], rest) /\ step[<<i, rest>>] \in Lists(S)
  <2>1. <<i, rest>> \in (1..Len(tokens)) \X Lists(S) /\ <<i, rest>>[1] = i /\ <<i, rest>>[2] = rest
    OBVIOUS
  <2>2. step[<<i, rest>>] = GroupStep(tokens[i], rest)
    BY <2>1
  <2> HIDE DEF step
  <2> QED BY <1>2, <2>2, GroupStepType
<1>5. \A i \in 1..Len(tokens) : i \in 1..n /\ jump[i] = i + 1 /\ jump[i] \in (i + 1)..n /\ i + 1 \in (i + 1)..n
  BY <1>1
<1>6. \A i \in 1..n : base[i] \in Lists(S) /\ base[i] = << <<>> >>
  BY <1>2
<1> HIDE DEF n, base, jump, step
<1>7. StepsBackward(n, Lists(S), {n}, base, jump, step)
  BY <1>3, <1>4, <1>5, <1>6, Zenon DEF StepsBackward
<1>8. PICK f : Backward(n, Lists(S), {n}, base, jump, step, f)
  BY <1>1, <1>7, BackwardRecursion
<1>9. f \in [1..n -> Lists(S)] /\ f[n] = << <<>> >>
  BY <1>1, <1>6, <1>8 DEF Backward
<1>10. ASSUME NEW i \in 1..n PROVE f[i] = GroupAt(f, tokens, i)
  <2>1. CASE i = n
    <3>1. GroupAt(f, tokens, n) = << <<>> >>
      BY <1>1, Zenon DEF GroupAt
    <3> QED BY <1>9, <2>1, <3>1
  <2>2. CASE i # n
    <3>1. i \in 1..Len(tokens) /\ ~(i > Len(tokens)) /\ f[i] = step[<<i, f[jump[i]]>>]
      BY <1>3, <1>8, <2>2 DEF Backward
    <3>2. jump[i] = i + 1 /\ jump[i] \in 1..n
      BY <1>1, <1>5, <3>1
    <3>3. f[jump[i]] \in Lists(S)
      BY <1>9, <3>2
    <3>4. f[i] = GroupStep(tokens[i], f[i + 1])
      BY <1>4, <3>1, <3>2, <3>3
    <3> QED BY <3>1, <3>4, Zenon DEF GroupAt, GroupStep
  <2> QED BY <2>1, <2>2
<1>11. Fixed(f)
  BY <1>9, <1>10
<1> DEFINE g == CHOOSE h : Fixed(h)
<1>12. Fixed(g)
  <2> HIDE DEF Fixed
  <2> QED BY <1>11
<1>13. Groups(tokens) = g[1]
  BY DEF Groups, n
<1>14. \A i \in 1..n : g[i] = GroupAt(g, tokens, i)
  <2> HIDE DEF g
  <2> QED BY <1>12
<1> HIDE DEF g
<1>15. g[n] = << <<>> >>
  <2>1. GroupAt(g, tokens, n) = << <<>> >>
    BY <1>1, Zenon DEF GroupAt
  <2> QED BY <1>1, <1>14, <2>1
<1>16. ASSUME NEW i \in 1..Len(tokens) PROVE g[i] = GroupStep(tokens[i], g[i + 1])
  <2>1. i \in 1..n /\ ~(i > Len(tokens))
    BY <1>1 DEF n
  <2> QED BY <1>14, <2>1, Zenon DEF GroupAt, GroupStep
<1> DEFINE typed == {i \in 1..n : g[i] \in Lists(S)}
<1>17. ASSUME NEW i \in 1..n, \A j \in (i + 1)..n : j \in typed PROVE i \in typed
  <2>1. CASE i = n
    BY <1>2, <1>15, <2>1
  <2>2. CASE i # n
    <3>1. i \in 1..Len(tokens)
      BY <1>3, <2>2
    <3>2. g[i + 1] \in Lists(S)
      BY <1>5, <1>17, <3>1
    <3>3. g[i] \in Lists(S)
      BY <1>2, <1>16, <3>1, <3>2, GroupStepType
    <3> QED BY <3>3
  <2> QED BY <2>1, <2>2
<1>18. typed = 1..n
  <2>1. typed \in SUBSET (1..n)
    OBVIOUS
  <2> HIDE DEF typed
  <2> QED BY <1>1, <1>17, <2>1, FromTheEnd
<1>19. \A i \in 1..n : g[i] \in Lists(S)
  BY <1>18
<1> QED BY <1>13, <1>15, <1>16, <1>19 DEF Grouped, n

(* What a token in front of others makes of their statements.               *)
LEMMA GroupsGo ==
  ASSUME NEW S, NEW token \in S, NEW tokens \in Seq(S)
  PROVE  /\ Groups(<<token>> \o tokens) = GroupStep(token, Groups(tokens))
         /\ Groups(tokens) \in Lists(S)
<1> DEFINE all == <<token>> \o tokens
           n == Len(tokens) + 1
<1>1. all \in Seq(S) /\ Len(all) = n /\ Len(tokens) \in Nat /\ all[1] = token /\ \A i \in 1..Len(tokens) : all[i + 1] = tokens[i]
  <2> DEFINE one == <<token>>
  <2>1. one \in Seq(S) /\ Len(one) = 1 /\ one[1] = token /\ Len(tokens) \in Nat
    OBVIOUS
  <2> HIDE DEF one
  <2>2. /\ one \o tokens \in Seq(S) /\ Len(one \o tokens) = Len(one) + Len(tokens)
        /\ \A k \in 1..(Len(one) + Len(tokens)) : (one \o tokens)[k] = IF k <= Len(one) THEN one[k] ELSE tokens[k - Len(one)]
    BY <2>1, ConcatProperties, Zenon
  <2>3. (one \o tokens)[1] = token
    <3>1. 1 \in 1..(Len(one) + Len(tokens)) /\ 1 <= Len(one)
      BY <2>1
    <3> QED BY <2>1, <2>2, <3>1
  <2>4. ASSUME NEW i \in 1..Len(tokens) PROVE (one \o tokens)[i + 1] = tokens[i]
    <3>1. i + 1 \in 1..(Len(one) + Len(tokens)) /\ ~(i + 1 <= Len(one)) /\ (i + 1) - Len(one) = i
      BY <2>1
    <3> QED BY <2>2, <3>1
  <2>5. Len(one \o tokens) = n
    BY <2>1, <2>2
  <2> QED BY <2>1, <2>2, <2>3, <2>4, <2>5 DEF one
<1> HIDE DEF all
<1>2. PICK f : Grouped(f, all, S) /\ Groups(all) = f[1]
  BY <1>1, GroupsUnfold
<1>3. PICK g : Grouped(g, tokens, S) /\ Groups(tokens) = g[1]
  BY GroupsUnfold
<1> DEFINE same == {i \in 1..n : f[i + 1] = g[i]}
<1>4. ASSUME NEW i \in 1..n, \A j \in (i + 1)..n : j \in same PROVE i \in same
  <2>1. CASE i = n
    <3>1. f[i + 1] = << <<>> >>
      BY <1>1, <1>2, <2>1 DEF Grouped
    <3>2. g[i] = << <<>> >>
      BY <1>3, <2>1 DEF Grouped
    <3> QED BY <3>1, <3>2
  <2>2. CASE i # n
    <3>1. i \in 1..Len(tokens) /\ i + 1 \in 1..Len(all) /\ i + 1 \in (i + 1)..n
      BY <1>1, <2>2
    <3>2. f[i + 1] = GroupStep(all[i + 1], f[(i + 1) + 1])
      BY <1>2, <3>1 DEF Grouped
    <3>3. g[i] = GroupStep(tokens[i], g[i + 1])
      BY <1>3, <3>1 DEF Grouped
    <3>4. f[(i + 1) + 1] = g[i + 1]
      BY <1>4, <3>1
    <3> QED BY <1>1, <3>1, <3>2, <3>3, <3>4
  <2> QED BY <2>1, <2>2
<1>5. same = 1..n
  <2>1. same \in SUBSET (1..n) /\ n \in Nat
    BY <1>1
  <2> HIDE DEF same, n
  <2> QED BY <1>4, <2>1, FromTheEnd
<1>6. f[1 + 1] = g[1]
  <2>1. 1 \in 1..n
    BY <1>1
  <2> QED BY <1>5, <2>1
<1>7. f[1] = GroupStep(all[1], f[1 + 1])
  <2>1. 1 \in 1..Len(all)
    BY <1>1
  <2> QED BY <1>2, <2>1 DEF Grouped
<1>8. g[1] \in Lists(S)
  <2>1. 1 \in 1..(Len(tokens) + 1)
    BY <1>1
  <2> QED BY <1>3, <2>1 DEF Grouped
<1> QED BY <1>1, <1>2, <1>3, <1>6, <1>7, <1>8 DEF all

LEMMA NoGroups == Groups(<<>>) = << <<>> >>
<1>1. <<>> \in Seq({}) /\ Len(<<>>) + 1 = 1
  OBVIOUS
<1>2. PICK f : Grouped(f, <<>>, {}) /\ Groups(<<>>) = f[1]
  BY <1>1, GroupsUnfold
<1> QED BY <1>1, <1>2 DEF Grouped

(* What NonEmpty keeps of the parts from k on.                              *)
KeptAt(f, parts, k) ==
  IF k > Len(parts) THEN <<>>
  ELSE IF parts[k] = <<>> THEN f[k + 1]
  ELSE <<parts[k]>> \o f[k + 1]
KeptStep(part, rest) == IF part = <<>> THEN rest ELSE <<part>> \o rest
Kept(f, parts, S) ==
  /\ f[Len(parts) + 1] = <<>>
  /\ \A k \in 1..Len(parts) : f[k] = KeptStep(parts[k], f[k + 1])
  /\ \A k \in 1..(Len(parts) + 1) : f[k] \in Seq(S)

LEMMA NonEmptyUnfolds ==
  ASSUME NEW S, NEW parts \in Seq(S)
  PROVE  \E f : Kept(f, parts, S) /\ NonEmpty(parts) = f[1]
<1> DEFINE n == Len(parts) + 1
           base == [i \in 1..n |-> <<>>]
           jump == [i \in 1..n |-> i + 1]
           step == [p \in (1..Len(parts)) \X Seq(S) |-> KeptStep(parts[p[1]], p[2])]
           Fixed(f) == f = [i \in 1..n |-> KeptAt(f, parts, i)]
<1>1. n \in Nat /\ Len(parts) \in Nat /\ n \in 1..n /\ 1 \in 1..n /\ n > Len(parts)
  OBVIOUS
<1>2. <<>> \in Seq(S) /\ \A i \in 1..Len(parts) : parts[i] \in S
  OBVIOUS
<1>3. \A i \in 1..n : i \notin {n} => i \in 1..Len(parts) /\ ~(i > Len(parts))
  BY <1>1
<1>4. ASSUME NEW i \in 1..Len(parts), NEW rest \in Seq(S)
      PROVE  step[<<i, rest>>] = KeptStep(parts[i], rest) /\ KeptStep(parts[i], rest) \in Seq(S)
  <2>1. <<i, rest>> \in (1..Len(parts)) \X Seq(S) /\ <<i, rest>>[1] = i /\ <<i, rest>>[2] = rest
    OBVIOUS
  <2>2. step[<<i, rest>>] = KeptStep(parts[i], rest)
    BY <2>1
  <2>3. <<parts[i]>> \o rest \in Seq(S)
    BY <1>2
  <2> HIDE DEF step
  <2> QED BY <2>2, <2>3 DEF KeptStep
<1>5. \A i \in 1..Len(parts) : i \in 1..n /\ jump[i] = i + 1 /\ jump[i] \in (i + 1)..n /\ i + 1 \in (i + 1)..n
  BY <1>1
<1>6. \A i \in 1..n : base[i] \in Seq(S) /\ base[i] = <<>>
  BY <1>2
<1> HIDE DEF n, base, jump, step
<1>7. StepsBackward(n, Seq(S), {n}, base, jump, step)
  <2>1. \A i \in 1..Len(parts), rest \in Seq(S) : step[<<i, rest>>] \in Seq(S)
    BY <1>4
  <2> QED BY <1>3, <1>5, <1>6, <2>1, Zenon DEF StepsBackward
<1>8. PICK f : Backward(n, Seq(S), {n}, base, jump, step, f)
  BY <1>1, <1>7, BackwardRecursion
<1>9. f \in [1..n -> Seq(S)] /\ f[n] = <<>>
  BY <1>1, <1>6, <1>8 DEF Backward
<1>10. ASSUME NEW i \in 1..n PROVE f[i] = KeptAt(f, parts, i)
  <2>1. CASE i = n
    <3>1. KeptAt(f, parts, n) = <<>>
      BY <1>1, Zenon DEF KeptAt
    <3> QED BY <1>9, <2>1, <3>1
  <2>2. CASE i # n
    <3>1. i \in 1..Len(parts) /\ ~(i > Len(parts)) /\ f[i] = step[<<i, f[jump[i]]>>]
      BY <1>3, <1>8, <2>2 DEF Backward
    <3>2. jump[i] = i + 1 /\ jump[i] \in 1..n
      BY <1>1, <1>5, <3>1
    <3>3. f[jump[i]] \in Seq(S)
      BY <1>9, <3>2
    <3>4. f[i] = KeptStep(parts[i], f[i + 1])
      BY <1>4, <3>1, <3>2, <3>3
    <3> QED BY <3>1, <3>4, Zenon DEF KeptAt, KeptStep
  <2> QED BY <2>1, <2>2
<1>11. Fixed(f)
  BY <1>9, <1>10
<1> DEFINE g == CHOOSE h : Fixed(h)
<1>12. Fixed(g)
  <2> HIDE DEF Fixed
  <2> QED BY <1>11
<1>13. NonEmpty(parts) = g[1]
  BY DEF NonEmpty, KeptAt, n
<1>14. \A i \in 1..n : g[i] = KeptAt(g, parts, i)
  <2> HIDE DEF g
  <2> QED BY <1>12
<1> HIDE DEF g
<1>15. g[n] = <<>>
  <2>1. KeptAt(g, parts, n) = <<>>
    BY <1>1, Zenon DEF KeptAt
  <2> QED BY <1>1, <1>14, <2>1
<1>16. ASSUME NEW i \in 1..Len(parts) PROVE g[i] = KeptStep(parts[i], g[i + 1])
  <2>1. i \in 1..n /\ ~(i > Len(parts))
    BY <1>1 DEF n
  <2> QED BY <1>14, <2>1, Zenon DEF KeptAt, KeptStep
<1> DEFINE typed == {i \in 1..n : g[i] \in Seq(S)}
<1>17. ASSUME NEW i \in 1..n, \A j \in (i + 1)..n : j \in typed PROVE i \in typed
  <2>1. CASE i = n
    BY <1>2, <1>15, <2>1
  <2>2. CASE i # n
    <3>1. i \in 1..Len(parts)
      BY <1>3, <2>2
    <3>2. g[i + 1] \in Seq(S)
      BY <1>5, <1>17, <3>1
    <3>3. g[i] \in Seq(S)
      BY <1>4, <1>16, <3>1, <3>2
    <3> QED BY <3>3
  <2> QED BY <2>1, <2>2
<1>18. typed = 1..n
  <2>1. typed \in SUBSET (1..n)
    OBVIOUS
  <2> HIDE DEF typed
  <2> QED BY <1>1, <1>17, <2>1, FromTheEnd
<1>19. \A i \in 1..n : g[i] \in Seq(S)
  BY <1>18
<1> QED BY <1>13, <1>15, <1>16, <1>19 DEF Kept, n

TokensOf(pieces) == [k \in DOMAIN pieces |-> SqlTokens(pieces[k])]

LEMMA TokensOfMore ==
  ASSUME NEW S, NEW piece \in S, NEW pieces \in Seq(S)
  PROVE  TokensOf(<<piece>> \o pieces) = <<SqlTokens(piece)>> \o TokensOf(pieces)
<1> DEFINE T == {SqlTokens(p) : p \in S}
           one == <<piece>>
           first == <<SqlTokens(piece)>>
           m == Len(pieces)
           rest == TokensOf(pieces)
<1>1. one \in Seq(S) /\ Len(one) = 1 /\ one[1] = piece /\ m \in Nat /\ DOMAIN pieces = 1..m
  OBVIOUS
<1>2. first \in Seq(T) /\ Len(first) = 1 /\ first[1] = SqlTokens(piece)
  OBVIOUS
<1>3. rest \in Seq(T) /\ Len(rest) = m /\ \A k \in 1..m : rest[k] = SqlTokens(pieces[k])
  <2>1. rest = [k \in 1..m |-> SqlTokens(pieces[k])]
    BY <1>1 DEF TokensOf
  <2>2. \A k \in 1..m : SqlTokens(pieces[k]) \in T
    OBVIOUS
  <2> HIDE DEF T, m, rest
  <2> QED BY <1>1, <2>1, <2>2
<1> HIDE DEF one, first, rest
<1>4. /\ one \o pieces \in Seq(S) /\ Len(one \o pieces) = Len(one) + m
      /\ \A k \in 1..(Len(one) + m) : (one \o pieces)[k] = IF k <= Len(one) THEN one[k] ELSE pieces[k - Len(one)]
  BY <1>1, ConcatProperties, Zenon
<1> HIDE DEF T
<1>5. /\ first \o rest \in Seq(T) /\ Len(first \o rest) = Len(first) + Len(rest)
      /\ \A k \in 1..(Len(first) + Len(rest)) : (first \o rest)[k] = IF k <= Len(first) THEN first[k] ELSE rest[k - Len(first)]
  <2>1. first \in Seq(T) /\ rest \in Seq(T)
    BY <1>2, <1>3
  <2> QED BY <2>1, ConcatProperties, Zenon
<1> DEFINE all == TokensOf(one \o pieces)
<1>6. all = [k \in 1..(1 + m) |-> SqlTokens((one \o pieces)[k])]
  <2>1. DOMAIN (one \o pieces) = 1..(1 + m)
    BY <1>1, <1>4
  <2> QED BY <2>1 DEF TokensOf
<1> HIDE DEF all
<1>7. ASSUME NEW k \in 1..(1 + m) PROVE all[k] = (first \o rest)[k] /\ (first \o rest)[k] \in T
  <2>1. all[k] = SqlTokens((one \o pieces)[k])
    BY <1>6
  <2>2. CASE k = 1
    <3>1. k \in 1..(Len(one) + m) /\ k <= Len(one) /\ k \in 1..(Len(first) + Len(rest)) /\ k <= Len(first)
      BY <1>1, <1>2, <1>3, <2>2
    <3>2. (one \o pieces)[k] = piece /\ (first \o rest)[k] = SqlTokens(piece)
      BY <1>1, <1>2, <1>4, <1>5, <2>2, <3>1
    <3> QED BY <2>1, <3>2 DEF T
  <2>3. CASE k # 1
    <3>1. /\ k \in 1..(Len(one) + m) /\ ~(k <= Len(one)) /\ k - Len(one) = k - 1
          /\ k \in 1..(Len(first) + Len(rest)) /\ ~(k <= Len(first)) /\ k - Len(first) = k - 1 /\ k - 1 \in 1..m
      BY <1>1, <1>2, <1>3, <2>3
    <3>2. (one \o pieces)[k] = pieces[k - 1] /\ (first \o rest)[k] = rest[k - 1] /\ rest[k - 1] = SqlTokens(pieces[k - 1])
      BY <1>3, <1>4, <1>5, <3>1
    <3>3. pieces[k - 1] \in S
      BY <1>1, <3>1
    <3> QED BY <2>1, <3>2, <3>3 DEF T
  <2> QED BY <2>2, <2>3
<1>8. all \in Seq(T) /\ Len(all) = 1 + m
  <2> DEFINE n == 1 + m
  <2>1. n \in Nat
    BY <1>1
  <2>2. \A k \in 1..n : all[k] \in T
    BY <1>7, Zenon
  <2>3. all = [k \in 1..n |-> SqlTokens((one \o pieces)[k])]
    BY <1>6
  <2> HIDE DEF n
  <2>4. all = [k \in 1..n |-> all[k]]
    BY <2>3
  <2>5. all \in Seq(T) /\ Len(all) = n
    BY <2>1, <2>2, <2>4
  <2> QED BY <2>5 DEF n
<1>9. all = first \o rest
  <2>1. Len(first \o rest) = 1 + m /\ first \o rest \in Seq(T)
    BY <1>2, <1>3, <1>5
  <2>2. \A k \in 1..Len(all) : all[k] = (first \o rest)[k]
    BY <1>7, <1>8
  <2> QED BY <1>8, <2>1, <2>2, SeqEqual
<1> QED BY <1>9 DEF all, one, first, rest

(* If the statements are the tokens of the pieces, so are those that are    *)
(* not empty of those that are not.                                         *)
Answers(groups, pieces) ==
  /\ Len(groups) = Len(pieces)
  /\ \A k \in 1..Len(pieces) : /\ groups[k] = <<>> <=> pieces[k] = <<>>
                               /\ pieces[k] # <<>> => groups[k] = SqlTokens(pieces[k])

LEMMA KeptTogether ==
  ASSUME NEW S, NEW T, NEW groups \in Seq(S), NEW pieces \in Seq(T), Answers(groups, pieces)
  PROVE  NonEmpty(groups) = TokensOf(NonEmpty(pieces))
<1> DEFINE n == Len(pieces) + 1
<1>1. /\ Len(groups) = Len(pieces)
      /\ \A k \in 1..Len(pieces) : /\ groups[k] = <<>> <=> pieces[k] = <<>>
                                   /\ pieces[k] # <<>> => groups[k] = SqlTokens(pieces[k])
  BY DEF Answers
<1>2. PICK f : Kept(f, groups, S) /\ NonEmpty(groups) = f[1]
  BY NonEmptyUnfolds
<1>3. PICK g : Kept(g, pieces, T) /\ NonEmpty(pieces) = g[1]
  BY NonEmptyUnfolds
<1> DEFINE same == {k \in 1..n : f[k] = TokensOf(g[k])}
<1>4. ASSUME NEW k \in 1..n, \A j \in (k + 1)..n : j \in same PROVE k \in same
  <2>1. CASE k = n
    <3>1. f[k] = <<>> /\ g[k] = <<>>
      BY <1>2, <1>3, <1>1, <2>1 DEF Kept
    <3>2. TokensOf(<<>>) = <<>>
      BY DEF TokensOf
    <3> QED BY <3>1, <3>2
  <2>2. CASE k # n
    <3>1. k \in 1..Len(pieces) /\ k + 1 \in (k + 1)..n /\ k + 1 \in 1..(Len(pieces) + 1)
      BY <2>2
    <3>2. f[k + 1] = TokensOf(g[k + 1])
      BY <1>4, <3>1
    <3>3. f[k] = KeptStep(groups[k], f[k + 1]) /\ g[k] = KeptStep(pieces[k], g[k + 1])
      BY <1>2, <1>3, <1>1, <3>1 DEF Kept
    <3>4. g[k + 1] \in Seq(T) /\ pieces[k] \in T
      BY <1>3, <3>1 DEF Kept
    <3>5. CASE pieces[k] = <<>>
      BY <1>1, <3>1, <3>2, <3>3, <3>5 DEF KeptStep
    <3>6. CASE pieces[k] # <<>>
      <4>1. f[k] = <<SqlTokens(pieces[k])>> \o f[k + 1] /\ g[k] = <<pieces[k]>> \o g[k + 1]
        BY <1>1, <3>1, <3>3, <3>6 DEF KeptStep
      <4>2. TokensOf(<<pieces[k]>> \o g[k + 1]) = <<SqlTokens(pieces[k])>> \o TokensOf(g[k + 1])
        BY <3>4, TokensOfMore
      <4>3. f[k] = TokensOf(g[k])
        BY <3>2, <4>1, <4>2
      <4> QED BY <4>3
    <3> QED BY <3>5, <3>6
  <2> QED BY <2>1, <2>2
<1>5. same = 1..n
  <2>1. same \in SUBSET (1..n) /\ n \in Nat
    OBVIOUS
  <2> HIDE DEF same, n
  <2> QED BY <1>4, <2>1, FromTheEnd
<1>6. 1 \in 1..n
  OBVIOUS
<1> QED BY <1>2, <1>3, <1>5, <1>6

-----------------------------------------------------------------------------
(* The pieces of an orderly text have its tokens *)

LEMMA LexTyped ==
  ASSUME NEW t, Len(t) \in Nat, NEW f, Lexes(f, t), NEW i \in 1..(Len(t) + 1)
  PROVE  f[i] \in Seq({Token(t, j) : j \in 1..Len(t)})
<1> DEFINE n == Len(t) + 1
           S == {Token(t, j) : j \in 1..Len(t)}
           typed == {k \in 1..n : f[k] \in Seq(S)}
<1>1. n \in Nat /\ i \in 1..n
  OBVIOUS
<1>2. ASSUME NEW k \in 1..n, \A j \in (k + 1)..n : j \in typed PROVE k \in typed
  <2>1. CASE k = n
    <3>1. f[k] = <<>>
      BY <2>1 DEF Lexes
    <3>2. <<>> \in Seq(S)
      OBVIOUS
    <3> QED BY <3>1, <3>2
  <2>2. CASE k # n
    <3>1. k \in 1..Len(t)
      BY <2>2
    <3>2. Beyond(t, k) \in (k + 1)..n
      BY <3>1, BeyondRange
    <3>3. f[Beyond(t, k)] \in Seq(S)
      BY <1>2, <3>2
    <3>4. Token(t, k) \in S
      BY <3>1
    <3>5. f[k] = IF Passes(t, k) THEN f[Beyond(t, k)] ELSE <<Token(t, k)>> \o f[Beyond(t, k)]
      BY <3>1 DEF Lexes
    <3> HIDE DEF S, n
    <3>6. <<Token(t, k)>> \o f[Beyond(t, k)] \in Seq(S)
      BY <3>3, <3>4
    <3>7. f[k] \in Seq(S)
      BY <3>3, <3>5, <3>6
    <3> QED BY <3>7
  <2> QED BY <2>1, <2>2
<1>3. typed = 1..n
  <2>1. typed \in SUBSET (1..n)
    OBVIOUS
  <2> HIDE DEF typed, n
  <2> QED BY <1>1, <1>2, <2>1, FromTheEnd
<1> QED BY <1>1, <1>3

(* The positions where SplitStatements stops, once it reads the text.       *)
OnStops(t, positions) == 1 \in positions /\ \A i \in positions : i <= Len(t) => Onward(t, i) \in positions
Stops(t) == {i \in 1..(Len(t) + 1) : \A positions \in SUBSET (1..(Len(t) + 1)) : OnStops(t, positions) => i \in positions}

LEMMA StopsGoOn ==
  ASSUME NEW t, Len(t) \in Nat
  PROVE  1 \in Stops(t) /\ \A i \in Stops(t) : i \in 1..(Len(t) + 1) /\ (i <= Len(t) => Onward(t, i) \in Stops(t))
<1>1. 1 \in Stops(t)
  BY DEF Stops, OnStops
<1>2. ASSUME NEW i \in Stops(t) PROVE i \in 1..(Len(t) + 1) /\ (i <= Len(t) => Onward(t, i) \in Stops(t))
  <2>1. i \in 1..(Len(t) + 1)
    BY DEF Stops
  <2>2. ASSUME i <= Len(t) PROVE Onward(t, i) \in Stops(t)
    <3>1. i \in 1..Len(t)
      BY <2>1, <2>2
    <3>2. Onward(t, i) \in (i + 1)..(Len(t) + 1)
      BY <3>1, OnwardRange
    <3>3. Onward(t, i) \in 1..(Len(t) + 1)
      BY <2>1, <3>2
    <3>4. ASSUME NEW positions \in SUBSET (1..(Len(t) + 1)), OnStops(t, positions) PROVE Onward(t, i) \in positions
      <4>1. i \in positions
        BY <3>4 DEF Stops
      <4> QED BY <2>2, <3>4, <4>1 DEF OnStops
    <3> QED BY <3>3, <3>4 DEF Stops
  <2> QED BY <2>1, <2>2
<1> QED BY <1>1, <1>2

(* The part of t from i to before end stands in p, d further on.            *)
Stands(p, d, t, i, end) == \A j \in i..(end - 1) : j + d \in 1..Len(p) /\ p[j + d] = t[j]

(* The quote that opens at i is closed when a blank at the end of the text  *)
(* leaves it as it is; it then ends alike wherever it stands.              *)
Space == " "
Closes(t, i) == SkipQuoted(t \o <<Space>>, i) = SkipQuoted(t, i)

LEMMA SpaceIsBlank == Space \in Written /\ IsSpace(Space) /\ Space # "\\"
<1>1. " " # "\\"
  OBVIOUS
<1> QED BY <1>1, Zenon DEF Space, Written, IsSpace

LEMMA ClosedLiteral ==
  ASSUME NEW t \in Seq(Written), NEW i \in 1..Len(t), IsQuote(t[i]), Closes(t, i),
         NEW p, Len(p) \in Nat, NEW d \in Int, i + d \in 1..Len(p), p[i + d] = t[i]
  PROVE  LET end == SkipQuoted(t, i) IN
         /\ end \in (i + 2)..(Len(t) + 1) /\ t[end - 1] = t[i] /\ (end <= Len(t) => t[end] # t[i])
         /\ Stands(p, d, t, i, end) /\ (end + d <= Len(p) => p[end + d] # t[i]) => SkipQuoted(p, i + d) = end + d
<1> DEFINE n == Len(t) + 1
           q == t[i]
           u == t \o <<Space>>
           backslash == "\\"
<1>1. Len(t) \in Nat /\ Len(u) = n /\ (\A j \in 1..Len(t) : u[j] = t[j]) /\ u[n] = Space
  <2> DEFINE one == <<Space>>
  <2>1. one \in Seq(Written) /\ Len(one) = 1 /\ one[1] = Space /\ Len(t) \in Nat
    BY SpaceIsBlank
  <2> HIDE DEF one
  <2>2. /\ Len(t \o one) = Len(t) + Len(one)
        /\ \A k \in 1..(Len(t) + Len(one)) : (t \o one)[k] = IF k <= Len(t) THEN t[k] ELSE one[k - Len(t)]
    BY <2>1, ConcatProperties, Zenon
  <2>3. ASSUME NEW j \in 1..Len(t) PROVE (t \o one)[j] = t[j]
    <3>1. j \in 1..(Len(t) + Len(one)) /\ j <= Len(t)
      BY <2>1
    <3> QED BY <2>2, <3>1
  <2>4. (t \o one)[n] = Space
    <3>1. n \in 1..(Len(t) + Len(one)) /\ ~(n <= Len(t)) /\ n - Len(t) = 1
      BY <2>1
    <3> QED BY <2>1, <2>2, <3>1
  <2>5. Len(t \o one) = n
    BY <2>1, <2>2
  <2> QED BY <2>1, <2>3, <2>4, <2>5 DEF one
<1>2. PICK f : Quoted(f, t, i) /\ SkipQuoted(t, i) = f[i + 1]
  BY <1>1, QuotedUnfolds
<1>3. SkipQuoted(u, i) = SkipQuoted(t, i)
  BY DEF Closes
<1> HIDE DEF u
<1>4. PICK h : Quoted(h, u, i) /\ SkipQuoted(u, i) = h[i + 1]
  <2>1. i \in 1..Len(u) /\ Len(u) \in Nat
    BY <1>1
  <2> QED BY <2>1, QuotedUnfolds
<1>5. PICK g : Quoted(g, p, i + d) /\ SkipQuoted(p, i + d) = g[(i + d) + 1]
  BY QuotedUnfolds
<1>6. q # Space /\ q # backslash /\ Space # backslash /\ u[i] = q /\ p[i + d] = q
  <2>1. "'" # "\\" /\ "\"" # "\\"
    OBVIOUS
  <2>2. q # backslash
    BY <2>1, Zenon DEF IsQuote
  <2>3. u[i] = q
    BY <1>1
  <2> QED BY <2>2, <2>3, SpaceIsBlank, Classes, Zenon
<1> HIDE DEF q, backslash
<1>7. ASSUME NEW j \in 1..n PROVE f[j] \in j..n /\ h[j] \in j..(n + 1)
  BY <1>1, <1>2, <1>4, <1>7 DEF Quoted
<1>8. h[n + 1] = n + 1
  <2>1. n + 1 \in 1..(Len(u) + 1) /\ n + 1 > Len(u)
    BY <1>1
  <2> QED BY <2>1, <1>4, Zenon DEF Quoted, QuotedStep, backslash
<1> DEFINE Closed(j) == f[j] \in (j + 1)..n /\ t[f[j] - 1] = q /\ (f[j] <= Len(t) => t[f[j]] # q)
           Moves(j) == Stands(p, d, t, j, f[j]) /\ (f[j] + d <= Len(p) => p[f[j] + d] # q) => g[j + d] = f[j] + d
           good == {j \in 1..n : f[j] = h[j] => Closed(j) /\ Moves(j)}
<1>9. ASSUME NEW j \in 1..Len(t)
      PROVE  /\ f[j] = IF q = "'" /\ t[j] = backslash /\ j < Len(t) THEN f[j + 2]
                       ELSE IF t[j] = q THEN IF j < Len(t) /\ t[j + 1] = q THEN f[j + 2] ELSE j + 1
                       ELSE f[j + 1]
             /\ h[j] = IF q = "'" /\ t[j] = backslash THEN h[j + 2]
                       ELSE IF t[j] = q THEN IF j < Len(t) /\ t[j + 1] = q THEN h[j + 2] ELSE j + 1
                       ELSE h[j + 1]
  <2>1. j \in 1..(Len(t) + 1) /\ ~(j > Len(t))
    BY <1>1
  <2>2. f[j] = QuotedStep(f, t, i, j)
    BY <1>2, <2>1 DEF Quoted
  <2>3. j \in 1..(Len(u) + 1) /\ ~(j > Len(u)) /\ j < Len(u) /\ u[j] = t[j]
    BY <1>1
  <2>4. h[j] = QuotedStep(h, u, i, j)
    BY <1>4, <2>3 DEF Quoted
  <2>5. u[j + 1] = q <=> j < Len(t) /\ t[j + 1] = q
    <3>1. j < Len(t) => j + 1 \in 1..Len(t)
      BY <1>1
    <3>2. ~(j < Len(t)) => j + 1 = n
      BY <1>1
    <3> QED BY <1>1, <1>6, <3>1, <3>2
  <2>6. h[j] = IF q = "'" /\ t[j] = backslash THEN h[j + 2]
               ELSE IF t[j] = q THEN IF u[j + 1] = q THEN h[j + 2] ELSE j + 1
               ELSE h[j + 1]
    BY <1>6, <2>3, <2>4, Zenon DEF QuotedStep, backslash
  <2> QED BY <2>1, <2>2, <2>5, <2>6, Zenon DEF QuotedStep, q, backslash
<1>10. ASSUME NEW j \in 1..Len(t), j + d \in 1..Len(p)
       PROVE  g[j + d] = IF q = "'" /\ p[j + d] = backslash /\ j + d < Len(p) THEN g[(j + d) + 2]
                         ELSE IF p[j + d] = q THEN IF j + d < Len(p) /\ p[(j + d) + 1] = q THEN g[(j + d) + 2] ELSE (j + d) + 1
                         ELSE g[(j + d) + 1]
  <2>1. j + d \in 1..(Len(p) + 1) /\ ~(j + d > Len(p))
    BY <1>10
  <2>2. g[j + d] = QuotedStep(g, p, i + d, j + d)
    BY <1>5, <2>1 DEF Quoted
  <2> QED BY <1>6, <2>1, <2>2, Zenon DEF QuotedStep, backslash
<1>11. ASSUME NEW j \in 1..Len(t), NEW k \in (j + 1)..n, k \in good, f[j] = f[k], f[j] = h[j], h[j] = h[k],
              (/\ j + d \in 1..Len(p) /\ p[j + d] = t[j]
               /\ (j + 1) + d \in 1..Len(p) /\ p[(j + 1) + d] = t[j + 1]) => g[j + d] = g[k + d]
       PROVE  Closed(j) /\ Moves(j)
  <2>1. Closed(k) /\ Moves(k)
    BY <1>11
  <2>2. f[j] \in (k + 1)..n /\ f[j] \in (j + 1)..n
    BY <1>1, <1>11, <2>1
  <2>3. Closed(j)
    BY <1>11, <2>1, <2>2
  <2>4. ASSUME Stands(p, d, t, j, f[j]) PROVE Stands(p, d, t, k, f[k]) /\ g[j + d] = g[k + d]
    <3>1. \A l \in k..(f[k] - 1) : l \in j..(f[j] - 1)
      BY <1>1, <1>11
    <3>2. j \in j..(f[j] - 1) /\ j + 1 \in j..(f[j] - 1)
      BY <1>1, <2>2
    <3> QED BY <1>11, <2>4, <3>1, <3>2 DEF Stands
  <2> HIDE DEF Closed
  <2>5. Moves(j)
    BY <1>11, <2>1, <2>4
  <2> QED BY <2>3, <2>5
<1>12. ASSUME NEW j \in 1..n, \A k \in (j + 1)..n : k \in good, f[j] = h[j] PROVE Closed(j) /\ Moves(j)
  <2>1. CASE j = n
    <3>1. f[n] = n
      BY <1>1, <1>7
    <3>2. n \in 1..(Len(u) + 1) /\ ~(n > Len(u))
      BY <1>1
    <3>3. h[n] = QuotedStep(h, u, i, n)
      BY <1>4, <3>2 DEF Quoted
    <3>4. u[n] # backslash /\ u[n] # u[i]
      BY <1>1, <1>6
    <3>5. h[n] = h[n + 1]
      BY <3>2, <3>3, <3>4, Zenon DEF QuotedStep, backslash
    <3> QED BY <1>1, <1>8, <1>12, <2>1, <3>1, <3>5
  <2>2. CASE j # n
    <3>1. j \in 1..Len(t) /\ j + 1 \in (j + 1)..n /\ (j < Len(t) => j + 2 \in (j + 1)..n)
      BY <1>1, <2>2
    <3>2. (j + 1) + d = (j + d) + 1 /\ (j + 2) + d = (j + d) + 2
      OBVIOUS
    <3>3. j + d \in 1..Len(p) /\ (j + 1) + d \in 1..Len(p) => j + d < Len(p)
      OBVIOUS
    <3>4. CASE q = "'" /\ t[j] = backslash
      <4>1. CASE j < Len(t)
        <5>1. f[j] = f[j + 2] /\ h[j] = h[j + 2]
          BY <1>9, <3>1, <3>4, <4>1
        <5>2. (/\ j + d \in 1..Len(p) /\ p[j + d] = t[j]
               /\ (j + 1) + d \in 1..Len(p) /\ p[(j + 1) + d] = t[j + 1]) => g[j + d] = g[(j + 2) + d]
          BY <1>10, <3>1, <3>2, <3>3, <3>4
        <5>3. j + 2 \in (j + 1)..n /\ j + 2 \in good
          BY <1>12, <3>1, <4>1
        <5> HIDE DEF Closed, Moves, good
        <5> QED BY <1>11, <1>12, <3>1, <5>1, <5>2, <5>3
      <4>2. CASE ~(j < Len(t))
        <5>1. j = Len(t) /\ j + 1 = n /\ j + 2 = n + 1
          BY <1>1, <3>1, <4>2
        <5>2. f[j] = f[n] /\ h[j] = h[n + 1]
          BY <1>6, <1>9, <3>1, <3>4, <4>2, <5>1
        <5>3. f[n] = n /\ n # n + 1
          <6>1. n \in 1..n /\ n # n + 1 /\ \A k \in n..n : k = n
            BY <1>1
          <6>2. f[n] \in n..n
            BY <1>7, <6>1, Zenon
          <6> HIDE DEF n
          <6> QED BY <6>1, <6>2
        <5> QED BY <1>8, <1>12, <5>2, <5>3
      <4> QED BY <4>1, <4>2
    <3>5. CASE ~(q = "'" /\ t[j] = backslash) /\ t[j] = q /\ j < Len(t) /\ t[j + 1] = q
      <4>1. f[j] = f[j + 2] /\ h[j] = h[j + 2]
        BY <1>9, <3>1, <3>5
      <4>2. (/\ j + d \in 1..Len(p) /\ p[j + d] = t[j]
             /\ (j + 1) + d \in 1..Len(p) /\ p[(j + 1) + d] = t[j + 1]) => g[j + d] = g[(j + 2) + d]
        BY <1>10, <3>1, <3>2, <3>3, <3>5
      <4>3. j + 2 \in (j + 1)..n /\ j + 2 \in good
        BY <1>12, <3>1, <3>5
      <4> HIDE DEF Closed, Moves, good
      <4> QED BY <1>11, <1>12, <3>1, <4>1, <4>2, <4>3
    <3>6. CASE ~(q = "'" /\ t[j] = backslash) /\ t[j] = q /\ ~(j < Len(t) /\ t[j + 1] = q)
      <4>1. f[j] = j + 1
        BY <1>9, <3>1, <3>6
      <4>2. (j + 1) - 1 = j /\ j + 1 \in (j + 1)..n /\ (j + 1 <= Len(t) => j < Len(t))
        BY <1>1, <3>1
      <4>3. Closed(j)
        BY <3>6, <4>1, <4>2
      <4>4. ASSUME Stands(p, d, t, j, f[j]), f[j] + d <= Len(p) => p[f[j] + d] # q PROVE g[j + d] = f[j] + d
        <5>1. j \in j..(f[j] - 1)
          BY <4>1, <4>2
        <5>2. j + d \in 1..Len(p) /\ p[j + d] = q
          BY <3>6, <4>4, <5>1 DEF Stands
        <5>3. j + d < Len(p) => f[j] + d <= Len(p) /\ f[j] + d = (j + d) + 1
          BY <4>1, <3>2
        <5>4. ~(j + d < Len(p) /\ p[(j + d) + 1] = q)
          BY <4>4, <5>3
        <5>5. g[j + d] = (j + d) + 1
          BY <1>10, <3>1, <3>6, <5>2, <5>4
        <5> QED BY <3>2, <4>1, <5>5
      <4> HIDE DEF Closed
      <4> QED BY <4>3, <4>4
    <3>7. CASE ~(q = "'" /\ t[j] = backslash) /\ t[j] # q
      <4>1. f[j] = f[j + 1] /\ h[j] = h[j + 1]
        BY <1>9, <3>1, <3>7
      <4>2. (/\ j + d \in 1..Len(p) /\ p[j + d] = t[j]
             /\ (j + 1) + d \in 1..Len(p) /\ p[(j + 1) + d] = t[j + 1]) => g[j + d] = g[(j + 1) + d]
        BY <1>10, <3>1, <3>2, <3>7
      <4>3. j + 1 \in (j + 1)..n /\ j + 1 \in good
        BY <1>12, <3>1
      <4> HIDE DEF Closed, Moves, good
      <4> QED BY <1>11, <1>12, <3>1, <4>1, <4>2, <4>3
    <3> HIDE DEF Closed, Moves
    <3> QED BY <3>4, <3>5, <3>6, <3>7
  <2> HIDE DEF Closed, Moves
  <2> QED BY <2>1, <2>2
<1>13. good = 1..n
  <2>1. good \in SUBSET (1..n) /\ n \in Nat
    BY <1>1
  <2>2. \A j \in 1..n : (\A k \in (j + 1)..n : k \in good) => j \in good
    BY <1>12
  <2> HIDE DEF good, n
  <2> QED BY <2>1, <2>2, FromTheEnd
<1>14. Closed(i + 1) /\ Moves(i + 1)
  <2>1. i + 1 \in 1..n /\ f[i + 1] = h[i + 1]
    BY <1>1, <1>2, <1>3, <1>4
  <2> QED BY <1>13, <2>1
<1> DEFINE end == SkipQuoted(t, i)
<1>15. end = f[i + 1] /\ (i + 1) + d = (i + d) + 1 /\ (i + 1) + 1 = i + 2
  BY <1>2
<1>16. end \in (i + 2)..n /\ t[end - 1] = q /\ (end <= Len(t) => t[end] # q)
  BY <1>14, <1>15
<1>17. ASSUME Stands(p, d, t, i, end), end + d <= Len(p) => p[end + d] # q PROVE SkipQuoted(p, i + d) = end + d
  <2>1. Stands(p, d, t, i + 1, f[i + 1])
    <3>1. \A j \in (i + 1)..(end - 1) : j \in i..(end - 1)
      BY <1>16
    <3> HIDE DEF end
    <3> QED BY <1>15, <1>17, <3>1 DEF Stands
  <2>2. g[(i + 1) + d] = f[i + 1] + d
    BY <1>14, <1>15, <1>17, <2>1
  <2> QED BY <1>5, <1>15, <2>2
<1> QED BY <1>16, <1>17 DEF end, q, n

(* A text whose pieces can be read on their own: no dollar signs; where     *)
(* SplitStatements reads code, no backticks, no quote left open, no comment *)
(* that nests or stands alone between two words, and none that touches an   *)
(* operator before it.                                                     *)
EndsStatement(c) == c = ";"
Apart(t, i) ==
  LET end == CommentEnd(t, i)
  IN Unnested(t, i, end) /\ (end <= Len(t) => IsSpace(t[end]) \/ EndsStatement(t[end]))
Orderly(t) ==
  /\ \A i \in 1..Len(t) : t[i] # "$"
  /\ \A i \in Stops(t) : i <= Len(t) =>
       /\ t[i] # Backtick
       /\ IsQuote(t[i]) => Closes(t, i)
       /\ Has(t, i, OpenComment) => Apart(t, i)
       /\ IsOperator(t[i]) /\ ~Remark(t, i) => ~Remark(t, i + 1)

LEMMA ProseText ==
  ASSUME NEW t \in Seq(Prose)
  PROVE  Len(t) \in Nat /\ t \in Seq(Written) /\ \A i \in 1..Len(t) : t[i] # "$" /\ t[i] \in Prose
<1>1. Len(t) \in Nat /\ t = [i \in 1..Len(t) |-> t[i]] /\ \A i \in 1..Len(t) : t[i] \in Prose
  OBVIOUS
<1>2. \A c \in Prose : c \in Written /\ c # "$"
  BY Zenon DEF Prose
<1>3. \A i \in 1..Len(t) : t[i] \in Written /\ t[i] # "$"
  BY <1>1, <1>2
<1> QED BY <1>1, <1>3

(* The part of a class that starts at k ends in one place.                  *)
LEMMA SameEnd ==
  ASSUME NEW in, NEW n \in Nat, NEW k \in Nat, NEW a \in (k + 1)..(n + 1), NEW b \in (k + 1)..(n + 1),
         \A j \in k..(a - 1) : j \in in, a <= n => a \notin in,
         \A j \in k..(b - 1) : j \in in, b <= n => b \notin in
  PROVE  a = b
<1>1. ASSUME a < b PROVE FALSE
  <2>1. a \in k..(b - 1) /\ a <= n
    BY <1>1
  <2> QED BY <2>1
<1>2. ASSUME b < a PROVE FALSE
  <2>1. b \in k..(a - 1) /\ b <= n
    BY <1>2
  <2> QED BY <2>1
<1> QED BY <1>1, <1>2

LEMMA MovedParts ==
  ASSUME NEW s, NEW t, NEW i \in Nat, NEW end \in Nat, i <= end, NEW d \in Int, i + d \in Nat,
         \A j \in i..end : s[j + d] = t[j]
  PROVE  SubSeq(s, i + d, end + d) = SubSeq(t, i, end)
<1> DEFINE S == {t[j] : j \in i..end}
           a == SubSeq(s, i + d, end + d)
           b == SubSeq(t, i, end)
           m == end - i + 1
<1>1. /\ i + d \in Int /\ end + d \in Int /\ i + d <= (end + d) + 1 /\ (end + d) - (i + d) + 1 = m /\ m \in Nat
      /\ \A k \in 1..m : i + k - 1 \in i..end /\ (i + d) + k - 1 = (i + k - 1) + d
      /\ \A l \in (i + d)..(end + d) : l - d \in i..end /\ (l - d) + d = l
  OBVIOUS
<1>2. (\A l \in (i + d)..(end + d) : s[l] \in S) /\ \A j \in i..end : t[j] \in S
  <2>1. \A j \in i..end : t[j] \in S
    OBVIOUS
  <2>2. ASSUME NEW l \in (i + d)..(end + d) PROVE s[l] \in S
    <3>1. s[(l - d) + d] = t[l - d] /\ t[l - d] \in S
      BY <1>1, <2>1
    <3> QED BY <1>1, <3>1
  <2> QED BY <2>1, <2>2
<1> HIDE DEF S
<1>3. a \in Seq(S) /\ Len(a) = m /\ \A k \in 1..m : a[k] = s[(i + d) + k - 1]
  BY <1>1, <1>2, SubSeqProperties
<1>4. b \in Seq(S) /\ Len(b) = m /\ \A k \in 1..m : b[k] = t[i + k - 1]
  BY <1>2, SubSeqProperties
<1> HIDE DEF a, b, m
<1>5. \A k \in 1..Len(a) : a[k] = b[k]
  BY <1>1, <1>3, <1>4
<1>6. a = b
  BY <1>3, <1>4, <1>5, SeqEqual
<1> QED BY <1>6 DEF a, b

(* A token starts and ends with something.                                  *)
LEMMA TokenEnds ==
  ASSUME NEW t \in Seq(Prose), Orderly(t), NEW i \in Stops(t), i <= Len(t), ~Passes(t, i)
  PROVE  Beyond(t, i) \in (i + 1)..(Len(t) + 1) /\ ~IsSpace(t[i]) /\ ~IsSpace(t[Beyond(t, i) - 1])
<1> DEFINE end == Beyond(t, i)
<1>1. i \in 1..Len(t) /\ Len(t) \in Nat /\ t \in Seq(Written)
  BY ProseText, StopsGoOn
<1>2. end \in (i + 1)..(Len(t) + 1)
  BY <1>1, BeyondRange
<1>3. ~IsSpace(t[i]) /\ ~Has(t, i, DashDash) /\ ~Has(t, i, OpenComment)
  BY DEF Passes
<1>4. end - 1 \in i..(end - 1)
  BY <1>1, <1>2
<1>5. ~IsSpace(t[end - 1])
  <2>1. CASE IsQuote(t[i])
    <3>1. end = SkipQuoted(t, i)
      BY <1>3, <2>1, Zenon DEF Beyond
    <3>2. Closes(t, i) /\ i + 0 \in 1..Len(t) /\ t[i + 0] = t[i] /\ 0 \in Int
      BY <1>1, <2>1 DEF Orderly
    <3> HIDE DEF end
    <3>3. t[end - 1] = t[i]
      BY <1>1, <2>1, <3>1, <3>2, ClosedLiteral
    <3> QED BY <1>3, <3>3
  <2>2. CASE ~IsQuote(t[i]) /\ IsWord(t[i])
    <3>1. end = WordEnd(t, i)
      BY <1>3, <2>2, Zenon DEF Beyond
    <3> HIDE DEF end
    <3>2. IsWord(t[end - 1])
      BY <1>1, <1>4, <2>2, <3>1, WordRun
    <3> QED BY <3>2, Classes
  <2>3. CASE ~IsQuote(t[i]) /\ ~IsWord(t[i]) /\ IsOperator(t[i])
    <3>1. end = OperatorEnd(t, i)
      BY <1>3, <2>3, Zenon DEF Beyond
    <3> HIDE DEF end
    <3>2. IsOperator(t[end - 1])
      BY <1>1, <1>4, <2>3, <3>1, OperatorRun
    <3> QED BY <3>2, Classes
  <2>4. CASE ~IsQuote(t[i]) /\ ~IsWord(t[i]) /\ ~IsOperator(t[i])
    <3>1. end = i + 1
      BY <1>3, <2>4, Zenon DEF Beyond
    <3>2. end - 1 = i
      BY <1>1, <3>1
    <3> HIDE DEF end
    <3> QED BY <1>3, <3>2
  <2> QED BY <2>1, <2>2, <2>3, <2>4
<1> QED BY <1>2, <1>3, <1>5

(* What comes behind a part that stands in p is a blank, the end, or what   *)
(* comes behind it in t.                                                   *)
Follows(p, d, t, end) ==
  end + d <= Len(p) => IsSpace(p[end + d]) \/ (end <= Len(t) /\ p[end + d] = t[end])

(* A token is the same token wherever it stands.                            *)
LEMMA TokenMoves ==
  ASSUME NEW t \in Seq(Prose), Orderly(t), NEW i \in Stops(t), i <= Len(t), ~Passes(t, i),
         NEW p \in Seq(Prose), NEW d \in Int, Stands(p, d, t, i, Beyond(t, i)), Follows(p, d, t, Beyond(t, i))
  PROVE  /\ i + d \in 1..Len(p) /\ ~Passes(p, i + d)
         /\ Beyond(p, i + d) = Beyond(t, i) + d /\ Token(p, i + d) = Token(t, i)
<1> DEFINE end == Beyond(t, i)
           k == i + d
<1>1. /\ i \in 1..Len(t) /\ Len(t) \in Nat /\ Len(p) \in Nat /\ t \in Seq(Written)
      /\ end \in (i + 1)..(Len(t) + 1) /\ ~IsSpace(t[i])
  BY ProseText, StopsGoOn, TokenEnds
<1> HIDE DEF end
<1>2. \A j \in i..(end - 1) : j + d \in 1..Len(p) /\ p[j + d] = t[j]
  BY DEF Stands, end
<1>3. end + d <= Len(p) => IsSpace(p[end + d]) \/ (end <= Len(t) /\ p[end + d] = t[end])
  BY DEF Follows, end
<1>4. k \in 1..Len(p) /\ p[k] = t[i]
  <2>1. i \in i..(end - 1)
    BY <1>1
  <2> QED BY <1>2, <2>1
<1>5. k + 1 <= Len(p) => IsSpace(p[k + 1]) \/ (i + 1 <= Len(t) /\ p[k + 1] = t[i + 1])
  <2>1. CASE i + 1 = end
    <3>1. end + d = k + 1
      BY <1>1, <2>1
    <3> HIDE DEF k
    <3> QED BY <1>3, <2>1, <3>1
  <2>2. CASE i + 1 # end
    <3>1. i + 1 \in i..(end - 1) /\ (i + 1) + d = k + 1 /\ i + 1 <= Len(t)
      BY <1>1, <2>2
    <3>2. p[(i + 1) + d] = t[i + 1]
      BY <1>2, <3>1
    <3> HIDE DEF k
    <3> QED BY <3>1, <3>2
  <2> QED BY <2>1, <2>2
<1>6. ~Has(t, i, DashDash) /\ ~Has(t, i, OpenComment)
  BY DEF Passes
<1>7. ~Has(p, k, DashDash) /\ ~Has(p, k, OpenComment)
  <2>1. Has(p, k, DashDash) <=> k + 1 <= Len(p) /\ p[k] = "-" /\ p[k + 1] = "-"
    BY <1>1, <1>4, HasTwo DEF DashDash
  <2>2. Has(t, i, DashDash) <=> i + 1 <= Len(t) /\ t[i] = "-" /\ t[i + 1] = "-"
    BY <1>1, HasTwo DEF DashDash
  <2>3. Has(p, k, OpenComment) <=> k + 1 <= Len(p) /\ p[k] = "/" /\ p[k + 1] = "*"
    BY <1>1, <1>4, HasTwo DEF OpenComment
  <2>4. Has(t, i, OpenComment) <=> i + 1 <= Len(t) /\ t[i] = "/" /\ t[i + 1] = "*"
    BY <1>1, HasTwo DEF OpenComment
  <2>5. ~IsSpace("-") /\ ~IsSpace("*")
    <3>1. IsOperator("-") /\ IsOperator("*")
      BY Classes
    <3> QED BY <3>1, Classes
  <2> HIDE DEF k
  <2> QED BY <1>4, <1>5, <1>6, <2>1, <2>2, <2>3, <2>4, <2>5
<1>8. ~Passes(p, k)
  BY <1>1, <1>4, <1>7 DEF Passes
<1>9. end + d \in (k + 1)..(Len(p) + 1) /\ (end + d) - 1 = (end - 1) + d
  <2>1. end - 1 \in i..(end - 1)
    BY <1>1
  <2>2. (end - 1) + d \in 1..Len(p)
    BY <1>2, <2>1
  <2> QED BY <1>1, <2>2
<1>10. \A j \in k..((end + d) - 1) : j - d \in i..(end - 1) /\ p[j] = t[j - d]
  <2>1. ASSUME NEW j \in k..((end + d) - 1) PROVE j - d \in i..(end - 1) /\ p[j] = t[j - d]
    <3>1. j - d \in i..(end - 1) /\ (j - d) + d = j
      BY <1>1
    <3>2. p[(j - d) + d] = t[j - d]
      BY <1>2, <3>1
    <3> QED BY <3>1, <3>2
  <2> QED BY <2>1
<1>11. k \in Nat
  BY <1>4
<1>12. Beyond(p, k) = end + d
  <2>1. CASE IsQuote(t[i])
    <3>1. end = SkipQuoted(t, i) /\ Beyond(p, k) = SkipQuoted(p, k)
      BY <1>4, <1>1, <1>6, <1>7, <2>1, Zenon DEF Beyond, end
    <3>2. Closes(t, i)
      BY <1>1, <2>1 DEF Orderly
    <3>3. /\ end <= Len(t) => t[end] # t[i]
          /\ Stands(p, d, t, i, end) /\ (end + d <= Len(p) => p[end + d] # t[i]) => SkipQuoted(p, k) = end + d
      BY <1>1, <1>4, <2>1, <3>1, <3>2, ClosedLiteral
    <3>4. end + d <= Len(p) => p[end + d] # t[i]
      BY <1>3, <2>1, <3>3, Classes
    <3>5. Stands(p, d, t, i, end)
      BY DEF end
    <3> QED BY <3>1, <3>3, <3>4, <3>5
  <2>2. CASE ~IsQuote(t[i]) /\ IsWord(t[i])
    <3> DEFINE in == {j \in 1..Len(p) : IsWord(p[j])}
    <3>1. end = WordEnd(t, i) /\ Beyond(p, k) = WordEnd(p, k)
      BY <1>4, <1>1, <1>6, <1>7, <2>2, Zenon DEF Beyond, end
    <3>2. (\A j \in i..(end - 1) : IsWord(t[j])) /\ (end <= Len(t) => ~IsWord(t[end]))
      BY <1>1, <2>2, <3>1, WordRun
    <3>3. /\ WordEnd(p, k) \in (k + 1)..(Len(p) + 1)
          /\ \A j \in k..(WordEnd(p, k) - 1) : IsWord(p[j])
          /\ WordEnd(p, k) <= Len(p) => ~IsWord(p[WordEnd(p, k)])
      BY <1>1, <1>4, <2>2, WordRun
    <3>4. end + d <= Len(p) => ~IsWord(p[end + d])
      BY <1>3, <3>2, Classes
    <3>5. \A j \in k..((end + d) - 1) : IsWord(p[j])
      BY <1>10, <3>2
    <3>6. \A j \in k..((end + d) - 1) : j \in in
      BY <1>4, <1>9, <3>5
    <3>7. \A j \in k..(WordEnd(p, k) - 1) : j \in in
      BY <1>4, <3>3
    <3>8. (end + d <= Len(p) => end + d \notin in) /\ (WordEnd(p, k) <= Len(p) => WordEnd(p, k) \notin in)
      BY <3>3, <3>4
    <3> HIDE DEF in, k
    <3>9. WordEnd(p, k) = end + d
      BY <1>1, <1>9, <1>11, <3>3, <3>6, <3>7, <3>8, SameEnd
    <3> QED BY <3>1, <3>9
  <2>3. CASE ~IsQuote(t[i]) /\ ~IsWord(t[i]) /\ IsOperator(t[i])
    <3> DEFINE in == {j \in 1..Len(p) : IsOperator(p[j])}
    <3>1. end = OperatorEnd(t, i) /\ Beyond(p, k) = OperatorEnd(p, k)
      BY <1>4, <1>1, <1>6, <1>7, <2>3, Zenon DEF Beyond, end
    <3>2. (\A j \in i..(end - 1) : IsOperator(t[j])) /\ (end <= Len(t) => ~IsOperator(t[end]))
      BY <1>1, <2>3, <3>1, OperatorRun
    <3>3. /\ OperatorEnd(p, k) \in (k + 1)..(Len(p) + 1)
          /\ \A j \in k..(OperatorEnd(p, k) - 1) : IsOperator(p[j])
          /\ OperatorEnd(p, k) <= Len(p) => ~IsOperator(p[OperatorEnd(p, k)])
      BY <1>1, <1>4, <2>3, OperatorRun
    <3>4. end + d <= Len(p) => ~IsOperator(p[end + d])
      BY <1>3, <3>2, Classes
    <3>5. \A j \in k..((end + d) - 1) : IsOperator(p[j])
      BY <1>10, <3>2
    <3>6. \A j \in k..((end + d) - 1) : j \in in
      BY <1>4, <1>9, <3>5
    <3>7. \A j \in k..(OperatorEnd(p, k) - 1) : j \in in
      BY <1>4, <3>3
    <3>8. (end + d <= Len(p) => end + d \notin in) /\ (OperatorEnd(p, k) <= Len(p) => OperatorEnd(p, k) \notin in)
      BY <3>3, <3>4
    <3> HIDE DEF in, k
    <3>9. OperatorEnd(p, k) = end + d
      BY <1>1, <1>9, <1>11, <3>3, <3>6, <3>7, <3>8, SameEnd
    <3> QED BY <3>1, <3>9
  <2>4. CASE ~IsQuote(t[i]) /\ ~IsWord(t[i]) /\ ~IsOperator(t[i])
    <3>1. end = i + 1 /\ Beyond(p, k) = k + 1
      BY <1>4, <1>1, <1>6, <1>7, <2>4, Zenon DEF Beyond, end
    <3>2. (i + 1) + d = k + 1
      BY <1>1
    <3> QED BY <3>1, <3>2
  <2> QED BY <2>1, <2>2, <2>3, <2>4
<1>13. Token(p, k) = Token(t, i)
  <2>1. CASE ~IsQuote(t[i]) /\ IsWord(t[i])
    <3>1. Token(p, k) = [m \in 1..((end + d) - k) |-> Lower(p[k + m - 1])]
      BY <1>4, <1>12, <2>1, Zenon DEF Token
    <3>2. Token(t, i) = [m \in 1..(end - i) |-> Lower(t[i + m - 1])]
      BY <2>1, Zenon DEF Token, end
    <3>3. (end + d) - k = end - i
      BY <1>1
    <3>4. ASSUME NEW m \in 1..(end - i) PROVE Lower(p[k + m - 1]) = Lower(t[i + m - 1])
      <4>1. i + m - 1 \in i..(end - 1) /\ (i + m - 1) + d = k + m - 1
        BY <1>1
      <4>2. p[(i + m - 1) + d] = t[i + m - 1]
        BY <1>2, <4>1
      <4> QED BY <4>1, <4>2
    <3> HIDE DEF k
    <3>5. [m \in 1..(end - i) |-> Lower(p[k + m - 1])] = [m \in 1..(end - i) |-> Lower(t[i + m - 1])]
      BY <3>4, Zenon
    <3> QED BY <3>1, <3>2, <3>3, <3>5
  <2>2. CASE ~(~IsQuote(t[i]) /\ IsWord(t[i]))
    <3>1. Token(p, k) = SubSeq(p, k, (end + d) - 1) /\ Token(t, i) = SubSeq(t, i, end - 1)
      BY <1>4, <1>12, <2>2, Zenon DEF Token, end
    <3>2. i \in Nat /\ end - 1 \in Nat /\ i <= end - 1 /\ i + d \in Nat
      BY <1>1, <1>4
    <3>3. SubSeq(p, i + d, (end - 1) + d) = SubSeq(t, i, end - 1)
      BY <1>2, <3>2, MovedParts
    <3> QED BY <1>9, <3>1, <3>3
  <2> QED BY <2>1, <2>2
<1> QED BY <1>4, <1>8, <1>12, <1>13 DEF end

Joins(y, a, b, S) ==
  /\ y \in Seq(S) /\ Len(a) \in Nat /\ Len(b) \in Nat /\ Len(y) = Len(a) + Len(b)
  /\ \A j \in 1..Len(a) : y[j] = a[j]
  /\ \A j \in 1..Len(b) : y[Len(a) + j] = b[j]

LEMMA Joined == ASSUME NEW S, NEW a \in Seq(S), NEW b \in Seq(S) PROVE Joins(a \o b, a, b, S)
<1>1. /\ a \o b \in Seq(S) /\ Len(a \o b) = Len(a) + Len(b)
      /\ \A k \in 1..(Len(a) + Len(b)) : (a \o b)[k] = IF k <= Len(a) THEN a[k] ELSE b[k - Len(a)]
  BY ConcatProperties, Zenon
<1>2. Len(a) \in Nat /\ Len(b) \in Nat
  OBVIOUS
<1>3. ASSUME NEW j \in 1..Len(a) PROVE (a \o b)[j] = a[j]
  <2>1. j \in 1..(Len(a) + Len(b)) /\ j <= Len(a)
    BY <1>2
  <2> QED BY <1>1, <2>1
<1>4. ASSUME NEW j \in 1..Len(b) PROVE (a \o b)[Len(a) + j] = b[j]
  <2>1. Len(a) + j \in 1..(Len(a) + Len(b)) /\ ~(Len(a) + j <= Len(a)) /\ (Len(a) + j) - Len(a) = j
    BY <1>2
  <2> QED BY <1>1, <2>1
<1> QED BY <1>1, <1>2, <1>3, <1>4 DEF Joins

(* p ends in h from d on, but for blanks at its ends. Entry is where h is   *)
(* read from. A match of h is what sqlTokens makes of it in every such p.   *)
Fits(p, d, h) ==
  /\ Len(p) <= d + Len(h)
  /\ \A j \in 1..Len(h) : IF d + j \in 1..Len(p) THEN p[d + j] = h[j] ELSE IsSpace(h[j])
Entry(p, d) == IF d < 0 THEN 1 ELSE IF d >= Len(p) THEN Len(p) + 1 ELSE d + 1
Reads(h, tokens) ==
  \A p \in Seq(Prose), d \in Int : \A g : Fits(p, d, h) /\ Lexes(g, p) => g[Entry(p, d)] = tokens
Blank(h) == \A j \in 1..Len(h) : IsSpace(h[j])
Matches(h, tokens) == Reads(h, tokens) /\ (tokens = <<>> <=> Blank(h))

LEMMA BlankMatches ==
  ASSUME NEW h \in Seq(Prose), Blank(h) PROVE Matches(h, <<>>)
<1>1. ASSUME NEW p \in Seq(Prose), NEW d \in Int, NEW g, Fits(p, d, h), Lexes(g, p) PROVE g[Entry(p, d)] = <<>>
  <2> DEFINE i == Entry(p, d)
  <2>1. Len(p) \in Nat /\ Len(h) \in Nat
    OBVIOUS
  <2>2. i \in 1..(Len(p) + 1) /\ (i <= Len(p) => d < i)
    BY <2>1 DEF Entry
  <2>3. ASSUME NEW j \in i..Len(p) PROVE IsSpace(p[j])
    <3>1. j - d \in 1..Len(h) /\ d + (j - d) = j /\ j \in 1..Len(p)
      BY <1>1, <2>1, <2>2 DEF Fits
    <3>2. p[d + (j - d)] = h[j - d]
      BY <1>1, <3>1 DEF Fits
    <3>3. IsSpace(h[j - d])
      BY <3>1 DEF Blank
    <3> QED BY <3>1, <3>2, <3>3
  <2>4. \A j \in i..((Len(p) + 1) - 1) : IsSpace(p[j])
    BY <2>1, <2>2, <2>3
  <2>5. Len(p) + 1 \in i..(Len(p) + 1)
    BY <2>1, <2>2
  <2> HIDE DEF i
  <2>6. g[i] = g[Len(p) + 1]
    BY <1>1, <2>1, <2>2, <2>4, <2>5, BlankRun
  <2> QED BY <1>1, <2>6 DEF Lexes, i
<1> QED BY <1>1 DEF Matches, Reads

LEMMA SpaceMatches ==
  ASSUME NEW s \in Prose, IsSpace(s), NEW h \in Seq(Prose), NEW tokens, Matches(h, tokens)
  PROVE  Matches(<<s>> \o h, tokens)
<1> DEFINE one == <<s>>
           y == one \o h
<1>1. one \in Seq(Prose) /\ Len(one) = 1 /\ one[1] = s /\ 1 \in 1..Len(one)
  OBVIOUS
<1> HIDE DEF one
<1>2. y \in Seq(Prose) /\ Len(h) \in Nat /\ Len(y) = 1 + Len(h) /\ y[1] = s /\ \A j \in 1..Len(h) : y[1 + j] = h[j]
  <2>1. Joins(y, one, h, Prose)
    BY <1>1, Joined
  <2> HIDE DEF y
  <2> QED BY <1>1, <2>1 DEF Joins
<1> HIDE DEF y
<1>3. ASSUME NEW p \in Seq(Prose), NEW d \in Int, NEW g, Fits(p, d, y), Lexes(g, p) PROVE g[Entry(p, d)] = tokens
  <2>1. Len(p) \in Nat /\ d + 1 \in Int
    OBVIOUS
  <2>2. Fits(p, d + 1, h)
    <3>1. Len(p) <= (d + 1) + Len(h)
      BY <1>2, <1>3, <2>1 DEF Fits
    <3>2. ASSUME NEW j \in 1..Len(h)
          PROVE  IF (d + 1) + j \in 1..Len(p) THEN p[(d + 1) + j] = h[j] ELSE IsSpace(h[j])
      <4>1. 1 + j \in 1..Len(y) /\ d + (1 + j) = (d + 1) + j
        BY <1>2
      <4>2. y[1 + j] = h[j]
        BY <1>2
      <4> QED BY <1>3, <4>1, <4>2 DEF Fits
    <3> QED BY <3>1, <3>2 DEF Fits
  <2>3. g[Entry(p, d + 1)] = tokens
    BY <1>3, <2>1, <2>2 DEF Matches, Reads
  <2>4. CASE d < 0
    <3>1. Entry(p, d) = Entry(p, d + 1)
      BY <2>1, <2>4 DEF Entry
    <3> QED BY <2>3, <3>1
  <2>5. CASE d >= Len(p)
    <3>1. Entry(p, d) = Entry(p, d + 1)
      BY <2>1, <2>5 DEF Entry
    <3> QED BY <2>3, <3>1
  <2>6. CASE d >= 0 /\ d < Len(p)
    <3>1. Entry(p, d) = d + 1 /\ Entry(p, d + 1) = (d + 1) + 1 /\ d + 1 \in 1..Len(p) /\ 1 \in 1..Len(y)
      BY <1>2, <2>1, <2>6 DEF Entry
    <3>2. p[d + 1] = s
      BY <1>2, <1>3, <3>1 DEF Fits
    <3>3. Passes(p, d + 1) /\ Beyond(p, d + 1) = (d + 1) + 1
      BY <3>2, Zenon DEF Passes, Beyond
    <3>4. g[d + 1] = IF Passes(p, d + 1) THEN g[Beyond(p, d + 1)] ELSE <<Token(p, d + 1)>> \o g[Beyond(p, d + 1)]
      BY <1>3, <3>1 DEF Lexes
    <3>5. g[d + 1] = g[(d + 1) + 1]
      BY <3>3, <3>4, Zenon
    <3> QED BY <2>3, <3>1, <3>5
  <2> QED BY <2>1, <2>4, <2>5, <2>6
<1>4. Blank(y) <=> Blank(h)
  <2>1. ASSUME Blank(y) PROVE Blank(h)
    <3>1. ASSUME NEW j \in 1..Len(h) PROVE IsSpace(h[j])
      <4>1. 1 + j \in 1..Len(y) /\ y[1 + j] = h[j]
        BY <1>2
      <4>2. IsSpace(y[1 + j])
        BY <2>1, <4>1 DEF Blank
      <4> QED BY <4>1, <4>2
    <3> QED BY <3>1 DEF Blank
  <2>2. ASSUME Blank(h) PROVE Blank(y)
    <3>1. ASSUME NEW j \in 1..Len(y) PROVE IsSpace(y[j])
      <4>1. CASE j = 1
        BY <1>2, <4>1
      <4>2. CASE j # 1
        <5>1. j - 1 \in 1..Len(h) /\ 1 + (j - 1) = j
          BY <1>2, <4>2
        <5>2. y[1 + (j - 1)] = h[j - 1]
          BY <1>2, <5>1
        <5>3. IsSpace(h[j - 1])
          BY <2>2, <5>1 DEF Blank
        <5> QED BY <5>1, <5>2, <5>3
      <4> QED BY <4>1, <4>2
    <3> QED BY <3>1 DEF Blank
  <2> QED BY <2>1, <2>2
<1>5. Reads(y, tokens)
  BY <1>3 DEF Reads
<1>6. tokens = <<>> <=> Blank(y)
  BY <1>4 DEF Matches
<1> QED BY <1>5, <1>6 DEF Matches, y, one

LEMMA TokenMatches ==
  ASSUME NEW t \in Seq(Prose), Orderly(t), NEW i \in Stops(t), i <= Len(t), ~Passes(t, i),
         NEW h \in Seq(Prose), NEW S, NEW tokens \in Seq(S), Token(t, i) \in S, Matches(h, tokens),
         h = <<>> \/ IsSpace(h[1]) \/ (Beyond(t, i) <= Len(t) /\ h[1] = t[Beyond(t, i)])
  PROVE  Matches(SubSeq(t, i, Beyond(t, i) - 1) \o h, <<Token(t, i)>> \o tokens)
<1> DEFINE end == Beyond(t, i)
           x == SubSeq(t, i, end - 1)
           y == x \o h
           n == end - i
<1>1. /\ i \in 1..Len(t) /\ Len(t) \in Nat /\ end \in (i + 1)..(Len(t) + 1)
      /\ ~IsSpace(t[i]) /\ ~IsSpace(t[end - 1]) /\ Len(h) \in Nat /\ \A j \in 1..Len(t) : t[j] \in Prose
  BY ProseText, StopsGoOn, TokenEnds
<1> HIDE DEF end
<1>2. x \in Seq(Prose) /\ Len(x) = n /\ \A j \in 1..n : x[j] = t[i + j - 1]
  <2>1. i \in Int /\ end - 1 \in Int /\ i <= (end - 1) + 1 /\ (end - 1) - i + 1 = n /\ \A l \in i..(end - 1) : t[l] \in Prose
    BY <1>1
  <2> QED BY <2>1, SubSeqProperties
<1>3. n \in Nat \ {0} /\ i + 1 - 1 = i /\ i + n - 1 = end - 1
  BY <1>1
<1> HIDE DEF x
<1>4. /\ y \in Seq(Prose) /\ Len(y) = n + Len(h) /\ \A j \in 1..n : y[j] = t[i + j - 1]
      /\ \A j \in 1..Len(h) : y[n + j] = h[j]
  <2> HIDE DEF n
  <2>1. Joins(y, x, h, Prose)
    BY <1>2, Joined
  <2> HIDE DEF y
  <2> QED BY <1>2, <2>1 DEF Joins
<1> HIDE DEF y, n
<1>5. ~IsSpace(y[1]) /\ ~IsSpace(y[n]) /\ 1 \in 1..Len(y) /\ n \in 1..Len(y)
  <2>1. 1 \in 1..n /\ n \in 1..n /\ 1 \in 1..Len(y) /\ n \in 1..Len(y)
    BY <1>1, <1>3, <1>4
  <2>2. y[1] = t[i] /\ y[n] = t[end - 1]
    BY <1>3, <1>4, <2>1
  <2> QED BY <1>1, <2>1, <2>2
<1>6. ASSUME NEW p \in Seq(Prose), NEW d \in Int, NEW g, Fits(p, d, y), Lexes(g, p)
      PROVE  g[Entry(p, d)] = <<Token(t, i)>> \o tokens
  <2> DEFINE e == (d + 1) - i
  <2>1. Len(p) \in Nat /\ e \in Int /\ d + n \in Int
    BY <1>1, <1>3
  <2>2. d + 1 \in 1..Len(p) /\ d + n \in 1..Len(p)
    BY <1>5, <1>6 DEF Fits
  <2>3. /\ i + e = d + 1 /\ end + e = (d + n) + 1 /\ \A j \in i..(end - 1) : j - i + 1 \in 1..n /\ j + e = d + (j - i + 1) /\ i + (j - i + 1) - 1 = j
    BY <1>1 DEF n
  <2>4. \A j \in 1..n : d + j \in 1..Len(p) /\ j \in 1..Len(y)
    BY <1>1, <1>3, <1>4, <2>1, <2>2
  <2> HIDE DEF e
  <2>5. Stands(p, e, t, i, end)
    <3>1. ASSUME NEW j \in i..(end - 1) PROVE j + e \in 1..Len(p) /\ p[j + e] = t[j]
      <4>1. j - i + 1 \in 1..n /\ j + e = d + (j - i + 1) /\ i + (j - i + 1) - 1 = j
        BY <2>3
      <4>2. d + (j - i + 1) \in 1..Len(p) /\ j - i + 1 \in 1..Len(y)
        BY <2>4, <4>1
      <4>3. p[d + (j - i + 1)] = y[j - i + 1]
        BY <1>6, <4>2 DEF Fits
      <4>4. y[j - i + 1] = t[j]
        BY <1>4, <4>1
      <4> QED BY <4>1, <4>2, <4>3, <4>4
    <3> QED BY <3>1 DEF Stands
  <2>6. Follows(p, e, t, end)
    <3>1. ASSUME end + e <= Len(p) PROVE IsSpace(p[end + e]) \/ (end <= Len(t) /\ p[end + e] = t[end])
      <4>1. Len(p) <= d + Len(y)
        BY <1>6 DEF Fits
      <4>2. 1 \in 1..Len(h) /\ n + 1 \in 1..Len(y) /\ d + (n + 1) = (d + n) + 1 /\ d + (n + 1) \in 1..Len(p)
        BY <1>1, <1>3, <1>4, <2>1, <2>2, <2>3, <3>1, <4>1
      <4>3. p[d + (n + 1)] = y[n + 1] /\ y[n + 1] = h[1]
        BY <1>4, <1>6, <4>2 DEF Fits
      <4>4. h # <<>>
        BY <4>2
      <4> QED BY <2>3, <4>2, <4>3, <4>4 DEF end
    <3> QED BY <3>1 DEF Follows
  <2>7. ~Passes(p, d + 1) /\ Beyond(p, d + 1) = (d + n) + 1 /\ Token(p, d + 1) = Token(t, i)
    BY <2>1, <2>3, <2>5, <2>6, TokenMoves DEF end
  <2>8. g[d + 1] = <<Token(t, i)>> \o g[(d + n) + 1]
    BY <1>6, <2>2, <2>7 DEF Lexes
  <2>9. Entry(p, d) = d + 1 /\ Entry(p, d + n) = (d + n) + 1
    BY <1>3, <2>1, <2>2 DEF Entry
  <2>10. Fits(p, d + n, h)
    <3>1. Len(p) <= (d + n) + Len(h)
      BY <1>1, <1>3, <1>4, <1>6, <2>1 DEF Fits
    <3>2. ASSUME NEW j \in 1..Len(h)
          PROVE  IF (d + n) + j \in 1..Len(p) THEN p[(d + n) + j] = h[j] ELSE IsSpace(h[j])
      <4>1. n + j \in 1..Len(y) /\ d + (n + j) = (d + n) + j
        BY <1>1, <1>3, <1>4
      <4>2. y[n + j] = h[j]
        BY <1>4
      <4> QED BY <1>6, <4>1, <4>2 DEF Fits
    <3> QED BY <3>1, <3>2 DEF Fits
  <2>11. g[Entry(p, d + n)] = tokens
    BY <1>6, <2>1, <2>10 DEF Matches, Reads
  <2> QED BY <2>8, <2>9, <2>11
<1>7. Reads(y, <<Token(t, i)>> \o tokens)
  BY <1>6 DEF Reads
<1>8. <<Token(t, i)>> \o tokens # <<>>
  <2> DEFINE one == <<Token(t, i)>>
  <2>1. one \in Seq(S) /\ Len(one) = 1 /\ Len(tokens) \in Nat
    OBVIOUS
  <2> HIDE DEF one
  <2>2. Joins(one \o tokens, one, tokens, S)
    BY <2>1, Joined
  <2>3. one \o tokens # <<>>
    BY <2>1, <2>2 DEF Joins
  <2> QED BY <2>3 DEF one
<1>9. ~Blank(y)
  BY <1>5 DEF Blank
<1> QED BY <1>7, <1>8, <1>9 DEF Matches, y, x, end

Regroups(S) == \A a, b, c \in Seq(S) : (a \o b) \o c = a \o (b \o c)
LEMMA JoinsRegroup == ASSUME NEW S PROVE Regroups(S)
BY ConcatAssociative DEF Regroups

LEMMA OntoTwice ==
  ASSUME NEW S, NEW a \in Seq(S), NEW b \in Seq(S), NEW pieces \in Seq(Seq(S)), pieces # <<>>
  PROVE  Onto(a, Onto(b, pieces)) = Onto(a \o b, pieces) /\ Onto(<<>>, pieces) = pieces
<1> DEFINE T == Seq(S)
           once == Onto(b, pieces)
           twice == Onto(a, once)
           both == Onto(a \o b, pieces)
           none == Onto(<<>>, pieces)
<1>1. a \o b \in Seq(S) /\ <<>> \in Seq(S) /\ pieces[1] \in Seq(S)
  <2>1. Joins(a \o b, a, b, S)
    BY Joined
  <2> QED BY <2>1 DEF Joins
<1>2. Prepends(once, b, pieces, S)
  BY OntoPart
<1>3. Prepends(both, a \o b, pieces, S)
  BY <1>1, OntoPart
<1>4. Prepends(none, <<>>, pieces, S)
  BY <1>1, OntoPart
<1> HIDE DEF once
<1>5. Prepends(twice, a, once, S)
  <2>1. once \in Seq(Seq(S)) /\ once # <<>>
    BY <1>2 DEF Prepends
  <2> QED BY <2>1, OntoPart
<1>6. (a \o b) \o pieces[1] = a \o (b \o pieces[1]) /\ <<>> \o pieces[1] = pieces[1]
  <2> DEFINE first == pieces[1]
  <2>3. first \in Seq(S)
    BY <1>1
  <2> HIDE DEF first
  <2>1. (a \o b) \o first = a \o (b \o first)
    <3>1. Regroups(S)
      BY JoinsRegroup
    <3> QED BY <2>3, <3>1 DEF Regroups
  <2>2. <<>> \o first = first
    BY <2>3, ConcatEmptySeq, Zenon
  <2> QED BY <2>1, <2>2 DEF first
<1>7. Len(pieces) \in Nat
  OBVIOUS
<1> HIDE DEF both, none, twice
<1>8. ASSUME NEW k \in 1..Len(pieces) PROVE twice[k] = both[k] /\ none[k] = pieces[k]
  <2>1. CASE k = 1
    BY <1>2, <1>3, <1>4, <1>5, <1>6, <2>1 DEF Prepends
  <2>2. CASE k # 1
    <3>1. k \in 2..Len(pieces) /\ Len(once) = Len(pieces)
      BY <1>2, <1>7, <2>2 DEF Prepends
    <3> QED BY <1>2, <1>3, <1>4, <1>5, <3>1 DEF Prepends
  <2> QED BY <2>1, <2>2
<1>9. /\ twice \in Seq(T) /\ both \in Seq(T) /\ none \in Seq(T) /\ pieces \in Seq(T)
      /\ Len(twice) = Len(pieces) /\ Len(both) = Len(pieces) /\ Len(none) = Len(pieces)
  BY <1>2, <1>3, <1>4, <1>5 DEF Prepends
<1> HIDE DEF T
<1>10. twice = both
  BY <1>8, <1>9, SeqEqual
<1>11. none = pieces
  BY <1>8, <1>9, SeqEqual
<1> QED BY <1>10, <1>11 DEF twice, both, none, once

(* SplitStatements goes through a token that is no quote one character at a *)
(* time.                                                                    *)
LEMMA CodeCut ==
  ASSUME NEW t \in Seq(Prose), Orderly(t), NEW c, Cuts(c, t), NEW j \in Stops(t), j <= Len(t),
         ~IsQuote(t[j]), ~Remark(t, j), ~EndsStatement(t[j])
  PROVE  j + 1 \in Stops(t) /\ c[j] = Onto(<<t[j]>>, c[j + 1])
<1>1. j \in 1..Len(t) /\ t[j] # Backtick
  BY ProseText, StopsGoOn DEF Orderly
<1>2. Onward(t, j) = j + 1
  BY <1>1, Zenon DEF Onward, Remark
<1>3. CutStep(t, j, c[j + 1]) = Onto(<<t[j]>>, c[j + 1])
  BY <1>1, Zenon DEF CutStep, EndsStatement
<1>4. c[j] = CutStep(t, j, c[Onward(t, j)])
  BY <1>1 DEF Cuts
<1>5. Onward(t, j) \in Stops(t)
  BY ProseText, StopsGoOn
<1> QED BY <1>2, <1>3, <1>4, <1>5

LEMMA RunCut ==
  ASSUME NEW t \in Seq(Prose), Orderly(t), NEW c, Cuts(c, t), NEW i \in Stops(t), NEW end \in (i + 1)..(Len(t) + 1),
         ~Remark(t, i), \A j \in i..(end - 1) : ~IsQuote(t[j]) /\ ~EndsStatement(t[j]),
         \/ \A j \in i..(end - 1) : IsWord(t[j])
         \/ \A j \in i..(end - 1) : IsOperator(t[j])
         \/ end = i + 1
  PROVE  end \in Stops(t) /\ c[i] = Onto(SubSeq(t, i, end - 1), c[end])
<1> DEFINE Done(j) == /\ j \in Stops(t)
                      /\ j < end => ~Remark(t, j)
                      /\ c[i] = Onto(SubSeq(t, i, j - 1), c[j])
           done == {m \in 0..(end - i) : Done(i + m)}
<1>1. /\ Len(t) \in Nat /\ i \in 1..(Len(t) + 1) /\ end - i \in Nat /\ i + 0 = i /\ i < end
      /\ \A j \in 1..Len(t) : t[j] \in Prose
  <2>1. Len(t) \in Nat /\ \A j \in 1..Len(t) : t[j] \in Prose
    BY ProseText
  <2>2. i \in 1..(Len(t) + 1)
    BY <2>1, StopsGoOn
  <2> QED BY <2>1, <2>2
<1>2. \A j \in 1..(Len(t) + 1) : c[j] \in Seq(Seq(Prose)) /\ c[j] # <<>>
  BY DEF Cuts, Pieces
<1>3. Done(i)
  <2>1. SubSeq(t, i, i - 1) = <<>>
    BY <1>1, SubSeqEmpty
  <2>2. c[i] \in Seq(Seq(Prose)) /\ c[i] # <<>>
    BY <1>1, <1>2
  <2>3. <<>> \in Seq(Prose)
    OBVIOUS
  <2>4. Onto(<<>>, c[i]) = c[i]
    BY <2>2, <2>3, OntoTwice
  <2> QED BY <2>1, <2>4
<1>4. ASSUME NEW j \in i..(end - 1), Done(j) PROVE Done(j + 1)
  <2>1. j \in 1..Len(t) /\ j < end /\ (j + 1) - 1 = j
    BY <1>1
  <2>2. j + 1 \in Stops(t) /\ c[j] = Onto(<<t[j]>>, c[j + 1])
    <3>1. j \in Stops(t) /\ ~Remark(t, j) /\ j <= Len(t) /\ ~IsQuote(t[j]) /\ ~EndsStatement(t[j])
      BY <1>1, <1>4, <2>1
    <3> QED BY <3>1, CodeCut
  <2>3. j + 1 < end => ~Remark(t, j + 1)
    <3>1. CASE \A l \in i..(end - 1) : IsWord(t[l])
      <4>1. ASSUME j + 1 < end, Remark(t, j + 1) PROVE FALSE
        <5>1. j + 1 \in i..(end - 1) /\ j + 1 \in 1..Len(t)
          BY <1>1, <4>1
        <5>2. IsWord(t[j + 1])
          BY <3>1, <5>1
        <5>3. IsOperator(t[j + 1])
          BY <1>1, <4>1, <5>1, OpensWithOperator DEF Remark
        <5> QED BY <5>2, <5>3, Classes
      <4> QED BY <4>1
    <3>2. CASE \A l \in i..(end - 1) : IsOperator(t[l])
      <4>1. IsOperator(t[j]) /\ j \in Stops(t) /\ ~Remark(t, j) /\ j <= Len(t)
        BY <1>4, <2>1, <3>2
      <4> QED BY <4>1 DEF Orderly
    <3>3. CASE end = i + 1
      <4>1. ~(j + 1 < end)
        BY <1>1, <3>3
      <4> QED BY <4>1
    <3> QED BY <3>1, <3>2, <3>3
  <2>4. c[i] = Onto(SubSeq(t, i, j), c[j + 1])
    <3> DEFINE a == SubSeq(t, i, j - 1)
               b == <<t[j]>>
    <3>1. a \in Seq(Prose)
      <4>1. i \in Int /\ j - 1 \in Int /\ \A l \in i..(j - 1) : t[l] \in Prose
        BY <1>1, <2>1
      <4> QED BY <4>1, SubSeqProperties
    <3>2. b \in Seq(Prose)
      BY <1>1, <2>1
    <3>3. c[j + 1] \in Seq(Seq(Prose)) /\ c[j + 1] # <<>>
      <4>1. j + 1 \in 1..(Len(t) + 1)
        BY <1>1, <2>1
      <4> QED BY <1>2, <4>1
    <3>4. SubSeq(t, i, j) = a \o b
      <4>1. i \in 1..Len(t) /\ j \in i..Len(t)
        BY <1>1, <2>1
      <4> QED BY <4>1, SubSeqRecursiveSecond
    <3>5. c[i] = Onto(a, c[j])
      BY <1>4
    <3> HIDE DEF a, b
    <3>6. Onto(a, Onto(b, c[j + 1])) = Onto(a \o b, c[j + 1])
      BY <3>1, <3>2, <3>3, OntoTwice
    <3> QED BY <2>2, <3>4, <3>5, <3>6 DEF b
  <2> QED BY <2>1, <2>2, <2>3, <2>4
<1> HIDE DEF Done
<1>5. done = 0..(end - i)
  <2>1. 0 \in done
    BY <1>1, <1>3
  <2>2. ASSUME NEW m \in 1..(end - i), m - 1 \in done PROVE m \in done
    <3>1. i + (m - 1) \in i..(end - 1) /\ (i + (m - 1)) + 1 = i + m /\ m \in 0..(end - i)
      BY <1>1
    <3>2. Done(i + (m - 1))
      BY <2>2
    <3>3. Done(i + m)
      BY <1>4, <3>1, <3>2
    <3> QED BY <3>1, <3>3
  <2>3. done \in SUBSET (0..(end - i))
    OBVIOUS
  <2> HIDE DEF done
  <2> QED BY <1>1, <2>1, <2>2, <2>3, FromTheStart
<1>6. end - i \in 0..(end - i) /\ i + (end - i) = end
  BY <1>1
<1>7. Done(end)
  BY <1>5, <1>6
<1> QED BY <1>7 DEF Done

LEMMA TokenCut ==
  ASSUME NEW t \in Seq(Prose), Orderly(t), NEW c, Cuts(c, t), NEW i \in Stops(t), i <= Len(t), ~Passes(t, i), ~EndsStatement(t[i])
  PROVE  Beyond(t, i) \in Stops(t) /\ c[i] = Onto(SubSeq(t, i, Beyond(t, i) - 1), c[Beyond(t, i)])
<1> DEFINE end == Beyond(t, i)
<1>1. i \in 1..Len(t) /\ Len(t) \in Nat /\ end \in (i + 1)..(Len(t) + 1)
  BY ProseText, StopsGoOn, TokenEnds
<1>2. ~IsSpace(t[i]) /\ ~Has(t, i, DashDash) /\ ~Has(t, i, OpenComment) /\ ~Remark(t, i)
  BY DEF Passes, Remark
<1>3. \A k : IsWord(k) \/ IsOperator(k) => ~IsQuote(k) /\ ~EndsStatement(k)
  BY Zenon DEF IsWord, IsOperator, IsQuote, Backtick, EndsStatement
<1>4. CASE IsQuote(t[i])
  <2>1. end = SkipQuoted(t, i) /\ Onward(t, i) = QuoteEnd(t, i) /\ CutStep(t, i, c[end]) = Onto(SubSeq(t, i, QuoteEnd(t, i) - 1), c[end])
    BY <1>2, <1>4, Zenon DEF Beyond, Onward, CutStep
  <2>2. QuoteEnd(t, i) = SkipQuoted(t, i)
    BY <1>1, QuotesAgree
  <2>3. c[i] = CutStep(t, i, c[Onward(t, i)]) /\ Onward(t, i) \in Stops(t)
    BY <1>1, StopsGoOn DEF Cuts
  <2> HIDE DEF end
  <2>4. end \in Stops(t) /\ c[i] = Onto(SubSeq(t, i, end - 1), c[end])
    BY <2>1, <2>2, <2>3
  <2> QED BY <2>4 DEF end
<1>5. CASE ~IsQuote(t[i]) /\ IsWord(t[i])
  <2>1. end = WordEnd(t, i)
    BY <1>2, <1>5, Zenon DEF Beyond
  <2> HIDE DEF end
  <2>2. \A j \in i..(end - 1) : IsWord(t[j])
    BY <1>1, <1>5, <2>1, WordRun
  <2>3. \A j \in i..(end - 1) : ~IsQuote(t[j]) /\ ~EndsStatement(t[j])
    BY <1>3, <2>2
  <2>4. end \in Stops(t) /\ c[i] = Onto(SubSeq(t, i, end - 1), c[end])
    BY <1>1, <1>2, <2>2, <2>3, RunCut
  <2> QED BY <2>4 DEF end
<1>6. CASE ~IsQuote(t[i]) /\ ~IsWord(t[i]) /\ IsOperator(t[i])
  <2>1. end = OperatorEnd(t, i)
    BY <1>2, <1>6, Zenon DEF Beyond
  <2> HIDE DEF end
  <2>2. \A j \in i..(end - 1) : IsOperator(t[j])
    BY <1>1, <1>6, <2>1, OperatorRun
  <2>3. \A j \in i..(end - 1) : ~IsQuote(t[j]) /\ ~EndsStatement(t[j])
    BY <1>3, <2>2
  <2>4. end \in Stops(t) /\ c[i] = Onto(SubSeq(t, i, end - 1), c[end])
    BY <1>1, <1>2, <2>2, <2>3, RunCut
  <2> QED BY <2>4 DEF end
<1>7. CASE ~IsQuote(t[i]) /\ ~IsWord(t[i]) /\ ~IsOperator(t[i])
  <2>1. end = i + 1
    BY <1>2, <1>7, Zenon DEF Beyond
  <2> HIDE DEF end
  <2>2. \A j \in i..(end - 1) : j = i
    BY <1>1, <2>1
  <2>3. \A j \in i..(end - 1) : ~IsQuote(t[j]) /\ ~EndsStatement(t[j])
    BY <1>7, <2>2
  <2>4. end \in Stops(t) /\ c[i] = Onto(SubSeq(t, i, end - 1), c[end])
    BY <1>1, <1>2, <2>1, <2>3, RunCut
  <2> QED BY <2>4 DEF end
<1> QED BY <1>4, <1>5, <1>6, <1>7

LEMMA LineEndsInBlank ==
  ASSUME NEW t, Len(t) \in Nat, NEW i \in 1..Len(t), LineEnd(t, i) <= Len(t) PROVE IsSpace(t[LineEnd(t, i)])
<1> DEFINE line == <<"\n">>
           end == LineEnd(t, i)
<1>1. end = Find(t, i, line, Len(t) + 1)
  BY DEF LineEnd
<1>2. \A k : Has(t, k, line) /\ k \in Nat \ {0} => IsSpace(t[k])
  <2> SUFFICES ASSUME NEW k \in Nat \ {0}, Has(t, k, line) PROVE IsSpace(t[k])
    OBVIOUS
  <2>1. t[k] = "\n"
    BY HasOne, Zenon
  <2> QED BY <2>1, Zenon DEF IsSpace
<1> HIDE DEF line
<1>3. (end \in i..Len(t) /\ Has(t, end, line)) \/ end = Len(t) + 1
  <2>1. i \in Nat
    OBVIOUS
  <2> QED BY <1>1, <2>1, Found
<1>4. end <= Len(t)
  OBVIOUS
<1> HIDE DEF end
<1>5. Has(t, end, line) /\ end \in Nat \ {0}
  BY <1>3, <1>4
<1> QED BY <1>2, <1>5 DEF end

(* A statement ends where its token is a semicolon.                         *)
SemicolonToken == <<";">>

LEMMA SemicolonTokens ==
  ASSUME NEW t \in Seq(Prose), NEW i \in 1..Len(t), ~Passes(t, i)
  PROVE  /\ EndsStatement(t[i]) => Token(t, i) = SemicolonToken /\ Beyond(t, i) = i + 1
         /\ ~EndsStatement(t[i]) => Token(t, i) # SemicolonToken
<1>1. Len(t) \in Nat /\ Beyond(t, i) \in (i + 1)..(Len(t) + 1) /\ \A j \in 1..Len(t) : t[j] \in Prose
  BY ProseText, BeyondRange
<1>2. ~IsSpace(t[i]) /\ ~Has(t, i, DashDash) /\ ~Has(t, i, OpenComment)
  BY DEF Passes
<1>3. \A k : EndsStatement(k) => ~IsQuote(k) /\ ~IsWord(k) /\ ~IsOperator(k)
  BY Zenon DEF IsWord, IsOperator, IsQuote, Backtick, EndsStatement
<1>4. \A k : IsWord(k) => ~EndsStatement(Lower(k))
  BY Zenon DEF IsWord, Lower, EndsStatement
<1>5. SemicolonToken[1] = ";" /\ EndsStatement(SemicolonToken[1]) /\ \A k : EndsStatement(k) => <<k>> = SemicolonToken
  <2>1. \A k : <<k>>[1] = k
    OBVIOUS
  <2> QED BY <2>1, Zenon DEF SemicolonToken, EndsStatement
<1>6. ASSUME EndsStatement(t[i]) PROVE Token(t, i) = SemicolonToken /\ Beyond(t, i) = i + 1
  <2>1. ~IsQuote(t[i]) /\ ~IsWord(t[i]) /\ ~IsOperator(t[i])
    BY <1>3, <1>6
  <2>2. Beyond(t, i) = i + 1
    BY <1>2, <2>1, Zenon DEF Beyond
  <2>3. Token(t, i) = SubSeq(t, i, Beyond(t, i) - 1)
    BY <2>1, Zenon DEF Token
  <2>4. Beyond(t, i) - 1 = i
    BY <2>2
  <2>5. Has(t, i, <<t[i]>>) <=> i <= Len(t) /\ t[i] = t[i]
    BY <1>1, HasOne
  <2>6. SubSeq(t, i, i) = <<t[i]>>
    <3>1. Len(<<t[i]>>) = 1 /\ i + 1 - 1 = i /\ i <= Len(t)
      OBVIOUS
    <3> QED BY <2>5, <3>1 DEF Has
  <2> QED BY <1>5, <1>6, <2>2, <2>3, <2>4, <2>6
<1>7. ASSUME ~EndsStatement(t[i]) PROVE ~EndsStatement(Token(t, i)[1])
  <2>1. CASE ~IsQuote(t[i]) /\ IsWord(t[i])
    <3>1. Token(t, i) = [k \in 1..(Beyond(t, i) - i) |-> Lower(t[i + k - 1])]
      BY <2>1, Zenon DEF Token
    <3>2. 1 \in 1..(Beyond(t, i) - i) /\ i + 1 - 1 = i
      BY <1>1
    <3>3. Token(t, i)[1] = Lower(t[i])
      BY <3>1, <3>2
    <3> QED BY <1>4, <2>1, <3>3
  <2>2. CASE ~(~IsQuote(t[i]) /\ IsWord(t[i]))
    <3>1. Token(t, i) = SubSeq(t, i, Beyond(t, i) - 1)
      BY <2>2, Zenon DEF Token
    <3>2. /\ i \in Int /\ Beyond(t, i) - 1 \in Int /\ i + 1 - 1 = i /\ 1 \in 1..((Beyond(t, i) - 1) - i + 1)
          /\ \A l \in i..(Beyond(t, i) - 1) : t[l] \in Prose
      BY <1>1
    <3>3. SubSeq(t, i, Beyond(t, i) - 1)[1] = t[i + 1 - 1]
      BY <3>2, SubSeqProperties
    <3> QED BY <1>7, <3>1, <3>2, <3>3
  <2> QED BY <2>1, <2>2
<1> QED BY <1>5, <1>6, <1>7

(* What the first piece of the rest of a text starts with.                  *)
LEMMA CutLead ==
  ASSUME NEW t \in Seq(Prose), NEW c, Cuts(c, t), NEW i \in 1..Len(t), ~Remark(t, i)
  PROVE  /\ c[i][1] = <<>> \/ c[i][1][1] = t[i]
         /\ EndsStatement(t[i]) => c[i][1] = <<>>
<1> DEFINE rest == c[Onward(t, i)]
           quoted == SubSeq(t, i, QuoteEnd(t, i) - 1)
<1>1. Len(t) \in Nat /\ t[i] \in Prose /\ \A j \in 1..Len(t) : t[j] \in Prose
  BY ProseText
<1>2. c[i] = CutStep(t, i, rest)
  BY DEF Cuts
<1>3. rest \in Pieces
  <2>1. Onward(t, i) \in 1..(Len(t) + 1)
    <3>1. Onward(t, i) \in (i + 1)..(Len(t) + 1)
      BY <1>1, OnwardRange
    <3> QED BY <1>1, <3>1
  <2> QED BY <2>1 DEF Cuts
<1>4. rest \in Seq(Seq(Prose)) /\ rest # <<>> /\ rest \in Lists(Prose)
  BY <1>3 DEF Pieces, Lists
<1>5. quoted \in Seq(Prose) /\ 1 \in 1..Len(quoted) /\ quoted[1] = t[i]
  <2>1. QuoteEnd(t, i) \in (i + 1)..(Len(t) + 1)
    BY <1>1, QuotesAgree, QuotedRange
  <2>2. /\ i \in Int /\ QuoteEnd(t, i) - 1 \in Int /\ i <= QuoteEnd(t, i) - 1 /\ 1 \in 1..((QuoteEnd(t, i) - 1) - i + 1)
        /\ i + 1 - 1 = i /\ \A l \in i..(QuoteEnd(t, i) - 1) : t[l] \in Prose
    BY <1>1, <2>1
  <2>3. /\ quoted \in Seq(Prose) /\ Len(quoted) = (QuoteEnd(t, i) - 1) - i + 1
        /\ quoted[1] = t[i + 1 - 1]
    BY <2>2, SubSeqProperties
  <2> HIDE DEF quoted
  <2> QED BY <2>2, <2>3
<1>6. <<t[i]>> \in Seq(Prose) /\ 1 \in 1..Len(<<t[i]>>) /\ <<t[i]>>[1] = t[i]
  BY <1>1
<1>7. ASSUME NEW part \in Seq(Prose), 1 \in 1..Len(part), part[1] = t[i], c[i] = Onto(part, rest) PROVE c[i][1][1] = t[i]
  <2>1. Prepends(c[i], part, rest, Prose)
    BY <1>4, <1>7, OntoPart
  <2>2. c[i][1] = part \o rest[1] /\ rest[1] \in Seq(Prose)
    BY <2>1 DEF Prepends
  <2>3. Joins(c[i][1], part, rest[1], Prose)
    BY <2>2, Joined
  <2> QED BY <1>7, <2>3 DEF Joins
<1>8. CASE IsQuote(t[i]) \/ t[i] = Backtick
  <2>1. c[i] = Onto(quoted, rest)
    BY <1>2, <1>8, Zenon DEF CutStep
  <2>2. c[i][1][1] = t[i]
    <3> HIDE DEF quoted, rest
    <3> QED BY <1>5, <1>7, <2>1
  <2>3. ~EndsStatement(t[i])
    BY <1>8, Zenon DEF EndsStatement, IsQuote, Backtick
  <2> QED BY <2>2, <2>3
<1>9. CASE ~(IsQuote(t[i]) \/ t[i] = Backtick) /\ EndsStatement(t[i])
  <2>1. c[i] = << <<>> >> \o rest
    BY <1>2, <1>9, Zenon DEF CutStep, EndsStatement
  <2>2. (<< <<>> >> \o rest)[1] = <<>>
    <3> HIDE DEF rest
    <3> QED BY <1>4, NewPart
  <2> QED BY <2>1, <2>2
<1>10. CASE ~(IsQuote(t[i]) \/ t[i] = Backtick) /\ ~EndsStatement(t[i])
  <2>1. c[i] = Onto(<<t[i]>>, rest)
    BY <1>2, <1>10, Zenon DEF CutStep, EndsStatement
  <2>2. c[i][1][1] = t[i]
    <3> DEFINE part == <<t[i]>>
    <3>1. part \in Seq(Prose) /\ 1 \in 1..Len(part) /\ part[1] = t[i] /\ c[i] = Onto(part, rest)
      BY <1>6, <2>1
    <3> HIDE DEF part, rest
    <3> QED BY <1>7, <3>1
  <2> QED BY <1>10, <2>2
<1> QED BY <1>8, <1>9, <1>10

(* Behind a comment of an orderly text comes a blank or a semicolon.        *)
LEMMA RemarksGo ==
  ASSUME NEW t \in Seq(Prose), Orderly(t), NEW c, Cuts(c, t), NEW f, Lexes(f, t),
         NEW i \in Stops(t), i <= Len(t), Remark(t, i)
  PROVE  LET end == Onward(t, i) IN
         /\ end \in (i + 1)..(Len(t) + 1) /\ end \in Stops(t) /\ c[i] = c[end] /\ f[i] = f[end]
         /\ end <= Len(t) => IsSpace(t[end]) \/ EndsStatement(t[end])
<1> DEFINE end == Onward(t, i)
<1>1. i \in 1..Len(t) /\ Len(t) \in Nat /\ end \in (i + 1)..(Len(t) + 1) /\ end \in Stops(t) /\ t[i] # Backtick
  BY ProseText, StopsGoOn, OnwardRange DEF Orderly
<1>2. IsOperator(t[i]) /\ ~IsQuote(t[i]) /\ ~IsSpace(t[i])
  BY <1>1, OpensWithOperator, Classes DEF Remark
<1>3. c[i] = c[end]
  <2>1. CutStep(t, i, c[end]) = c[end]
    BY <1>1, <1>2, Zenon DEF CutStep
  <2>2. c[i] = CutStep(t, i, c[end])
    BY <1>1 DEF Cuts
  <2> QED BY <2>1, <2>2
<1>4. CASE Has(t, i, DashDash)
  <2>1. end = LineEnd(t, i) /\ Beyond(t, i) = LineEnd(t, i) /\ Passes(t, i)
    BY <1>1, <1>2, <1>4, Zenon DEF Onward, Beyond, Passes
  <2> HIDE DEF end
  <2>2. end <= Len(t) => IsSpace(t[end])
    BY <1>1, <2>1, LineEndsInBlank
  <2>3. f[i] = f[end]
    BY <1>1, <2>1 DEF Lexes
  <2> QED BY <1>1, <1>3, <2>2, <2>3 DEF end
<1>5. CASE ~Has(t, i, DashDash)
  <2>1. Has(t, i, OpenComment)
    BY <1>5 DEF Remark
  <2>2. end = CommentEnd(t, i) /\ Beyond(t, i) = NestedCommentEnd(t, i) /\ Passes(t, i)
    BY <1>1, <1>2, <1>5, <2>1, Zenon DEF Onward, Beyond, Passes
  <2>3. Apart(t, i)
    BY <2>1 DEF Orderly
  <2> HIDE DEF end
  <2>4. Unnested(t, i, end) /\ (end <= Len(t) => IsSpace(t[end]) \/ EndsStatement(t[end]))
    BY <2>2, <2>3 DEF Apart
  <2>5. NestedCommentEnd(t, i) = CommentEnd(t, i)
    BY <1>1, <2>1, <2>2, <2>4, UnnestedComment
  <2>6. f[i] = f[end]
    BY <1>1, <2>2, <2>5 DEF Lexes
  <2> QED BY <1>1, <1>3, <2>4, <2>6 DEF end
<1> QED BY <1>4, <1>5

LEMMA Leads ==
  ASSUME NEW t \in Seq(Prose), Orderly(t), NEW c, Cuts(c, t), NEW f, Lexes(f, t), NEW i \in Stops(t)
  PROVE  c[i][1] = <<>> \/ IsSpace(c[i][1][1]) \/ (i <= Len(t) /\ c[i][1][1] = t[i])
<1>1. Len(t) \in Nat
  BY ProseText
<1>2. i \in 1..(Len(t) + 1)
  BY <1>1, StopsGoOn
<1>3. c[Len(t) + 1][1] = <<>>
  BY DEF Cuts
<1>4. CASE i = Len(t) + 1
  BY <1>3, <1>4
<1>5. CASE i # Len(t) + 1 /\ ~Remark(t, i)
  <2>1. i \in 1..Len(t) /\ i <= Len(t)
    BY <1>1, <1>2, <1>5
  <2> QED BY <1>5, <2>1, CutLead
<1>6. CASE i # Len(t) + 1 /\ Remark(t, i)
  <2> DEFINE end == Onward(t, i)
  <2>1. i <= Len(t)
    BY <1>1, <1>2, <1>6
  <2>2. /\ end \in (i + 1)..(Len(t) + 1) /\ c[i] = c[end]
        /\ end <= Len(t) => IsSpace(t[end]) \/ EndsStatement(t[end])
    BY <1>6, <2>1, RemarksGo
  <2> HIDE DEF end
  <2>3. CASE end = Len(t) + 1
    BY <1>3, <2>2, <2>3
  <2>4. CASE end # Len(t) + 1
    <3>1. end \in 1..Len(t) /\ end <= Len(t)
      BY <1>1, <1>2, <2>2, <2>4
    <3>2. ~IsOperator(t[end])
      <4>1. \A k : EndsStatement(k) => ~IsOperator(k)
        BY Zenon DEF EndsStatement, IsOperator, Backtick
      <4> QED BY <2>2, <3>1, <4>1, Classes
    <3>3. ~Remark(t, end)
      BY <1>1, <3>1, <3>2, OpensWithOperator DEF Remark
    <3>4. (c[end][1] = <<>> \/ c[end][1][1] = t[end]) /\ (EndsStatement(t[end]) => c[end][1] = <<>>)
      BY <3>1, <3>3, CutLead
    <3> QED BY <2>2, <3>1, <3>4
  <2> QED BY <2>3, <2>4
<1> QED BY <1>4, <1>5, <1>6

(* Piece by piece, the tokens are those of the pieces.                      *)
AllMatch(pieces, groups) ==
  Len(pieces) = Len(groups) /\ \A k \in 1..Len(pieces) : Matches(pieces[k], groups[k])

LEMMA NothingMatches == AllMatch(<< <<>> >>, << <<>> >>)
<1>1. Len(<< <<>> >>) = 1 /\ << <<>> >>[1] = <<>> /\ \A k \in 1..1 : k = 1
  OBVIOUS
<1>2. Matches(<<>>, <<>>)
  <2>1. <<>> \in Seq(Prose) /\ \A j \in 1..Len(<<>>) : FALSE
    OBVIOUS
  <2> QED BY <2>1, BlankMatches DEF Blank
<1> QED BY <1>1, <1>2 DEF AllMatch

LEMMA NewMatch ==
  ASSUME NEW pieces \in Lists(Prose), NEW S, NEW groups \in Lists(S), AllMatch(pieces, groups)
  PROVE  AllMatch(<< <<>> >> \o pieces, << <<>> >> \o groups)
<1> DEFINE y == << <<>> >> \o pieces
           z == << <<>> >> \o groups
<1>1. Len(pieces) \in Nat \ {0} /\ Len(y) = Len(pieces) + 1 /\ y[1] = <<>> /\ \A k \in 2..(Len(pieces) + 1) : y[k] = pieces[k - 1]
  BY NewPart
<1>2. Len(groups) \in Nat \ {0} /\ Len(z) = Len(groups) + 1 /\ z[1] = <<>> /\ \A k \in 2..(Len(groups) + 1) : z[k] = groups[k - 1]
  BY NewPart
<1>3. Matches(<<>>, <<>>)
  <2>1. <<>> \in Seq(Prose) /\ \A j \in 1..Len(<<>>) : FALSE
    OBVIOUS
  <2> QED BY <2>1, BlankMatches DEF Blank
<1> HIDE DEF y, z
<1>4. Len(pieces) = Len(groups) /\ \A k \in 1..Len(pieces) : Matches(pieces[k], groups[k])
  BY DEF AllMatch
<1>5. ASSUME NEW k \in 1..Len(y) PROVE Matches(y[k], z[k])
  <2>1. CASE k = 1
    BY <1>1, <1>2, <1>3, <2>1
  <2>2. CASE k # 1
    <3>1. k \in 2..(Len(pieces) + 1) /\ k \in 2..(Len(groups) + 1) /\ k - 1 \in 1..Len(pieces)
      BY <1>1, <1>4, <2>2
    <3>2. y[k] = pieces[k - 1] /\ z[k] = groups[k - 1]
      BY <1>1, <1>2, <3>1
    <3> QED BY <1>4, <3>1, <3>2
  <2> QED BY <2>1, <2>2
<1>6. Len(y) = Len(z)
  BY <1>1, <1>2, <1>4
<1> QED BY <1>5, <1>6 DEF AllMatch, y, z

LEMMA FirstMatch ==
  ASSUME NEW part \in Seq(Prose), NEW pieces \in Lists(Prose), NEW S, NEW tokens \in Seq(S), NEW groups \in Lists(S),
         AllMatch(pieces, groups), Matches(part \o pieces[1], tokens \o groups[1])
  PROVE  AllMatch(Onto(part, pieces), Onto(tokens, groups))
<1> DEFINE y == Onto(part, pieces)
           z == Onto(tokens, groups)
<1>1. Prepends(y, part, pieces, Prose)
  <2>1. pieces \in Seq(Seq(Prose)) /\ pieces # <<>>
    BY DEF Lists
  <2> QED BY <2>1, OntoPart
<1>2. Prepends(z, tokens, groups, S)
  <2>1. groups \in Seq(Seq(S)) /\ groups # <<>>
    BY DEF Lists
  <2> QED BY <2>1, OntoPart
<1> HIDE DEF y, z
<1>3. Len(pieces) = Len(groups) /\ \A k \in 1..Len(pieces) : Matches(pieces[k], groups[k])
  BY DEF AllMatch
<1>4. Len(y) = Len(pieces) /\ Len(z) = Len(groups) /\ Len(pieces) \in Nat
  BY <1>1, <1>2 DEF Prepends
<1>5. y[1] = part \o pieces[1] /\ \A k \in 2..Len(pieces) : y[k] = pieces[k]
  BY <1>1 DEF Prepends
<1>6. z[1] = tokens \o groups[1] /\ \A k \in 2..Len(groups) : z[k] = groups[k]
  BY <1>2 DEF Prepends
<1>7. ASSUME NEW k \in 1..Len(y) PROVE Matches(y[k], z[k])
  <2>1. CASE k = 1
    BY <1>5, <1>6, <2>1
  <2>2. CASE k # 1
    <3>1. k \in 2..Len(pieces) /\ k \in 1..Len(pieces)
      BY <1>4, <2>2
    <3>2. y[k] = pieces[k] /\ z[k] = groups[k]
      BY <1>3, <1>5, <1>6, <3>1
    <3> QED BY <1>3, <3>1, <3>2
  <2> QED BY <2>1, <2>2
<1>8. Len(y) = Len(z)
  BY <1>3, <1>4
<1> QED BY <1>7, <1>8 DEF AllMatch, y, z

(* Wherever SplitStatements stops, the pieces of the rest have the tokens   *)
(* of the rest, statement by statement.                                    *)
LEMMA RestMatches ==
  ASSUME NEW t \in Seq(Prose), Orderly(t), NEW c, Cuts(c, t), NEW f, Lexes(f, t)
  PROVE  AllMatch(c[1], Groups(f[1]))
<1> DEFINE n == Len(t) + 1
           S == {Token(t, j) : j \in 1..Len(t)}
           matching == {i \in 1..n : i \in Stops(t) => AllMatch(c[i], Groups(f[i]))}
<1>1. Len(t) \in Nat /\ n \in Nat /\ 1 \in 1..n /\ \A i \in 1..Len(t) : t[i] \in Prose
  BY ProseText
<1>2. \A i \in 1..Len(t) : Token(t, i) \in S
  OBVIOUS
<1>3. \A i \in 1..n : f[i] \in Seq(S)
  BY <1>1, LexTyped
<1> HIDE DEF S
<1>4. \A i \in 1..n : c[i] \in Lists(Prose)
  BY DEF Cuts, Pieces, Lists
<1>5. ASSUME NEW i \in 1..n PROVE Groups(f[i]) \in Lists(S)
  <2>1. ASSUME NEW token \in S PROVE Groups(f[i]) \in Lists(S)
    BY <1>3, GroupsGo
  <2>2. CASE S = {}
    <3>1. f[i] = <<>>
      BY <1>3, <2>2
    <3>2. << <<>> >> \in Lists(S)
      BY DEF Lists
    <3> QED BY <3>1, <3>2, NoGroups
  <2> QED BY <2>1, <2>2
<1>6. ASSUME NEW i \in 1..n, \A j \in (i + 1)..n : j \in matching, i \in Stops(t) PROVE AllMatch(c[i], Groups(f[i]))
  <2>1. CASE i = n
    <3>1. c[i] = << <<>> >> /\ f[i] = <<>>
      BY <2>1 DEF Cuts, Lexes
    <3> QED BY <3>1, NoGroups, NothingMatches
  <2>2. CASE i # n
    <3>1. i \in 1..Len(t) /\ i <= Len(t) /\ i + 1 \in (i + 1)..n /\ i + 1 \in 1..n
      BY <1>1, <2>2
    <3>2. ASSUME NEW j \in (i + 1)..n, j \in Stops(t) PROVE AllMatch(c[j], Groups(f[j])) /\ c[j] \in Lists(Prose) /\ Groups(f[j]) \in Lists(S)
      <4>1. j \in 1..n
        BY <1>1
      <4> QED BY <1>4, <1>5, <1>6, <3>2, <4>1
    <3>3. ASSUME NEW j \in (i + 1)..n, j \in Stops(t)
          PROVE  c[j][1] \in Seq(Prose) /\ Groups(f[j])[1] \in Seq(S) /\ Matches(c[j][1], Groups(f[j])[1])
      <4>1. AllMatch(c[j], Groups(f[j])) /\ c[j] \in Lists(Prose) /\ Groups(f[j]) \in Lists(S)
        BY <3>2, <3>3
      <4>2. Len(c[j]) \in Nat \ {0} /\ c[j][1] \in Seq(Prose) /\ Groups(f[j])[1] \in Seq(S)
        BY <4>1 DEF Lists
      <4>3. 1 \in 1..Len(c[j])
        BY <4>2
      <4> QED BY <4>1, <4>2, <4>3 DEF AllMatch
    <3>4. CASE IsSpace(t[i])
      <4>1. ~IsQuote(t[i]) /\ ~Remark(t, i) /\ ~EndsStatement(t[i])
        <5>1. ~IsQuote(t[i]) /\ ~IsOperator(t[i])
          BY <3>4, Classes
        <5>2. ~Remark(t, i)
          BY <1>1, <3>1, <5>1, OpensWithOperator DEF Remark
        <5>3. ~EndsStatement(t[i])
          BY <3>4, Zenon DEF IsSpace, EndsStatement
        <5> QED BY <5>1, <5>2, <5>3
      <4>2. i + 1 \in Stops(t) /\ c[i] = Onto(<<t[i]>>, c[i + 1])
        BY <1>6, <3>1, <4>1, CodeCut
      <4>3. f[i] = f[i + 1]
        <5>1. Passes(t, i) /\ Beyond(t, i) = i + 1
          BY <3>4, Zenon DEF Passes, Beyond
        <5> QED BY <3>1, <5>1 DEF Lexes
      <4>4. /\ c[i + 1][1] \in Seq(Prose) /\ Groups(f[i + 1])[1] \in Seq(S) /\ Matches(c[i + 1][1], Groups(f[i + 1])[1])
            /\ AllMatch(c[i + 1], Groups(f[i + 1])) /\ c[i + 1] \in Lists(Prose) /\ Groups(f[i + 1]) \in Lists(S)
        BY <3>1, <3>2, <3>3, <4>2
      <4>5. t[i] \in Prose /\ <<t[i]>> \in Seq(Prose) /\ <<>> \in Seq(S)
        BY <1>1, <3>1
      <4>6. Matches(<<t[i]>> \o c[i + 1][1], Groups(f[i + 1])[1])
        BY <3>4, <4>4, <4>5, SpaceMatches
      <4>7. <<>> \o Groups(f[i + 1])[1] = Groups(f[i + 1])[1]
        BY <4>4, ConcatEmptySeq, Zenon
      <4>8. AllMatch(Onto(<<t[i]>>, c[i + 1]), Onto(<<>>, Groups(f[i + 1])))
        BY <4>4, <4>5, <4>6, <4>7, FirstMatch
      <4>9. Onto(<<>>, Groups(f[i + 1])) = Groups(f[i + 1])
        BY <4>4, <4>5, OntoTwice DEF Lists
      <4> QED BY <4>2, <4>3, <4>8, <4>9
    <3>5. CASE Remark(t, i)
      <4>1. Onward(t, i) \in (i + 1)..n /\ Onward(t, i) \in Stops(t) /\ c[i] = c[Onward(t, i)] /\ f[i] = f[Onward(t, i)]
        BY <1>6, <3>1, <3>5, RemarksGo
      <4> QED BY <3>2, <4>1
    <3>6. CASE ~IsSpace(t[i]) /\ ~Remark(t, i) /\ EndsStatement(t[i])
      <4>1. ~Passes(t, i)
        BY <3>6 DEF Passes, Remark
      <4>2. Token(t, i) = SemicolonToken /\ Beyond(t, i) = i + 1
        BY <3>1, <3>6, <4>1, SemicolonTokens
      <4>3. f[i] = <<Token(t, i)>> \o f[i + 1]
        BY <3>1, <4>1, <4>2 DEF Lexes
      <4>4. Groups(f[i]) = GroupStep(Token(t, i), Groups(f[i + 1]))
        BY <1>2, <1>3, <3>1, <4>3, GroupsGo
      <4>5. Groups(f[i]) = << <<>> >> \o Groups(f[i + 1])
        BY <4>2, <4>4, Zenon DEF GroupStep, SemicolonToken
      <4>6. c[i] = << <<>> >> \o c[i + 1] /\ i + 1 \in Stops(t)
        <5>1. ~IsQuote(t[i]) /\ t[i] # Backtick
          BY <3>6, Zenon DEF IsQuote, Backtick, EndsStatement
        <5>2. Onward(t, i) = i + 1
          BY <3>6, <5>1, Zenon DEF Onward, Remark
        <5>3. CutStep(t, i, c[i + 1]) = << <<>> >> \o c[i + 1]
          BY <3>6, <5>1, Zenon DEF CutStep, EndsStatement
        <5>4. c[i] = CutStep(t, i, c[Onward(t, i)])
          BY <3>1 DEF Cuts
        <5>5. Onward(t, i) \in Stops(t)
          BY <1>1, <1>6, <3>1, StopsGoOn
        <5> QED BY <5>2, <5>3, <5>4, <5>5
      <4> QED BY <3>1, <3>2, <4>5, <4>6, NewMatch
    <3>7. CASE ~IsSpace(t[i]) /\ ~Remark(t, i) /\ ~EndsStatement(t[i])
      <4> DEFINE end == Beyond(t, i)
                 part == SubSeq(t, i, end - 1)
                 token == Token(t, i)
                 one == <<token>>
      <4>1. ~Passes(t, i)
        BY <3>7 DEF Passes, Remark
      <4>2. end \in (i + 1)..n /\ end \in Stops(t) /\ c[i] = Onto(part, c[end])
        BY <1>6, <3>1, <3>7, <4>1, TokenCut, TokenEnds
      <4>3. token \in S /\ token # SemicolonToken /\ one \in Seq(S)
        <5>1. token \in S /\ token # SemicolonToken
          BY <1>2, <3>1, <3>7, <4>1, SemicolonTokens
        <5> QED BY <5>1
      <4>4. f[i] = one \o f[end]
        BY <3>1, <4>1 DEF Lexes
      <4>5. end \in 1..n
        BY <1>1, <3>1, <4>2
      <4>6. Groups(f[i]) = GroupStep(token, Groups(f[end]))
        BY <1>3, <4>3, <4>4, <4>5, GroupsGo
      <4>7. Groups(f[i]) = Onto(one, Groups(f[end]))
        BY <4>3, <4>6, Zenon DEF GroupStep, SemicolonToken
      <4>8. /\ c[end][1] \in Seq(Prose) /\ Groups(f[end])[1] \in Seq(S) /\ Matches(c[end][1], Groups(f[end])[1])
            /\ AllMatch(c[end], Groups(f[end])) /\ c[end] \in Lists(Prose) /\ Groups(f[end]) \in Lists(S)
        BY <3>2, <3>3, <4>2
      <4>9. c[end][1] = <<>> \/ IsSpace(c[end][1][1]) \/ (end <= Len(t) /\ c[end][1][1] = t[end])
        BY <4>2, Leads
      <4>10. Matches(part \o c[end][1], one \o Groups(f[end])[1])
        BY <1>6, <3>1, <4>1, <4>3, <4>8, <4>9, TokenMatches
      <4>11. part \in Seq(Prose)
        <5>1. i \in Int /\ end - 1 \in Int /\ \A l \in i..(end - 1) : t[l] \in Prose
          BY <1>1, <3>1, <4>2
        <5> QED BY <5>1, SubSeqProperties
      <4> HIDE DEF part, one, end
      <4>12. AllMatch(Onto(part, c[end]), Onto(one, Groups(f[end])))
        BY <4>3, <4>8, <4>10, <4>11, FirstMatch
      <4> QED BY <4>2, <4>7, <4>12
    <3> QED BY <3>4, <3>5, <3>6, <3>7
  <2> QED BY <2>1, <2>2
<1>7. matching = 1..n
  <2>1. matching \in SUBSET (1..n)
    OBVIOUS
  <2>2. \A i \in 1..n : (\A j \in (i + 1)..n : j \in matching) => i \in matching
    BY <1>6
  <2> HIDE DEF matching, n
  <2> QED BY <1>1, <2>1, <2>2, FromTheEnd
<1> QED BY <1>1, <1>7, StopsGoOn

(* Without the blanks around it, a piece is where it was.                   *)
LEMMA TrimmedFits ==
  ASSUME NEW h \in Seq(Prose), ~Blank(h)
  PROVE  /\ TrimSpace(h) \in Seq(Prose) /\ TrimSpace(h) # <<>>
         /\ \E d \in Int : Fits(TrimSpace(h), d, h) /\ Entry(TrimSpace(h), d) = 1
<1> DEFINE n == Len(h)
           solid == {i \in 1..n : ~IsSpace(h[i])}
           turned == {m \in 0..n : n - m \in solid}
<1>1. n \in Nat /\ DOMAIN h = 1..n /\ solid \in SUBSET Nat /\ solid # {} /\ \A i \in 1..n : h[i] \in Prose
  BY DEF Blank
<1>2. PICK first \in solid : \A j \in solid : first <= j
  <2> HIDE DEF solid, n
  <2> QED BY <1>1, LeastNumber
<1>3. \E last \in solid : \A j \in solid : j <= last
  <2>1. \A i \in solid : n - i \in turned /\ i \in 1..n
    <3> SUFFICES ASSUME NEW i \in solid PROVE n - i \in turned /\ i \in 1..n
      OBVIOUS
    <3>1. n - i \in 0..n /\ n - (n - i) = i
      BY <1>1
    <3> QED BY <3>1
  <2>2. turned \in SUBSET Nat /\ \A m \in turned : n - m \in solid /\ m \in 0..n
    BY <1>1
  <2> HIDE DEF solid, turned, n
  <2>3. turned # {}
    BY <1>1, <2>1
  <2>4. PICK m \in turned : \A k \in turned : m <= k
    BY <2>2, <2>3, LeastNumber
  <2>5. ASSUME NEW j \in solid PROVE j <= n - m
    <3>1. m <= n - j /\ j \in 1..n /\ m \in 0..n
      BY <2>1, <2>2, <2>4
    <3> QED BY <1>1, <3>1
  <2> QED BY <2>2, <2>4, <2>5
<1> DEFINE last == CHOOSE i \in solid : \A j \in solid : j <= i
           p == SubSeq(h, first, last)
           d == 1 - first
<1>4. last \in solid /\ \A j \in solid : j <= last
  <2> HIDE DEF solid
  <2> QED BY <1>3, Zenon
<1>5. first \in 1..n /\ last \in 1..n /\ first <= last
  <2>1. first \in 1..n
    BY <1>2
  <2>2. last \in 1..n
    <3> HIDE DEF last
    <3> QED BY <1>4
  <2>3. first <= last
    <3> HIDE DEF last, solid
    <3> QED BY <1>2, <1>4
  <2> QED BY <2>1, <2>2, <2>3
<1>6. TrimSpace(h) = p
  <2>1. solid = {i \in DOMAIN h : ~IsSpace(h[i])}
    BY <1>1
  <2>2. Least(solid, 1) = first
    <3>1. Least(solid, 1) = CHOOSE i \in solid : \A j \in solid : i <= j
      BY <1>1, Zenon DEF Least
    <3> DEFINE low == CHOOSE i \in solid : \A j \in solid : i <= j
    <3>2. low \in solid /\ \A j \in solid : low <= j
      <4> HIDE DEF solid
      <4> QED BY <1>2, Zenon
    <3>3. low \in Nat /\ first \in Nat
      <4> HIDE DEF solid, low
      <4> QED BY <1>1, <1>2, <3>2
    <3>4. low <= first /\ first <= low
      <4> HIDE DEF solid, low
      <4> QED BY <1>2, <3>2
    <3>5. low = first
      <4> HIDE DEF solid, low
      <4> QED BY <3>3, <3>4
    <3> QED BY <3>1, <3>5
  <2> HIDE DEF solid
  <2> QED BY <1>1, <2>1, <2>2, Zenon DEF TrimSpace
<1> HIDE DEF last
<1>7. /\ Len(p) = last - first + 1 /\ p \in Seq(Prose)
      /\ \A k \in 1..(last - first + 1) : p[k] = h[first + k - 1]
  <2>1. \A k \in first..last : h[k] \in Prose
    BY <1>1, <1>5
  <2>2. first \in Int /\ last \in Int
    BY <1>5
  <2>3. Len(p) = last - first + 1
    BY <1>5, <2>1, <2>2, SubSeqProperties
  <2>4. p \in Seq(Prose)
    BY <1>5, <2>1, <2>2, SubSeqProperties
  <2>5. \A k \in 1..(last - first + 1) : p[k] = h[first + k - 1]
    BY <1>5, <2>1, <2>2, SubSeqProperties
  <2> QED BY <2>3, <2>4, <2>5
<1> HIDE DEF p
<1>8. p # <<>>
  BY <1>5, <1>7
<1>9. Fits(p, d, h)
  <2>1. Len(p) <= d + n
    BY <1>1, <1>5, <1>7
  <2>2. ASSUME NEW j \in 1..n PROVE IF d + j \in 1..Len(p) THEN p[d + j] = h[j] ELSE IsSpace(h[j])
    <3>1. CASE d + j \in 1..Len(p)
      <4>1. d + j \in 1..(last - first + 1) /\ first + (d + j) - 1 = j
        BY <1>5, <1>7, <3>1
      <4> QED BY <1>7, <3>1, <4>1
    <3>2. CASE d + j \notin 1..Len(p)
      <4>1. j < first \/ last < j
        BY <1>5, <1>7, <3>2
      <4>2. j \notin solid
        <5>1. ~(first <= j) \/ ~(j <= last)
          BY <1>5, <4>1
        <5> HIDE DEF solid
        <5> QED BY <1>2, <1>4, <5>1
      <4> QED BY <3>2, <4>2
    <3> QED BY <3>1, <3>2
  <2> QED BY <2>1, <2>2 DEF Fits
<1>10. Entry(p, d) = 1
  BY <1>5, <1>7 DEF Entry
<1>11. d \in Int
  BY <1>5
<1> QED BY <1>6, <1>7, <1>8, <1>9, <1>10, <1>11

LEMMA TrimmedBlank == ASSUME NEW h \in Seq(Prose), Blank(h) PROVE TrimSpace(h) = <<>>
<1>1. {i \in DOMAIN h : ~IsSpace(h[i])} = {}
  BY DEF Blank
<1> QED BY <1>1, Zenon DEF TrimSpace

(* The statement a piece makes, and its tokens.                             *)
LEMMA TrimmedReads ==
  ASSUME NEW h \in Seq(Prose), NEW tokens, Matches(h, tokens)
  PROVE  /\ TrimSpace(h) \in Seq(Prose)
         /\ tokens = <<>> <=> TrimSpace(h) = <<>>
         /\ TrimSpace(h) # <<>> => tokens = SqlTokens(TrimSpace(h))
<1> DEFINE p == TrimSpace(h)
<1>1. CASE Blank(h)
  <2>1. <<>> \in Seq(Prose)
    OBVIOUS
  <2>2. p = <<>> /\ tokens = <<>>
    BY <1>1, TrimmedBlank DEF Matches
  <2> QED BY <2>1, <2>2
<1>2. CASE ~Blank(h)
  <2>1. p \in Seq(Prose) /\ p # <<>> /\ tokens # <<>>
    BY <1>2, TrimmedFits DEF Matches
  <2>2. PICK d \in Int : Fits(p, d, h) /\ Entry(p, d) = 1
    BY <1>2, TrimmedFits
  <2> HIDE DEF p
  <2>3. Len(p) \in Nat /\ \A i \in 1..Len(p) : p[i] # "$"
    BY <2>1, ProseText, Zenon
  <2>4. PICK g : Lexes(g, p) /\ SqlTokens(p) = g[1]
    BY <2>3, LexUnfolds, Zenon
  <2>5. g[Entry(p, d)] = tokens
    BY <2>1, <2>2, <2>4, Zenon DEF Matches, Reads
  <2>6. tokens = SqlTokens(p)
    BY <2>2, <2>4, <2>5, Zenon
  <2> QED BY <2>1, <2>6, Zenon DEF p
<1> QED BY <1>1, <1>2

LEMMA OrderlySplit ==
  ASSUME NEW t \in Seq(Prose), Orderly(t)
  PROVE  StatementsOf(SqlTokens(t)) = TokensOf(SplitStatements(t))
<1> DEFINE S == {Token(t, j) : j \in 1..Len(t)}
<1>1. Len(t) \in Nat /\ \A i \in 1..Len(t) : t[i] # "$"
  BY ProseText, Zenon
<1>2. PICK c : Cuts(c, t) /\ SplitStatements(t) = NonEmpty([k \in DOMAIN c[1] |-> TrimSpace(c[1][k])])
  BY SplitUnfolds
<1>3. PICK f : Lexes(f, t) /\ SqlTokens(t) = f[1]
  BY <1>1, LexUnfolds, Zenon
<1>4. AllMatch(c[1], Groups(f[1]))
  BY <1>2, <1>3, RestMatches, Zenon
<1> DEFINE cut == c[1]
           groups == Groups(f[1])
           m == Len(cut)
           pieces == [k \in DOMAIN cut |-> TrimSpace(cut[k])]
<1>5. 1 \in 1..(Len(t) + 1)
  BY <1>1
<1>6. f[1] \in Seq(S)
  BY <1>1, <1>3, <1>5, LexTyped
<1>7. cut \in Seq(Seq(Prose))
  BY <1>2, <1>5 DEF Cuts, Pieces
<1> HIDE DEF S, cut
<1>8. groups \in Seq(Seq(S))
  <2>1. ASSUME NEW token \in S PROVE groups \in Seq(Seq(S))
    BY <1>6, GroupsGo DEF Lists
  <2>2. CASE S = {}
    <3>1. f[1] = <<>>
      BY <1>6, <2>2
    <3>2. << <<>> >> \in Seq(Seq(S))
      OBVIOUS
    <3> QED BY <3>1, <3>2, NoGroups
  <2> QED BY <2>1, <2>2
<1>9. m \in Nat /\ DOMAIN cut = 1..m /\ \A k \in 1..m : cut[k] \in Seq(Prose)
  BY <1>7
<1>10. Len(groups) = m /\ \A k \in 1..m : Matches(cut[k], groups[k])
  BY <1>4, Zenon DEF AllMatch, cut
<1> HIDE DEF groups, m
<1>11. ASSUME NEW k \in 1..m
       PROVE  /\ TrimSpace(cut[k]) \in Seq(Prose)
              /\ groups[k] = <<>> <=> TrimSpace(cut[k]) = <<>>
              /\ TrimSpace(cut[k]) # <<>> => groups[k] = SqlTokens(TrimSpace(cut[k]))
  BY <1>9, <1>10, TrimmedReads, Zenon
<1>12. /\ pieces \in Seq(Seq(Prose)) /\ Len(pieces) = m
       /\ \A k \in 1..m : pieces[k] = TrimSpace(cut[k])
  <2>1. pieces = [k \in 1..m |-> TrimSpace(cut[k])]
    BY <1>9
  <2> QED BY <1>9, <1>11, <2>1
<1> HIDE DEF pieces
<1>13. \A k \in 1..m : /\ groups[k] = <<>> <=> pieces[k] = <<>>
                       /\ pieces[k] # <<>> => groups[k] = SqlTokens(pieces[k])
  BY <1>11, <1>12, Zenon
<1>14. NonEmpty(groups) = TokensOf(NonEmpty(pieces))
  <2>1. Answers(groups, pieces)
    BY <1>10, <1>12, <1>13, Zenon DEF Answers
  <2> DEFINE T == Seq(S)
             U == Seq(Prose)
  <2>2. groups \in Seq(T) /\ pieces \in Seq(U)
    BY <1>8, <1>12
  <2> HIDE DEF T, U
  <2> QED BY <2>1, <2>2, KeptTogether
<1>15. SplitStatements(t) = NonEmpty(pieces)
  BY <1>2, Zenon DEF pieces, cut
<1>16. StatementsOf(SqlTokens(t)) = NonEmpty(groups)
  BY <1>3, StatementsAreGroups, Zenon DEF groups
<1> QED BY <1>14, <1>15, <1>16

(* The token sequence that is hashed is that of the statements that are     *)
(* sent, for every orderly text of any length (digest.go:14-72,             *)
(* splitsql.go:18-82): two files of one semantic digest make the same       *)
(* statements.                                                             *)
THEOREM SplitKeepsTokensAlways == Spec => [](Orderly(text) => SplitKeepsTokens)
<1>1. TextInv => (Orderly(text) => SplitKeepsTokens)
  <2> SUFFICES ASSUME TextInv, Orderly(text)
               PROVE  StatementsOf(SqlTokens(text)) = TokensOf(SplitStatements(text))
    BY Zenon DEF SplitKeepsTokens, TokensOf
  <2>1. text \in Seq(Prose)
    <3>1. text \in Seq(Characters)
      BY DEF TextInv
    <3>2. \A x \in Characters : x # "$" => x \in Prose
      BY Zenon DEF Prose, Written
    <3>3. \A i \in 1..Len(text) : text[i] # "$"
      BY Zenon DEF Orderly
    <3>4. Len(text) \in Nat /\ \A i \in 1..Len(text) : text[i] \in Characters
      BY <3>1
    <3>5. text = [i \in 1..Len(text) |-> text[i]]
      BY <3>1
    <3>6. \A i \in 1..Len(text) : text[i] \in Prose
      BY <3>2, <3>3, <3>4, Zenon
    <3> QED BY <3>4, <3>5, <3>6
  <2> QED BY <2>1, OrderlySplit
<1> QED BY <1>1, TextsAreTexts, PTL
=============================================================================
