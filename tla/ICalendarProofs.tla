--------------------------- MODULE ICalendarProofs ---------------------------
(***************************************************************************)
(* What ICalendar writes of an event reads back, for every event: its      *)
(* texts can be of any length and of any characters.                       *)
(*                                                                         *)
(* Escape, Unescape and ParseICS go through a sequence one element at a    *)
(* time, so that what they return is shown by induction on how far they    *)
(* have come.  The induction is on sets: the numbers that are not in a set *)
(* closed under successor would have, among the intervals that end in one  *)
(* of them, one that includes no other.  From it follow, of each of the    *)
(* three, that a function of positions satisfies its recursion (Flattened, *)
(* Unescaped, ReadInOrder), and then what it computes.                     *)
(***************************************************************************)
EXTENDS ICalendar, DatesProofs, FiniteSetTheorems, SequenceTheorems

-----------------------------------------------------------------------------
(* Induction                                                               *)

(* Of some finite sets, one includes no other.                             *)
LEMMA FiniteMinimum ==
  ASSUME NEW S, NEW T, T \subseteq FiniteSubsetsOf(S), T # {}
  PROVE  \E s \in T : \A t \in T : t \subseteq s => t = s
<1>1. PICK s \in T : \A t \in T : <<t, s>> \notin StrictSubsetOrdering(S)
  BY FS_StrictSubsetOrderingWellFounded, WFMin
<1>2. ASSUME NEW t \in T, t \subseteq s
      PROVE  t = s
  <2>1. t \in SUBSET S /\ s \in SUBSET S
    BY DEF FiniteSubsetsOf
  <2> QED BY <1>1, <1>2, <2>1 DEF StrictSubsetOrdering
<1> QED BY <1>2

(* A set with 0 in it and the successor of each of its numbers has all.    *)
LEMMA SetInduction ==
  ASSUME NEW S, 0 \in S, \A n \in Nat : n \in S => n + 1 \in S
  PROVE  Nat \subseteq S
<1> DEFINE Upto(n) == 0..n
           T == {Upto(n) : n \in Nat \ S}
<1>1. T \subseteq FiniteSubsetsOf(Nat)
  <2>1. ASSUME NEW n \in Nat
        PROVE  0..n \subseteq Nat /\ IsFiniteSet(0..n)
    BY FS_Interval
  <2> QED BY <2>1 DEF FiniteSubsetsOf
<1>2. SUFFICES ASSUME T # {} PROVE FALSE
  OBVIOUS
<1>3. PICK s \in T : \A t \in T : t \subseteq s => t = s
  <2> HIDE DEF T
  <2> QED BY <1>1, <1>2, FiniteMinimum
<1>4. PICK x \in Nat \ S : s = 0..x
  OBVIOUS
<1>5. x - 1 \in Nat \ S
  OBVIOUS
<1>6. 0..(x-1) \in T
  BY <1>5
<1>7. 0..(x-1) \subseteq 0..x /\ x \notin 0..(x-1) /\ x \in 0..x
  BY <1>4
<1> QED BY <1>3, <1>4, <1>6, <1>7

(* What n steps do, and the values a sequence of them goes through.        *)
Steps(X, n) == [1..n -> [X -> X]]

IsRun(f, X, n, a, step) ==
  /\ f \in [0..n -> X] /\ f[0] = a
  /\ \A i \in 1..n : f[i] = step[i][f[i - 1]]

(* Any steps can be taken one after the other.                             *)
LEMMA Iteration ==
  ASSUME NEW n \in Nat, NEW X, NEW a \in X, NEW step \in Steps(X, n)
  PROVE  \E f : IsRun(f, X, n, a, step)
<1> USE DEF Steps
<1> DEFINE Runs(f, k) == /\ f \in [0..k -> X] /\ f[0] = a
                         /\ \A i \in 1..k : f[i] = step[i][f[i - 1]]
           Good == {k \in Nat : k <= n => \E f : Runs(f, k)}
<1>1. 0 \in Good
  <2>1. Runs([i \in 0..0 |-> a], 0)
    OBVIOUS
  <2> HIDE DEF Runs
  <2> QED BY <2>1
<1>2. ASSUME NEW k \in Nat, k \in Good
      PROVE  k + 1 \in Good
  <2>1. SUFFICES ASSUME k + 1 <= n
                 PROVE  \E g : Runs(g, k + 1)
    <3> HIDE DEF Runs
    <3> QED OBVIOUS
  <2>2. PICK f : Runs(f, k)
    <3> HIDE DEF Runs
    <3> QED BY <1>2, <2>1
  <2> DEFINE g == [i \in 0..(k + 1) |-> IF i <= k THEN f[i] ELSE step[k + 1][f[k]]]
  <2>3. step[k + 1][f[k]] \in X
    <3>1. f[k] \in X
      BY <2>2
    <3> QED BY <3>1, <2>1
  <2>4. g \in [0..(k + 1) -> X] /\ g[0] = a
    BY <2>2, <2>3
  <2>5. ASSUME NEW i \in 1..(k + 1)
        PROVE  g[i] = step[i][g[i - 1]]
    <3>1. CASE i <= k
      BY <2>2, <3>1
    <3>2. CASE i = k + 1
      BY <3>2
    <3> QED BY <3>1, <3>2
  <2> HIDE DEF g
  <2>6. Runs(g, k + 1)
    BY <2>4, <2>5
  <2> HIDE DEF Runs
  <2> QED BY <2>6
<1>3. n \in Good
  <2> HIDE DEF Good
  <2> QED BY <1>1, <1>2, SetInduction
<1>4. PICK f : Runs(f, n)
  <2> HIDE DEF Runs
  <2> QED BY <1>3
<1> QED BY <1>4 DEF IsRun

(* FlattenSeq appends the sequences in their order.                        *)
LEMMA Flattened ==
  ASSUME NEW S, NEW seqs \in Seq(Seq(S))
  PROVE  \E F \in [0..Len(seqs) -> Seq(S)] :
            /\ F[0] = <<>>
            /\ \A i \in 1..Len(seqs) : F[i] = F[i - 1] \o seqs[i]
            /\ FlattenSeq(seqs) = F[Len(seqs)]
<1> DEFINE n == Len(seqs)
           none == <<>>
           Join(x, i) == x \o seqs[i]
           step == [i \in 1..n |-> [x \in Seq(S) |-> Join(x, i)]]
           Is(f) == f = [i \in 1..n |-> IF i = 1 THEN seqs[i] ELSE Join(f[i - 1], i)]
<1>1. /\ n \in Nat /\ none \in Seq(S)
      /\ \A i \in 1..n : seqs[i] \in Seq(S)
      /\ n = 0 => seqs = none
  BY EmptySeq, LenProperties
<1>2. \A x \in Seq(S), i \in 1..n : Join(x, i) \in Seq(S)
  BY <1>1, ConcatProperties
<1>3. \A i \in 1..n : Join(none, i) = seqs[i]
  BY <1>1, ConcatEmptySeq
<1>4. n = 0 => FlattenSeq(seqs) = none
  BY <1>1 DEF FlattenSeq
<1>5. n # 0 => FlattenSeq(seqs) = (CHOOSE f : Is(f))[n]
  BY Zenon DEF FlattenSeq
<1> HIDE DEF n, none, Join
<1>6. step \in Steps(Seq(S), n)
  BY <1>2 DEF Steps
<1>7. PICK F : IsRun(F, Seq(S), n, none, step)
  <2> HIDE DEF step
  <2> QED BY <1>1, <1>6, Iteration, Zenon
<1>8. /\ F \in [0..n -> Seq(S)] /\ F[0] = none
      /\ \A i \in 1..n : F[i] = Join(F[i - 1], i)
  <2>1. F \in [0..n -> Seq(S)] /\ F[0] = none
    BY <1>7 DEF IsRun
  <2>2. ASSUME NEW i \in 1..n
        PROVE  F[i] = Join(F[i - 1], i)
    <3>1. F[i - 1] \in Seq(S)
      BY <1>1, <2>1
    <3>2. F[i] = step[i][F[i - 1]]
      <4> HIDE DEF step
      <4> QED BY <1>7 DEF IsRun
    <3> QED BY <3>1, <3>2
  <2> QED BY <2>1, <2>2
<1>9. CASE n # 0
  <2> DEFINE g == [i \in 1..n |-> F[i]]
  <2>1. Is(g)
    <3>1. ASSUME NEW i \in 1..n
          PROVE  g[i] = IF i = 1 THEN seqs[i] ELSE Join(g[i - 1], i)
      <4>1. CASE i = 1
        <5>1. F[i] = Join(F[0], i)
          BY <1>8, <4>1
        <5> QED BY <5>1, <1>3, <1>8, <4>1
      <4>2. CASE i # 1
        <5>1. i - 1 \in 1..n
          BY <1>1, <4>2
        <5> QED BY <5>1, <1>8, <4>2
      <4> QED BY <4>1, <4>2
    <3> HIDE DEF g
    <3>2. g = [i \in 1..n |-> g[i]]
      BY DEF g
    <3> QED BY <3>1, <3>2
  <2> DEFINE f == CHOOSE f : Is(f)
  <2>2. Is(f)
    <3> HIDE DEF g, Is
    <3> QED BY <2>1, Zenon
  <2>3. FlattenSeq(seqs) = f[n]
    BY <1>5, <1>9
  <2> HIDE DEF f
  <2>4. \A i \in 1..n : f[i] = IF i = 1 THEN seqs[i] ELSE Join(f[i - 1], i)
    BY <2>2
  <2>5. f[n] = F[n]
    <3> DEFINE Same == {k \in Nat : k + 1 <= n => f[k + 1] = F[k + 1]}
    <3>1. 0 \in Same
      <4>1. 1 \in 1..n => F[1] = Join(F[0], 1) /\ f[1] = seqs[1]
        BY <1>8, <2>4
      <4> QED BY <4>1, <1>1, <1>3, <1>8
    <3>2. ASSUME NEW k \in Nat, k \in Same
          PROVE  k + 1 \in Same
      <4>1. SUFFICES ASSUME k + 2 <= n
                     PROVE  f[k + 2] = F[k + 2]
        BY <1>1
      <4>2. k + 2 \in 1..n /\ k + 2 # 1 /\ (k + 2) - 1 = k + 1 /\ k + 1 <= n
        BY <4>1, <1>1
      <4> QED BY <4>2, <3>2, <1>8, <2>4
    <3>3. n - 1 \in Same
      <4>1. Nat \subseteq Same
        <5> HIDE DEF Same
        <5> QED BY <3>1, <3>2, SetInduction
      <4> HIDE DEF Same
      <4> QED BY <4>1, <1>9, <1>1
    <3> QED BY <3>3, <1>1
  <2> QED BY <1>8, <2>3, <2>5 DEF n, none, Join
<1>10. CASE n = 0
  BY <1>1, <1>4, <1>8, <1>10 DEF n, none, Join
<1> QED BY <1>9, <1>10

-----------------------------------------------------------------------------
(* Text                                                                    *)

(* unescapeICS reads on after what it has replaced, up to the end.         *)
LEMMA Unescaped ==
  ASSUME NEW text \in Seq(Chars)
  PROVE  \E F \in [1..(Len(text) + 1) -> Seq(Chars)] :
           /\ F[Len(text) + 1] = <<>>
           /\ \A i \in 1..Len(text) :
                F[i] = IF IsEscape(text, i) THEN <<Meant[text[i + 1]]>> \o F[i + 2]
                                            ELSE <<text[i]>> \o F[i + 1]
           /\ Unescape(text) = F[1]
<1> DEFINE n == Len(text)
           none == <<>>
           Join(c, rest) == <<c>> \o rest
           Next(f, i) == IF IsEscape(text, i) THEN Join(Meant[text[i + 1]], f[i + 2])
                                              ELSE Join(text[i], f[i + 1])
           Is(f, k) == f = [i \in (n + 1 - k)..(n + 1) |-> IF i > n THEN none ELSE Next(f, i)]
           Good == {k \in Nat : k <= n => \E f : Is(f, k)}
<1>1. n \in Nat /\ none \in Seq(Chars) /\ \A i \in 1..n : text[i] \in Chars
  BY EmptySeq, LenProperties
<1>2. \A c \in Chars, rest \in Seq(Chars) : Join(c, rest) \in Seq(Chars)
  <2>1. ASSUME NEW c \in Chars PROVE <<c>> \in Seq(Chars)
    OBVIOUS
  <2> QED BY <2>1, ConcatProperties
<1>3. ASSUME NEW i \in 1..n, IsEscape(text, i)
      PROVE  i + 2 \in 1..(n + 1) /\ Meant[text[i + 1]] \in Chars
  <2>1. i < n /\ text[i + 1] \in DOMAIN Meant
    BY <1>3 DEF IsEscape
  <2>2. ASSUME NEW c \in DOMAIN Meant PROVE Meant[c] \in Chars
    BY DEF Meant, Chars
  <2> QED BY <1>1, <2>1, <2>2
<1>4. Unescape(text) = (CHOOSE f : f = [i \in 1..(n + 1) |-> IF i > n THEN none ELSE Next(f, i)])[1]
  BY Zenon DEF Unescape
<1> HIDE DEF n, none, Join
<1>5. 0 \in Good
  <2> DEFINE g == [i \in (n + 1)..(n + 1) |-> none]
  <2>1. Is(g, 0)
    <3>1. g = [i \in (n + 1 - 0)..(n + 1) |-> g[i]]
      BY <1>1
    <3>2. \A i \in (n + 1 - 0)..(n + 1) : i > n /\ g[i] = none
      BY <1>1
    <3> HIDE DEF g, Next
    <3> QED BY <3>1, <3>2
  <2> HIDE DEF g, Is
  <2> QED BY <2>1
<1>6. ASSUME NEW k \in Nat, k \in Good
      PROVE  k + 1 \in Good
  <2>1. SUFFICES ASSUME k + 1 <= n
                 PROVE  \E f : Is(f, k + 1)
    <3> HIDE DEF Is
    <3> QED OBVIOUS
  <2>2. PICK f : Is(f, k)
    <3> HIDE DEF Is
    <3> QED BY <1>6, <1>1, <2>1
  <2> DEFINE j == n - k
             g == [i \in j..(n + 1) |-> IF i = j THEN Next(f, i) ELSE f[i]]
  <2>3. /\ j \in 1..n /\ n + 1 - (k + 1) = j /\ n + 1 - k = j + 1
    BY <1>1, <2>1
  <2>4. \A i \in (j + 1)..(n + 1) : f[i] = IF i > n THEN none ELSE Next(f, i)
    <3> HIDE DEF Next, j
    <3> QED BY <2>2, <2>3
  <2>5. \A i \in (j + 1)..(n + 1) : g[i] = f[i]
    <3>1. \A i \in (j + 1)..(n + 1) : i \in j..(n + 1) /\ i # j
      BY <1>1
    <3> HIDE DEF Next, j
    <3> QED BY <3>1
  <2>6. ASSUME NEW i \in j..n
        PROVE  Next(g, i) = Next(f, i)
    <3>1. IsEscape(text, i) => i + 2 \in (j + 1)..(n + 1)
      BY <1>1, <1>3, <2>3
    <3>2. i + 1 \in (j + 1)..(n + 1)
      BY <1>1, <2>3
    <3> HIDE DEF g, j
    <3> QED BY <3>1, <3>2, <2>5
  <2>7. g[j] = Next(f, j)
    <3>1. j \in j..(n + 1)
      BY <1>1, <2>3
    <3> HIDE DEF Next, j
    <3> QED BY <3>1
  <2>8. Is(g, k + 1)
    <3>1. g = [i \in j..(n + 1) |-> g[i]]
      OBVIOUS
    <3>2. ASSUME NEW i \in j..(n + 1)
          PROVE  g[i] = IF i > n THEN none ELSE Next(g, i)
      <4>1. CASE i = j
        <5>1. ~(i > n) /\ i \in j..n
          BY <1>1, <2>3, <4>1
        <5> HIDE DEF g, j, Next
        <5> QED BY <5>1, <2>6, <2>7, <4>1
      <4>2. CASE i # j
        <5>1. i \in (j + 1)..(n + 1) /\ (~(i > n) => i \in j..n)
          BY <1>1, <2>3, <4>2
        <5> HIDE DEF g, j, Next
        <5> QED BY <5>1, <2>4, <2>5, <2>6
      <4> QED BY <4>1, <4>2
    <3> HIDE DEF g, j, Next
    <3> QED BY <2>3, <3>1, <3>2
  <2> HIDE DEF g, Is
  <2> QED BY <2>8
<1>7. \E f : Is(f, n)
  <2>1. Nat \subseteq Good
    <3> HIDE DEF Good
    <3> QED BY <1>5, <1>6, SetInduction
  <2> HIDE DEF Is
  <2> QED BY <2>1, <1>1
<1>8. n + 1 - n = 1
  BY <1>1
<1> DEFINE F == CHOOSE f : f = [i \in 1..(n + 1) |-> IF i > n THEN none ELSE Next(f, i)]
<1>9. F = [i \in 1..(n + 1) |-> IF i > n THEN none ELSE Next(F, i)]
  <2>1. \E f : f = [i \in 1..(n + 1) |-> IF i > n THEN none ELSE Next(f, i)]
    <3> HIDE DEF Next
    <3> QED BY <1>7, <1>8
  <2> HIDE DEF Next
  <2> QED BY <2>1, Zenon
<1> HIDE DEF F
<1>10. /\ F[n + 1] = none
       /\ \A i \in 1..n : F[i] = Next(F, i)
  <2>1. n + 1 \in 1..(n + 1) /\ n + 1 > n /\ \A i \in 1..n : i \in 1..(n + 1) /\ ~(i > n)
    BY <1>1
  <2> HIDE DEF Next
  <2> QED BY <1>9, <2>1
<1>11. F \in [1..(n + 1) -> Seq(Chars)]
  <2> DEFINE Read == {k \in Nat : k <= n => \A i \in (n + 1 - k)..(n + 1) : F[i] \in Seq(Chars)}
  <2>1. 0 \in Read
    BY <1>1, <1>10
  <2>2. ASSUME NEW k \in Nat, k \in Read
        PROVE  k + 1 \in Read
    <3>1. SUFFICES ASSUME k + 1 <= n
                   PROVE  F[n - k] \in Seq(Chars)
      BY <2>2, <1>1
    <3>2. n - k \in 1..n /\ text[n - k] \in Chars
      BY <1>1, <3>1
    <3>3. F[(n - k) + 1] \in Seq(Chars)
      BY <1>1, <2>2, <3>1
    <3>4. IsEscape(text, n - k) => /\ Meant[text[(n - k) + 1]] \in Chars
                                  /\ F[(n - k) + 2] \in Seq(Chars)
      <4>1. IsEscape(text, n - k) => (n - k) + 2 \in 1..(n + 1)
        BY <1>3, <3>2
      <4>2. IsEscape(text, n - k) => (n - k) + 2 \in (n + 1 - k)..(n + 1)
        BY <1>1, <4>1
      <4>3. k <= n
        BY <1>1, <3>1
      <4> QED BY <1>3, <2>2, <3>2, <4>2, <4>3
    <3> QED BY <1>2, <1>10, <3>2, <3>3, <3>4
  <2>3. n \in Read
    <3>1. Nat \subseteq Read
      <4> HIDE DEF Read
      <4> QED BY <2>1, <2>2, SetInduction
    <3> HIDE DEF Read
    <3> QED BY <3>1, <1>1
  <2>4. \A i \in 1..(n + 1) : F[i] \in Seq(Chars)
    BY <2>3, <1>1, <1>8
  <2> HIDE DEF Next
  <2> QED BY <2>4, <1>9
<1>12. Unescape(text) = F[1]
  BY <1>4 DEF F
<1> QED BY <1>10, <1>11, <1>12 DEF n, none, Join

(* Each character is written as itself, or as a backslash and what means it. *)
LEMMA EscapedChar ==
  ASSUME NEW c \in Chars
  PROVE  /\ EscapeChar(c) \in Seq(Chars)
         /\ \/ /\ Len(EscapeChar(c)) = 1
               /\ EscapeChar(c)[1] = c /\ c # "\\"
            \/ /\ Len(EscapeChar(c)) = 2
               /\ EscapeChar(c)[1] = "\\"
               /\ EscapeChar(c)[2] \in DOMAIN Meant /\ Meant[EscapeChar(c)[2]] = c
<1>1. CASE c \in {"\\", ",", ";"}
  <2>1. EscapeChar(c) = <<"\\", c>>
    BY <1>1, Zenon DEF EscapeChar
  <2>2. c \in DOMAIN Meant /\ Meant[c] = c
    BY <1>1 DEF Meant
  <2>3. "\\" \in Chars
    BY DEF Chars
  <2> QED BY <2>1, <2>2, <2>3
<1>2. CASE c = "LF"
  <2>1. EscapeChar(c) = <<"\\", "n">>
    BY <1>2 DEF EscapeChar
  <2>2. "n" \in DOMAIN Meant /\ Meant["n"] = "LF"
    BY DEF Meant
  <2>3. "\\" \in Chars /\ "n" \in Chars
    BY DEF Chars
  <2> DEFINE w == <<"\\", "n">>
  <2>4. Len(w) = 2 /\ w \in Seq(Chars) /\ w[1] = "\\" /\ w[2] = "n"
    BY <2>3
  <2> HIDE DEF w
  <2>5. EscapeChar(c) = w
    BY <2>1 DEF w
  <2> QED BY <1>2, <2>2, <2>4, <2>5
<1>3. CASE c \notin {"\\", ",", ";", "LF"}
  <2>1. EscapeChar(c) = <<c>>
    BY <1>3 DEF EscapeChar
  <2>2. Len(<<c>>) = 1 /\ <<c>> \in Seq(Chars) /\ <<c>>[1] = c
    OBVIOUS
  <2> QED BY <1>3, <2>1, <2>2
<1> QED BY <1>1, <1>2, <1>3

(* Where each character of a text is written.                              *)
LEMMA EscapedAt ==
  ASSUME NEW text \in Seq(Chars)
  PROVE  /\ Escape(text) \in Seq(Chars)
         /\ \E at \in [0..Len(text) -> Nat] :
              /\ at[0] = 0 /\ at[Len(text)] = Len(Escape(text))
              /\ \A k \in 1..Len(text) :
                   /\ at[k] = at[k - 1] + Len(EscapeChar(text[k]))
                   /\ at[k] <= Len(Escape(text))
                   /\ \A j \in 1..Len(EscapeChar(text[k])) :
                        Escape(text)[at[k - 1] + j] = EscapeChar(text[k])[j]
<1> DEFINE n == Len(text)
           parts == [i \in DOMAIN text |-> EscapeChar(text[i])]
<1>1. n \in Nat /\ DOMAIN text = 1..n /\ \A i \in 1..n : text[i] \in Chars
  BY LenProperties
<1>2. \A i \in 1..n : parts[i] = EscapeChar(text[i]) /\ parts[i] \in Seq(Chars)
  BY <1>1, EscapedChar
<1>3. parts \in Seq(Seq(Chars)) /\ Len(parts) = n
  <2>1. parts = [i \in 1..n |-> parts[i]]
    BY <1>1
  <2> HIDE DEF parts, n
  <2>2. parts \in [1..n -> Seq(Chars)]
    BY <1>2, <2>1
  <2> QED BY <1>1, <2>2
<1>4. PICK E \in [0..n -> Seq(Chars)] :
        /\ E[0] = <<>>
        /\ \A i \in 1..n : E[i] = E[i - 1] \o parts[i]
        /\ FlattenSeq(parts) = E[n]
  <2> HIDE DEF parts
  <2>1. PICK F \in [0..Len(parts) -> Seq(Chars)] :
          /\ F[0] = <<>>
          /\ \A i \in 1..Len(parts) : F[i] = F[i - 1] \o parts[i]
          /\ FlattenSeq(parts) = F[Len(parts)]
    BY <1>3, Flattened
  <2> QED BY <1>3, <2>1
<1>5. Escape(text) = E[n]
  BY <1>4 DEF Escape
<1> HIDE DEF n, parts
<1> DEFINE at == [k \in 0..n |-> Len(E[k])]
           width == [k \in 1..n |-> Len(parts[k])]
<1>6. at \in [0..n -> Nat] /\ width \in [1..n -> Nat]
  <2>1. \A k \in 0..n : Len(E[k]) \in Nat
    BY <1>4, LenProperties
  <2>2. \A k \in 1..n : Len(parts[k]) \in Nat
    BY <1>2, LenProperties
  <2> QED BY <2>1, <2>2
<1>7. at[0] = 0 /\ at[n] = Len(Escape(text))
  <2>1. Len(E[0]) = 0 /\ 0 \in 0..n /\ n \in 0..n
    BY <1>1, <1>4
  <2> QED BY <1>5, <2>1
<1>8. ASSUME NEW k \in 1..n
      PROVE  /\ at[k] = at[k - 1] + width[k]
             /\ \A j \in 1..at[k] :
                  E[k][j] = IF j <= at[k - 1] THEN E[k - 1][j]
                                              ELSE parts[k][j - at[k - 1]]
  <2>1. k - 1 \in 0..n /\ k \in 0..n
    BY <1>1
  <2>2. at[k] = Len(E[k]) /\ at[k - 1] = Len(E[k - 1]) /\ width[k] = Len(parts[k])
    BY <2>1
  <2> DEFINE before == E[k - 1]  part == parts[k]
  <2>3. before \in Seq(Chars) /\ part \in Seq(Chars) /\ E[k] = before \o part
    BY <1>2, <1>4, <2>1
  <2> HIDE DEF at, width, before, part
  <2>4. /\ Len(before \o part) = Len(before) + Len(part)
        /\ \A j \in 1..(Len(before) + Len(part)) :
             (before \o part)[j] = IF j <= Len(before) THEN before[j] ELSE part[j - Len(before)]
    BY <2>3, ConcatProperties
  <2> QED BY <2>2, <2>3, <2>4 DEF before, part
<1> HIDE DEF at, width
(* What is written stays where it is. *)
<1>9. ASSUME NEW k \in 0..n
      PROVE  /\ at[k] <= at[n]
             /\ \A j \in 1..at[k] : E[n][j] = E[k][j]
  <2> DEFINE Kept == {m \in Nat : k + m <= n =>
                        /\ at[k] <= at[k + m]
                        /\ \A j \in 1..at[k] : E[k + m][j] = E[k][j]}
  <2>1. 0 \in Kept
    BY <1>1, <1>6
  <2>2. ASSUME NEW m \in Nat, m \in Kept
        PROVE  m + 1 \in Kept
    <3>1. SUFFICES ASSUME k + (m + 1) <= n
                   PROVE  /\ at[k] <= at[k + (m + 1)]
                          /\ \A j \in 1..at[k] : E[k + (m + 1)][j] = E[k][j]
      OBVIOUS
    <3> DEFINE next == k + (m + 1)  last == k + m
    <3>2. /\ next \in 1..n /\ next - 1 = last /\ last <= n
          /\ last \in 0..n /\ next \in 0..n
      BY <1>1, <3>1
    <3>3. at[k] <= at[last] /\ \A j \in 1..at[k] : E[last][j] = E[k][j]
      BY <2>2, <3>2
    <3> HIDE DEF next, last
    <3>4. /\ at[next] = at[last] + width[next]
          /\ \A j \in 1..at[next] : j <= at[last] => E[next][j] = E[last][j]
      BY <1>8, <3>2
    <3>5. /\ at[k] \in Nat /\ at[last] \in Nat /\ at[next] \in Nat
          /\ width[next] \in Nat
      BY <1>6, <3>2
    <3>6. at[k] <= at[next]
      BY <3>3, <3>4, <3>5
    <3>7. \A j \in 1..at[k] : E[next][j] = E[k][j]
      BY <3>3, <3>4, <3>5, <3>6
    <3> QED BY <3>6, <3>7 DEF next
  <2>3. n - k \in Kept
    <3>1. Nat \subseteq Kept
      <4> HIDE DEF Kept
      <4> QED BY <2>1, <2>2, SetInduction
    <3> HIDE DEF Kept
    <3> QED BY <3>1, <1>1
  <2>4. k + (n - k) = n
    BY <1>1
  <2> QED BY <2>3, <2>4, <1>1
<1>10. ASSUME NEW k \in 1..n
       PROVE  /\ at[k] = at[k - 1] + Len(EscapeChar(text[k]))
              /\ at[k] <= Len(Escape(text))
              /\ \A j \in 1..Len(EscapeChar(text[k])) :
                   Escape(text)[at[k - 1] + j] = EscapeChar(text[k])[j]
  <2>1. k \in 0..n /\ k - 1 \in 0..n
    BY <1>1
  <2>2. parts[k] = EscapeChar(text[k]) /\ width[k] = Len(EscapeChar(text[k]))
    BY <1>2 DEF width
  <2>3. ASSUME NEW j \in 1..width[k]
        PROVE  E[n][at[k - 1] + j] = parts[k][j]
    <3>1. at[k] \in Nat /\ at[k - 1] \in Nat /\ width[k] \in Nat
      BY <1>6, <2>1
    <3>2. at[k - 1] + j \in 1..at[k] /\ ~(at[k - 1] + j <= at[k - 1])
          /\ (at[k - 1] + j) - at[k - 1] = j
      BY <1>8, <3>1
    <3>3. E[k][at[k - 1] + j] = parts[k][j]
      BY <1>8, <3>2
    <3> QED BY <1>9, <2>1, <3>2, <3>3
  <2> QED BY <1>5, <1>7, <1>8, <1>9, <2>1, <2>2, <2>3
<1>11. Escape(text) \in Seq(Chars)
  BY <1>1, <1>4, <1>5
<1> QED BY <1>6, <1>7, <1>10, <1>11 DEF n

(* caldav.go:416-437: unescapeICS undoes escapeICS, whatever backslashes,  *)
(* separators, letters n and line breaks follow each other in a text: what *)
(* a character was written as is passed over as a whole.                   *)
THEOREM EscapeReadsBack ==
  ASSUME NEW text \in Seq(Chars)
  PROVE  Unescape(Escape(text)) = text
<1> DEFINE e == Escape(text)
           n == Len(text)
<1>1. /\ n \in Nat /\ e \in Seq(Chars) /\ Len(e) \in Nat
      /\ \A k \in 1..n : text[k] \in Chars
  BY EscapedAt, LenProperties
<1>2. PICK at \in [0..n -> Nat] :
        /\ at[0] = 0 /\ at[n] = Len(e)
        /\ \A k \in 1..n :
             /\ at[k] = at[k - 1] + Len(EscapeChar(text[k]))
             /\ at[k] <= Len(e)
             /\ \A j \in 1..Len(EscapeChar(text[k])) :
                  e[at[k - 1] + j] = EscapeChar(text[k])[j]
  BY EscapedAt
<1>3. PICK F \in [1..(Len(e) + 1) -> Seq(Chars)] :
        /\ F[Len(e) + 1] = <<>>
        /\ \A i \in 1..Len(e) :
             F[i] = IF IsEscape(e, i) THEN <<Meant[e[i + 1]]>> \o F[i + 2]
                                      ELSE <<e[i]>> \o F[i + 1]
        /\ Unescape(e) = F[1]
  BY <1>1, Unescaped
<1> HIDE DEF e, n
<1>4. ASSUME NEW k \in 1..n
      PROVE  F[at[k - 1] + 1] = <<text[k]>> \o F[at[k] + 1]
  <2> DEFINE p == at[k - 1]
             w == EscapeChar(text[k])
  <2>1. /\ p \in Nat /\ at[k] = p + Len(w) /\ at[k] <= Len(e)
        /\ \A j \in 1..Len(w) : e[p + j] = w[j]
    BY <1>1, <1>2
  <2>2. \/ Len(w) = 1 /\ w[1] = text[k] /\ text[k] # "\\"
        \/ /\ Len(w) = 2 /\ w[1] = "\\"
           /\ w[2] \in DOMAIN Meant /\ Meant[w[2]] = text[k]
    BY <1>1, EscapedChar
  <2> HIDE DEF p, w
  <2>3. CASE Len(w) = 1 /\ w[1] = text[k] /\ text[k] # "\\"
    <3>1. p + 1 \in 1..Len(e) /\ e[p + 1] = text[k] /\ at[k] = p + 1
      BY <1>1, <2>1, <2>3
    <3>2. ~IsEscape(e, p + 1)
      BY <2>3, <3>1 DEF IsEscape
    <3>3. F[p + 1] = <<e[p + 1]>> \o F[(p + 1) + 1]
      BY <1>3, <3>1, <3>2
    <3> QED BY <3>1, <3>3 DEF p
  <2>4. CASE /\ Len(w) = 2 /\ w[1] = "\\"
             /\ w[2] \in DOMAIN Meant /\ Meant[w[2]] = text[k]
    <3>1. /\ p + 1 \in 1..Len(e) /\ p + 1 < Len(e) /\ at[k] = p + 2
          /\ e[p + 1] = w[1] /\ e[p + 2] = w[2]
      BY <1>1, <2>1, <2>4
    <3>2. (p + 1) + 1 = p + 2 /\ (p + 1) + 2 = (p + 2) + 1
      BY <2>1
    <3>3. IsEscape(e, p + 1)
      BY <2>4, <3>1, <3>2 DEF IsEscape
    <3>4. F[p + 1] = <<Meant[e[(p + 1) + 1]]>> \o F[(p + 1) + 2]
      BY <1>3, <3>1, <3>3
    <3> QED BY <2>4, <3>1, <3>2, <3>4 DEF p
  <2> QED BY <2>2, <2>3, <2>4
<1> DEFINE Rest(k) == SubSeq(text, k + 1, n)
<1>5. ASSUME NEW k \in 1..n
      PROVE  Rest(k - 1) = <<text[k]>> \o Rest(k)
  <2>1. /\ Rest(k - 1) \in Seq(Chars) /\ Len(Rest(k - 1)) = n - k + 1
        /\ \A i \in 1..(n - k + 1) : Rest(k - 1)[i] = text[k + i - 1]
    <3>1. k \in Int /\ n \in Int /\ (k - 1) + 1 = k /\ \A i \in k..n : text[i] \in Chars
      BY <1>1
    <3> QED BY <3>1, SubSeqProperties
  <2>2. /\ Rest(k) \in Seq(Chars) /\ Len(Rest(k)) = n - k
        /\ \A i \in 1..(n - k) : Rest(k)[i] = text[k + i]
    <3>1. k + 1 \in Int /\ n \in Int /\ \A i \in (k + 1)..n : text[i] \in Chars
      BY <1>1
    <3>2. /\ Rest(k) \in Seq(Chars)
          /\ Len(Rest(k)) = IF k + 1 <= n THEN n - (k + 1) + 1 ELSE 0
          /\ \A i \in 1..(n - (k + 1) + 1) : Rest(k)[i] = text[(k + 1) + i - 1]
      BY <3>1, SubSeqProperties
    <3> HIDE DEF Rest
    <3> QED BY <1>1, <3>2
  <2> DEFINE first == <<text[k]>>
  <2>3. first \in Seq(Chars) /\ Len(first) = 1 /\ first[1] = text[k]
    BY <1>1
  <2> HIDE DEF Rest, first
  <2> DEFINE rest == Rest(k)  both == first \o rest
  <2>4. /\ both \in Seq(Chars)
        /\ Len(both) = n - k + 1
        /\ \A i \in 1..(n - k + 1) :
             both[i] = IF i <= 1 THEN first[i] ELSE rest[i - 1]
    <3>1. rest \in Seq(Chars) /\ Len(rest) = n - k
      BY <2>2
    <3> HIDE DEF rest
    <3>2. /\ both \in Seq(Chars) /\ Len(both) = Len(first) + Len(rest)
          /\ \A i \in 1..(Len(first) + Len(rest)) :
               both[i] = IF i <= Len(first) THEN first[i] ELSE rest[i - Len(first)]
      BY <2>3, <3>1, ConcatProperties
    <3>3. 1 + (n - k) = n - k + 1
      BY <1>1
    <3> HIDE DEF both
    <3> QED BY <2>3, <3>1, <3>2, <3>3
  <2> HIDE DEF both
  <2>5. \A i \in 1..(n - k + 1) : Rest(k - 1)[i] = both[i]
    <3> SUFFICES ASSUME NEW i \in 1..(n - k + 1)
                 PROVE  Rest(k - 1)[i] = both[i]
      OBVIOUS
    <3>1. CASE i = 1
      <4>1. both[i] = first[i]
        BY <2>4, <3>1
      <4>2. Rest(k - 1)[i] = text[k + 1 - 1] /\ k + 1 - 1 = k
        BY <1>1, <2>1, <3>1
      <4> QED BY <2>3, <3>1, <4>1, <4>2
    <3>2. CASE i # 1
      <4>1. i - 1 \in 1..(n - k) /\ k + (i - 1) = k + i - 1 /\ ~(i <= 1)
        BY <1>1, <3>2
      <4>2. both[i] = rest[i - 1]
        BY <2>4, <4>1
      <4>3. rest[i - 1] = text[k + (i - 1)]
        BY <2>2, <4>1
      <4>4. Rest(k - 1)[i] = text[k + i - 1]
        BY <2>1
      <4> HIDE DEF rest
      <4> QED BY <4>1, <4>2, <4>3, <4>4
    <3> QED BY <3>1, <3>2
  <2>6. Rest(k - 1) = both
    BY <2>1, <2>4, <2>5, SeqEqual
  <2> QED BY <2>6 DEF first, both
<1>6. ASSUME NEW k \in 0..n
      PROVE  F[at[n - k] + 1] = Rest(n - k)
  <2> DEFINE Same == {m \in Nat : m <= n => F[at[n - m] + 1] = Rest(n - m)}
  <2>1. 0 \in Same
    <3>1. F[at[n - 0] + 1] = <<>>
      BY <1>1, <1>2, <1>3
    <3>2. Rest(n - 0) = <<>>
      BY <1>1, SubSeqEmpty
    <3> QED BY <3>1, <3>2
  <2>2. ASSUME NEW m \in Nat, m \in Same
        PROVE  m + 1 \in Same
    <3>1. SUFFICES ASSUME m + 1 <= n
                   PROVE  F[at[n - (m + 1)] + 1] = Rest(n - (m + 1))
      OBVIOUS
    <3>2. n - m \in 1..n /\ (n - m) - 1 = n - (m + 1) /\ m <= n
      BY <1>1, <3>1
    <3>3. F[at[n - m] + 1] = Rest(n - m)
      BY <2>2, <3>2
    <3> HIDE DEF Rest
    <3> QED BY <1>4, <1>5, <3>2, <3>3
  <2>3. Nat \subseteq Same
    <3> HIDE DEF Same
    <3> QED BY <2>1, <2>2, SetInduction
  <2>4. k \in Same /\ k <= n
    <3> HIDE DEF Same
    <3> QED BY <2>3, <1>1
  <2> HIDE DEF Rest
  <2> QED BY <2>4
<1>7. Unescape(e) = Rest(0)
  <2>1. n \in 0..n /\ n - n = 0
    BY <1>1
  <2>2. F[at[0] + 1] = Rest(0)
    <3> HIDE DEF Rest
    <3> QED BY <1>6, <2>1
  <2> HIDE DEF Rest
  <2> QED BY <1>2, <1>3, <2>2
<1>8. Rest(0) = text
  BY <1>1 DEF n
<1> QED BY <1>7, <1>8 DEF e

-----------------------------------------------------------------------------
(* Objects                                                                 *)

(* A fold takes the largest position left: there is one.                   *)
LEMMA LastOf ==
  ASSUME NEW k \in Nat, NEW s \in SUBSET (1..k), s # {}
  PROVE  /\ Max(s) \in s
         /\ \A i \in s : i <= Max(s)
<1> DEFINE Has == {j \in Nat : \A t \in SUBSET (1..j) : t # {} => \E x \in t : \A y \in t : x >= y}
<1>1. 0 \in Has
  <2>1. 1..0 = {}
    OBVIOUS
  <2> QED BY <2>1
<1>2. ASSUME NEW j \in Nat, j \in Has
      PROVE  j + 1 \in Has
  <2>1. SUFFICES ASSUME NEW t \in SUBSET (1..(j + 1)), t # {}
                 PROVE  \E x \in t : \A y \in t : x >= y
    OBVIOUS
  <2>2. CASE j + 1 \in t
    BY <2>2
  <2>3. CASE j + 1 \notin t
    <3>1. t \in SUBSET (1..j)
      BY <2>3
    <3> QED BY <3>1, <1>2, <2>1
  <2> QED BY <2>2, <2>3
<1>3. k \in Has
  <2>1. Nat \subseteq Has
    <3> HIDE DEF Has
    <3> QED BY <1>1, <1>2, SetInduction
  <2> QED BY <2>1
<1>4. PICK x \in s : \A y \in s : x >= y
  BY <1>3
<1>5. Max(s) \in s /\ \A y \in s : Max(s) >= y
  BY <1>4, Zenon DEF Max
<1> QED BY <1>5

(* parseICS reads the lines of an event in their order.                    *)
LEMMA ReadInOrder ==
  ASSUME NEW n \in Nat, NEW lines, DOMAIN lines = 1..n
  PROVE  \E R : /\ R[0] = NoFields
                /\ \A i \in 1..n : R[i] = ReadLine(R[i - 1], lines[i])
                /\ FoldLeft(ReadLine, NoFields, lines) = R[n]
<1> DEFINE Next(g, s) == ReadLine(g[s \ {Max(s)}], lines[Max(s)])
           Is(g, k) == g = [s \in SUBSET (1..k) |-> IF s = {} THEN NoFields ELSE Next(g, s)]
           Good == {k \in Nat : \E g : Is(g, k)}
<1>1. 0 \in Good
  <2> DEFINE g == [s \in SUBSET (1..0) |-> NoFields]
  <2>1. Is(g, 0)
    OBVIOUS
  <2> HIDE DEF g, Is
  <2> QED BY <2>1
<1>2. ASSUME NEW k \in Nat, k \in Good
      PROVE  k + 1 \in Good
  <2>1. PICK g : Is(g, k)
    BY <1>2
  <2>2. ASSUME NEW s \in SUBSET (1..k), s # {}
        PROVE  g[s] = Next(g, s)
    <3> HIDE DEF Next
    <3> QED BY <2>1, <2>2
  <2>3. g[{}] = NoFields
    <3> HIDE DEF Next
    <3> QED BY <2>1
  <2> DEFINE x == k + 1
             h == [s \in SUBSET (1..x) |-> IF x \in s THEN ReadLine(g[s \ {x}], lines[x]) ELSE g[s]]
  <2>4. ASSUME NEW s \in SUBSET (1..x), s # {}
        PROVE  h[s] = Next(h, s)
    <3>1. Max(s) \in s /\ \A i \in s : i <= Max(s)
      <4>1. x \in Nat
        OBVIOUS
      <4> HIDE DEF x
      <4> QED BY <4>1, <2>4, LastOf
    <3>2. s \ {Max(s)} \in SUBSET (1..k)
      <4>1. PICK m \in 1..(k + 1) : m = Max(s) /\ \A i \in s : i <= m
        BY <3>1
      <4>2. \A i \in s \ {m} : i \in 1..k
        BY <4>1
      <4> QED BY <4>1, <4>2
    <3>3. x \notin s \ {Max(s)} /\ s \ {Max(s)} \in SUBSET (1..x)
      BY <3>2
    <3>4. h[s \ {Max(s)}] = g[s \ {Max(s)}]
      BY <3>3
    <3>5. CASE x \in s
      <4>1. Max(s) = x
        <5>1. PICK m \in 1..(k + 1) : m = Max(s) /\ \A i \in s : i <= m
          BY <3>1
        <5> QED BY <5>1, <3>5
      <4>2. h[s] = ReadLine(g[s \ {x}], lines[x])
        BY <3>5
      <4> HIDE DEF h, x
      <4> QED BY <4>1, <4>2, <3>4
    <3>6. CASE x \notin s
      <4>1. s \in SUBSET (1..k)
        BY <3>6
      <4>2. h[s] = g[s]
        BY <3>6
      <4>3. g[s] = Next(g, s)
        <5> HIDE DEF Next
        <5> QED BY <2>2, <2>4, <4>1
      <4> HIDE DEF h, x
      <4> QED BY <4>2, <4>3, <3>4
    <3> QED BY <3>5, <3>6
  <2>5. h[{}] = NoFields
    BY <2>3
  <2>6. Is(h, k + 1)
    <3>1. h = [s \in SUBSET (1..(k + 1)) |-> h[s]]
      OBVIOUS
    <3> HIDE DEF h, Next
    <3> QED BY <2>4, <2>5, <3>1
  <2> HIDE DEF h, Is
  <2> QED BY <2>6
<1>3. n \in Good
  <2> HIDE DEF Good
  <2> QED BY <1>1, <1>2, SetInduction
<1> DEFINE g == CHOOSE g : Is(g, n)
<1>4. Is(g, n)
  <2>1. \E h : Is(h, n)
    <3> HIDE DEF Is
    <3> QED BY <1>3
  <2> HIDE DEF Is
  <2> QED BY <2>1, Zenon
<1>5. FoldLeft(ReadLine, NoFields, lines) = g[1..n]
  BY Zenon DEF FoldLeft, MapThenFoldSet
<1> HIDE DEF g
<1>6. g[{}] = NoFields
  <2> HIDE DEF Next
  <2> QED BY <1>4
<1>7. ASSUME NEW i \in 1..n
      PROVE  g[1..i] = ReadLine(g[1..(i - 1)], lines[i])
  <2>1. 1..i \in SUBSET (1..n) /\ 1..i # {}
    OBVIOUS
  <2>2. g[1..i] = Next(g, 1..i)
    <3> HIDE DEF Next
    <3> QED BY <1>4, <2>1
  <2>3. Max(1..i) \in 1..i /\ \A j \in 1..i : j <= Max(1..i)
    BY <2>1, LastOf
  <2>4. Max(1..i) = i
    BY <2>3
  <2>5. (1..i) \ {i} = 1..(i - 1)
    OBVIOUS
  <2> QED BY <2>2, <2>4, <2>5
<1> DEFINE R == [i \in 0..n |-> g[1..i]]
<1>8. R[0] = NoFields
  <2>1. 1..0 = {}
    OBVIOUS
  <2> QED BY <2>1, <1>6
<1>9. R[n] = g[1..n] /\ \A i \in 1..n : R[i] = ReadLine(R[i - 1], lines[i])
  BY <1>7
<1> HIDE DEF R
<1> QED BY <1>5, <1>8, <1>9

(* A line that makes one record of fields of another.                      *)
Reads(e, line, next) == ReadLine(e, line) = next

(* How many lines say what an event is about, and when it recurs.         *)
Described(row) == IF row.description = <<>> THEN 0 ELSE 1
Ruled(row) == IF row.recurrence = "RRULE:FREQ" THEN 1 ELSE 0

(* The lines of an object, d of them of description and r of recurrence.   *)
Layout(lines, d, r, begin, id, summary, description, start, end, rule, last) ==
  /\ Len(lines) = 6 + d + r
  /\ lines[1] = begin /\ lines[2] = id /\ lines[3] = summary
  /\ d = 1 => lines[4] = description
  /\ lines[4 + d] = start /\ lines[5 + d] = end
  /\ r = 1 => lines[6 + d] = rule
  /\ lines[6 + d + r] = last

(* Whether the times of an event are dates or instants.                    *)
Kind(row) == IF row.allDay THEN "date" ELSE "utc"

(* The lines of the object of a row.                                       *)
LaidOut(uid, row) ==
  /\ Layout(BuildICS(uid, row), Described(row), Ruled(row),
            Line("BEGIN", "", "VEVENT"), Line("UID", "", Escape(uid)),
            Line("SUMMARY", "", Escape(row.title)),
            Line("DESCRIPTION", "", Escape(row.description)),
            Line("DTSTART", Kind(row), row.start), Line("DTEND", Kind(row), row.end),
            Line("RRULE", "", "FREQ"), Line("END", "", "VEVENT"))
  /\ \E S : BuildICS(uid, row) \in Seq(S)

(* buildICS writes these lines, in this order.                             *)
LEMMA Written ==
  ASSUME NEW uid, NEW row
  PROVE  LaidOut(uid, row)
<1> DEFINE kind == Kind(row)
           b == Line("BEGIN", "", "VEVENT")
           u == Line("UID", "", Escape(uid))
           s == Line("SUMMARY", "", Escape(row.title))
           t == Line("DESCRIPTION", "", Escape(row.description))
           f == Line("DTSTART", kind, row.start)
           l == Line("DTEND", kind, row.end)
           c == Line("RRULE", "", "FREQ")
           e == Line("END", "", "VEVENT")
           lines == BuildICS(uid, row)
           d == IF row.description = <<>> THEN 0 ELSE 1
           r == IF row.recurrence = "RRULE:FREQ" THEN 1 ELSE 0
           All == {b, u, s, t, f, l, c, e}
           one == <<b, u, s>>
           two == IF row.description = <<>> THEN <<>> ELSE <<t>>
           three == <<f, l>>
           four == IF row.recurrence = "RRULE:FREQ" THEN <<c>> ELSE <<>>
           five == <<e>>
<1>1. lines = (((one \o two) \o three) \o four) \o five
  <2>1. (IF row.allDay
         THEN <<Line("DTSTART", "date", row.start), Line("DTEND", "date", row.end)>>
         ELSE <<Line("DTSTART", "utc", row.start), Line("DTEND", "utc", row.end)>>) = three
    BY DEF Kind
  <2> HIDE DEF f, l, three
  <2> QED BY <2>1, Zenon DEF BuildICS, TextLine
<1> HIDE DEF kind, b, u, s, t, f, l, c, e, lines
<1>2. /\ one \in Seq(All) /\ Len(one) = 3 /\ one[1] = b /\ one[2] = u /\ one[3] = s
      /\ three \in Seq(All) /\ Len(three) = 2 /\ three[1] = f /\ three[2] = l
      /\ five \in Seq(All) /\ Len(five) = 1 /\ five[1] = e
  OBVIOUS
<1>3. two \in Seq(All) /\ Len(two) = d /\ (d = 1 => two[1] = t)
  <2>1. <<t>> \in Seq(All) /\ Len(<<t>>) = 1 /\ <<t>>[1] = t
    OBVIOUS
  <2>2. <<>> \in Seq(All) /\ Len(<<>>) = 0
    OBVIOUS
  <2>3. CASE row.description = <<>>
    BY <2>2, <2>3
  <2>4. CASE ~(row.description = <<>>)
    <3> HIDE DEF All
    <3> DEFINE w == <<t>>
    <3>1. two = w /\ d = 1
      BY <2>4
    <3>2. w \in Seq(All) /\ Len(w) = 1 /\ w[1] = t
      BY <2>1
    <3> HIDE DEF w, two, d
    <3> QED BY <3>1, <3>2
  <2> QED BY <2>3, <2>4
<1>4. four \in Seq(All) /\ Len(four) = r /\ (r = 1 => four[1] = c)
  <2>1. <<c>> \in Seq(All) /\ Len(<<c>>) = 1 /\ <<c>>[1] = c
    OBVIOUS
  <2>2. <<>> \in Seq(All) /\ Len(<<>>) = 0
    OBVIOUS
  <2>3. CASE row.recurrence # "RRULE:FREQ"
    BY <2>2, <2>3
  <2>4. CASE ~(row.recurrence # "RRULE:FREQ")
    <3> HIDE DEF All
    <3> DEFINE w == <<c>>
    <3>1. four = w /\ r = 1
      BY <2>4
    <3>2. w \in Seq(All) /\ Len(w) = 1 /\ w[1] = c
      BY <2>1
    <3> HIDE DEF w, four, r
    <3> QED BY <3>1, <3>2
  <2> QED BY <2>3, <2>4
<1>5. d \in {0, 1} /\ r \in {0, 1}
  OBVIOUS
<1> HIDE DEF d, r, All, one, two, three, four, five
<1> DEFINE upto2 == one \o two
           upto3 == upto2 \o three
           upto4 == upto3 \o four
           upto5 == upto4 \o five
<1>6. /\ upto2 \in Seq(All) /\ Len(upto2) = 3 + d
      /\ upto2[1] = b /\ upto2[2] = u /\ upto2[3] = s /\ (d = 1 => upto2[4] = t)
  <2>1. /\ upto2 \in Seq(All) /\ Len(upto2) = Len(one) + Len(two)
        /\ \A i \in 1..(Len(one) + Len(two)) :
             upto2[i] = IF i <= Len(one) THEN one[i] ELSE two[i - Len(one)]
    BY <1>2, <1>3, ConcatProperties
  <2> HIDE DEF upto2
  <2> QED BY <1>2, <1>3, <1>5, <2>1
<1> HIDE DEF upto2
<1>7. /\ upto3 \in Seq(All) /\ Len(upto3) = 5 + d
      /\ upto3[1] = b /\ upto3[2] = u /\ upto3[3] = s /\ (d = 1 => upto3[4] = t)
      /\ upto3[4 + d] = f /\ upto3[5 + d] = l
  <2>1. /\ upto3 \in Seq(All) /\ Len(upto3) = Len(upto2) + Len(three)
        /\ \A i \in 1..(Len(upto2) + Len(three)) :
             upto3[i] = IF i <= Len(upto2) THEN upto2[i] ELSE three[i - Len(upto2)]
    BY <1>2, <1>6, ConcatProperties
  <2> HIDE DEF upto3
  <2> QED BY <1>2, <1>5, <1>6, <2>1
<1> HIDE DEF upto3
<1>8. /\ upto4 \in Seq(All) /\ Len(upto4) = 5 + d + r
      /\ upto4[1] = b /\ upto4[2] = u /\ upto4[3] = s /\ (d = 1 => upto4[4] = t)
      /\ upto4[4 + d] = f /\ upto4[5 + d] = l /\ (r = 1 => upto4[6 + d] = c)
  <2>1. /\ upto4 \in Seq(All) /\ Len(upto4) = Len(upto3) + Len(four)
        /\ \A i \in 1..(Len(upto3) + Len(four)) :
             upto4[i] = IF i <= Len(upto3) THEN upto3[i] ELSE four[i - Len(upto3)]
    BY <1>4, <1>7, ConcatProperties
  <2> HIDE DEF upto4
  <2> QED BY <1>4, <1>5, <1>7, <2>1
<1> HIDE DEF upto4
<1>9. /\ upto5 \in Seq(All) /\ Len(upto5) = 6 + d + r
      /\ upto5[1] = b /\ upto5[2] = u /\ upto5[3] = s /\ (d = 1 => upto5[4] = t)
      /\ upto5[4 + d] = f /\ upto5[5 + d] = l /\ (r = 1 => upto5[6 + d] = c)
      /\ upto5[6 + d + r] = e
  <2>1. /\ upto5 \in Seq(All) /\ Len(upto5) = Len(upto4) + Len(five)
        /\ \A i \in 1..(Len(upto4) + Len(five)) :
             upto5[i] = IF i <= Len(upto4) THEN upto4[i] ELSE five[i - Len(upto4)]
    BY <1>2, <1>8, ConcatProperties
  <2> HIDE DEF upto5
  <2> QED BY <1>2, <1>5, <1>8, <2>1
<1>10. lines = upto5
  BY <1>1 DEF upto2, upto3, upto4
<1> HIDE DEF upto5
<1>11. Layout(lines, d, r, b, u, s, t, f, l, c, e) /\ lines \in Seq(All)
  BY <1>9, <1>10 DEF Layout
<1>12. \E S : lines \in Seq(S)
  BY <1>11
<1> QED BY <1>11, <1>12, Zenon DEF kind, b, u, s, t, f, l, c, e, d, r, lines, Described, Ruled,
                                     LaidOut

(* The fields of an event, in their order.                                 *)
Fields(u, s, d, start, end, startDate, endDate, zone, rule) ==
  [uid |-> u, summary |-> s, description |-> d, start |-> start, end |-> end,
   startDate |-> startDate, endDate |-> endDate, tzid |-> zone, recurrence |-> rule]

Says(e, u, s, d, start, end, startDate, endDate, zone, rule) ==
  /\ e.uid = u /\ e.summary = s /\ e.description = d
  /\ e.start = start /\ e.end = end /\ e.startDate = startDate /\ e.endDate = endDate
  /\ e.tzid = zone /\ e.recurrence = rule

LEMMA FieldsSay ==
  \A u, s, d, start, end, startDate, endDate, zone, rule :
    Says(Fields(u, s, d, start, end, startDate, endDate, zone, rule),
         u, s, d, start, end, startDate, endDate, zone, rule)
  BY DEF Says, Fields

(* What each of the lines that buildICS writes adds to the fields.         *)
LEMMA UidRead ==
  \A u, s, d, start, end, startDate, endDate, zone, rule, v, w :
    Unescape(v) = w =>
    Reads(Fields(u, s, d, start, end, startDate, endDate, zone, rule), Line("UID", "", v),
          Fields(w, s, d, start, end, startDate, endDate, zone, rule))
<1> TAKE u, s, d, start, end, startDate, endDate, zone, rule, v, w
<1> DEFINE e == Fields(u, s, d, start, end, startDate, endDate, zone, rule)
<1>1. \A x : [e EXCEPT !.uid = x]
               = Fields(x, s, d, start, end, startDate, endDate, zone, rule)
  BY DEF Fields
<1> HIDE DEF e
<1>2. ReadLine(e, Line("UID", "", v)) = [e EXCEPT !.uid = Unescape(v)]
  BY DEF ReadLine, Line, TZID, ParseTime, StartDate
<1> QED BY <1>1, <1>2, Zenon DEF e, Reads

LEMMA SummaryRead ==
  \A u, s, d, start, end, startDate, endDate, zone, rule, v, w :
    Unescape(v) = w =>
    Reads(Fields(u, s, d, start, end, startDate, endDate, zone, rule), Line("SUMMARY", "", v),
          Fields(u, w, d, start, end, startDate, endDate, zone, rule))
<1> TAKE u, s, d, start, end, startDate, endDate, zone, rule, v, w
<1> DEFINE e == Fields(u, s, d, start, end, startDate, endDate, zone, rule)
<1>1. \A x : [e EXCEPT !.summary = x]
               = Fields(u, x, d, start, end, startDate, endDate, zone, rule)
  BY DEF Fields
<1> HIDE DEF e
<1>2. ReadLine(e, Line("SUMMARY", "", v)) = [e EXCEPT !.summary = Unescape(v)]
  BY DEF ReadLine, Line, TZID, ParseTime, StartDate
<1> QED BY <1>1, <1>2, Zenon DEF e, Reads

LEMMA DescriptionRead ==
  \A u, s, d, start, end, startDate, endDate, zone, rule, v, w :
    Unescape(v) = w =>
    Reads(Fields(u, s, d, start, end, startDate, endDate, zone, rule), Line("DESCRIPTION", "", v),
          Fields(u, s, w, start, end, startDate, endDate, zone, rule))
<1> TAKE u, s, d, start, end, startDate, endDate, zone, rule, v, w
<1> DEFINE e == Fields(u, s, d, start, end, startDate, endDate, zone, rule)
<1>1. \A x : [e EXCEPT !.description = x]
               = Fields(u, s, x, start, end, startDate, endDate, zone, rule)
  BY DEF Fields
<1> HIDE DEF e
<1>2. ReadLine(e, Line("DESCRIPTION", "", v)) = [e EXCEPT !.description = Unescape(v)]
  BY DEF ReadLine, Line, TZID, ParseTime, StartDate
<1> QED BY <1>1, <1>2, Zenon DEF e, Reads

LEMMA StartDateRead ==
  \A u, s, d, start, end, startDate, endDate, zone, rule, v :
    Reads(Fields(u, s, d, start, end, startDate, endDate, zone, rule), Line("DTSTART", "date", v),
          Fields(u, s, d, start, end, v, endDate, "", rule))
<1> TAKE u, s, d, start, end, startDate, endDate, zone, rule, v
<1> DEFINE e == Fields(u, s, d, start, end, startDate, endDate, zone, rule)
<1>1. \A z : [e EXCEPT !.tzid = z] = Fields(u, s, d, start, end, startDate, endDate, z, rule)
  BY DEF Fields
<1>2. \A z : [Fields(u, s, d, start, end, startDate, endDate, z, rule) EXCEPT !.startDate = v]
               = Fields(u, s, d, start, end, v, endDate, z, rule)
  BY DEF Fields
<1> HIDE DEF e
<1>3. ReadLine(e, Line("DTSTART", "date", v)) = [[e EXCEPT !.tzid = ""] EXCEPT !.startDate = v]
  BY DEF ReadLine, Line, TZID, ParseTime, StartDate
<1> QED BY <1>1, <1>2, <1>3, Zenon DEF e, Reads

LEMMA StartRead ==
  \A u, s, d, start, end, startDate, endDate, zone, rule, v :
    Reads(Fields(u, s, d, start, end, startDate, endDate, zone, rule), Line("DTSTART", "utc", v),
          Fields(u, s, d, v, end, startDate, endDate, "", rule))
<1> TAKE u, s, d, start, end, startDate, endDate, zone, rule, v
<1> DEFINE e == Fields(u, s, d, start, end, startDate, endDate, zone, rule)
<1>1. \A z : [e EXCEPT !.tzid = z] = Fields(u, s, d, start, end, startDate, endDate, z, rule)
  BY DEF Fields
<1>2. \A z : [Fields(u, s, d, start, end, startDate, endDate, z, rule) EXCEPT !.start = v]
               = Fields(u, s, d, v, end, startDate, endDate, z, rule)
  BY DEF Fields
<1> HIDE DEF e
<1>3. ReadLine(e, Line("DTSTART", "utc", v)) = [[e EXCEPT !.tzid = ""] EXCEPT !.start = v]
  BY DEF ReadLine, Line, TZID, ParseTime, StartDate
<1> QED BY <1>1, <1>2, <1>3, Zenon DEF e, Reads

LEMMA EndDateRead ==
  \A u, s, d, start, end, startDate, endDate, zone, rule, v :
    Reads(Fields(u, s, d, start, end, startDate, endDate, zone, rule), Line("DTEND", "date", v),
          Fields(u, s, d, start, end, startDate, v, zone, rule))
<1> TAKE u, s, d, start, end, startDate, endDate, zone, rule, v
<1> DEFINE e == Fields(u, s, d, start, end, startDate, endDate, zone, rule)
<1>1. [e EXCEPT !.endDate = v]
        = Fields(u, s, d, start, end, startDate, v, zone, rule)
  BY DEF Fields
<1> HIDE DEF e
<1>2. ReadLine(e, Line("DTEND", "date", v)) = [e EXCEPT !.endDate = v]
  BY DEF ReadLine, Line, TZID, ParseTime, StartDate
<1> QED BY <1>1, <1>2, Zenon DEF e, Reads

LEMMA EndRead ==
  \A u, s, d, start, end, startDate, endDate, zone, rule, v :
    Reads(Fields(u, s, d, start, end, startDate, endDate, zone, rule), Line("DTEND", "utc", v),
          Fields(u, s, d, start, v, startDate, endDate, zone, rule))
<1> TAKE u, s, d, start, end, startDate, endDate, zone, rule, v
<1> DEFINE e == Fields(u, s, d, start, end, startDate, endDate, zone, rule)
<1>1. [e EXCEPT !.end = v]
        = Fields(u, s, d, start, v, startDate, endDate, zone, rule)
  BY DEF Fields
<1> HIDE DEF e
<1>2. ReadLine(e, Line("DTEND", "utc", v)) = [e EXCEPT !.end = v]
  BY DEF ReadLine, Line, TZID, ParseTime, StartDate
<1> QED BY <1>1, <1>2, Zenon DEF e, Reads

LEMMA RuleRead ==
  \A u, s, d, start, end, startDate, endDate, zone, rule, v :
    Reads(Fields(u, s, d, start, end, startDate, endDate, zone, rule), Line("RRULE", "", v),
          Fields(u, s, d, start, end, startDate, endDate, zone, "RRULE:FREQ"))
<1> TAKE u, s, d, start, end, startDate, endDate, zone, rule, v
<1> DEFINE e == Fields(u, s, d, start, end, startDate, endDate, zone, rule)
<1>1. \A x : [e EXCEPT !.recurrence = x]
               = Fields(u, s, d, start, end, startDate, endDate, zone, x)
  BY DEF Fields
<1> HIDE DEF e
<1>2. ReadLine(e, Line("RRULE", "", v)) = [e EXCEPT !.recurrence = "RRULE:FREQ"]
  BY DEF ReadLine, Line, TZID, ParseTime, StartDate
<1> QED BY <1>1, <1>2, Zenon DEF e, Reads

(* What an object that the app wrote reads as.                             *)
AsWritten(uid, row) ==
  IF row.allDay
  THEN Fields(uid, row.title, row.description, None, None, row.start, row.end, "", row.recurrence)
  ELSE Fields(uid, row.title, row.description, row.start, row.end, None, None, "", row.recurrence)

(* A row whose texts and rule have their types.                            *)
Typed(row) ==
  /\ row.title \in Seq(Chars) /\ row.description \in Seq(Chars)
  /\ row.allDay \in BOOLEAN /\ row.recurrence \in {"", "RRULE:FREQ"}

(* A line that begins or ends an event.                                    *)
Marks(line, name) == line.name = name /\ line.value = "VEVENT"

(* parseICS reads what is between the two lines.                           *)
LEMMA Body ==
  ASSUME NEW n \in Nat, NEW lines, n > 1, Len(lines) = n,
         Marks(lines[1], "BEGIN"), Marks(lines[n], "END"),
         \A i \in 2..n : ~Marks(lines[i], "BEGIN"),
         \A i \in 1..(n - 1) : ~Marks(lines[i], "END")
  PROVE  ParseICS(lines) = FoldLeft(ReadLine, NoFields, SubSeq(lines, 2, n - 1))
<1> DEFINE At(name) == {i \in 1..Len(lines) : Marks(lines[i], name)}
           begin == SelectInSeq(lines, LAMBDA l : l.name = "BEGIN" /\ l.value = "VEVENT")
           end == SelectInSeq(lines, LAMBDA l : l.name = "END" /\ l.value = "VEVENT")
<1>1. At("BEGIN") = {1} /\ At("END") = {n}
  OBVIOUS
<1>2. Min({1}) = 1 /\ Min({n}) = n
  <2>1. \A m \in {1} : m <= m
    OBVIOUS
  <2>2. n <= n
    OBVIOUS
  <2> QED BY <2>1, <2>2, Zenon DEF Min
<1>3. /\ begin = IF At("BEGIN") # {} THEN Min(At("BEGIN")) ELSE 0
      /\ end = IF At("END") # {} THEN Min(At("END")) ELSE 0
  BY Zenon DEF SelectInSeq, Marks
<1> DEFINE last == IF end = 0 THEN Len(lines) ELSE end - 1
<1>4. ParseICS(lines) = IF begin = 0 THEN NoFields
                        ELSE FoldLeft(ReadLine, NoFields, SubSeq(lines, begin + 1, last))
  BY Zenon DEF ParseICS
<1> HIDE DEF At, begin, end
<1>5. begin = 1 /\ end = n
  BY <1>1, <1>2, <1>3
<1>6. begin # 0 /\ begin + 1 = 2 /\ last = n - 1
  BY <1>5
<1> HIDE DEF last
<1> QED BY <1>4, <1>6, Zenon

(* caldav.go:231-333: parseICS makes of an object that buildICS wrote the  *)
(* identifier, the texts, the times and the rule that the row had.  The    *)
(* lines that can be missing, of a description or a recurrence, leave what *)
(* an event has without them.                                              *)
THEOREM ObjectReadsBack ==
  ASSUME NEW uid \in Seq(Chars), NEW row, Typed(row)
  PROVE  ParseICS(BuildICS(uid, row)) = AsWritten(uid, row)
<1> DEFINE d == Described(row)
           r == Ruled(row)
           b == Line("BEGIN", "", "VEVENT")
           u == Line("UID", "", Escape(uid))
           s == Line("SUMMARY", "", Escape(row.title))
           t == Line("DESCRIPTION", "", Escape(row.description))
           f == Line("DTSTART", Kind(row), row.start)
           l == Line("DTEND", Kind(row), row.end)
           c == Line("RRULE", "", "FREQ")
           e == Line("END", "", "VEVENT")
           lines == BuildICS(uid, row)
           n == 6 + d + r
           body == SubSeq(lines, 2, n - 1)
           read == FoldLeft(ReadLine, NoFields, body)
<1>1. Layout(lines, d, r, b, u, s, t, f, l, c, e) /\ \E S : lines \in Seq(S)
  <2>1. LaidOut(uid, row)
    BY Written
  <2> QED BY <2>1, Zenon DEF LaidOut
<1>2. d \in {0, 1} /\ r \in {0, 1} /\ n \in Nat /\ n = 6 + d + r
  BY DEF Described, Ruled
<1>3. row.description = <<>> \/ d = 1
  BY DEF Described
<1>4. /\ r = 1 => row.recurrence = "RRULE:FREQ"
      /\ r = 0 => row.recurrence = ""
  <2>1. 0 # 1
    OBVIOUS
  <2>2. row.recurrence \in {"", "RRULE:FREQ"}
    BY Zenon DEF Typed
  <2> QED BY <2>1, <2>2, Zenon DEF Ruled
<1>5. /\ row.allDay => Kind(row) = "date"
      /\ ~row.allDay => Kind(row) = "utc"
  BY Zenon DEF Kind
<1>6. /\ Unescape(Escape(uid)) = uid
      /\ Unescape(Escape(row.title)) = row.title
      /\ Unescape(Escape(row.description)) = row.description
  BY EscapeReadsBack DEF Typed
<1> DEFINE Inside(line) == ~Marks(line, "BEGIN") /\ ~Marks(line, "END")
<1>8. /\ Marks(b, "BEGIN") /\ ~Marks(b, "END")
      /\ Marks(e, "END") /\ ~Marks(e, "BEGIN")
  BY Zenon DEF Marks, Line
<1>9. /\ Inside(u) /\ Inside(s) /\ Inside(t)
  <2>1. Inside(u)
    BY Zenon DEF Marks, Line
  <2>2. Inside(s)
    BY Zenon DEF Marks, Line
  <2>3. Inside(t)
    BY Zenon DEF Marks, Line
  <2> QED BY <2>1, <2>2, <2>3
<1>10. Inside(f) /\ Inside(l) /\ Inside(c)
  <2>1. Inside(f)
    BY Zenon DEF Marks, Line
  <2>2. Inside(l)
    BY Zenon DEF Marks, Line
  <2>3. Inside(c)
    BY Zenon DEF Marks, Line
  <2> QED BY <2>1, <2>2, <2>3
(* What each line adds. *)
<1> DEFINE e1 == Fields(uid, <<>>, <<>>, None, None, None, None, "", "")
           e2 == Fields(uid, row.title, <<>>, None, None, None, None, "", "")
           e3 == Fields(uid, row.title, row.description, None, None, None, None, "", "")
           e4 == IF row.allDay
                 THEN Fields(uid, row.title, row.description, None, None, row.start, None, "", "")
                 ELSE Fields(uid, row.title, row.description, row.start, None, None, None, "", "")
           e5 == IF row.allDay
                 THEN Fields(uid, row.title, row.description, None, None, row.start, row.end,
                             "", "")
                 ELSE Fields(uid, row.title, row.description, row.start, row.end, None, None,
                             "", "")
           e6 == AsWritten(uid, row)
<1>11. ReadLine(NoFields, u) = e1
  <2>1. NoFields = Fields(<<>>, <<>>, <<>>, None, None, None, None, "", "")
    BY Zenon DEF NoFields, Fields
  <2>2. Reads(Fields(<<>>, <<>>, <<>>, None, None, None, None, "", ""), u, e1)
    BY <1>6, UidRead, Zenon
  <2> HIDE DEF u, e1
  <2> QED BY <2>1, <2>2, Zenon DEF Reads
<1>12. Reads(e1, s, e2)
  BY <1>6, SummaryRead, Zenon
<1>13. Reads(e2, t, e3)
  BY <1>6, DescriptionRead, Zenon
<1>14. Reads(e3, f, e4)
  <2>1. CASE row.allDay
    BY <1>5, <2>1, StartDateRead, Zenon
  <2>2. CASE ~row.allDay
    BY <1>5, <2>2, StartRead, Zenon
  <2> QED BY <2>1, <2>2
<1>15. Reads(e4, l, e5)
  <2>1. CASE row.allDay
    BY <1>5, <2>1, EndDateRead, Zenon
  <2>2. CASE ~row.allDay
    BY <1>5, <2>2, EndRead, Zenon
  <2> QED BY <2>1, <2>2
<1>16. r = 1 => Reads(e5, c, e6)
  <2> SUFFICES ASSUME row.recurrence = "RRULE:FREQ" PROVE Reads(e5, c, e6)
    BY <1>4, Zenon
  <2>1. CASE row.allDay
    BY <2>1, RuleRead, Zenon DEF AsWritten
  <2>2. CASE ~row.allDay
    BY <2>2, RuleRead, Zenon DEF AsWritten
  <2> QED BY <2>1, <2>2
<1>17. (d = 0 => e2 = e3) /\ (r = 0 => e5 = e6)
  <2>1. d = 0 => row.description = <<>>
    BY <1>3
  <2>2. r = 0 => row.recurrence = ""
    BY <1>4, Zenon
  <2> HIDE DEF d, r
  <2> QED BY <2>1, <2>2, Zenon DEF AsWritten
<1> HIDE DEF d, r, b, u, s, t, f, l, c, e, lines, n, body, read, Inside, e1, e2, e3, e4, e5, e6
<1>18. /\ ReadLine(e1, s) = e2 /\ ReadLine(e2, t) = e3
       /\ ReadLine(e3, f) = e4 /\ ReadLine(e4, l) = e5
       /\ r = 1 => ReadLine(e5, c) = e6
  BY <1>12, <1>13, <1>14, <1>15, <1>16, Zenon DEF Reads
<1>19. /\ Len(lines) = n /\ DOMAIN lines = 1..n
       /\ lines[1] = b /\ lines[2] = u /\ lines[3] = s /\ (d = 1 => lines[4] = t)
       /\ lines[4 + d] = f /\ lines[5 + d] = l /\ (r = 1 => lines[6 + d] = c)
       /\ lines[n] = e
  <2>1. DOMAIN lines = 1..Len(lines)
    BY <1>1, LenProperties
  <2> QED BY <1>1, <1>2, <2>1 DEF Layout
<1>20. ParseICS(lines) = read
  <2>1. \A i \in 2..(n - 1) : \/ i = 2 \/ i = 3 \/ (i = 4 /\ d = 1)
                             \/ i = 4 + d \/ i = 5 + d \/ (i = 6 + d /\ r = 1)
    BY <1>2
  <2>2. \A i \in 2..(n - 1) : Inside(lines[i])
    BY <1>9, <1>10, <1>19, <2>1
  <2>3. n > 1
    BY <1>2
  <2>4. /\ \A i \in 2..n : ~Marks(lines[i], "BEGIN")
        /\ \A i \in 1..(n - 1) : ~Marks(lines[i], "END")
    BY <1>2, <1>8, <1>19, <2>2 DEF Inside
  <2>5. Marks(lines[1], "BEGIN") /\ Marks(lines[n], "END")
    BY <1>8, <1>19
  <2> QED BY <1>2, <1>19, <2>3, <2>4, <2>5, Body DEF body, read
<1>21. /\ DOMAIN body = 1..(4 + d + r)
       /\ \A i \in 1..(4 + d + r) : body[i] = lines[i + 1]
  <2>1. PICK S : lines \in Seq(S)
    BY <1>1
  <2>2. \A i \in 2..(n - 1) : lines[i] \in S
    BY <1>2, <1>19, <2>1
  <2>3. 2 \in Int /\ n - 1 \in Int /\ 2 <= n - 1
    BY <1>2
  <2>4. /\ body \in Seq(S)
        /\ Len(body) = (n - 1) - 2 + 1
        /\ \A i \in 1..((n - 1) - 2 + 1) : body[i] = lines[2 + i - 1]
    BY <2>2, <2>3, SubSeqProperties DEF body
  <2>5. (n - 1) - 2 + 1 = 4 + d + r
    BY <1>2
  <2>6. DOMAIN body = 1..(4 + d + r)
    BY <2>4, <2>5, LenProperties
  <2>7. \A i \in 1..(4 + d + r) : 2 + i - 1 = i + 1
    OBVIOUS
  <2> QED BY <2>4, <2>5, <2>6, <2>7
<1>22. PICK R : /\ R[0] = NoFields
                /\ \A i \in 1..(4 + d + r) : R[i] = ReadLine(R[i - 1], body[i])
                /\ read = R[4 + d + r]
  <2>1. 4 + d + r \in Nat
    BY <1>2
  <2> QED BY <1>21, <2>1, ReadInOrder DEF read
<1>23. \A i \in 1..(4 + d + r) : R[i] = ReadLine(R[i - 1], lines[i + 1])
  BY <1>21, <1>22
<1>24. R[2] = e2
  <2>1. R[1] = ReadLine(R[0], lines[2]) /\ R[2] = ReadLine(R[1], lines[3])
    BY <1>2, <1>23
  <2> QED BY <1>11, <1>18, <1>19, <1>22, <2>1
<1>25. R[2 + d] = e3
  <2>1. CASE d = 0
    BY <1>17, <1>24, <2>1
  <2>2. CASE d = 1
    <3>1. R[3] = ReadLine(R[2], lines[4])
      BY <1>2, <1>23
    <3> QED BY <1>18, <1>19, <1>24, <2>2, <3>1
  <2> QED BY <1>2, <2>1, <2>2
<1>26. R[4 + d] = e5
  <2>1. R[3 + d] = ReadLine(R[2 + d], lines[4 + d]) /\ R[4 + d] = ReadLine(R[3 + d], lines[5 + d])
    BY <1>2, <1>23
  <2> QED BY <1>18, <1>19, <1>25, <2>1
<1>27. R[4 + d + r] = e6
  <2>1. CASE r = 0
    BY <1>2, <1>17, <1>26, <2>1
  <2>2. CASE r = 1
    <3>1. R[5 + d] = ReadLine(R[4 + d], lines[6 + d])
      BY <1>2, <1>23, <2>2
    <3> QED BY <1>2, <1>18, <1>19, <1>26, <2>2, <3>1
  <2> QED BY <1>2, <2>1, <2>2
<1>28. ParseICS(lines) = e6
  BY <1>20, <1>22, <1>27
<1> QED BY <1>28, Zenon DEF lines, e6

-----------------------------------------------------------------------------
(* Types                                                                   *)

(* What parseICS makes of an object, whoever wrote it.                     *)
Parsed == [uid: Seq(Chars), summary: Seq(Chars), description: Seq(Chars),
           start: Int \cup {None}, end: Int \cup {None},
           startDate: Int \cup {None}, endDate: Int \cup {None},
           tzid: {"", "away"}, recurrence: Rules]

LEMMA LocalTyped ==
  ASSUME NEW w \in Int
  PROVE  FromWall[w] \in Int /\ Wall[w] \in Int
  BY ZoneAssumption, HourValue DEF FromWall, Offset, Wall, Period

LEMMA LineTyped ==
  ASSUME NEW e \in Parsed, NEW line, IsLine(line)
  PROVE  ReadLine(e, line) \in Parsed
<1>1. /\ \A x \in Seq(Chars) : /\ [e EXCEPT !.uid = x] \in Parsed
                              /\ [e EXCEPT !.summary = x] \in Parsed
                              /\ [e EXCEPT !.description = x] \in Parsed
      /\ \A x \in Rules : [e EXCEPT !.recurrence = x] \in Parsed
      /\ \A x \in Int : [e EXCEPT !.end = x] \in Parsed /\ [e EXCEPT !.endDate = x] \in Parsed
      /\ \A z \in {"", "away"}, x \in Int :
           /\ [e EXCEPT !.tzid = z, !.start = x] \in Parsed
           /\ [e EXCEPT !.tzid = z, !.startDate = x] \in Parsed
  BY DEF Parsed
<1>2. line.name \in {"UID", "SUMMARY", "DESCRIPTION"} => Unescape(line.value) \in Seq(Chars)
  <2> SUFFICES ASSUME NEW text \in Seq(Chars) PROVE Unescape(text) \in Seq(Chars)
    BY DEF IsLine
  <2>1. PICK F \in [1..(Len(text) + 1) -> Seq(Chars)] : Unescape(text) = F[1]
    BY Unescaped
  <2>2. 1 \in 1..(Len(text) + 1)
    BY LenProperties
  <2> QED BY <2>1, <2>2
<1>3. e.tzid \in {"", "away"} /\ TZID(line) \in {"", "away"}
  BY DEF Parsed, TZID
<1>4. line.name \in {"DTSTART", "DTEND"} =>
        line.value \in Int /\ \A z : ParseTime(line, z) \in Int
  <2> SUFFICES ASSUME line.name \in {"DTSTART", "DTEND"}, NEW z
               PROVE  line.value \in Int /\ ParseTime(line, z) \in Int
    OBVIOUS
  <2>1. line.value \in Int
    BY DEF IsLine
  <2> DEFINE v == line.value
  <2> HIDE DEF v
  <2>2. v \in Int /\ v - AwayOffset \in Int /\ FromWall[v] \in Int
    BY <2>1, LocalTyped, AwayAssumption DEF v
  <2>3. ParseTime(line, z) = v \/ ParseTime(line, z) = v - AwayOffset
          \/ ParseTime(line, z) = FromWall[v]
    BY DEF ParseTime, v
  <2> QED BY <2>1, <2>2, <2>3
<1>5. "RRULE:FREQ" \in Rules
  BY DEF Rules
<1>6. line.name = "DTSTART" => StartDate(line) \in Int
  <2>1. NotADate \in Int
    BY CalendarAssumption DEF NotADate
  <2> QED BY <1>4, <2>1 DEF StartDate
<1> QED BY <1>1, <1>2, <1>3, <1>4, <1>5, <1>6 DEF ReadLine

(* A search finds the first position there is.                             *)
LEMMA FirstOf ==
  ASSUME NEW k \in Nat, NEW s \in SUBSET (1..k), s # {}
  PROVE  Min(s) \in s /\ \A i \in s : Min(s) <= i
<1> DEFINE back == {k + 1 - i : i \in s}
<1>1. back \in SUBSET (1..k) /\ back # {}
  <2>1. \A i \in s : k + 1 - i \in 1..k
    OBVIOUS
  <2>2. \A j \in back : j \in 1..k
    BY <2>1
  <2>3. PICK i \in s : TRUE
    OBVIOUS
  <2>4. k + 1 - i \in back
    OBVIOUS
  <2> HIDE DEF back
  <2> QED BY <2>2, <2>4
<1>2. PICK m \in back : \A j \in back : j <= m
  <2> HIDE DEF back
  <2> QED BY <1>1, LastOf
<1>3. PICK x \in s : m = k + 1 - x
  OBVIOUS
<1>4. \A y \in s : x <= y
  <2> SUFFICES ASSUME NEW y \in s PROVE x <= y
    OBVIOUS
  <2>1. k + 1 - y <= m
    BY <1>2
  <2>2. x \in 1..k /\ y \in 1..k
    OBVIOUS
  <2> HIDE DEF back
  <2> QED BY <1>3, <2>1, <2>2
<1> QED BY <1>3, <1>4, Zenon DEF Min

(* caldav.go:231-290: whatever lines other clients write, in whatever      *)
(* order, what parseICS makes of them has its types: texts, a date or an   *)
(* instant where one was given, a rule with its prefix or none.            *)
THEOREM ObjectTyped ==
  ASSUME NEW lines, Len(lines) \in Nat, \A i \in 1..Len(lines) : IsLine(lines[i])
  PROVE  ParseICS(lines) \in Parsed
<1> DEFINE n == Len(lines)
           At(name) == {i \in 1..n : Marks(lines[i], name)}
           begin == SelectInSeq(lines, LAMBDA l : l.name = "BEGIN" /\ l.value = "VEVENT")
           end == SelectInSeq(lines, LAMBDA l : l.name = "END" /\ l.value = "VEVENT")
           last == IF end = 0 THEN n ELSE end - 1
           body == SubSeq(lines, begin + 1, last)
           Lines == {lines[i] : i \in 1..n}
<1>1. /\ begin = IF At("BEGIN") # {} THEN Min(At("BEGIN")) ELSE 0
      /\ end = IF At("END") # {} THEN Min(At("END")) ELSE 0
  BY Zenon DEF SelectInSeq, Marks
<1>2. ParseICS(lines) = IF begin = 0 THEN NoFields ELSE FoldLeft(ReadLine, NoFields, body)
  BY Zenon DEF ParseICS
<1>3. ASSUME NEW found \in SUBSET (1..n)
      PROVE  (IF found # {} THEN Min(found) ELSE 0) \in 0..n
  <2>1. found # {} => Min(found) \in found
    BY FirstOf
  <2>2. 0 \in 0..n /\ \A i \in 1..n : i \in 0..n
    OBVIOUS
  <2> HIDE DEF n
  <2> QED BY <2>1, <2>2, Zenon
<1>4. begin \in 0..n /\ end \in 0..n
  <2>1. At("BEGIN") \in SUBSET (1..n) /\ At("END") \in SUBSET (1..n)
    OBVIOUS
  <2> HIDE DEF At, begin, end
  <2> QED BY <1>1, <1>3, <2>1, Zenon
<1> HIDE DEF At, begin, end
<1>5. last \in Int /\ \A i \in (begin + 1)..last : lines[i] \in Lines
  BY <1>4
<1>6. \A line \in Lines : IsLine(line)
  OBVIOUS
<1> HIDE DEF n, Lines, last
<1>7. body \in Seq(Lines)
  BY <1>4, <1>5, SubSeqProperties
<1> HIDE DEF body
<1>8. /\ Len(body) \in Nat /\ DOMAIN body = 1..Len(body)
      /\ \A i \in 1..Len(body) : IsLine(body[i])
  BY <1>6, <1>7, LenProperties
<1> DEFINE k == Len(body)
<1> HIDE DEF k
<1>9. PICK R : /\ R[0] = NoFields
               /\ \A i \in 1..k : R[i] = ReadLine(R[i - 1], body[i])
               /\ FoldLeft(ReadLine, NoFields, body) = R[k]
  BY <1>8, ReadInOrder DEF k
<1>10. NoFields \in Parsed
  <2>1. <<>> \in Seq(Chars)
    BY EmptySeq
  <2> QED BY <2>1 DEF NoFields, Parsed, Rules
<1> DEFINE Good == {i \in Nat : i <= k => R[i] \in Parsed}
<1>11. 0 \in Good
  BY <1>9, <1>10
<1>12. ASSUME NEW i \in Nat, i \in Good
       PROVE  i + 1 \in Good
  <2> SUFFICES ASSUME i + 1 <= k PROVE R[i + 1] \in Parsed
    OBVIOUS
  <2>1. i + 1 \in 1..k /\ (i + 1) - 1 = i /\ i <= k
    BY <1>8 DEF k
  <2>2. R[i] \in Parsed /\ IsLine(body[i + 1])
    BY <1>8, <1>12, <2>1 DEF k
  <2>3. R[i + 1] = ReadLine(R[i], body[i + 1])
    BY <1>9, <2>1
  <2> QED BY <2>2, <2>3, LineTyped
<1>13. R[k] \in Parsed
  <2>1. Nat \subseteq Good
    <3> HIDE DEF Good
    <3> QED BY <1>11, <1>12, SetInduction
  <2>2. k \in Nat
    BY <1>8 DEF k
  <2> QED BY <2>1, <2>2
<1> QED BY <1>2, <1>9, <1>13, <1>10, Zenon
=============================================================================
